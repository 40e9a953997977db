---------------------------- MODULE MachineConfig ----------------------------
(***************************************************************************)
(* newStateMachine of stateful.go: which methods of a machine are rules    *)
(* and invariants, and what the options make of them.                      *)
(*                                                                         *)
(* A machine is the sequence of its methods by name.  A method starts with *)
(* "Rule", "Invariant" or neither (`prefix`), may have a TestCase among    *)
(* its arguments (`takes`), and may have the signature func(TestCase)      *)
(* (`fits`).  An option is the call that makes it: [sets, to] for          *)
(* "concurrency" and "steps", [sets, names] for "always", and [sets,       *)
(* group, names] for "group".                                              *)
(*                                                                         *)
(* Groups are configured in the order of their first call and numbered     *)
(* from 1, for the engine knows them by number; 0 is that of the rules in  *)
(* none of them.                                                           *)
(***************************************************************************)
EXTENDS Integers, Sequences, SequencesExt, FiniteSetsExt

Method(name, prefix, takes, fits) ==
    [name |-> name, prefix |-> prefix, takes |-> takes, fits |-> fits]

WithBoundedConcurrency(n) == [sets |-> "concurrency", to |-> n]
WithStatefulStepCount(n) == [sets |-> "steps", to |-> n]
WithAlwaysCheckInvariants(names) == [sets |-> "always", names |-> names]
WithRuleGroup(group, names) == [sets |-> "group", group |-> group, names |-> names]

(* What the user can write.                                                 *)
AnyMethod ==
    [name : STRING, prefix : {"Rule", "Invariant", ""}, takes : BOOLEAN, fits : BOOLEAN]
AnyOption ==
    [sets : {"concurrency", "steps"}, to : Int]
    \cup [sets : {"always"}, names : Seq(STRING)]
    \cup [sets : {"group"}, group : STRING, names : Seq(STRING)]

NewMachine == [maxConcurrency |-> 1, stepCount |-> 50, alwaysCheckNames |-> <<>>,
               configuredRuleGroups |-> <<>>]

(* The last call takes the group over: a faulty variant of AddToGroup.      *)
ReplaceGroup(groups, name, rules) ==
    LET same == {i \in DOMAIN groups : groups[i].name = name}
    IN IF same = {}
       THEN Append(groups, [name |-> name, rules |-> rules])
       ELSE [groups EXCEPT ![Min(same)].rules = rules]

(* A call with the name of a group adds to it.                              *)
AddToGroup(groups, name, rules) ==
    LET same == {i \in DOMAIN groups : groups[i].name = name}
    IN IF same = {}
       THEN Append(groups, [name |-> name, rules |-> rules])
       ELSE [groups EXCEPT ![Min(same)].rules = @ \o rules]

Applied(sm, opt) ==
    CASE opt.sets = "concurrency" -> [sm EXCEPT !.maxConcurrency = opt.to]
      [] opt.sets = "steps" -> [sm EXCEPT !.stepCount = opt.to]
      [] opt.sets = "always" -> [sm EXCEPT !.alwaysCheckNames = @ \o opt.names]
      [] opt.sets = "group" ->
            [sm EXCEPT !.configuredRuleGroups = AddToGroup(@, opt.group, opt.names)]

(* A method that looks like a rule or an invariant and is none.             *)
Misplaced(m) == IF m.prefix = "" THEN m.takes ELSE ~m.fits

Found(prefix, names, m) == IF m.prefix = prefix THEN Append(names, m.name) ELSE names
Discovered(methods, prefix) ==
    FoldLeft(LAMBDA names, m : Found(prefix, names, m), <<>>, methods)

Refused == [ok |-> FALSE]

(* The group of each rule, or Refused for a group that is empty, names      *)
(* something else than a rule, or a rule that has a group already.          *)
Put(rules, number, groups, name) ==
    IF groups = Refused \/ name \notin Range(rules) THEN Refused
    ELSE IF groups.of[name] # 0 THEN Refused
    ELSE [groups EXCEPT !.of[name] = number]

Fill(rules, configured, groups, number) ==
    IF configured[number].rules = <<>> THEN Refused
    ELSE FoldLeft(LAMBDA sofar, name : Put(rules, number, sofar, name),
                  groups, configured[number].rules)

Assign(rules, configured) ==
    FoldLeft(LAMBDA groups, number : Fill(rules, configured, groups, number),
             [ok |-> TRUE, of |-> [r \in Range(rules) |-> 0]],
             [number \in DOMAIN configured |-> number])

(* The errors are tried one after the other and differ in their wording     *)
(* only.                                                                    *)
NewStateMachine(methods, options) ==
    LET sm == FoldLeft(Applied, NewMachine, options)
        rules == Discovered(methods, "Rule")
        invariants == Discovered(methods, "Invariant")
        groups == Assign(rules, sm.configuredRuleGroups)
    IN IF \/ sm.maxConcurrency < 1 \/ sm.stepCount < 1
          \/ \E m \in Range(methods) : Misplaced(m)
          \/ rules = <<>>
          \/ ~(Range(sm.alwaysCheckNames) \subseteq Range(invariants))
          \/ groups = Refused
       THEN Refused
       ELSE [ok |-> TRUE, maxConcurrency |-> sm.maxConcurrency,
             stepCount |-> sm.stepCount, rules |-> Range(rules),
             ruleGroups |-> groups.of, groupNames |-> sm.configuredRuleGroups,
             invariants |-> invariants,
             alwaysCheck |-> {i \in DOMAIN invariants :
                                invariants[i] \in Range(sm.alwaysCheckNames)}]

-----------------------------------------------------------------------------
(* What the comments on RunStateful and the options say, to the letter.     *)

These(options, sets) == {i \in DOMAIN options : options[i].sets = sets}
LastOf(options, sets, otherwise) ==
    IF These(options, sets) = {} THEN otherwise
    ELSE options[Max(These(options, sets))].to

Named(methods, prefix) == {m.name : m \in {n \in Range(methods) : n.prefix = prefix}}

(* What they forbid whatever the options are at odds about; of a bound on   *)
(* concurrency below 1 only the error of newStateMachine speaks.            *)
Sound(methods, options) ==
    /\ Named(methods, "Rule") # {}
    /\ \A m \in Range(methods) :
        /\ m.prefix = "" => ~m.takes
        /\ m.prefix # "" => m.fits
    /\ LastOf(options, "concurrency", 1) >= 1
    /\ \A i \in These(options, "always") :
        Range(options[i].names) \subseteq Named(methods, "Invariant")
    /\ \A i \in These(options, "group") :
        Range(options[i].names) \subseteq Named(methods, "Rule")

(* The options that name a rule.                                            *)
Callers(options, name) ==
    {i \in These(options, "group") : name \in Range(options[i].names)}

(* "RunStateful panics if n is less than 1", "if a group is empty", or if   *)
(* an option "names a rule already assigned by another WithRuleGroup        *)
(* option".                                                                 *)
Legal(methods, options) ==
    /\ Sound(methods, options)
    /\ \A i \in These(options, "steps") : options[i].to >= 1
    /\ \A i \in These(options, "group") : options[i].names # <<>>
    /\ \A r \in Named(methods, "Rule") : \A i, j \in Callers(options, r) : i = j

-----------------------------------------------------------------------------
(* Where these comments contradict each other or the code.                  *)

(* A step count below 1 that a later option overrides is not refused.       *)
Overridden(options) ==
    \E i, j \in These(options, "steps") : i < j /\ options[i].to < 1

(* "Calls using the same group name add rules to that group", but "each     *)
(* call creates a distinct group".                                          *)
SharedGroup(options) ==
    \E i, j \in These(options, "group") : i # j /\ options[i].group = options[j].group

(* A rule that one call names twice is refused, though no other option has  *)
(* assigned it.                                                             *)
NamedTwice(options) ==
    \E i \in These(options, "group") : \E k, l \in DOMAIN options[i].names :
        k # l /\ options[i].names[k] = options[i].names[l]

AtOdds(options) == Overridden(options) \/ SharedGroup(options) \/ NamedTwice(options)

(* What newStateMachine makes of these: the last step count is the one that *)
(* counts, a group is the calls with its name, and a rule has one place.    *)
Mentions(options, name) ==
    {place \in UNION {{i} \X DOMAIN options[i].names : i \in These(options, "group")} :
        options[place[1]].names[place[2]] = name}

GroupOf(options, name) ==
    {options[place[1]].group : place \in Mentions(options, name)}

Permitted(methods, options) ==
    /\ Sound(methods, options)
    /\ LastOf(options, "steps", 50) >= 1
    /\ \A i \in These(options, "group") : \E j \in These(options, "group") :
        options[j].group = options[i].group /\ options[j].names # <<>>
    /\ \A r \in Named(methods, "Rule") : \A p, q \in Mentions(options, r) : p = q

-----------------------------------------------------------------------------
(* Unless the comments are at odds: RunStateful panics for what they        *)
(* forbid and nothing else, and two rules are in one group exactly if the   *)
(* same call names them or none does.                                       *)
ToTheLetter(methods, options, machine) ==
    ~AtOdds(options) =>
        /\ machine.ok <=> Legal(methods, options)
        /\ machine.ok =>
            \A r, q \in machine.rules :
                machine.ruleGroups[r] = machine.ruleGroups[q]
                    <=> Callers(options, r) = Callers(options, q)

(* Where they are, the side of the code is taken.  In any case two rules    *)
(* are in one group exactly if they were given to the same name or both to  *)
(* none, the number of a group leads back to its name, and an invariant is  *)
(* always checked exactly if some option names it.                          *)
AsAsked(methods, options, machine) ==
    /\ ToTheLetter(methods, options, machine)
    /\ machine.ok <=> Permitted(methods, options)
    /\ machine.ok =>
        /\ machine.maxConcurrency = LastOf(options, "concurrency", 1)
        /\ machine.stepCount = LastOf(options, "steps", 50)
        /\ \A r, q \in machine.rules :
            machine.ruleGroups[r] = machine.ruleGroups[q]
                <=> GroupOf(options, r) = GroupOf(options, q)
        /\ \A r \in machine.rules :
            IF machine.ruleGroups[r] = 0
            THEN GroupOf(options, r) = {}
            ELSE machine.groupNames[machine.ruleGroups[r]].name \in GroupOf(options, r)
        /\ \A i \in DOMAIN machine.invariants :
            i \in machine.alwaysCheck <=>
                \E j \in These(options, "always") :
                    machine.invariants[i] \in Range(options[j].names)
=============================================================================
