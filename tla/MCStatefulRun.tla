--------------------------- MODULE MCStatefulRun ---------------------------
(***************************************************************************)
(* A machine of three rules, two of them in the default group, and two     *)
(* invariants of which the second is an always-check one, run by up to     *)
(* three workers for up to two rounds of at most two rule draws each; and  *)
(* the machines that RunStateful makes of eight sets of methods and up to  *)
(* five options.                                                           *)
(***************************************************************************)
EXTENDS MachineRun, SequencesExt

MCRules == {"RulePop", "RulePush", "RuleReset"}
MCRuleGroup == [r \in MCRules |-> IF r = "RuleReset" THEN 1 ELSE 0]
MCAlwaysCheck == {2}

Rule(name) == Config!Method(name, "Rule", TRUE, TRUE)
Invariant(name) == Config!Method(name, "Invariant", TRUE, TRUE)
Stack ==
    <<Invariant("InvariantOrder"), Invariant("InvariantSize"),
      Rule("RulePop"), Rule("RulePush"), Rule("RuleReset")>>
MCMachines ==
    {Stack, SubSeq(Stack, 1, 4), SubSeq(Stack, 1, 2), SubSeq(Stack, 2, 5), <<>>,
     <<Config!Method("Helper", "", FALSE, FALSE)>> \o Stack,
     <<Config!Method("Push", "", TRUE, TRUE)>> \o Stack,
     Append(Stack, Config!Method("RuleTwice", "Rule", TRUE, FALSE))}

Bound(n) == Config!WithBoundedConcurrency(n)
Steps(n) == Config!WithStatefulStepCount(n)
SizeLists == {<<>>, <<Steps(0), Bound(3), Steps(2)>>, <<Steps(2), Bound(0)>>}
Named ==
    {Config!WithAlwaysCheckInvariants(<<"InvariantSize">>),
     Config!WithAlwaysCheckInvariants(<<"InvariantOrder", "InvariantMissing">>),
     Config!WithRuleGroup("write", <<"RuleReset">>),
     Config!WithRuleGroup("write", <<"RulePush">>),
     Config!WithRuleGroup("write", <<>>),
     Config!WithRuleGroup("read", <<"RulePop">>),
     Config!WithRuleGroup("read", <<"RuleReset", "InvariantSize">>),
     Config!WithRuleGroup("twice", <<"RulePop", "RulePop">>)}
MCOptionLists ==
    {sizes \o named : sizes \in SizeLists, named \in BoundedSeq(Named, 3)}
=============================================================================
