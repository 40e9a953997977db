----------------------------- MODULE RuleRounds -----------------------------
(***************************************************************************)
(* What stateMachine.Run promises about the user's code, in the words of   *)
(* the comments on WithConcurrency, WithRuleGroup and                      *)
(* WithAlwaysCheckInvariants in stateful.go, without workers' goroutines,  *)
(* channels, handles or errors: rules overlap only inside an open round    *)
(* and only with rules of the round's group, and an invariant looks at the *)
(* machine only between rounds.                                            *)
(***************************************************************************)
EXTENDS Integers

CONSTANTS Workers, Rules, RuleGroup, NoRule, Invariants

NoGroup == -1

VARIABLES
    current,  \* the group of the open round, or NoGroup between rounds
    running,  \* the rule each worker is in
    seen      \* the invariants that have looked at the state since a round

vars == <<current, running, seen>>

Quiet == \A w \in Workers : running[w] = NoRule

Init ==
    /\ current = NoGroup
    /\ running = [w \in Workers |-> NoRule]
    /\ seen = {}

Open ==
    /\ current = NoGroup
    /\ current' \in {RuleGroup[r] : r \in Rules}
    /\ seen' = {}
    /\ UNCHANGED running

Start(w, r) ==
    /\ current = RuleGroup[r]
    /\ running[w] = NoRule
    /\ running' = [running EXCEPT ![w] = r]
    /\ UNCHANGED <<current, seen>>

Finish(w) ==
    /\ running[w] # NoRule
    /\ running' = [running EXCEPT ![w] = NoRule]
    /\ UNCHANGED <<current, seen>>

Close ==
    /\ current # NoGroup
    /\ Quiet
    /\ current' = NoGroup
    /\ UNCHANGED <<running, seen>>

Look(i) ==
    /\ current = NoGroup
    /\ Quiet
    /\ seen' = seen \cup {i}
    /\ UNCHANGED <<current, running>>

Next ==
    \/ Open
    \/ Close
    \/ \E w \in Workers : Finish(w) \/ \E r \in Rules : Start(w, r)
    \/ \E i \in Invariants : Look(i)

Spec == Init /\ [][Next]_vars
=============================================================================
