------------------------- MODULE StatefulRunProofs -------------------------
(***************************************************************************)
(* Proofs about StatefulRun, for every machine, every bound on concurrency *)
(* and every number of rounds and rules: type correctness, that Wait is a  *)
(* barrier (rule groups never overlap, invariants run alone, clones live   *)
(* exactly as long as their workers), that always-check invariants see     *)
(* every join point, that no failure of a round is lost, and that Run      *)
(* implements RuleRounds.  MachineRun, which makes the machine first, keeps *)
(* all of it, and the machine it makes is the one that is asked for.       *)
(***************************************************************************)
EXTENDS MachineRun, FiniteSetTheorems, WellFoundedInduction, TLAPS

-----------------------------------------------------------------------------
(* The order Wait sorts with has a least element in every nonempty set of   *)
(* results, whatever the workers that returned them: `errs[0]` is well      *)
(* defined, and it is the error the comments and tests of stateful.go ask   *)
(* for.                                                                     *)

LEMMA LeastNatural ==
    ASSUME NEW T, T \subseteq Nat, T # {}
    PROVE  \E x \in T : \A y \in T : x <= y
<1> DEFINE Less == OpToRel(<, Nat)
<1>1. IsWellFoundedOn(Less, Nat)
  BY NatLessThanWellFounded
<1>2. PICK x \in T : \A y \in T : ~(<<y, x>> \in Less)
  <2> HIDE DEF Less
  <2> QED BY <1>1, WFMin
<1>3. \A y \in T : x <= y
  <2> TAKE y \in T
  <2>1. Less = {ss \in Nat \X Nat : ss[1] < ss[2]}
    BY Zenon DEF OpToRel
  <2>2. <<y, x>> \notin Less
    BY <1>2
  <2> HIDE DEF Less
  <2>3. ~(y < x)
    BY <2>1, <2>2
  <2> QED BY <2>3
<1> QED BY <1>3

LEMMA PriorityIsAnInjection ==
    /\ \A k \in ErrorKinds : Priority[k] \in Nat
    /\ \A k, l \in ErrorKinds : Priority[k] = Priority[l] => k = l
BY DEF ErrorKinds, Priority

(* The error Wait puts first is one of the results, and it comes before     *)
(* every other of them: a control error beats an overrun, an overrun a      *)
(* rejection, a rejection a user failure, and the lowest worker breaks      *)
(* ties.                                                                    *)
THEOREM SelectedIsLeast ==
    ASSUME NEW S, S \subseteq Results, S # {}
    PROVE  /\ Selected(S) \in S
           /\ \A b \in S \ {Selected(S)} : Before(Selected(S), b)
<1> DEFINE Ranks == {Priority[r.kind] : r \in S}
<1>1. PICK p \in Ranks : \A q \in Ranks : p <= q
  <2>1. Ranks \subseteq Nat
    BY PriorityIsAnInjection DEF Results
  <2>2. Ranks # {}
    OBVIOUS
  <2> HIDE DEF Ranks
  <2> QED BY <2>1, <2>2, LeastNatural
<1> DEFINE Best == {r \in S : Priority[r.kind] = p}
<1> DEFINE Names == {r.worker : r \in Best}
<1>2. PICK w \in Names : \A v \in Names : w <= v
  <2>1. Names \subseteq Nat
    BY DEF Results
  <2>2. Names # {}
    OBVIOUS
  <2> HIDE DEF Names
  <2> QED BY <2>1, <2>2, LeastNatural
<1>3. PICK a \in Best : a.worker = w
  BY <1>2
<1>4. a \in S /\ \A b \in S \ {a} : Before(a, b)
  <2>1. a \in S /\ a \in Results /\ Priority[a.kind] = p
    BY <1>3
  <2>2. ASSUME NEW b \in S \ {a}
        PROVE  Before(a, b)
    <3>1. b \in Results
      OBVIOUS
    <3>2. p \in Nat /\ Priority[b.kind] \in Nat /\ p <= Priority[b.kind]
      BY <1>1, <3>1, <2>1, PriorityIsAnInjection DEF Results
    <3>3. CASE Priority[b.kind] # p
      BY <2>1, <3>2, <3>3 DEF Before
    <3>4. CASE Priority[b.kind] = p
      <4>1. b \in Best
        BY <3>4
      <4>2. a.worker <= b.worker
        BY <1>2, <1>3, <4>1
      <4>3. a.kind = b.kind
        BY <2>1, <3>1, <3>4, PriorityIsAnInjection DEF Results
      <4>4. a.worker # b.worker
        BY <2>1, <3>1, <4>3 DEF Results
      <4>5. a.worker < b.worker
        BY <4>2, <4>4, <2>1, <3>1 DEF Results
      <4> QED BY <2>1, <3>4, <4>5 DEF Before
    <3> QED BY <3>3, <3>4
  <2> QED BY <2>1, <2>2
<1> QED BY <1>4 DEF Selected

-----------------------------------------------------------------------------
(* Wait is a barrier.                                                       *)

Active == {"draw", "rule", "reject"}

(* Every result in the channel is that of a worker that has sent one and    *)
(* has not been received, and no worker has two.                            *)
OneResultEach ==
    /\ \A k \in 1..Len(inbox) : wpc[inbox[k].worker] = "sent"
    /\ \A j, k \in 1..Len(inbox) :
        j # k => inbox[j].worker # inbox[k].worker

(* Wait's count is the number of workers that are over: with OneResultEach, *)
(* why receiving cap(g) results means that nobody runs.                     *)
Counted ==
    /\ pc = "new" => concurrency = 0 /\ received = 0
    /\ pc = "wait" =>
        received = Cardinality({w \in Team : wpc[w] = "idle"})

RulesInGroup ==
    /\ pc \in {"clone", "wait", "crashed"} => group \in Groups
    /\ \A w \in Workers :
        /\ wpc[w] # "rule" => rule[w] = NoRule
        /\ wpc[w] = "rule" => rule[w] \in Rules /\ RuleGroup[rule[w]] = group

ClonesLive ==
    /\ pc \in {"wait", "crashed"} => \A w \in Team : handle[w] = "live"
    /\ pc \notin {"clone", "wait", "crashed"} =>
        \A w \in Workers : handle[w] # "live"

(* The invariants the loops have passed have looked at the state.           *)
CheckedSoFar ==
    /\ pc = "new" => invariant = 1
    /\ pc \in {"initial", "final"} =>
        \A i \in Invariants : i < invariant => i \in checked
    /\ pc = "sample" =>
        \A i \in AlwaysCheck : i < invariant => i \in checked

InTransit == {inbox[k] : k \in {j \in 1..Len(inbox) : inbox[j].kind # "none"}}

(* Where the errors of a round are at each point of Run.                    *)
FailuresTracked ==
    /\ pc \in {"wait", "join"} => failed = results \cup InTransit
    /\ pc \in {"new", "initial", "group", "clone", "sample", "final",
               "returned"} => failed = {}
    /\ pc = "aborted" /\ failed # {} =>
        /\ outcome = Selected(failed)
        /\ dropped = DroppedWorkers(failed)

Barrier == InvariantsRunAlone /\ OneResultEach /\ Counted

IInv ==
    /\ TypeOK
    /\ Barrier
    /\ RulesInGroup
    /\ ClonesLive
    /\ AlwaysCheckedAtJoins
    /\ CheckedSoFar
    /\ FailuresTracked

-----------------------------------------------------------------------------
(* Facts about the constants and the helpers.                               *)

LEMMA WorkerFacts ==
    /\ Workers \subseteq Nat
    /\ Root \notin Workers
    /\ Team \subseteq Workers
    /\ IsFiniteSet(Team)
    /\ \A S : S \subseteq [worker : Workers, kind : ErrorKinds] =>
                S \subseteq Results
<1>1. Workers \subseteq Nat /\ Root \notin Workers /\ Team \subseteq Workers
  BY MachineAssumption DEF Workers, Root, Team
<1>2. IsFiniteSet(Workers)
  BY FS_Interval, MachineAssumption DEF Workers
<1>3. IsFiniteSet(Team)
  BY <1>1, <1>2, FS_Subset
<1>4. ASSUME NEW S, S \subseteq [worker : Workers, kind : ErrorKinds]
      PROVE  S \subseteq Results
  BY <1>1, <1>4 DEF Results
<1> QED BY <1>1, <1>3, <1>4

LEMMA FreeClonesType ==
    ASSUME NEW handles \in [Workers -> {"none", "live", "freed"}]
    PROVE  /\ FreeClones(handles) \in [Workers -> {"none", "live", "freed"}]
           /\ \A w \in Workers :
                /\ FreeClones(handles)[w] # "live"
                /\ handles[w] = "none" => FreeClones(handles)[w] = "none"
BY DEF FreeClones

-----------------------------------------------------------------------------
(* Type correctness.                                                        *)

LEMMA TypeInit == Init => TypeOK
<1> SUFFICES ASSUME Init PROVE TypeOK
  OBVIOUS
<1> USE MachineAssumption
<1>1. inbox \in Seq([worker : Workers, kind : ErrorKinds \cup {"none"}])
  BY DEF Init
<1>2. outcome \in [worker : Workers \cup {Root}, kind : ErrorKinds \cup {"none", "panic"}]
  BY DEF Init, NoOutcome
<1> QED BY <1>1, <1>2 DEF Init, TypeOK, Invariants

(* An abort from the main goroutine changes pc and outcome only.            *)
LEMMA AbortType ==
    ASSUME NEW e \in [worker : Workers \cup {Root},
                      kind : ErrorKinds \cup {"none", "panic"}],
           Abort(e)
    PROVE  /\ pc' = "aborted"
           /\ outcome' \in [worker : Workers \cup {Root},
                            kind : ErrorKinds \cup {"none", "panic"}]
BY DEF Abort

LEMMA FailureType ==
    \A kind \in BodyErrors \cup EngineErrors \cup {"panic"} :
        Failure(kind) \in [worker : Workers \cup {Root},
                           kind : ErrorKinds \cup {"none", "panic"}]
BY DEF Failure, BodyErrors, EngineErrors, ErrorKinds

LEMMA InvokeInvariantType ==
    ASSUME TypeOK, invariant \in Invariants, InvokeInvariant
    PROVE  /\ pc' \in {pc, "aborted"}
           /\ outcome' \in [worker : Workers \cup {Root},
                            kind : ErrorKinds \cup {"none", "panic"}]
           /\ invariant' \in 1..(NumInvariants + 1)
           /\ checked' \subseteq Invariants
<1> USE MachineAssumption
<1>1. checked' \subseteq Invariants
  BY DEF InvokeInvariant, TypeOK
<1>2. CASE invariant' = invariant + 1 /\ UNCHANGED <<pc, outcome>>
  BY <1>1, <1>2 DEF TypeOK, Invariants
<1>3. CASE (\E kind \in BodyErrors : Abort(Failure(kind))) /\ UNCHANGED invariant
  BY <1>1, <1>3, AbortType, FailureType DEF TypeOK
<1>4. CASE Abort(Failure("panic")) /\ UNCHANGED invariant
  BY <1>1, <1>4, AbortType, FailureType DEF TypeOK
<1> QED BY <1>2, <1>3, <1>4 DEF InvokeInvariant

LEMMA ReturnType ==
    ASSUME TypeOK, NEW w \in Workers, NEW kind \in {"none"} \cup ErrorKinds,
           Return(w, kind), wpc[w] # "idle"
    PROVE  /\ inbox' \in Seq([worker : Workers, kind : ErrorKinds \cup {"none"}])
           /\ failed' \subseteq [worker : Workers, kind : ErrorKinds]
           /\ wpc' \in [Workers -> {"idle", "draw", "rule", "reject", "sent"}]
           /\ rule' \in [Workers -> Rules \cup {NoRule}]
           /\ \A v \in Workers : v >= concurrency => wpc'[v] = "idle"
<1>1. failed' \subseteq [worker : Workers, kind : ErrorKinds]
  BY DEF Return, TypeOK
<1>2. [worker |-> w, kind |-> kind] \in [worker : Workers, kind : ErrorKinds \cup {"none"}]
  OBVIOUS
<1>3. inbox' \in Seq([worker : Workers, kind : ErrorKinds \cup {"none"}])
  BY <1>2 DEF Return, TypeOK
<1> QED BY <1>1, <1>3 DEF Return, TypeOK

LEMMA TypeNext == TypeOK /\ Counted /\ [Next]_vars => TypeOK'
<1> SUFFICES ASSUME TypeOK, Counted, [Next]_vars PROVE TypeOK'
  OBVIOUS
<1> USE MachineAssumption
<1>1. CASE NewMachine
  <2>1. CASE (\E kind \in EngineErrors : Abort(Failure(kind))) /\ concurrency' = concurrency
    BY <1>1, <2>1, AbortType, FailureType
       DEF NewMachine, TypeOK, workVars, joinVars
  <2>2. CASE concurrency' \in 1..MaxConcurrency /\ pc' = "initial" /\ outcome' = outcome
    BY <1>1, <2>2, WorkerFacts DEF NewMachine, TypeOK, Counted, workVars, joinVars
  <2> QED BY <1>1, <2>1, <2>2 DEF NewMachine
<1>2. CASE CheckAll
  BY <1>2, InvokeInvariantType DEF CheckAll, TypeOK, workVars, joinVars
<1>3. CASE AllChecked
  BY <1>3 DEF AllChecked, TypeOK, workVars, joinVars
<1>4. CASE NextGroup
  <2>1. CASE (\E kind \in EngineErrors : Abort(Failure(kind))) /\ UNCHANGED <<round, group, invariant>>
    BY <1>4, <2>1, AbortType, FailureType
       DEF NextGroup, TypeOK, workVars, joinVars
  <2>2. CASE /\ round < StepCount /\ round' = round + 1 /\ group' \in Groups
             /\ pc' = "clone" /\ UNCHANGED <<outcome, invariant>>
    BY <1>4, <2>2 DEF NextGroup, TypeOK, Groups, workVars, joinVars
  <2>3. CASE pc' = "final" /\ invariant' = 1 /\ UNCHANGED <<outcome, round, group>>
    BY <1>4, <2>3 DEF NextGroup, TypeOK, workVars, joinVars
  <2> QED BY <1>4, <2>1, <2>2, <2>3 DEF NextGroup
<1>5. ASSUME NEW w \in Team, CloneWorker(w) PROVE TypeOK'
  <2>2. w \in Workers /\ w < concurrency
    BY DEF Team
  <2>3. [handle EXCEPT ![w] = "live"] \in [Workers -> {"none", "live", "freed"}]
    BY <2>2 DEF TypeOK
  <2>4. CASE handle' = [handle EXCEPT ![w] = "live"] /\ UNCHANGED <<pc, outcome>>
    <3>1. \A v \in Workers : v >= concurrency => v # w
      BY <2>2, WorkerFacts DEF TypeOK
    <3>2. \A v \in Workers : v >= concurrency => handle'[v] = "none"
      BY <2>2, <2>4, <3>1 DEF TypeOK
    <3> QED BY <1>5, <2>3, <2>4, <3>2 DEF CloneWorker, TypeOK, workVars, joinVars
  <2>5. CASE /\ handle' = FreeClones(handle)
                \/ handle' = FreeClones([handle EXCEPT ![w] = "live"])
             /\ \E kind \in EngineErrors : Abort(Failure(kind))
    <3>1. /\ handle' \in [Workers -> {"none", "live", "freed"}]
          /\ \A v \in Workers : v >= concurrency => handle'[v] = "none"
      <4>1. \A v \in Workers : v >= concurrency => v # w
        BY <2>2, WorkerFacts DEF TypeOK
      <4>2. CASE handle' = FreeClones(handle)
        BY <4>2, FreeClonesType DEF TypeOK
      <4>3. CASE handle' = FreeClones([handle EXCEPT ![w] = "live"])
        <5> DEFINE cloned == [handle EXCEPT ![w] = "live"]
        <5>1. \A v \in Workers : v >= concurrency => cloned[v] = "none"
          BY <4>1 DEF TypeOK
        <5>2. cloned \in [Workers -> {"none", "live", "freed"}]
          BY <2>3
        <5> HIDE DEF cloned
        <5>3. handle' = FreeClones(cloned)
          BY <4>3 DEF cloned
        <5> QED BY <5>1, <5>2, <5>3, FreeClonesType
      <4> QED BY <2>5, <4>2, <4>3
    <3> QED BY <1>5, <2>5, <3>1, AbortType, FailureType
            DEF CloneWorker, TypeOK, workVars, joinVars
  <2> QED BY <1>5, <2>4, <2>5 DEF CloneWorker
<1>6. CASE StartWorkers
  BY <1>6, WorkerFacts DEF StartWorkers, TypeOK, Team
<1>7. CASE Receive
  <2>1. /\ Head(inbox) \in [worker : Workers, kind : ErrorKinds \cup {"none"}]
        /\ inbox' \in Seq([worker : Workers, kind : ErrorKinds \cup {"none"}])
    <3> DEFINE Sent == [worker : Workers, kind : ErrorKinds \cup {"none"}]
    <3>1. inbox \in Seq(Sent) /\ inbox # <<>> /\ inbox' = Tail(inbox)
      BY <1>7 DEF Receive, TypeOK
    <3> HIDE DEF Sent
    <3>2. Head(inbox) \in Sent /\ inbox' \in Seq(Sent)
      BY <3>1
    <3> QED BY <3>2 DEF Sent
  <2>2. results' \subseteq [worker : Workers, kind : ErrorKinds]
    BY ZenonT(60), <1>7, <2>1 DEF Receive, Collected, TypeOK
  <2>3. received' \in 0..concurrency
    BY <1>7 DEF Receive, AllReceived, Capacity, TypeOK
  <2> QED BY <1>7, <2>1, <2>2, <2>3 DEF Receive, TypeOK, mainVars
<1>8. CASE Join
  BY <1>8, FreeClonesType, WorkerFacts DEF Join, TypeOK, workVars, joinVars
<1>9. CASE Inspect
  <2>1. CASE results = {}
    BY <1>9, <2>1 DEF Inspect, TypeOK, workVars, joinVars
  <2>2. CASE results # {}
    <3>1. Selected(results) \in results
      BY <2>2, SelectedIsLeast, WorkerFacts DEF TypeOK
    <3>2. DroppedWorkers(results) \subseteq Workers
      BY DEF DroppedWorkers, TypeOK
    <3>3. Abort(Selected(results)) /\ dropped' = DroppedWorkers(results) /\ UNCHANGED invariant
      BY <1>9, <2>2 DEF Inspect
    <3>4. Selected(results) \in [worker : Workers \cup {Root},
                                 kind : ErrorKinds \cup {"none", "panic"}]
      BY <3>1 DEF TypeOK
    <3> QED BY <1>9, <3>2, <3>3, <3>4, AbortType
            DEF Inspect, TypeOK, workVars, joinVars
  <2> QED BY <2>1, <2>2
<1>10. CASE SampleInvariant
  <2>1. CASE InvokeInvariant
    BY <1>10, <2>1, InvokeInvariantType DEF SampleInvariant, TypeOK, workVars, joinVars
  <2>2. CASE SkipInvariant /\ UNCHANGED <<pc, outcome, checked>>
    BY <1>10, <2>2 DEF SampleInvariant, SkipInvariant, Invariants, TypeOK, workVars, joinVars
  <2>3. CASE (\E kind \in EngineErrors : Abort(Failure(kind))) /\ UNCHANGED <<invariant, checked>>
    BY <1>10, <2>3, AbortType, FailureType
       DEF SampleInvariant, TypeOK, workVars, joinVars
  <2> QED BY <1>10, <2>1, <2>2, <2>3 DEF SampleInvariant
<1>11. CASE EndRound
  BY <1>11 DEF EndRound, TypeOK, workVars, joinVars
<1>12. ASSUME NEW w \in Workers, WorkerStep(w) PROVE TypeOK'
  <2>1. {"none"} \cup EngineErrors \subseteq {"none"} \cup ErrorKinds
        /\ BodyErrors \subseteq {"none"} \cup ErrorKinds
    BY DEF EngineErrors, BodyErrors, ErrorKinds
  <2>2. CASE NextRule(w)
    <3>1. CASE \E kind \in {"none"} \cup EngineErrors : Return(w, kind) /\ UNCHANGED drawn
      BY <2>1, <2>2, <3>1, ReturnType DEF NextRule, TypeOK, mainVars
    <3>2. CASE /\ drawn[w] < MaxDraws
               /\ \E r \in {q \in Rules : RuleGroup[q] = group} :
                        rule' = [rule EXCEPT ![w] = r]
               /\ drawn' = [drawn EXCEPT ![w] = @ + 1]
               /\ wpc' = [wpc EXCEPT ![w] = "rule"]
               /\ UNCHANGED <<inbox, failed>>
      BY <2>2, <3>2 DEF NextRule, TypeOK, mainVars
    <3> QED BY <2>2, <3>1, <3>2 DEF NextRule
  <2>3. CASE FinishRule(w)
    <3>1. CASE \E kind \in BodyErrors : Return(w, kind)
      BY <2>1, <2>3, <3>1, ReturnType DEF FinishRule, TypeOK, mainVars
    <3>2. CASE /\ \E next \in {"draw", "reject"} : wpc' = [wpc EXCEPT ![w] = next]
               /\ rule' = [rule EXCEPT ![w] = NoRule]
               /\ UNCHANGED <<inbox, failed>>
      BY <2>3, <3>2 DEF FinishRule, TypeOK, mainVars
    <3> QED BY <2>3, <3>1, <3>2 DEF FinishRule
  <2>4. CASE CrashInRule(w)
    BY <2>4 DEF CrashInRule, TypeOK, workVars, joinVars
  <2>5. CASE RejectRule(w)
    <3>1. CASE \E kind \in EngineErrors : Return(w, kind)
      BY <2>1, <2>5, <3>1, ReturnType DEF RejectRule, TypeOK, mainVars
    <3>2. CASE wpc' = [wpc EXCEPT ![w] = "draw"] /\ UNCHANGED <<inbox, rule, failed>>
      BY <2>5, <3>2 DEF RejectRule, TypeOK, mainVars
    <3> QED BY <2>5, <3>1, <3>2 DEF RejectRule
  <2> QED BY <1>12, <2>2, <2>3, <2>4, <2>5 DEF WorkerStep
<1>13. CASE UNCHANGED vars
  BY <1>13 DEF vars, mainVars, workVars, joinVars, TypeOK
<1> QED BY <1>1, <1>2, <1>3, <1>4, <1>5, <1>6, <1>7, <1>8, <1>9, <1>10, <1>11,
           <1>12, <1>13 DEF Next, MainStep, Finished

-----------------------------------------------------------------------------
(* What a step can do to the round: the steps of a worker all leave the     *)
(* main goroutine in Wait, and of its own steps only StartWorkers, Receive  *)
(* and Join change the round's variables or enter or leave Wait.            *)

LEMMA WorkerEffect ==
    ASSUME TypeOK, InvariantsRunAlone, NEW w \in Workers, WorkerStep(w)
    PROVE  /\ pc = "wait" /\ pc' \in {"wait", "crashed"}
           /\ wpc[w] \in Active
           /\ wpc' = [wpc EXCEPT ![w] = wpc'[w]] /\ wpc'[w] # "idle"
           /\ UNCHANGED <<policy, outcome, concurrency, round, group, invariant,
                          handle, received, results, checked, dropped>>
           /\ \/ UNCHANGED <<inbox, failed>>
              \/ \E kind \in {"none"} \cup ErrorKinds : Return(w, kind)
<1>1. wpc[w] \in Active /\ pc # "crashed"
  BY DEF WorkerStep, NextRule, FinishRule, CrashInRule, RejectRule, Active
<1>2. pc = "wait"
  BY <1>1 DEF InvariantsRunAlone, Active
<1>3. EngineErrors \subseteq ErrorKinds /\ BodyErrors \subseteq ErrorKinds
  BY DEF EngineErrors, BodyErrors, ErrorKinds
<1>4. ASSUME NEW kind \in {"none"} \cup ErrorKinds, Return(w, kind)
      PROVE  wpc' = [wpc EXCEPT ![w] = wpc'[w]] /\ wpc'[w] # "idle"
  BY <1>4 DEF Return, TypeOK
<1>5. CASE NextRule(w)
  <2>1. CASE \E kind \in {"none"} \cup EngineErrors : Return(w, kind)
    BY <1>1, <1>2, <1>3, <1>4, <1>5, <2>1 DEF NextRule, mainVars
  <2>2. CASE wpc' = [wpc EXCEPT ![w] = "rule"] /\ UNCHANGED <<inbox, failed>>
    BY <1>1, <1>2, <1>5, <2>2 DEF NextRule, mainVars, TypeOK
  <2> QED BY <1>5, <2>1, <2>2 DEF NextRule
<1>6. CASE FinishRule(w)
  <2>1. CASE \E kind \in BodyErrors : Return(w, kind)
    BY <1>1, <1>2, <1>3, <1>4, <1>6, <2>1 DEF FinishRule, mainVars
  <2>2. CASE /\ \E next \in {"draw", "reject"} : wpc' = [wpc EXCEPT ![w] = next]
             /\ UNCHANGED <<inbox, failed>>
    BY <1>1, <1>2, <1>6, <2>2 DEF FinishRule, mainVars, TypeOK
  <2> QED BY <1>6, <2>1, <2>2 DEF FinishRule
<1>7. CASE CrashInRule(w)
  BY <1>1, <1>2, <1>7 DEF CrashInRule, workVars, joinVars, TypeOK
<1>8. CASE RejectRule(w)
  <2>1. CASE \E kind \in EngineErrors : Return(w, kind)
    BY <1>1, <1>2, <1>3, <1>4, <1>8, <2>1 DEF RejectRule, mainVars
  <2>2. CASE wpc' = [wpc EXCEPT ![w] = "draw"] /\ UNCHANGED <<inbox, failed>>
    BY <1>1, <1>2, <1>8, <2>2 DEF RejectRule, mainVars, TypeOK
  <2> QED BY <1>8, <2>1, <2>2 DEF RejectRule
<1> QED BY <1>5, <1>6, <1>7, <1>8 DEF WorkerStep

OutsideWait ==
    /\ pc \notin {"wait", "crashed"}
    /\ pc' \notin {"new", "wait", "crashed"}
    /\ UNCHANGED <<workVars, joinVars>>

LEMMA MainEffect ==
    ASSUME MainStep
    PROVE  StartWorkers \/ Receive \/ Join \/ OutsideWait
<1> USE DEF OutsideWait, Abort
<1>1. CASE NewMachine
  BY <1>1 DEF NewMachine
<1>2. CASE CheckAll
  BY <1>2 DEF CheckAll, InvokeInvariant, workVars
<1>3. CASE AllChecked
  BY <1>3 DEF AllChecked
<1>4. CASE NextGroup
  BY <1>4 DEF NextGroup
<1>5. ASSUME NEW w \in Team, CloneWorker(w) PROVE OutsideWait
  BY <1>5 DEF CloneWorker
<1>6. CASE Inspect
  BY <1>6 DEF Inspect
<1>7. CASE SampleInvariant
  BY <1>7 DEF SampleInvariant, InvokeInvariant, workVars
<1>8. CASE EndRound
  BY <1>8 DEF EndRound
<1> QED BY <1>1, <1>2, <1>3, <1>4, <1>5, <1>6, <1>7, <1>8 DEF MainStep

-----------------------------------------------------------------------------
(* Wait is a barrier.                                                       *)

(* The results in the channel, one by one.                                  *)
LEMMA InboxFacts ==
    ASSUME TypeOK
    PROVE  /\ Len(inbox) \in Nat
           /\ inbox # <<>> => 1 \in 1..Len(inbox)
           /\ \A k \in 1..Len(inbox) : inbox[k].worker \in Workers
<1> DEFINE Sent == [worker : Workers, kind : ErrorKinds \cup {"none"}]
<1>1. \A m \in Sent : m.worker \in Workers
  OBVIOUS
<1>2. inbox \in Seq(Sent)
  BY DEF TypeOK
<1> HIDE DEF Sent
<1>3. Len(inbox) \in Nat /\ \A k \in 1..Len(inbox) : inbox[k] \in Sent
  BY <1>2
<1>4. inbox # <<>> => 1 \in 1..Len(inbox)
  BY <1>2
<1> QED BY <1>1, <1>3, <1>4

(* The receive loop ends when nobody runs and the channel is empty: as many *)
(* workers are over as there are workers, so all of them are.               *)
LEMMA ReceivedAll ==
    ASSUME TypeOK, OneResultEach, Counted, pc = "wait", AllReceived
    PROVE  inbox = <<>> /\ \A w \in Workers : wpc[w] = "idle"
<1> DEFINE Idle == {w \in Team : wpc[w] = "idle"}
<1>1. Team = 0..(concurrency - 1) /\ concurrency \in Nat
  BY MachineAssumption DEF Team, Workers, TypeOK
<1>2. Cardinality(Team) = concurrency
  <2>1. IF 0 > concurrency - 1 THEN Cardinality(Team) = 0
                               ELSE Cardinality(Team) = concurrency - 1 - 0 + 1
    BY <1>1, FS_Interval
  <2> QED BY <1>1, <2>1
<1>3. Cardinality(Idle) = Cardinality(Team)
  BY <1>2 DEF Counted, AllReceived, Capacity
<1>4. Idle = Team
  BY <1>3, WorkerFacts, FS_Subset
<1>5. \A w \in Workers : wpc[w] = "idle"
  <2> SUFFICES ASSUME NEW w \in Workers PROVE wpc[w] = "idle"
    OBVIOUS
  <2>1. CASE w \in Team
    BY <1>4, <2>1
  <2>2. CASE w \notin Team
    BY <2>2, WorkerFacts DEF Team, TypeOK
  <2> QED BY <2>1, <2>2
<1>6. ASSUME inbox # <<>> PROVE FALSE
  <2>1. 1 \in 1..Len(inbox) /\ inbox[1].worker \in Workers
    BY <1>6, InboxFacts
  <2> QED BY <1>5, <2>1 DEF OneResultEach
<1> QED BY <1>5, <1>6

(* Returning a result: the sender had sent none.                            *)
LEMMA ReturnKeepsOneResultEach ==
    ASSUME TypeOK, OneResultEach, NEW w \in Workers,
           NEW kind \in {"none"} \cup ErrorKinds,
           wpc[w] \in Active, Return(w, kind)
    PROVE  OneResultEach'
<1> DEFINE new == [worker |-> w, kind |-> kind]
<1>1. /\ inbox' = Append(inbox, new)
      /\ Len(inbox) \in Nat /\ Len(inbox') = Len(inbox) + 1
      /\ inbox'[Len(inbox) + 1] = new
      /\ \A k \in 1..Len(inbox) : inbox'[k] = inbox[k]
  BY DEF Return, TypeOK
<1>2. \A k \in 1..Len(inbox) : inbox[k].worker \in Workers /\ inbox[k].worker # w
  BY InboxFacts DEF OneResultEach, Active
<1>3. \A v \in Workers : wpc'[v] = IF v = w THEN "sent" ELSE wpc[v]
  BY DEF Return, TypeOK
<1>4. \A k \in 1..Len(inbox') : k \in 1..Len(inbox) \/ k = Len(inbox) + 1
  BY <1>1
<1>5. \A k \in 1..Len(inbox') : wpc'[inbox'[k].worker] = "sent"
  BY <1>1, <1>2, <1>3, <1>4 DEF OneResultEach
<1>6. ASSUME NEW j \in 1..Len(inbox'), NEW k \in 1..Len(inbox'), j # k
      PROVE  inbox'[j].worker # inbox'[k].worker
  <2>1. new.worker = w
    OBVIOUS
  <2>2. CASE j \in 1..Len(inbox) /\ k \in 1..Len(inbox)
    BY <1>1, <1>6, <2>2 DEF OneResultEach
  <2>3. CASE j = Len(inbox) + 1 /\ k \in 1..Len(inbox)
    BY <1>1, <1>2, <2>1, <2>3
  <2>4. CASE k = Len(inbox) + 1 /\ j \in 1..Len(inbox)
    BY <1>1, <1>2, <2>1, <2>4
  <2> QED BY <1>4, <1>6, <2>2, <2>3, <2>4
<1> QED BY <1>5, <1>6 DEF OneResultEach

(* Receiving the oldest result: its worker is over from here on.            *)
LEMMA ReceiveKeepsBarrier ==
    ASSUME TypeOK, Barrier, Receive
    PROVE  OneResultEach' /\ Counted'
<1> DEFINE head == Head(inbox)
<1>1. /\ Len(inbox) \in Nat \ {0} /\ Len(inbox') = Len(inbox) - 1
      /\ head = inbox[1]
      /\ \A k \in 1..Len(inbox') : inbox'[k] = inbox[k + 1]
  <2>1. inbox \in Seq([worker : Workers, kind : ErrorKinds \cup {"none"}])
        /\ inbox # <<>> /\ inbox' = Tail(inbox)
    BY DEF Receive, TypeOK
  <2> QED BY <2>1
<1>2. /\ 1 \in 1..Len(inbox)
      /\ \A k \in 1..Len(inbox') : k + 1 \in 1..Len(inbox) /\ k + 1 # 1
      /\ \A j, k \in 1..Len(inbox') : j # k => j + 1 # k + 1
  BY <1>1
<1>3. \A k \in 1..Len(inbox) : inbox[k].worker \in Workers
  BY InboxFacts
<1>4. /\ head.worker \in Workers /\ wpc[head.worker] = "sent"
      /\ wpc' = [wpc EXCEPT ![head.worker] = "idle"]
  BY <1>1, <1>2, <1>3 DEF Barrier, OneResultEach, Receive
<1>5. OneResultEach'
  <2>1. \A k \in 1..Len(inbox') :
            /\ inbox'[k].worker \in Workers /\ inbox'[k].worker # head.worker
            /\ wpc[inbox'[k].worker] = "sent"
    BY <1>1, <1>2, <1>3 DEF Barrier, OneResultEach
  <2>2. \A k \in 1..Len(inbox') : wpc'[inbox'[k].worker] = "sent"
    BY <1>4, <2>1 DEF TypeOK
  <2>3. ASSUME NEW j \in 1..Len(inbox'), NEW k \in 1..Len(inbox'), j # k
        PROVE  inbox'[j].worker # inbox'[k].worker
    <3>1. /\ j + 1 \in 1..Len(inbox) /\ k + 1 \in 1..Len(inbox) /\ j + 1 # k + 1
          /\ inbox'[j] = inbox[j + 1] /\ inbox'[k] = inbox[k + 1]
      BY <1>1, <1>2, <2>3
    <3>2. inbox[j + 1].worker # inbox[k + 1].worker
      BY <3>1 DEF Barrier, OneResultEach
    <3> QED BY <3>1, <3>2
  <2> QED BY <2>2, <2>3 DEF OneResultEach
<1>6. Counted'
  <2> DEFINE Idle == {w \in Team : wpc[w] = "idle"}
  <2>1. /\ pc = "wait" /\ pc' = "wait" /\ concurrency' = concurrency
        /\ received' = received + 1
    BY DEF Receive, mainVars
  <2>2. head.worker \in Team /\ head.worker \notin Idle
    <3>1. \A v \in Workers : v \notin Team => wpc[v] = "idle"
      BY WorkerFacts, MachineAssumption DEF Team, TypeOK
    <3> QED BY <1>4, <3>1
  <2>3. Idle' = Idle \cup {head.worker}
    BY <1>4, <2>1, <2>2, WorkerFacts DEF Team, TypeOK
  <2>4. IsFiniteSet(Idle)
    BY WorkerFacts, FS_Subset
  <2>5. Cardinality(Idle \cup {head.worker}) = Cardinality(Idle) + 1
    BY <2>2, <2>4, FS_AddElement
  <2>6. received = Cardinality(Idle)
    BY <2>1 DEF Barrier, Counted
  <2> QED BY <2>1, <2>3, <2>5, <2>6 DEF Counted
<1> QED BY <1>5, <1>6

LEMMA BarrierInit == Init => Barrier
BY MachineAssumption DEF Init, Barrier, InvariantsRunAlone, OneResultEach, Counted

LEMMA BarrierNext == TypeOK /\ Barrier /\ [Next]_vars => Barrier'
<1> SUFFICES ASSUME TypeOK, Barrier, [Next]_vars PROVE Barrier'
  OBVIOUS
<1> USE DEF Barrier
<1>1. CASE StartWorkers
  <2>1. inbox' = <<>>
    BY <1>1 DEF StartWorkers, InvariantsRunAlone
  <2>2. {w \in Team' : wpc'[w] = "idle"} = {}
    BY <1>1, WorkerFacts DEF StartWorkers, Team
  <2>3. Cardinality({}) = 0
    BY FS_EmptySet
  <2>4. Counted'
    BY <1>1, <2>2, <2>3 DEF StartWorkers, Counted
  <2> QED BY <1>1, <2>1, <2>4 DEF StartWorkers, InvariantsRunAlone, OneResultEach
<1>2. CASE Receive
  BY <1>2, ReceiveKeepsBarrier DEF Receive, mainVars, InvariantsRunAlone
<1>3. CASE Join
  BY <1>3, ReceivedAll
     DEF Join, InvariantsRunAlone, OneResultEach, Counted, workVars, joinVars
<1>4. CASE OutsideWait
  BY <1>4 DEF OutsideWait, InvariantsRunAlone, OneResultEach, Counted, workVars, joinVars
<1>5. ASSUME NEW w \in Workers, WorkerStep(w) PROVE Barrier'
  <2>1. /\ pc = "wait" /\ pc' \in {"wait", "crashed"}
        /\ wpc[w] \in Active
        /\ wpc' = [wpc EXCEPT ![w] = wpc'[w]] /\ wpc'[w] # "idle"
        /\ concurrency' = concurrency /\ received' = received
        /\ \/ inbox' = inbox
           \/ \E kind \in {"none"} \cup ErrorKinds : Return(w, kind)
    BY <1>5, WorkerEffect
  <2>2. \A v \in Workers : v # w => wpc'[v] = wpc[v]
    BY <2>1 DEF TypeOK
  <2>3. \A v \in Workers : wpc'[v] = "idle" <=> wpc[v] = "idle"
    BY <2>1, <2>2 DEF Active
  <2>4. {v \in Team' : wpc'[v] = "idle"} = {v \in Team : wpc[v] = "idle"}
    BY <2>1, <2>3, WorkerFacts DEF Team
  <2>5. Counted'
    BY <2>1, <2>4 DEF Counted
  <2>6. CASE inbox' = inbox
    <3>1. \A k \in 1..Len(inbox) : inbox[k].worker \in Workers /\ inbox[k].worker # w
      BY <2>1, InboxFacts DEF OneResultEach, Active
    <3>2. OneResultEach'
      BY <2>2, <2>6, <3>1 DEF OneResultEach
    <3> QED BY <2>1, <2>5, <3>2 DEF InvariantsRunAlone
  <2>7. CASE \E kind \in {"none"} \cup ErrorKinds : Return(w, kind)
    BY <2>1, <2>5, <2>7, ReturnKeepsOneResultEach DEF InvariantsRunAlone
  <2> QED BY <2>1, <2>6, <2>7
<1>6. CASE UNCHANGED vars
  BY <1>6 DEF vars, mainVars, workVars, joinVars, Team,
              InvariantsRunAlone, OneResultEach, Counted
<1> QED BY <1>1, <1>2, <1>3, <1>4, <1>5, <1>6, MainEffect DEF Next, Finished

-----------------------------------------------------------------------------
(* A round runs rules of its own group only.                                *)

LEMMA RulesInGroupNext ==
    ASSUME TypeOK, Barrier, RulesInGroup, [Next]_vars
    PROVE  RulesInGroup'
<1> USE DEF RulesInGroup
<1>1. CASE StartWorkers
  BY <1>1 DEF StartWorkers
<1>2. CASE Receive
  <2>1. /\ pc' = pc /\ group' = group /\ rule' = rule
        /\ inbox # <<>> /\ Head(inbox) = inbox[1]
        /\ wpc' = [wpc EXCEPT ![Head(inbox).worker] = "idle"]
    BY <1>2 DEF Receive, mainVars, TypeOK
  <2>2. wpc[Head(inbox).worker] = "sent"
    BY <2>1, InboxFacts DEF Barrier, OneResultEach
  <2>3. \A w \in Workers : wpc'[w] = "rule" <=> wpc[w] = "rule"
    BY <2>1, <2>2 DEF TypeOK
  <2> QED BY <2>1, <2>3
<1>3. CASE Join
  BY <1>3 DEF Join, workVars
<1>4. ASSUME MainStep, OutsideWait PROVE RulesInGroup'
  <2>1. \A w \in Workers : wpc[w] = "idle"
    BY <1>4 DEF OutsideWait, Barrier, InvariantsRunAlone
  <2>2. wpc' = wpc /\ rule' = rule
    BY <1>4 DEF OutsideWait, workVars
  <2>3. pc' = "clone" => group' \in Groups
    BY <1>4 DEF MainStep, NewMachine, CheckAll, InvokeInvariant, AllChecked,
                NextGroup, CloneWorker, StartWorkers, Receive, Join, Inspect,
                SampleInvariant, EndRound, Abort, mainVars
  <2> QED BY <1>4, <2>1, <2>2, <2>3 DEF OutsideWait
<1>5. ASSUME NEW w \in Workers, WorkerStep(w) PROVE RulesInGroup'
  <2>1. /\ pc = "wait" /\ group' = group /\ wpc[w] \in Active
        /\ \A v \in Workers : v # w => wpc'[v] = wpc[v]
    BY <1>5, WorkerEffect DEF Barrier, TypeOK
  <2>2. ASSUME NEW kind, Return(w, kind)
        PROVE  /\ wpc'[w] = "sent" /\ rule'[w] = NoRule
               /\ \A v \in Workers : v # w => rule'[v] = rule[v]
    BY <2>2 DEF Return, TypeOK
  <2>3. /\ \A v \in Workers : v # w => rule'[v] = rule[v]
        /\ wpc'[w] # "rule" => rule'[w] = NoRule
        /\ wpc'[w] = "rule" => rule'[w] \in Rules /\ RuleGroup[rule'[w]] = group
    <3>1. CASE NextRule(w)
      <4>1. CASE \E kind \in {"none"} \cup EngineErrors : Return(w, kind)
        BY <2>2, <4>1
      <4>2. CASE /\ \E r \in {q \in Rules : RuleGroup[q] = group} :
                        rule' = [rule EXCEPT ![w] = r]
                 /\ wpc' = [wpc EXCEPT ![w] = "rule"]
        BY <4>2 DEF TypeOK
      <4> QED BY <3>1, <4>1, <4>2 DEF NextRule
    <3>2. CASE FinishRule(w)
      <4>1. CASE \E kind \in BodyErrors : Return(w, kind)
        BY <2>2, <4>1
      <4>2. CASE /\ \E next \in {"draw", "reject"} : wpc' = [wpc EXCEPT ![w] = next]
                 /\ rule' = [rule EXCEPT ![w] = NoRule]
        BY <4>2 DEF TypeOK
      <4> QED BY <3>2, <4>1, <4>2 DEF FinishRule
    <3>3. CASE CrashInRule(w)
      BY <3>3 DEF CrashInRule, workVars
    <3>4. CASE RejectRule(w)
      <4>1. CASE \E kind \in EngineErrors : Return(w, kind)
        BY <2>2, <4>1
      <4>2. CASE wpc' = [wpc EXCEPT ![w] = "draw"] /\ rule' = rule
        BY <3>4, <4>2 DEF RejectRule, TypeOK
      <4> QED BY <3>4, <4>1, <4>2 DEF RejectRule
    <3> QED BY <1>5, <3>1, <3>2, <3>3, <3>4 DEF WorkerStep
  <2>4. group' \in Groups
    BY <2>1 DEF Groups
  <2> QED BY <2>1, <2>3, <2>4
<1>6. CASE UNCHANGED vars
  BY <1>6 DEF vars, mainVars, workVars
<1> QED BY <1>1, <1>2, <1>3, <1>4, <1>5, <1>6, MainEffect DEF Next, Finished

-----------------------------------------------------------------------------
(* Clones live from the start of a round to its join.                       *)

LEMMA ClonesLiveNext ==
    ASSUME TypeOK, Barrier, ClonesLive, [Next]_vars
    PROVE  ClonesLive'
<1> USE DEF ClonesLive
<1>1. CASE NewMachine
  BY <1>1 DEF NewMachine, Abort
<1>2. CASE CheckAll
  BY <1>2 DEF CheckAll, InvokeInvariant, Abort
<1>3. CASE AllChecked
  BY <1>3 DEF AllChecked
<1>4. CASE NextGroup
  BY <1>4 DEF NextGroup, Abort
<1>5. ASSUME NEW w \in Team, CloneWorker(w) PROVE ClonesLive'
  <2>1. [handle EXCEPT ![w] = "live"] \in [Workers -> {"none", "live", "freed"}]
    BY DEF TypeOK
  <2>2. CASE pc' = pc
    BY <1>5, <2>2 DEF CloneWorker
  <2>3. CASE handle' = FreeClones(handle) /\ pc' = "aborted"
    BY <2>3, FreeClonesType DEF TypeOK
  <2>4. CASE handle' = FreeClones([handle EXCEPT ![w] = "live"]) /\ pc' = "aborted"
    BY <2>1, <2>4, FreeClonesType
  <2> QED BY <1>5, <2>2, <2>3, <2>4 DEF CloneWorker, Abort
<1>6. CASE StartWorkers
  BY <1>6 DEF StartWorkers, Team
<1>7. CASE Receive
  BY <1>7 DEF Receive, mainVars, Team
<1>8. CASE Join
  BY <1>8, FreeClonesType DEF Join, TypeOK
<1>9. CASE Inspect
  BY <1>9 DEF Inspect, Abort
<1>10. CASE SampleInvariant
  BY <1>10 DEF SampleInvariant, InvokeInvariant, Abort
<1>11. CASE EndRound
  BY <1>11 DEF EndRound
<1>12. ASSUME NEW w \in Workers, WorkerStep(w) PROVE ClonesLive'
  BY <1>12, WorkerEffect DEF Barrier, Team
<1>13. CASE UNCHANGED vars
  BY <1>13 DEF vars, mainVars, Team
<1> QED BY <1>1, <1>2, <1>3, <1>4, <1>5, <1>6, <1>7, <1>8, <1>9, <1>10, <1>11,
           <1>12, <1>13 DEF Next, MainStep, Finished

-----------------------------------------------------------------------------
(* Always-check invariants see every join point.                            *)

Checks == AlwaysCheckedAtJoins /\ CheckedSoFar

LEMMA ChecksNext ==
    ASSUME TypeOK, Barrier, Checks, [Next]_vars
    PROVE  Checks'
<1> USE MachineAssumption DEF Checks, AlwaysCheckedAtJoins, CheckedSoFar, Invariants
<1>1. CASE NewMachine
  BY <1>1 DEF NewMachine, Abort
<1>2. CASE CheckAll
  <2>1. CASE pc' = "aborted"
    BY <2>1
  <2>2. CASE invariant' = invariant + 1 /\ pc' = pc
    <3>1. /\ pc \in {"initial", "final"} /\ invariant \in 1..NumInvariants
          /\ checked' = checked \cup {invariant}
      BY <1>2 DEF CheckAll, InvokeInvariant
    <3>2. \A i \in Invariants : i < invariant + 1 => i < invariant \/ i = invariant
      BY <3>1
    <3> QED BY <2>2, <3>1, <3>2
  <2> QED BY <1>2, <2>1, <2>2 DEF CheckAll, InvokeInvariant, Abort
<1>3. CASE AllChecked
  <2>1. /\ pc \in {"initial", "final"} /\ pc' \in {"group", "returned"}
        /\ invariant = NumInvariants + 1 /\ checked' = checked
    BY <1>3 DEF AllChecked
  <2>2. \A i \in 1..NumInvariants : i \in checked
    BY <2>1
  <2>3. checked \subseteq 1..NumInvariants
    BY DEF TypeOK
  <2>4. checked = 1..NumInvariants
    BY <2>2, <2>3
  <2> QED BY <2>1, <2>4
<1>4. CASE NextGroup
  BY <1>4 DEF NextGroup, Abort
<1>5. ASSUME NEW w \in Team, CloneWorker(w) PROVE Checks'
  BY <1>5 DEF CloneWorker, Abort
<1>6. CASE StartWorkers
  BY <1>6 DEF StartWorkers
<1>7. CASE Receive
  BY <1>7 DEF Receive, mainVars
<1>8. CASE Join
  BY <1>8 DEF Join
<1>9. CASE Inspect
  BY <1>9 DEF Inspect, Abort
<1>10. CASE SampleInvariant
  <2>1. CASE InvokeInvariant
    BY <1>10, <2>1 DEF SampleInvariant, InvokeInvariant, Abort, TypeOK
  <2>2. CASE invariant \notin AlwaysCheck /\ SkipInvariant /\ UNCHANGED <<pc, outcome, checked>>
    BY <1>10, <2>2 DEF SampleInvariant, SkipInvariant, TypeOK
  <2>3. CASE pc' = "aborted"
    BY <2>3
  <2> QED BY <1>10, <2>1, <2>2, <2>3 DEF SampleInvariant, Abort
<1>11. CASE EndRound
  BY <1>11 DEF EndRound, TypeOK
<1>12. ASSUME NEW w \in Workers, WorkerStep(w) PROVE Checks'
  BY <1>12, WorkerEffect DEF Barrier
<1>13. CASE UNCHANGED vars
  BY <1>13 DEF vars, mainVars
<1> QED BY <1>1, <1>2, <1>3, <1>4, <1>5, <1>6, <1>7, <1>8, <1>9, <1>10, <1>11,
           <1>12, <1>13 DEF Next, MainStep, Finished

-----------------------------------------------------------------------------
(* No failure of a round is lost.                                           *)

(* Receiving moves an error from the channel to `results`.                  *)
LEMMA ReceiveMovesError ==
    ASSUME TypeOK, Receive
    PROVE  results' \cup InTransit' = results \cup InTransit
<1> DEFINE Sent == [worker : Workers, kind : ErrorKinds \cup {"none"}]
<1> DEFINE Errors(q) == {q[k] : k \in {j \in 1..Len(q) : q[j].kind # "none"}}
<1>1. inbox \in Seq(Sent) /\ inbox # <<>> /\ inbox' = Tail(inbox)
  BY DEF Receive, TypeOK
<1> HIDE DEF Sent
<1>2. /\ Len(inbox) \in Nat \ {0} /\ Len(inbox') = Len(inbox) - 1
      /\ Head(inbox) = inbox[1]
      /\ \A k \in 1..Len(inbox') : inbox'[k] = inbox[k + 1]
  BY <1>1
<1>3. /\ \A k \in 1..Len(inbox') : k + 1 \in 1..Len(inbox)
      /\ \A k \in 1..Len(inbox) : k = 1 \/ (k - 1 \in 1..Len(inbox') /\ (k - 1) + 1 = k)
  BY <1>2
<1>4. InTransit = InTransit' \cup (IF Head(inbox).kind = "none" THEN {} ELSE {Head(inbox)})
  <2>1. InTransit' \subseteq InTransit
    BY <1>2, <1>3 DEF InTransit
  <2>2. Head(inbox).kind # "none" => Head(inbox) \in InTransit
    BY <1>2 DEF InTransit
  <2>3. ASSUME NEW e \in InTransit PROVE e \in InTransit' \/ (e = Head(inbox) /\ e.kind # "none")
    <3>1. PICK k \in 1..Len(inbox) : e = inbox[k] /\ inbox[k].kind # "none"
      BY <2>3 DEF InTransit
    <3>2. CASE k = 1
      BY <1>2, <3>1, <3>2
    <3>3. CASE k - 1 \in 1..Len(inbox') /\ (k - 1) + 1 = k
      <4>1. inbox'[k - 1] = e
        BY <1>2, <3>1, <3>3
      <4> QED BY <3>1, <3>3, <4>1 DEF InTransit
    <3> QED BY <1>3, <3>2, <3>3
  <2> QED BY <2>1, <2>2, <2>3
<1>5. results' = results \cup (IF Head(inbox).kind = "none" THEN {} ELSE {Head(inbox)})
  BY DEF Receive, Collected
<1> QED BY <1>4, <1>5

(* Returning an error puts it in the channel and in the history.            *)
LEMMA ReturnKeepsFailures ==
    ASSUME TypeOK, failed = results \cup InTransit, results' = results,
           NEW w \in Workers, NEW kind \in {"none"} \cup ErrorKinds, Return(w, kind)
    PROVE  failed' = results' \cup InTransit'
<1> DEFINE Sent == [worker : Workers, kind : ErrorKinds \cup {"none"}]
<1> DEFINE new == [worker |-> w, kind |-> kind]
<1>1. new \in Sent /\ new.kind = kind
  OBVIOUS
<1>2. inbox \in Seq(Sent) /\ inbox' = Append(inbox, new)
  BY DEF Return, TypeOK
<1>3. failed' = failed \cup (IF kind = "none" THEN {} ELSE {new})
  BY DEF Return
<1> HIDE DEF Sent, new
<1>4. /\ Len(inbox) \in Nat /\ Len(inbox') = Len(inbox) + 1
      /\ inbox'[Len(inbox) + 1] = new
      /\ \A k \in 1..Len(inbox) : inbox'[k] = inbox[k]
  BY <1>1, <1>2
<1>5. 1..Len(inbox') = 1..Len(inbox) \cup {Len(inbox) + 1}
  BY <1>4
<1>6. InTransit' = InTransit \cup (IF kind = "none" THEN {} ELSE {new})
  <2>1. InTransit \subseteq InTransit'
    BY <1>4, <1>5 DEF InTransit
  <2>2. kind # "none" => new \in InTransit'
    BY <1>1, <1>4, <1>5 DEF InTransit
  <2>3. ASSUME NEW e \in InTransit' PROVE e \in InTransit \/ (e = new /\ kind # "none")
    <3>1. PICK k \in 1..Len(inbox') : e = inbox'[k] /\ inbox'[k].kind # "none"
      BY <2>3 DEF InTransit
    <3>2. CASE k \in 1..Len(inbox)
      BY <1>4, <3>1, <3>2 DEF InTransit
    <3>3. CASE k = Len(inbox) + 1
      BY <1>1, <1>4, <3>1, <3>3
    <3> QED BY <1>5, <3>2, <3>3
  <2> QED BY <2>1, <2>2, <2>3
<1> QED BY <1>3, <1>6

LEMMA FailuresNext ==
    ASSUME TypeOK, Barrier, FailuresTracked, [Next]_vars
    PROVE  FailuresTracked'
<1> USE DEF FailuresTracked
<1>1. CASE StartWorkers
  <2>1. InTransit' = {}
    BY <1>1 DEF StartWorkers, Barrier, InvariantsRunAlone, InTransit
  <2> QED BY <1>1, <2>1 DEF StartWorkers
<1>2. CASE Receive
  <2>1. pc = "wait" /\ pc' = "wait" /\ failed' = failed
    BY <1>2 DEF Receive, mainVars
  <2> QED BY <1>2, <2>1, ReceiveMovesError
<1>3. CASE Join
  BY <1>3 DEF Join, joinVars, InTransit
<1>4. CASE Inspect
  <2>1. pc = "join" /\ failed' = failed
    BY <1>4 DEF Inspect, joinVars
  <2>2. InTransit = {}
    BY <2>1 DEF Barrier, InvariantsRunAlone, InTransit
  <2>3. failed = results
    BY <2>1, <2>2
  <2>4. CASE results = {}
    BY <1>4, <2>1, <2>3, <2>4 DEF Inspect
  <2>5. CASE results # {}
    BY <1>4, <2>1, <2>3, <2>5 DEF Inspect, Abort
  <2> QED BY <2>4, <2>5
<1>5. ASSUME MainStep, OutsideWait, ~Inspect PROVE FailuresTracked'
  <2>1. /\ pc \in {"new", "initial", "group", "clone", "sample", "final"}
        /\ pc' # "join"
    BY <1>5 DEF MainStep, NewMachine, CheckAll, InvokeInvariant, AllChecked,
                NextGroup, CloneWorker, StartWorkers, Receive, Join,
                SampleInvariant, EndRound, Abort, OutsideWait
  <2>2. failed' = {}
    BY <1>5, <2>1 DEF OutsideWait, joinVars
  <2> QED BY <1>5, <2>1, <2>2 DEF OutsideWait
<1>6. ASSUME NEW w \in Workers, WorkerStep(w) PROVE FailuresTracked'
  <2>1. /\ pc = "wait" /\ pc' \in {"wait", "crashed"} /\ results' = results
        /\ \/ UNCHANGED <<inbox, failed>>
           \/ \E kind \in {"none"} \cup ErrorKinds : Return(w, kind)
    BY <1>6, WorkerEffect DEF Barrier
  <2>2. CASE UNCHANGED <<inbox, failed>>
    BY <2>1, <2>2 DEF InTransit
  <2>3. CASE \E kind \in {"none"} \cup ErrorKinds : Return(w, kind)
    BY <2>1, <2>3, ReturnKeepsFailures
  <2> QED BY <2>1, <2>2, <2>3
<1>7. CASE UNCHANGED vars
  BY <1>7 DEF vars, mainVars, joinVars, InTransit
<1> QED BY <1>1, <1>2, <1>3, <1>4, <1>5, <1>6, <1>7, MainEffect DEF Next, Finished

-----------------------------------------------------------------------------
(* The invariant and what it implies.                                       *)

LEMMA InvInit == Init => IInv
<1> SUFFICES ASSUME Init PROVE IInv
  OBVIOUS
<1>1. RulesInGroup /\ ClonesLive
  BY DEF Init, RulesInGroup, ClonesLive
<1>2. AlwaysCheckedAtJoins /\ CheckedSoFar
  BY MachineAssumption DEF Init, AlwaysCheckedAtJoins, CheckedSoFar
<1>3. FailuresTracked
  BY DEF Init, FailuresTracked
<1> QED BY <1>1, <1>2, <1>3, TypeInit, BarrierInit DEF IInv

LEMMA InvNext == IInv /\ [Next]_vars => IInv'
<1> SUFFICES ASSUME IInv, [Next]_vars PROVE IInv'
  OBVIOUS
<1>1. TypeOK' /\ Barrier'
  BY TypeNext, BarrierNext DEF IInv, Barrier
<1>2. RulesInGroup' /\ ClonesLive'
  BY RulesInGroupNext, ClonesLiveNext DEF IInv
<1>3. AlwaysCheckedAtJoins' /\ CheckedSoFar' /\ FailuresTracked'
  BY ChecksNext, FailuresNext DEF IInv, Checks
<1> QED BY <1>1, <1>2, <1>3 DEF IInv

LEMMA InvHandles == ASSUME IInv PROVE HandlesFollowWorkers
<1>1. ASSUME NEW w \in Workers, wpc[w] \in {"draw", "rule", "reject"}
      PROVE  handle[w] = "live"
  <2>1. pc \in {"wait", "crashed"}
    BY <1>1 DEF IInv, Barrier, InvariantsRunAlone
  <2>2. w \in Team
    BY <1>1, WorkerFacts, MachineAssumption DEF IInv, TypeOK, Team
  <2> QED BY <1>1, <2>1, <2>2 DEF IInv, ClonesLive
<1> QED BY <1>1 DEF IInv, ClonesLive, HandlesFollowWorkers

LEMMA InvFailures == ASSUME IInv PROVE FailuresAccountedFor
<1>1. failed # {} => pc \in {"wait", "join", "aborted", "crashed"}
  BY DEF IInv, TypeOK, FailuresTracked
<1>2. ASSUME pc = "aborted", failed # {}
      PROVE  /\ outcome \in failed
             /\ \A f \in failed \ {outcome} :
                  /\ outcome.kind = "user" => f.kind = "user"
                  /\ outcome.kind = "assume" => f.kind \in {"assume", "user"}
                  /\ outcome.kind = "overrun" => f.kind # "control"
                  /\ outcome.kind = f.kind => outcome.worker < f.worker
                  /\ f.kind = "user" => f.worker \in dropped
  <2>1. outcome = Selected(failed) /\ dropped = DroppedWorkers(failed)
    BY <1>2 DEF IInv, FailuresTracked
  <2>2. failed \subseteq Results
    BY WorkerFacts DEF IInv, TypeOK
  <2>3. outcome \in failed /\ \A f \in failed \ {outcome} : Before(outcome, f)
    BY <1>2, <2>1, <2>2, SelectedIsLeast
  <2>4. ASSUME NEW f \in failed \ {outcome}
        PROVE  /\ outcome.kind = "user" => f.kind = "user"
               /\ outcome.kind = "assume" => f.kind \in {"assume", "user"}
               /\ outcome.kind = "overrun" => f.kind # "control"
               /\ outcome.kind = f.kind => outcome.worker < f.worker
    <3>1. Before(outcome, f) /\ f.kind \in ErrorKinds /\ outcome.kind \in ErrorKinds
      BY <2>2, <2>3, <2>4 DEF Results
    <3> QED BY <3>1 DEF Before, Priority, ErrorKinds
  <2>5. ASSUME NEW f \in failed \ {outcome}, f.kind = "user"
        PROVE  f.worker \in dropped
    BY <2>1, <2>5 DEF DroppedWorkers
  <2> QED BY <2>3, <2>4, <2>5
<1> QED BY <1>1, <1>2 DEF FailuresAccountedFor

(* Every step of Run, of the main goroutine or of a worker, preserves IInv. *)
THEOREM Invariance == Spec => []IInv
BY InvInit, InvNext, PTL DEF Spec

(* Every reachable state of Run has the types of its variables.             *)
THEOREM TypeCorrect == Spec => []TypeOK
<1>1. IInv => TypeOK
  BY DEF IInv
<1> QED BY <1>1, Invariance, PTL

(* WithRuleGroup: rules in different groups never overlap, for any machine. *)
THEOREM GroupsSafe == Spec => []GroupsNeverOverlap
<1>1. IInv => GroupsNeverOverlap
  BY DEF IInv, RulesInGroup, GroupsNeverOverlap
<1> QED BY <1>1, Invariance, PTL

(* WithConcurrency: whatever the main goroutine does outside Wait, it is    *)
(* alone and the channel it will reuse is empty.                            *)
THEOREM InvariantsSafe == Spec => []InvariantsRunAlone
<1>1. IInv => InvariantsRunAlone
  BY DEF IInv, Barrier
<1> QED BY <1>1, Invariance, PTL

(* No worker uses a freed clone and no clone outlives its round.            *)
THEOREM HandlesSafe == Spec => []HandlesFollowWorkers
BY InvHandles, Invariance, PTL

(* WithAlwaysCheckInvariants: every join point is seen by all of them.      *)
THEOREM ChecksSafe == Spec => []AlwaysCheckedAtJoins
<1>1. IInv => AlwaysCheckedAtJoins
  BY DEF IInv
<1> QED BY <1>1, Invariance, PTL

(* The run ends with the error Wait's order selects among all the errors of *)
(* the round, and the user failures it hides are logged.                    *)
THEOREM FailuresSafe == Spec => []FailuresAccountedFor
BY InvFailures, Invariance, PTL

-----------------------------------------------------------------------------
(* Run implements RuleRounds, for every machine: the proof behind the       *)
(* refinement that TLC checks on a small one.  Each step of StatefulRun     *)
(* maps to one of RuleRounds or changes none of its variables.              *)

(* Where no worker runs, no rule does.                                      *)
LEMMA NoneRunning ==
    ASSUME TypeOK, RulesInGroup, \A w \in Workers : wpc[w] = "idle"
    PROVE  Rounds!Quiet /\ rule = [w \in Workers |-> NoRule]
BY DEF RulesInGroup, TypeOK, Rounds!Quiet

LEMMA RoundsInit == Init => Rounds!Init
BY DEF Init, Rounds!Init, Rounds!NoGroup

(* An invariant runs alone, between rounds.                                 *)
LEMMA InvariantLooks ==
    ASSUME IInv, pc \in {"initial", "final", "sample"}, invariant \in Invariants,
           InvokeInvariant, rule' = rule
    PROVE  Rounds!Next
<1>1. \A w \in Workers : wpc[w] = "idle"
  BY DEF IInv, Barrier, InvariantsRunAlone
<1>2. Rounds!Quiet
  BY <1>1, NoneRunning DEF IInv
<1>3. pc' \notin {"wait", "crashed"} /\ checked' = checked \cup {invariant}
  BY DEF InvokeInvariant, Abort
<1>4. Rounds!Look(invariant)
  BY <1>2, <1>3 DEF Rounds!Look, Rounds!NoGroup
<1> QED BY <1>4 DEF Rounds!Next

(* A worker's result ends the rule it was in, if any.                       *)
LEMMA ReturnFinishes ==
    ASSUME IInv, NEW w \in Workers, NEW kind, Return(w, kind), pc = "wait",
           UNCHANGED <<pc, group, checked>>
    PROVE  Rounds!Next \/ UNCHANGED Rounds!vars
<1>1. rule' = [rule EXCEPT ![w] = NoRule]
  BY DEF Return
<1>2. CASE rule[w] = NoRule
  <2>1. rule' = rule
    BY <1>1, <1>2 DEF IInv, TypeOK
  <2> QED BY <2>1 DEF Rounds!vars
<1>3. CASE rule[w] # NoRule
  <2>1. Rounds!Finish(w)
    BY <1>1, <1>3 DEF Rounds!Finish
  <2> QED BY <2>1 DEF Rounds!Next
<1> QED BY <1>2, <1>3

LEMMA WorkerStepRefines ==
    ASSUME IInv, NEW w \in Workers, WorkerStep(w)
    PROVE  Rounds!Next \/ UNCHANGED Rounds!vars
<1>1. /\ pc = "wait" /\ pc' \in {"wait", "crashed"} /\ group' = group
      /\ checked' = checked
  BY WorkerEffect DEF IInv, Barrier
<1>2. CASE NextRule(w)
  <2>1. CASE \E kind \in {"none"} \cup EngineErrors : Return(w, kind)
    BY <1>1, <1>2, <2>1, ReturnFinishes DEF NextRule, mainVars
  <2>2. ASSUME NEW r \in {q \in Rules : RuleGroup[q] = group},
               rule' = [rule EXCEPT ![w] = r]
        PROVE  Rounds!Next
    <3>1. rule[w] = NoRule
      BY <1>2 DEF NextRule, IInv, RulesInGroup
    <3>2. Rounds!Start(w, r)
      BY <1>1, <2>2, <3>1 DEF Rounds!Start
    <3> QED BY <3>2 DEF Rounds!Next
  <2> QED BY <1>2, <2>1, <2>2 DEF NextRule
<1>3. CASE FinishRule(w)
  <2>1. CASE \E kind \in BodyErrors : Return(w, kind)
    BY <1>1, <1>3, <2>1, ReturnFinishes DEF FinishRule, mainVars
  <2>2. CASE rule' = [rule EXCEPT ![w] = NoRule]
    <3>1. rule[w] # NoRule
      BY <1>3, MachineAssumption DEF FinishRule, IInv, RulesInGroup
    <3>2. Rounds!Finish(w)
      BY <1>1, <2>2, <3>1 DEF Rounds!Finish
    <3> QED BY <3>2 DEF Rounds!Next
  <2> QED BY <1>3, <2>1, <2>2 DEF FinishRule
<1>4. CASE CrashInRule(w)
  BY <1>1, <1>4 DEF CrashInRule, workVars, Rounds!vars
<1>5. CASE RejectRule(w)
  <2>1. CASE \E kind \in EngineErrors : Return(w, kind)
    BY <1>1, <1>5, <2>1, ReturnFinishes DEF RejectRule, mainVars
  <2>2. CASE rule' = rule
    BY <1>1, <1>5, <2>2 DEF RejectRule, mainVars, Rounds!vars
  <2> QED BY <1>5, <2>1, <2>2 DEF RejectRule
<1> QED BY <1>2, <1>3, <1>4, <1>5 DEF WorkerStep

LEMMA MainStepRefines ==
    ASSUME IInv, MainStep
    PROVE  Rounds!Next \/ UNCHANGED Rounds!vars
<1> USE DEF Rounds!vars, Abort
<1>1. CASE NewMachine
  BY <1>1 DEF NewMachine, workVars
<1>2. CASE CheckAll
  BY <1>2, InvariantLooks DEF CheckAll, workVars
<1>3. CASE AllChecked
  BY <1>3 DEF AllChecked, workVars
<1>4. CASE NextGroup
  BY <1>4 DEF NextGroup, workVars
<1>5. ASSUME NEW w \in Team, CloneWorker(w) PROVE UNCHANGED Rounds!vars
  BY <1>5 DEF CloneWorker, workVars
<1>6. CASE StartWorkers
  <2>1. pc = "clone" /\ pc' = "wait" /\ group' = group /\ checked' = {}
        /\ rule' = [w \in Workers |-> NoRule]
    BY <1>6 DEF StartWorkers
  <2>2. group \in Groups
    BY <2>1 DEF IInv, RulesInGroup
  <2>3. rule' = rule
    BY <2>1, NoneRunning DEF IInv, Barrier, InvariantsRunAlone
  <2>4. Rounds!Open
    BY <2>1, <2>2, <2>3 DEF Rounds!Open, Rounds!NoGroup, Groups
  <2> QED BY <2>4 DEF Rounds!Next
<1>7. CASE Receive
  BY <1>7 DEF Receive, mainVars
<1>8. CASE Join
  <2>1. pc = "wait" /\ pc' = "join"
        /\ UNCHANGED <<group, rule, checked>>
    BY <1>8 DEF Join, workVars
  <2>2. Rounds!Quiet
    BY <1>8, <2>1, ReceivedAll, NoneRunning DEF IInv, Barrier, Join
  <2>3. group # -1
    BY DEF IInv, TypeOK
  <2>4. Rounds!Close
    BY <2>1, <2>2, <2>3 DEF Rounds!Close, Rounds!NoGroup
  <2> QED BY <2>4 DEF Rounds!Next
<1>9. CASE Inspect
  BY <1>9 DEF Inspect, workVars
<1>10. CASE SampleInvariant
  <2>1. CASE InvokeInvariant
    BY <1>10, <2>1, InvariantLooks DEF SampleInvariant, workVars
  <2>2. CASE checked' = checked /\ pc' \in {pc, "aborted"}
    BY <1>10, <2>2 DEF SampleInvariant, workVars
  <2> QED BY <1>10, <2>1, <2>2 DEF SampleInvariant
<1>11. CASE EndRound
  BY <1>11 DEF EndRound, workVars
<1> QED BY <1>1, <1>2, <1>3, <1>4, <1>5, <1>6, <1>7, <1>8, <1>9, <1>10, <1>11
        DEF MainStep

LEMMA StepRefines == IInv /\ [Next]_vars => [Rounds!Next]_(Rounds!vars)
<1> SUFFICES ASSUME IInv, [Next]_vars
             PROVE  Rounds!Next \/ UNCHANGED Rounds!vars
  OBVIOUS
<1>1. CASE UNCHANGED vars
  BY <1>1 DEF vars, mainVars, workVars, Rounds!vars
<1> QED BY <1>1, MainStepRefines, WorkerStepRefines DEF Next, Finished

(* Every behaviour of Run is, for the user's code, one of RuleRounds.       *)
THEOREM RunImplementsRuleRounds == Spec => ImplementsRuleRounds
<1>1. Spec => Init /\ [][Next]_vars
  BY PTL DEF Spec
<1> QED BY <1>1, RoundsInit, StepRefines, Invariance, PTL
        DEF ImplementsRuleRounds, Rounds!Spec

-----------------------------------------------------------------------------
(* The run of a machine that RunStateful makes first: until then nothing of *)
(* Run has happened, and a machine that is refused aborts the test case.    *)

MachineInv == IInv /\ (machine.at = "asked" => Init)

LEMMA RefusedKeeps ==
    ASSUME Init, Abort(Failure("panic")),
           UNCHANGED <<policy, concurrency, round, group, invariant, handle, workVars,
                       joinVars, checked, dropped>>
    PROVE  IInv' /\ UNCHANGED Rounds!vars
<1>1. IInv /\ pc = "new" /\ pc' = "aborted" /\ failed = {}
  BY InvInit DEF Init, Abort
<1>2. /\ UNCHANGED <<policy, concurrency, round, group, invariant, handle, wpc, rule, drawn>>
      /\ UNCHANGED <<inbox, received, results, failed, checked, dropped>>
  BY DEF workVars, joinVars
<1>3. TypeOK'
  BY <1>1, <1>2, FailureType DEF IInv, TypeOK, Abort
<1>4. Barrier'
  BY <1>1, <1>2 DEF IInv, Barrier, InvariantsRunAlone, OneResultEach, Counted, Init
<1>5. RulesInGroup' /\ ClonesLive'
  BY <1>1, <1>2 DEF IInv, RulesInGroup, ClonesLive, Init
<1>6. AlwaysCheckedAtJoins' /\ CheckedSoFar' /\ FailuresTracked'
  BY <1>1, <1>2 DEF AlwaysCheckedAtJoins, CheckedSoFar, FailuresTracked
<1>7. UNCHANGED Rounds!vars
  BY <1>1, <1>2 DEF Rounds!vars
<1> QED BY <1>3, <1>4, <1>5, <1>6, <1>7 DEF IInv

LEMMA MachineNext ==
    ASSUME MachineInv, [RunNext]_runVars
    PROVE  MachineInv' /\ ([Next]_vars \/ UNCHANGED Rounds!vars)
<1>1. CASE Configure
  <2>1. Init /\ machine'.at # "asked"
    BY <1>1 DEF MachineInv, Configure
  <2>2. \/ UNCHANGED vars
        \/ /\ Abort(Failure("panic"))
           /\ UNCHANGED <<policy, concurrency, round, group, invariant, handle,
                          workVars, joinVars, checked, dropped>>
    BY <1>1 DEF Configure, vars, mainVars
  <2>3. CASE UNCHANGED vars
    BY <2>1, <2>3, InvNext DEF MachineInv
  <2>4. CASE /\ Abort(Failure("panic"))
             /\ UNCHANGED <<policy, concurrency, round, group, invariant, handle,
                            workVars, joinVars, checked, dropped>>
    BY <2>1, <2>4, RefusedKeeps DEF MachineInv
  <2> QED BY <2>2, <2>3, <2>4
<1>2. CASE StartRun
  <2>1. machine'.at # "asked" /\ UNCHANGED vars
    BY <1>2 DEF StartRun, Run
  <2> QED BY <2>1, InvNext DEF MachineInv
<1>3. CASE machine = Run /\ Next /\ UNCHANGED machine
  <2>1. machine'.at # "asked"
    BY <1>3 DEF Run
  <2> QED BY <1>3, <2>1, InvNext DEF MachineInv
<1>4. CASE UNCHANGED runVars
  <2>1. UNCHANGED vars /\ UNCHANGED machine
    BY <1>4 DEF runVars
  <2>2. Init => Init'
    BY <2>1 DEF Init, vars, mainVars, workVars, joinVars
  <2> QED BY <2>1, <2>2, InvNext DEF MachineInv
<1> QED BY <1>1, <1>2, <1>3, <1>4 DEF RunNext, InRun, Next

LEMMA MachineInvariance == RunSpec => []MachineInv
<1>1. RunInit => MachineInv
  BY InvInit DEF RunInit, MachineInv
<1>2. RunSpec => RunInit /\ [][RunNext]_runVars
  BY PTL DEF RunSpec
<1> QED BY <1>1, <1>2, MachineNext, PTL

(* RunStateful: whatever machines and options it is called with, the test   *)
(* case is safe while the machine is made and while it runs.                *)
THEOREM MachinesRunSafely ==
    RunSpec => [](/\ TypeOK /\ GroupsNeverOverlap /\ InvariantsRunAlone
                  /\ HandlesFollowWorkers /\ AlwaysCheckedAtJoins
                  /\ FailuresAccountedFor)
<1>1. MachineInv => /\ TypeOK /\ GroupsNeverOverlap /\ InvariantsRunAlone
                    /\ HandlesFollowWorkers /\ AlwaysCheckedAtJoins
                    /\ FailuresAccountedFor
  BY InvHandles, InvFailures
  DEF MachineInv, IInv, Barrier, RulesInGroup, GroupsNeverOverlap
<1> QED BY <1>1, MachineInvariance, PTL

(* And what the user's code sees of it is RuleRounds.                       *)
THEOREM MachinesImplementRuleRounds == RunSpec => ImplementsRuleRounds
<1>1. MachineInv /\ [RunNext]_runVars => [Rounds!Next]_(Rounds!vars)
  BY MachineNext, StepRefines DEF MachineInv
<1>2. RunInit => Rounds!Init
  BY RoundsInit DEF RunInit
<1>3. RunSpec => RunInit /\ [][RunNext]_runVars
  BY PTL DEF RunSpec
<1> QED BY <1>1, <1>2, <1>3, MachineInvariance, PTL
        DEF ImplementsRuleRounds, Rounds!Spec

-----------------------------------------------------------------------------
(* newStateMachine: what its loops make of the methods and the options, and *)
(* that it is what AsAsked says of them.  A loop is a fold of Folds over    *)
(* the places of a sequence; its results after each element are those of    *)
(* one step after the other (InTurn), about which the number of elements is *)
(* an induction.                                                            *)

LEMMA GreatestOf ==
    ASSUME NEW n \in Nat, NEW s \in SUBSET (1..n), s # {}
    PROVE  Config!Max(s) \in s /\ \A i \in s : i <= Config!Max(s)
<1> DEFINE D == {n - i : i \in s}
<1>1. D \subseteq Nat /\ D # {}
  <2>1. \A i \in s : n - i \in Nat
    OBVIOUS
  <2>2. PICK i : i \in s
    OBVIOUS
  <2>3. n - i \in D
    BY <2>2
  <2> QED BY <2>1, <2>3
<1>2. PICK d \in D : \A e \in D : d <= e
  <2> HIDE DEF D
  <2> QED BY <1>1, LeastNatural
<1>3. PICK i \in s : d = n - i
  BY <1>2
<1>4. ASSUME NEW j \in s PROVE i >= j
  <2>1. n - j \in D
    OBVIOUS
  <2>2. d <= n - j
    BY <1>2, <2>1
  <2>3. i \in Int /\ j \in Int
    OBVIOUS
  <2> HIDE DEF D
  <2> QED BY <1>3, <2>2, <2>3
<1> DEFINE Top(m) == \A j \in s : m >= j
<1>5. \E m \in s : Top(m)
  BY <1>4
<1>6. Config!Max(s) \in s /\ Top(Config!Max(s))
  <2>1. Config!Max(s) = CHOOSE m \in s : Top(m)
    BY Zenon DEF Config!Max
  <2> HIDE DEF Top
  <2> QED BY <1>5, <2>1
<1>7. \A j \in s : j \in Int
  OBVIOUS
<1> QED BY <1>6, <1>7

(* A fold takes the elements of a sequence in turn: Turn is what it does    *)
(* with one of them.                                                        *)
Turn(how, was, x) ==
    CASE how.of = "options" -> Config!Applied(was, x)
      [] how.of = "methods" -> Config!Found(how.prefix, was, x)
      [] how.of = "names" -> Config!Put(how.rules, how.number, was, x)
      [] how.of = "groups" -> Config!Fill(how.rules, how.configured, was, x)

TurnsOf(how, base, seq, f, n) ==
    \A s \in SUBSET (1..n) :
        f[s] = IF s = {} THEN base
               ELSE Turn(how, f[s \ {Config!Max(s)}], seq[Config!Max(s)])

LEMMA TurnsExist ==
    ASSUME NEW how, NEW base, NEW seq, NEW n \in Nat
    PROVE  \E f : f = [s \in SUBSET (1..n) |-> f[s]] /\ TurnsOf(how, base, seq, f, n)
<1> DEFINE Bad == {k \in 0..n : ~\E f : TurnsOf(how, base, seq, f, k)}
<1>1. Bad = {}
  <2> SUFFICES ASSUME Bad # {} PROVE FALSE
    OBVIOUS
  <2>1. PICK k \in Bad : \A j \in Bad : k <= j
    <3> Bad \subseteq Nat
      OBVIOUS
    <3> HIDE DEF Bad
    <3> QED BY LeastNatural
  <2>2. k # 0
    <3> SUFFICES \E f : TurnsOf(how, base, seq, f, 0)
      BY <2>1
    <3> DEFINE f == [s \in SUBSET (1..0) |-> base]
    <3>1. \A s \in SUBSET (1..0) : s = {}
      OBVIOUS
    <3>2. \A s \in SUBSET (1..0) : f[s] = base
      OBVIOUS
    <3> HIDE DEF f
    <3> QED BY Zenon, <3>1, <3>2 DEF TurnsOf
  <2>3. k \in Nat /\ k - 1 \in Nat /\ k - 1 \notin Bad /\ k - 1 \in 0..n
    BY <2>1, <2>2
  <2>4. PICK f : TurnsOf(how, base, seq, f, k - 1)
    BY <2>3
  <2> DEFINE h == [s \in SUBSET (1..k) |->
                     IF k \in s THEN Turn(how, f[s \ {k}], seq[k]) ELSE f[s]]
  <2>5. \A s \in SUBSET (1..k) :
          h[s] = IF k \in s THEN Turn(how, f[s \ {k}], seq[k]) ELSE f[s]
    OBVIOUS
  <2> HIDE DEF h, Bad
  <2>6. TurnsOf(how, base, seq, h, k)
    <3> SUFFICES ASSUME NEW s \in SUBSET (1..k)
                 PROVE  h[s] = IF s = {} THEN base
                               ELSE Turn(how, h[s \ {Config!Max(s)}], seq[Config!Max(s)])
      BY DEF TurnsOf
    <3>1. CASE k \in s
      <4>1. Config!Max(s) \in s /\ k <= Config!Max(s)
        BY <2>3, <3>1, GreatestOf
      <4>2. Config!Max(s) = k
        <5>1. PICK m : m = Config!Max(s)
          OBVIOUS
        <5>2. m \in 1..k /\ k <= m
          BY <4>1, <5>1
        <5>3. m = k
          BY <2>3, <5>2
        <5> QED BY <5>1, <5>3
      <4>3. h[s \ {k}] = f[s \ {k}]
        BY <2>5
      <4>4. h[s] = Turn(how, f[s \ {k}], seq[k]) /\ s # {}
        BY <2>5, <3>1
      <4> QED BY <4>2, <4>3, <4>4
    <3>2. CASE k \notin s
      <4>1. s \in SUBSET (1..k - 1)
        BY <2>3, <3>2
      <4>2. h[s] = f[s] /\ \A i : h[s \ {i}] = f[s \ {i}]
        <5>1. \A i : s \ {i} \in SUBSET (1..k) /\ k \notin s \ {i}
          BY <3>2
        <5> QED BY <2>5, <3>2, <5>1
      <4>3. f[s] = IF s = {} THEN base
                   ELSE Turn(how, f[s \ {Config!Max(s)}], seq[Config!Max(s)])
        BY Zenon, <2>4, <4>1 DEF TurnsOf
      <4> QED BY Zenon, <4>2, <4>3
    <3> QED BY <3>1, <3>2
  <2> QED BY <2>1, <2>6 DEF Bad
<1>2. n \in 0..n /\ n \notin Bad
  BY <1>1
<1>3. PICK f : TurnsOf(how, base, seq, f, n)
  BY <1>2
<1> DEFINE g == [s \in SUBSET (1..n) |-> f[s]]
<1>4. \A s \in SUBSET (1..n) : g[s] = f[s] /\ \A i : g[s \ {i}] = f[s \ {i}]
  <2> TAKE s \in SUBSET (1..n)
  <2>1. \A i : s \ {i} \in SUBSET (1..n)
    OBVIOUS
  <2> QED BY <2>1
<1>5. g = [s \in SUBSET (1..n) |-> g[s]]
  OBVIOUS
<1> HIDE DEF g
<1>6. TurnsOf(how, base, seq, g, n)
  <2> SUFFICES ASSUME NEW s \in SUBSET (1..n)
               PROVE  g[s] = IF s = {} THEN base
                             ELSE Turn(how, g[s \ {Config!Max(s)}], seq[Config!Max(s)])
    BY DEF TurnsOf
  <2>1. f[s] = IF s = {} THEN base
               ELSE Turn(how, f[s \ {Config!Max(s)}], seq[Config!Max(s)])
    BY Zenon, <1>3 DEF TurnsOf
  <2> QED BY Zenon, <1>4, <2>1
<1> QED BY Zenon, <1>5, <1>6

(* One after the other.                                                     *)
InTurn(how, base, seq, g, n) ==
    g[0] = base /\ \A k \in 0..n - 1 : g[k + 1] = Turn(how, g[k], seq[k + 1])

LEMMA OneAfterTheOther ==
    ASSUME NEW how, NEW base, NEW seq, NEW n \in Nat, NEW f, TurnsOf(how, base, seq, f, n)
    PROVE  \E g : InTurn(how, base, seq, g, n) /\ g[n] = f[1..n]
<1> DEFINE g == [k \in 0..n |-> f[1..k]]
<1>1. \A k \in 0..n : g[k] = f[1..k]
  OBVIOUS
<1>2. 0 \in 0..n /\ n \in 0..n /\ 1..0 = {} /\ {} \in SUBSET (1..n)
  OBVIOUS
<1> HIDE DEF g
<1>3. g[0] = base
  <2>1. f[{}] = base
    BY Zenon, <1>2 DEF TurnsOf
  <2> QED BY Zenon, <1>1, <1>2, <2>1
<1>4. ASSUME NEW k \in 0..n - 1 PROVE g[k + 1] = Turn(how, g[k], seq[k + 1])
  <2> DEFINE s == 1..k + 1
  <2>1. /\ s \in SUBSET (1..n) /\ s # {} /\ s \ {k + 1} = 1..k
        /\ k \in 0..n /\ k + 1 \in 0..n /\ k + 1 \in Nat
    OBVIOUS
  <2>2. Config!Max(s) = k + 1
    <3>1. Config!Max(s) \in s /\ \A i \in s : i <= Config!Max(s)
      <4> HIDE DEF s
      <4> QED BY <2>1, GreatestOf
    <3>2. k + 1 \in s
      OBVIOUS
    <3>3. PICK m : m = Config!Max(s)
      OBVIOUS
    <3>4. m \in 1..k + 1 /\ k + 1 <= m
      BY <3>1, <3>2, <3>3
    <3>5. m = k + 1
      BY <3>4
    <3> QED BY <3>3, <3>5
  <2>3. g[k + 1] = f[s] /\ g[k] = f[1..k]
    BY <1>1, <2>1
  <2> HIDE DEF s
  <2>4. f[s] = Turn(how, f[s \ {Config!Max(s)}], seq[Config!Max(s)])
    BY Zenon, <2>1 DEF TurnsOf
  <2> QED BY Zenon, <2>1, <2>2, <2>3, <2>4
<1>5. g[n] = f[1..n]
  BY Zenon, <1>1, <1>2
<1>6. InTurn(how, base, seq, g, n)
  BY Zenon, <1>3, <1>4 DEF InTurn
<1> QED BY Zenon, <1>5, <1>6

LEMMA OptionsInTurn ==
    ASSUME NEW options, NEW n \in Nat, DOMAIN options = 1..n
    PROVE  \E g : /\ InTurn([of |-> "options"], Config!NewMachine, options, g, n)
                 /\ Config!FoldLeft(Config!Applied, Config!NewMachine, options) = g[n]
<1> DEFINE S == SUBSET (1..n)
           How == [of |-> "options"]
           Base == Config!NewMachine
           Given == options
           Body(f, s) == IF s = {} THEN Base
                         ELSE Config!Applied(f[s \ {Config!Max(s)}], options[Config!Max(s)])
           P(f) == f = [s \in S |-> Body(f, s)]
           iter == CHOOSE f : P(f)
<1>1. PICK f : f = [s \in S |-> f[s]] /\ TurnsOf(How, Base, options, f, n)
  <2> HIDE DEF How, Base
  <2> QED BY Zenon, TurnsExist
<1>2. \A h, s : Body(h, s) = IF s = {} THEN Base
                            ELSE Turn(How, h[s \ {Config!Max(s)}],
                                      options[Config!Max(s)])
  <2> TAKE h, s
  <2> QED BY DEF Turn
<1>3. \A h : TurnsOf(How, Base, options, h, n) <=> \A s \in S : h[s] = Body(h, s)
  <2> HIDE DEF Body, How, Base
  <2> QED BY Zenon, <1>2 DEF TurnsOf
<1>4. P(f)
  <2>1. \A s \in S : f[s] = Body(f, s)
    <3> HIDE DEF Body, How, Base, S
    <3> QED BY Zenon, <1>1, <1>3
  <2>2. [s \in S |-> f[s]] = [s \in S |-> Body(f, s)]
    <3> HIDE DEF Body, S
    <3> QED BY <2>1
  <2> HIDE DEF Body, S
  <2> QED BY Zenon, <1>1, <2>2
<1>5. P(iter)
  <2> HIDE DEF P
  <2> QED BY Zenon, <1>4
<1>6. TurnsOf(How, Base, options, iter, n)
  <2>1. \A s \in S : iter[s] = Body(iter, s)
    <3> HIDE DEF iter, Body, S
    <3> QED BY <1>5
  <2> HIDE DEF iter, Body, How, Base, S
  <2> QED BY Zenon, <1>3, <2>1
<1>7. TurnsOf(How, Base, Given, iter, n)
  BY <1>6
<1>8. Config!FoldLeft(Config!Applied, Config!NewMachine, options) = iter[1..n]
  BY Zenon DEF Config!FoldLeft, Config!MapThenFoldSet
<1>9. \E g : InTurn(How, Base, Given, g, n) /\ g[n] = iter[1..n]
  <2> HIDE DEF iter, How, Base, Given
  <2> HIDE DEF S, Body, P
  <2> QED BY <1>7, OneAfterTheOther
<1> HIDE DEF iter
<1> QED BY Zenon, <1>8, <1>9

LEMMA MethodsInTurn ==
    ASSUME NEW methods, NEW prefix, NEW n \in Nat, DOMAIN methods = 1..n
    PROVE  \E g : /\ InTurn([of |-> "methods", prefix |-> prefix], <<>>, methods, g, n)
                 /\ Config!Discovered(methods, prefix) = g[n]
<1> DEFINE S == SUBSET (1..n)
           How == [of |-> "methods", prefix |-> prefix]
           Base == <<>>
           Given == methods
           Body(f, s) == IF s = {} THEN Base
                         ELSE Config!Found(prefix, f[s \ {Config!Max(s)}], methods[Config!Max(s)])
           P(f) == f = [s \in S |-> Body(f, s)]
           iter == CHOOSE f : P(f)
<1>1. PICK f : f = [s \in S |-> f[s]] /\ TurnsOf(How, Base, methods, f, n)
  <2> HIDE DEF How, Base
  <2> QED BY Zenon, TurnsExist
<1>2. \A h, s : Body(h, s) = IF s = {} THEN Base
                            ELSE Turn(How, h[s \ {Config!Max(s)}],
                                      methods[Config!Max(s)])
  <2> TAKE h, s
  <2> QED BY DEF Turn
<1>3. \A h : TurnsOf(How, Base, methods, h, n) <=> \A s \in S : h[s] = Body(h, s)
  <2> HIDE DEF Body, How, Base
  <2> QED BY Zenon, <1>2 DEF TurnsOf
<1>4. P(f)
  <2>1. \A s \in S : f[s] = Body(f, s)
    <3> HIDE DEF Body, How, Base, S
    <3> QED BY Zenon, <1>1, <1>3
  <2>2. [s \in S |-> f[s]] = [s \in S |-> Body(f, s)]
    <3> HIDE DEF Body, S
    <3> QED BY <2>1
  <2> HIDE DEF Body, S
  <2> QED BY Zenon, <1>1, <2>2
<1>5. P(iter)
  <2> HIDE DEF P
  <2> QED BY Zenon, <1>4
<1>6. TurnsOf(How, Base, methods, iter, n)
  <2>1. \A s \in S : iter[s] = Body(iter, s)
    <3> HIDE DEF iter, Body, S
    <3> QED BY <1>5
  <2> HIDE DEF iter, Body, How, Base, S
  <2> QED BY Zenon, <1>3, <2>1
<1>7. TurnsOf(How, Base, Given, iter, n)
  BY <1>6
<1>8. Config!Discovered(methods, prefix) = iter[1..n]
  BY Zenon DEF Config!Discovered, Config!FoldLeft, Config!MapThenFoldSet
<1>9. \E g : InTurn(How, Base, Given, g, n) /\ g[n] = iter[1..n]
  <2> HIDE DEF iter, How, Base, Given
  <2> HIDE DEF S, Body, P
  <2> QED BY <1>7, OneAfterTheOther
<1> HIDE DEF iter
<1> QED BY Zenon, <1>8, <1>9

(* What Fill makes of a group that is not empty.                            *)
Filled(rules, number, was, names) ==
    Config!FoldLeft(LAMBDA sofar, name : Config!Put(rules, number, sofar, name), was, names)

LEMMA NamesInTurn ==
    ASSUME NEW rules, NEW number, NEW was, NEW names, NEW n \in Nat, DOMAIN names = 1..n
    PROVE  \E g : /\ InTurn([of |-> "names", rules |-> rules, number |-> number], was, names, g, n)
                 /\ Filled(rules, number, was, names) = g[n]
<1> DEFINE S == SUBSET (1..n)
           How == [of |-> "names", rules |-> rules, number |-> number]
           Base == was
           Given == names
           Body(f, s) == IF s = {} THEN Base
                         ELSE Config!Put(rules, number, f[s \ {Config!Max(s)}], names[Config!Max(s)])
           P(f) == f = [s \in S |-> Body(f, s)]
           iter == CHOOSE f : P(f)
<1>1. PICK f : f = [s \in S |-> f[s]] /\ TurnsOf(How, Base, names, f, n)
  <2> HIDE DEF How, Base
  <2> QED BY Zenon, TurnsExist
<1>2. \A h, s : Body(h, s) = IF s = {} THEN Base
                            ELSE Turn(How, h[s \ {Config!Max(s)}],
                                      names[Config!Max(s)])
  <2> TAKE h, s
  <2> QED BY DEF Turn
<1>3. \A h : TurnsOf(How, Base, names, h, n) <=> \A s \in S : h[s] = Body(h, s)
  <2> HIDE DEF Body, How, Base
  <2> QED BY Zenon, <1>2 DEF TurnsOf
<1>4. P(f)
  <2>1. \A s \in S : f[s] = Body(f, s)
    <3> HIDE DEF Body, How, Base, S
    <3> QED BY Zenon, <1>1, <1>3
  <2>2. [s \in S |-> f[s]] = [s \in S |-> Body(f, s)]
    <3> HIDE DEF Body, S
    <3> QED BY <2>1
  <2> HIDE DEF Body, S
  <2> QED BY Zenon, <1>1, <2>2
<1>5. P(iter)
  <2> HIDE DEF P
  <2> QED BY Zenon, <1>4
<1>6. TurnsOf(How, Base, names, iter, n)
  <2>1. \A s \in S : iter[s] = Body(iter, s)
    <3> HIDE DEF iter, Body, S
    <3> QED BY <1>5
  <2> HIDE DEF iter, Body, How, Base, S
  <2> QED BY Zenon, <1>3, <2>1
<1>7. TurnsOf(How, Base, Given, iter, n)
  BY <1>6
<1>8. Filled(rules, number, was, names) = iter[1..n]
  BY Zenon DEF Filled, Config!FoldLeft, Config!MapThenFoldSet
<1>9. \E g : InTurn(How, Base, Given, g, n) /\ g[n] = iter[1..n]
  <2> HIDE DEF iter, How, Base, Given
  <2> HIDE DEF S, Body, P
  <2> QED BY <1>7, OneAfterTheOther
<1> HIDE DEF iter
<1> QED BY Zenon, <1>8, <1>9

LEMMA GroupsInTurn ==
    ASSUME NEW rules, NEW configured, NEW n \in Nat, DOMAIN configured = 1..n
    PROVE  \E g : /\ InTurn([of |-> "groups", rules |-> rules, configured |-> configured], [ok |-> TRUE, of |-> [r \in Config!Range(rules) |-> 0]], [number \in DOMAIN configured |-> number], g, n)
                 /\ Config!Assign(rules, configured) = g[n]
<1> DEFINE S == SUBSET (1..n)
           How == [of |-> "groups", rules |-> rules, configured |-> configured]
           Base == [ok |-> TRUE, of |-> [r \in Config!Range(rules) |-> 0]]
           Given == [number \in DOMAIN configured |-> number]
           Body(f, s) == IF s = {} THEN Base
                         ELSE Config!Fill(rules, configured, f[s \ {Config!Max(s)}], [number \in DOMAIN configured |-> number][Config!Max(s)])
           P(f) == f = [s \in S |-> Body(f, s)]
           iter == CHOOSE f : P(f)
<1>1. PICK f : f = [s \in S |-> f[s]] /\ TurnsOf(How, Base, [number \in DOMAIN configured |-> number], f, n)
  <2> HIDE DEF How, Base
  <2> QED BY Zenon, TurnsExist
<1>2. \A h, s : Body(h, s) = IF s = {} THEN Base
                            ELSE Turn(How, h[s \ {Config!Max(s)}],
                                      [number \in DOMAIN configured |-> number][Config!Max(s)])
  <2> TAKE h, s
  <2> QED BY DEF Turn
<1>3. \A h : TurnsOf(How, Base, [number \in DOMAIN configured |-> number], h, n) <=> \A s \in S : h[s] = Body(h, s)
  <2> HIDE DEF Body, How, Base
  <2> QED BY Zenon, <1>2 DEF TurnsOf
<1>4. P(f)
  <2>1. \A s \in S : f[s] = Body(f, s)
    <3> HIDE DEF Body, How, Base, S
    <3> QED BY Zenon, <1>1, <1>3
  <2>2. [s \in S |-> f[s]] = [s \in S |-> Body(f, s)]
    <3> HIDE DEF Body, S
    <3> QED BY <2>1
  <2> HIDE DEF Body, S
  <2> QED BY Zenon, <1>1, <2>2
<1>5. P(iter)
  <2> HIDE DEF P
  <2> QED BY Zenon, <1>4
<1>6. TurnsOf(How, Base, [number \in DOMAIN configured |-> number], iter, n)
  <2>1. \A s \in S : iter[s] = Body(iter, s)
    <3> HIDE DEF iter, Body, S
    <3> QED BY <1>5
  <2> HIDE DEF iter, Body, How, Base, S
  <2> QED BY Zenon, <1>3, <2>1
<1>7. TurnsOf(How, Base, Given, iter, n)
  BY <1>6
<1>8. Config!Assign(rules, configured) = iter[1..n]
  BY Zenon DEF Config!Assign, Config!FoldLeft, Config!MapThenFoldSet
<1>9. \E g : InTurn(How, Base, Given, g, n) /\ g[n] = iter[1..n]
  <2> HIDE DEF iter, How, Base, Given
  <2> HIDE DEF S, Body, P
  <2> QED BY <1>7, OneAfterTheOther
<1> HIDE DEF iter
<1> QED BY Zenon, <1>8, <1>9

LEMMA OneByOne ==
    ASSUME NEW n \in Nat, NEW T, 0 \in T, \A k \in 0..n - 1 : k \in T => k + 1 \in T
    PROVE  \A k \in 0..n : k \in T
<1> DEFINE Bad == (0..n) \ T
<1> SUFFICES ASSUME Bad # {} PROVE FALSE
  OBVIOUS
<1>1. PICK k \in Bad : \A j \in Bad : k <= j
  <2> Bad \subseteq Nat
    OBVIOUS
  <2> HIDE DEF Bad
  <2> QED BY LeastNatural
<1>2. k \in 0..n /\ k \notin T /\ k # 0
  OBVIOUS
<1>3. k - 1 \in 0..n - 1 /\ k - 1 \notin Bad /\ (k - 1) + 1 = k
  BY <1>1, <1>2
<1> QED BY <1>2, <1>3

LEMMA AppendedNames ==
    ASSUME NEW T, NEW s \in Seq(T), NEW e \in T
    PROVE  /\ Append(s, e) \in Seq(T)
           /\ Config!Range(Append(s, e)) = Config!Range(s) \cup {e}
<1>1. /\ Append(s, e) \in Seq(T) /\ Len(Append(s, e)) = Len(s) + 1
      /\ \A i \in 1..Len(s) : Append(s, e)[i] = s[i]
      /\ Append(s, e)[Len(s) + 1] = e
      /\ DOMAIN s = 1..Len(s) /\ DOMAIN Append(s, e) = 1..Len(s) + 1 /\ Len(s) \in Nat
  OBVIOUS
<1> DEFINE t == Append(s, e)
<1> HIDE DEF t
<1>2. /\ \A i \in 1..Len(s) : t[i] = s[i]
      /\ t[Len(s) + 1] = e
      /\ DOMAIN s = 1..Len(s) /\ DOMAIN t = 1..Len(s) + 1 /\ Len(s) \in Nat
  BY <1>1 DEF t
<1>3. Config!Range(t) = Config!Range(s) \cup {e}
  <2>1. \A x : x \in Config!Range(t) <=> \E i \in DOMAIN t : t[i] = x
    BY DEF Config!Range
  <2>2. \A x : x \in Config!Range(s) <=> \E i \in DOMAIN s : s[i] = x
    BY DEF Config!Range
  <2> QED BY <1>2, <2>1, <2>2
<1> QED BY <1>1, <1>3 DEF t

LEMMA JoinedNames ==
    ASSUME NEW T, NEW s \in Seq(T), NEW u \in Seq(T)
    PROVE  /\ s \o u \in Seq(T)
           /\ Config!Range(s \o u) = Config!Range(s) \cup Config!Range(u)
<1> DEFINE t == s \o u
<1>1. /\ t \in Seq(T) /\ Len(t) = Len(s) + Len(u)
      /\ \A i \in 1..Len(s) : t[i] = s[i]
      /\ \A i \in 1..Len(u) : t[Len(s) + i] = u[i]
      /\ DOMAIN s = 1..Len(s) /\ DOMAIN u = 1..Len(u) /\ DOMAIN t = 1..Len(s) + Len(u)
      /\ Len(s) \in Nat /\ Len(u) \in Nat
  OBVIOUS
<1> HIDE DEF t
<1>2. \A x : x \in Config!Range(t) <=> \E i \in DOMAIN t : t[i] = x
  BY DEF Config!Range
<1>3. \A x : x \in Config!Range(s) <=> \E i \in DOMAIN s : s[i] = x
  BY DEF Config!Range
<1>4. \A x : x \in Config!Range(u) <=> \E i \in DOMAIN u : u[i] = x
  BY DEF Config!Range
<1>5. \A i \in DOMAIN t : i \in DOMAIN s \/ \E j \in DOMAIN u : i = Len(s) + j
  <2> TAKE i \in DOMAIN t
  <2>1. CASE i > Len(s)
    <3>1. i - Len(s) \in DOMAIN u /\ i = Len(s) + (i - Len(s))
      BY <1>1, <2>1
    <3> QED BY <3>1
  <2>2. CASE ~(i > Len(s))
    BY <1>1, <2>2
  <2> QED BY <2>1, <2>2
<1>6. \A i \in DOMAIN s : i \in DOMAIN t
  BY <1>1
<1>7. \A i \in DOMAIN u : Len(s) + i \in DOMAIN t
  BY <1>1
<1>8. \A x : x \in Config!Range(t) <=> x \in Config!Range(s) \/ x \in Config!Range(u)
  <2> TAKE x
  <2>1. ASSUME x \in Config!Range(t) PROVE x \in Config!Range(s) \/ x \in Config!Range(u)
    <3>1. PICK i \in DOMAIN t : t[i] = x
      BY <1>2, <2>1
    <3>2. CASE i \in DOMAIN s
      BY <1>1, <1>3, <3>1, <3>2
    <3>3. CASE \E j \in DOMAIN u : i = Len(s) + j
      BY <1>1, <1>4, <3>1, <3>3
    <3> QED BY <1>5, <3>2, <3>3
  <2>2. x \in Config!Range(s) => x \in Config!Range(t)
    BY <1>1, <1>2, <1>3, <1>6
  <2>3. x \in Config!Range(u) => x \in Config!Range(t)
    BY <1>1, <1>2, <1>4, <1>7
  <2> QED BY <2>1, <2>2, <2>3
<1>9. Config!Range(t) = Config!Range(s) \cup Config!Range(u)
  BY <1>8
<1> QED BY <1>1, <1>9 DEF t

NamesStarting(methods, prefix, k) ==
    {x \in STRING : \E i \in 1..k : methods[i].prefix = prefix /\ methods[i].name = x}

(* Rules and invariants are the methods whose names start so.               *)
LEMMA DiscoveredNames ==
    ASSUME NEW methods \in Seq(Config!AnyMethod), NEW prefix
    PROVE  /\ Config!Discovered(methods, prefix) \in Seq(STRING)
           /\ Config!Range(Config!Discovered(methods, prefix))
                = NamesStarting(methods, prefix, Len(methods))
<1> DEFINE n == Len(methods)
           how == [of |-> "methods", prefix |-> prefix]
<1>1. n \in Nat /\ DOMAIN methods = 1..n /\ \A i \in 1..n : methods[i] \in Config!AnyMethod
  OBVIOUS
<1> HIDE DEF n
<1>2. PICK g : /\ InTurn(how, <<>>, methods, g, n)
               /\ Config!Discovered(methods, prefix) = g[n]
  BY <1>1, MethodsInTurn
<1>3. \A was, m : Turn(how, was, m) = Config!Found(prefix, was, m)
  BY DEF Turn
<1> DEFINE T == {k \in 0..n : g[k] \in Seq(STRING)
                              /\ Config!Range(g[k]) = NamesStarting(methods, prefix, k)}
<1> HIDE DEF how
<1>4. 0 \in T
  <2>1. g[0] = <<>>
    BY Zenon, <1>2 DEF InTurn
  <2>2. <<>> \in Seq(STRING) /\ Config!Range(<<>>) = {}
    BY DEF Config!Range
  <2>3. NamesStarting(methods, prefix, 0) = {}
    BY DEF NamesStarting
  <2>4. 0 \in 0..n
    BY <1>1
  <2> QED BY <2>1, <2>2, <2>3, <2>4
<1>5. ASSUME NEW k \in 0..n - 1, k \in T PROVE k + 1 \in T
  <2>1. k + 1 \in 1..n /\ k + 1 \in 0..n /\ methods[k + 1] \in Config!AnyMethod
        /\ \A i : i \in 1..k + 1 <=> i \in 1..k \/ i = k + 1
    BY <1>1
  <2>2. methods[k + 1].name \in STRING
    BY <2>1 DEF Config!AnyMethod
  <2>3. g[k] \in Seq(STRING) /\ Config!Range(g[k]) = NamesStarting(methods, prefix, k)
    BY <1>5
  <2>4. g[k + 1] = Config!Found(prefix, g[k], methods[k + 1])
    BY Zenon, <1>2, <1>3 DEF InTurn
  <2>5. CASE methods[k + 1].prefix = prefix
    <3>1. g[k + 1] = Append(g[k], methods[k + 1].name)
      BY <2>4, <2>5 DEF Config!Found
    <3>2. NamesStarting(methods, prefix, k + 1)
            = NamesStarting(methods, prefix, k) \cup {methods[k + 1].name}
      BY <2>1, <2>2, <2>5 DEF NamesStarting
    <3>3. /\ Append(g[k], methods[k + 1].name) \in Seq(STRING)
          /\ Config!Range(Append(g[k], methods[k + 1].name))
               = Config!Range(g[k]) \cup {methods[k + 1].name}
      BY ONLY <2>2, <2>3, AppendedNames
    <3> QED BY <2>1, <2>3, <3>1, <3>2, <3>3
  <2>6. CASE methods[k + 1].prefix # prefix
    <3>1. g[k + 1] = g[k]
      BY <2>4, <2>6 DEF Config!Found
    <3>2. NamesStarting(methods, prefix, k + 1) = NamesStarting(methods, prefix, k)
      BY <2>1, <2>6 DEF NamesStarting
    <3> QED BY <2>1, <2>3, <3>1, <3>2
  <2> QED BY <2>5, <2>6
<1>6. n \in T
  <2> HIDE DEF T
  <2> QED BY <1>1, <1>4, <1>5, OneByOne
<1> QED BY <1>2, <1>6 DEF n

AnyGroups == Seq([name : STRING, rules : Seq(STRING)])

(* Two places of one list, or of all the lists of some groups, hold r.      *)
TwiceHeld(names, r) ==
    \E i, j \in DOMAIN names : i # j /\ names[i] = r /\ names[j] = r
TwiceIn(groups, r) ==
    \/ \E a \in DOMAIN groups : TwiceHeld(groups[a].rules, r)
    \/ \E a, b \in DOMAIN groups : /\ a # b
                                   /\ r \in Config!Range(groups[a].rules)
                                   /\ r \in Config!Range(groups[b].rules)
Named(groups, x) == \E a \in DOMAIN groups : groups[a].name = x
Holds(groups, x, r) ==
    \E a \in DOMAIN groups : groups[a].name = x /\ r \in Config!Range(groups[a].rules)
DifferentNames(groups) ==
    \A a, b \in DOMAIN groups : groups[a].name = groups[b].name => a = b

LEMMA TwiceInJoined ==
    ASSUME NEW s \in Seq(STRING), NEW u \in Seq(STRING), NEW r
    PROVE  TwiceHeld(s \o u, r) <=>
             \/ TwiceHeld(s, r) \/ TwiceHeld(u, r)
             \/ r \in Config!Range(s) /\ r \in Config!Range(u)
<1> DEFINE t == s \o u
<1>1. /\ \A i \in 1..Len(s) : t[i] = s[i]
      /\ \A i \in 1..Len(u) : t[Len(s) + i] = u[i]
      /\ DOMAIN s = 1..Len(s) /\ DOMAIN u = 1..Len(u) /\ DOMAIN t = 1..Len(s) + Len(u)
      /\ Len(s) \in Nat /\ Len(u) \in Nat
  OBVIOUS
<1> HIDE DEF t
<1>3. r \in Config!Range(s) <=> \E i \in DOMAIN s : s[i] = r
  BY DEF Config!Range
<1>4. r \in Config!Range(u) <=> \E i \in DOMAIN u : u[i] = r
  BY DEF Config!Range
<1>5. \A i \in DOMAIN t : i \in DOMAIN s \/ \E j \in DOMAIN u : i = Len(s) + j
  <2> TAKE i \in DOMAIN t
  <2>1. CASE i > Len(s)
    <3>1. i - Len(s) \in DOMAIN u /\ i = Len(s) + (i - Len(s))
      BY <1>1, <2>1
    <3> QED BY <3>1
  <2>2. CASE ~(i > Len(s))
    BY <1>1, <2>2
  <2> QED BY <2>1, <2>2
<1>6. \A i \in DOMAIN s : i \in DOMAIN t
  BY <1>1
<1>7. \A i \in DOMAIN u : Len(s) + i \in DOMAIN t
  BY <1>1
<1>8. ASSUME TwiceHeld(t, r)
      PROVE  \/ TwiceHeld(s, r) \/ TwiceHeld(u, r)
             \/ r \in Config!Range(s) /\ r \in Config!Range(u)
  <2>1. PICK i \in DOMAIN t, j \in DOMAIN t : i # j /\ t[i] = r /\ t[j] = r
    BY <1>8 DEF TwiceHeld
  <2>2. CASE i \in DOMAIN s /\ j \in DOMAIN s
    BY <1>1, <2>1, <2>2 DEF TwiceHeld
  <2>3. CASE i \in DOMAIN s /\ \E m \in DOMAIN u : j = Len(s) + m
    BY <1>1, <1>3, <1>4, <2>1, <2>3
  <2>4. CASE j \in DOMAIN s /\ \E m \in DOMAIN u : i = Len(s) + m
    BY <1>1, <1>3, <1>4, <2>1, <2>4
  <2>5. CASE (\E m \in DOMAIN u : i = Len(s) + m) /\ (\E m \in DOMAIN u : j = Len(s) + m)
    <3>1. PICK m \in DOMAIN u : i = Len(s) + m
      BY <2>5
    <3>2. PICK l \in DOMAIN u : j = Len(s) + l
      BY <2>5
    <3>3. m # l /\ u[m] = r /\ u[l] = r
      BY <1>1, <2>1, <3>1, <3>2
    <3> QED BY <3>3 DEF TwiceHeld
  <2> QED BY <1>5, <2>1, <2>2, <2>3, <2>4, <2>5
<1>9. ASSUME TwiceHeld(s, r) PROVE TwiceHeld(t, r)
  BY <1>1, <1>6, <1>9 DEF TwiceHeld
<1>10. ASSUME TwiceHeld(u, r) PROVE TwiceHeld(t, r)
  <2>1. PICK i \in DOMAIN u, j \in DOMAIN u : i # j /\ u[i] = r /\ u[j] = r
    BY <1>10 DEF TwiceHeld
  <2>2. Len(s) + i # Len(s) + j /\ t[Len(s) + i] = r /\ t[Len(s) + j] = r
    BY <1>1, <2>1
  <2> QED BY <1>7, <2>1, <2>2 DEF TwiceHeld
<1>11. ASSUME r \in Config!Range(s), r \in Config!Range(u) PROVE TwiceHeld(t, r)
  <2>1. PICK i \in DOMAIN s : s[i] = r
    BY <1>3, <1>11
  <2>2. PICK j \in DOMAIN u : u[j] = r
    BY <1>4, <1>11
  <2>3. i # Len(s) + j /\ t[i] = r /\ t[Len(s) + j] = r
    BY <1>1, <2>1, <2>2
  <2> QED BY <1>6, <1>7, <2>1, <2>2, <2>3 DEF TwiceHeld
<1>12. TwiceHeld(t, r) <=> \/ TwiceHeld(s, r) \/ TwiceHeld(u, r)
                           \/ r \in Config!Range(s) /\ r \in Config!Range(u)
  BY <1>8, <1>9, <1>10, <1>11
<1> QED BY <1>12 DEF t

GroupMade(more, groups, name, names) ==
    /\ more \in AnyGroups /\ DifferentNames(more)
    /\ \A x : Named(more, x) <=> Named(groups, x) \/ x = name
    /\ \A x, r : Holds(more, x, r) <=>
         \/ Holds(groups, x, r)
         \/ x = name /\ r \in Config!Range(names)
    /\ \A r : TwiceIn(more, r) <=>
         \/ TwiceIn(groups, r) \/ TwiceHeld(names, r)
         \/ r \in Config!Range(names) /\ \E x : Holds(groups, x, r)

(* A call of WithRuleGroup adds its rules to the group it names.            *)
LEMMA AddedToGroup ==
    ASSUME NEW groups \in AnyGroups, DifferentNames(groups),
           NEW name \in STRING, NEW names \in Seq(STRING), NEW more,
           more = Config!AddToGroup(groups, name, names)
    PROVE  GroupMade(more, groups, name, names)
<1> DEFINE n == Len(groups)
           same == {i \in DOMAIN groups : groups[i].name = name}
           given == [name |-> name, rules |-> names]
<1>1. /\ n \in Nat /\ DOMAIN groups = 1..n
      /\ \A i \in 1..n : groups[i] \in [name : STRING, rules : Seq(STRING)]
      /\ given \in [name : STRING, rules : Seq(STRING)]
  <2> DEFINE Record == [name : STRING, rules : Seq(STRING)]
  <2>1. given \in Record
    OBVIOUS
  <2>2. groups \in Seq(Record)
    BY DEF AnyGroups
  <2> HIDE DEF Record, given
  <2>3. n \in Nat /\ DOMAIN groups = 1..n /\ \A i \in 1..n : groups[i] \in Record
    BY <2>2
  <2> QED BY <2>1, <2>3 DEF Record
<1>2. CASE same = {}
  <2>1. more = Append(groups, given)
    BY <1>2 DEF Config!AddToGroup
  <2>2. /\ more \in AnyGroups /\ DOMAIN more = 1..n + 1 /\ more[n + 1] = given
        /\ \A i \in 1..n : more[i] = groups[i]
    <3> HIDE DEF given
    <3> QED BY <1>1, <2>1 DEF AnyGroups
  <2>3. \A i : i \in DOMAIN more <=> i \in DOMAIN groups \/ i = n + 1
    <3> HIDE DEF given
    <3> QED BY <1>1, <2>2
  <2>4. n + 1 \notin DOMAIN groups /\ given.name = name /\ given.rules = names
    BY <1>1
  <2>5. \A i \in DOMAIN groups : more[i] = groups[i] /\ groups[i].name # name
    BY <1>1, <1>2, <2>2
  <2> HIDE DEF same, given, n
  <2>50. PICK e : /\ e \notin DOMAIN groups /\ e \in DOMAIN more
                  /\ \A i : i \in DOMAIN more <=> i \in DOMAIN groups \/ i = e
                  /\ more[e].name = name /\ more[e].rules = names
    BY <2>2, <2>3, <2>4
  <2>51. \A i \in DOMAIN groups : more[i] = groups[i]
    BY <2>5
  <2>6. DifferentNames(more)
    BY <2>2, <2>3, <2>4, <2>5 DEF DifferentNames
  <2>7. \A x : Named(more, x) <=> Named(groups, x) \/ x = name
    BY <2>2, <2>3, <2>4, <2>5 DEF Named
  <2>8. \A x, r : Holds(more, x, r) <=>
           Holds(groups, x, r) \/ (x = name /\ r \in Config!Range(names))
    BY ONLY <2>50, <2>51 DEF Holds
  <2>9. ASSUME NEW r
        PROVE  TwiceIn(more, r) <=>
                \/ TwiceIn(groups, r) \/ TwiceHeld(names, r)
                \/ r \in Config!Range(names) /\ \E x : Holds(groups, x, r)
    <3>1. (\E x : Holds(groups, x, r)) <=>
            \E a \in DOMAIN groups : r \in Config!Range(groups[a].rules)
      BY DEF Holds
    <3>2. ASSUME TwiceIn(more, r)
          PROVE  \/ TwiceIn(groups, r) \/ TwiceHeld(names, r)
                 \/ r \in Config!Range(names) /\ \E x : Holds(groups, x, r)
      BY ONLY <2>50, <2>51, <3>1, <3>2 DEF TwiceIn
    <3>3. TwiceIn(groups, r) => TwiceIn(more, r)
      BY ONLY <2>50, <2>51 DEF TwiceIn
    <3>4. TwiceHeld(names, r) => TwiceIn(more, r)
      BY ONLY <2>50 DEF TwiceIn
    <3>5. r \in Config!Range(names) /\ (\E x : Holds(groups, x, r)) => TwiceIn(more, r)
      BY ONLY <2>50, <2>51, <3>1 DEF TwiceIn
    <3> QED BY ONLY <3>2, <3>3, <3>4, <3>5
  <2> QED BY ONLY <2>2, <2>6, <2>7, <2>8, <2>9 DEF GroupMade
<1>3. CASE same # {}
  <2>1. PICK c : c = Config!Min(same)
    OBVIOUS
  <2>2. c \in same
    <3>1. \E x \in same : \A y \in same : x <= y
      <4> same \subseteq Nat
        BY <1>1
      <4> HIDE DEF same
      <4> QED BY <1>3, LeastNatural
    <3>2. Config!Min(same) = CHOOSE x \in same : \A y \in same : x <= y
      BY Zenon DEF Config!Min
    <3> DEFINE Least(x) == \A y \in same : x <= y
    <3> HIDE DEF same, Least
    <3> QED BY <2>1, <3>1, <3>2 DEF Least
  <2>3. more = [groups EXCEPT ![c].rules = @ \o names]
    BY <1>3, <2>1 DEF Config!AddToGroup
  <2>4. c \in DOMAIN groups /\ groups[c].name = name
    BY <2>2
  <2> HIDE DEF same
  <2>5. PICK all : all = groups[c].rules \o names
    OBVIOUS
  <2>6. /\ all \in Seq(STRING)
        /\ Config!Range(all) = Config!Range(groups[c].rules) \cup Config!Range(names)
        /\ \A r : TwiceHeld(all, r) <=>
             \/ TwiceHeld(groups[c].rules, r) \/ TwiceHeld(names, r)
             \/ r \in Config!Range(groups[c].rules) /\ r \in Config!Range(names)
    <3>1. groups[c].rules \in Seq(STRING)
      BY <1>1, <2>4
    <3>2. /\ groups[c].rules \o names \in Seq(STRING)
          /\ Config!Range(groups[c].rules \o names)
               = Config!Range(groups[c].rules) \cup Config!Range(names)
      BY ONLY <3>1, names \in Seq(STRING), JoinedNames
    <3>3. \A r : TwiceHeld(groups[c].rules \o names, r) <=>
             \/ TwiceHeld(groups[c].rules, r) \/ TwiceHeld(names, r)
             \/ r \in Config!Range(groups[c].rules) /\ r \in Config!Range(names)
      BY ONLY <3>1, names \in Seq(STRING), TwiceInJoined
    <3> QED BY ONLY <2>5, <3>2, <3>3
  <2>7. /\ DOMAIN more = DOMAIN groups /\ more[c].name = name /\ more[c].rules = all
        /\ \A i \in DOMAIN groups : i # c => more[i] = groups[i]
        /\ \A i \in DOMAIN groups : more[i].name = groups[i].name
    BY <1>1, <2>3, <2>4, <2>5
  <2>8. more \in AnyGroups
    <3>1. [groups[c] EXCEPT !.rules = all] \in [name : STRING, rules : Seq(STRING)]
      BY <1>1, <2>4, <2>6
    <3>2. more = [groups EXCEPT ![c] = [groups[c] EXCEPT !.rules = all]]
      BY <2>3, <2>5
    <3> DEFINE Record == [name : STRING, rules : Seq(STRING)]
               one == [groups[c] EXCEPT !.rules = all]
    <3>3. groups \in Seq(Record) /\ one \in Record /\ more = [groups EXCEPT ![c] = one]
      BY <3>1, <3>2 DEF AnyGroups
    <3> HIDE DEF Record, one
    <3>4. more \in Seq(Record)
      BY <2>4, <3>3
    <3> QED BY <3>4 DEF AnyGroups, Record
  <2>9. DifferentNames(more)
    BY <2>7 DEF DifferentNames
  <2>10. \A x : Named(more, x) <=> Named(groups, x) \/ x = name
    BY <2>4, <2>7 DEF Named
  <2>11. \A a \in DOMAIN groups : groups[a].name = name => a = c
    BY <2>4 DEF DifferentNames
  <2>12. \A r : \A a \in DOMAIN groups :
           r \in Config!Range(more[a].rules) <=>
             r \in Config!Range(groups[a].rules) \/ (a = c /\ r \in Config!Range(names))
    <3> TAKE r
    <3> TAKE a \in DOMAIN groups
    <3>1. CASE a = c
      BY ONLY <2>6, <2>7, <3>1
    <3>2. CASE a # c
      BY ONLY <2>7, <3>2, a \in DOMAIN groups
    <3> QED BY <3>1, <3>2
  <2>13. \A x, r : Holds(more, x, r) <=>
           Holds(groups, x, r) \/ (x = name /\ r \in Config!Range(names))
    BY <2>4, <2>7, <2>11, <2>12 DEF Holds
  <2>14. ASSUME NEW r
        PROVE  TwiceIn(more, r) <=>
                \/ TwiceIn(groups, r) \/ TwiceHeld(names, r)
                \/ r \in Config!Range(names) /\ \E x : Holds(groups, x, r)
    <3>1. (\E x : Holds(groups, x, r)) <=>
            \E a \in DOMAIN groups : r \in Config!Range(groups[a].rules)
      BY DEF Holds
    <3>2. TwiceHeld(more[c].rules, r) <=>
             \/ TwiceHeld(groups[c].rules, r) \/ TwiceHeld(names, r)
             \/ r \in Config!Range(groups[c].rules) /\ r \in Config!Range(names)
      BY <2>6, <2>7
    <3>3. \A a \in DOMAIN groups : a # c => more[a].rules = groups[a].rules
      BY <2>7
    <3> DEFINE In(a) == r \in Config!Range(groups[a].rules)
               Now(a) == r \in Config!Range(more[a].rules)
               New == r \in Config!Range(names)
    <3>4. \A a \in DOMAIN groups : Now(a) <=> In(a) \/ (a = c /\ New)
      BY <2>12
    <3>5. TwiceIn(more, r) <=>
            \/ \E a \in DOMAIN groups : TwiceHeld(more[a].rules, r)
            \/ \E a, b \in DOMAIN groups : a # b /\ Now(a) /\ Now(b)
      BY ONLY <2>7 DEF TwiceIn
    <3>6. TwiceIn(groups, r) <=>
            \/ \E a \in DOMAIN groups : TwiceHeld(groups[a].rules, r)
            \/ \E a, b \in DOMAIN groups : a # b /\ In(a) /\ In(b)
      BY ONLY TRUE DEF TwiceIn
    <3>7. TwiceHeld(more[c].rules, r) <=>
             TwiceHeld(groups[c].rules, r) \/ TwiceHeld(names, r) \/ (In(c) /\ New)
      BY ONLY <3>2
    <3>8. (\E x : Holds(groups, x, r)) <=> \E a \in DOMAIN groups : In(a)
      BY ONLY <3>1
    <3> HIDE DEF In, Now, New
    <3>9. (\E a \in DOMAIN groups : TwiceHeld(more[a].rules, r)) <=>
            \/ \E a \in DOMAIN groups : TwiceHeld(groups[a].rules, r)
            \/ TwiceHeld(names, r) \/ (In(c) /\ New)
      BY ONLY <2>4, <3>3, <3>7
    <3>10. (\E a, b \in DOMAIN groups : a # b /\ Now(a) /\ Now(b)) <=>
            \/ \E a, b \in DOMAIN groups : a # b /\ In(a) /\ In(b)
            \/ New /\ \E b \in DOMAIN groups : b # c /\ In(b)
      BY ONLY <2>4, <3>4
    <3>11. (New /\ \E a \in DOMAIN groups : In(a)) <=>
             (In(c) /\ New) \/ (New /\ \E b \in DOMAIN groups : b # c /\ In(b))
      BY ONLY <2>4
    <3>12. TwiceIn(more, r) <=> \/ TwiceIn(groups, r) \/ TwiceHeld(names, r)
                                \/ (New /\ \E x : Holds(groups, x, r))
      BY ONLY <3>5, <3>6, <3>8, <3>9, <3>10, <3>11
    <3> QED BY ONLY <3>12 DEF New
  <2> QED BY ONLY <2>8, <2>9, <2>10, <2>13, <2>14 DEF GroupMade
<1> QED BY <1>2, <1>3

(* What the first k options ask for.                                        *)
Calls(options, sets, k) == {i \in 1..k : options[i].sets = sets}
LastUpTo(options, sets, otherwise, k) ==
    IF Calls(options, sets, k) = {} THEN otherwise
    ELSE options[Config!Max(Calls(options, sets, k))].to
AskedAlways(options, x, k) ==
    \E i \in Calls(options, "always", k) : x \in Config!Range(options[i].names)
AskedGroup(options, x, k) ==
    \E i \in Calls(options, "group", k) : options[i].group = x
AskedRule(options, x, r, k) ==
    \E i \in Calls(options, "group", k) :
        options[i].group = x /\ r \in Config!Range(options[i].names)
AskedTwice(options, r, k) ==
    \/ \E i \in Calls(options, "group", k) : TwiceHeld(options[i].names, r)
    \/ \E i, j \in Calls(options, "group", k) :
        /\ i # j
        /\ r \in Config!Range(options[i].names)
        /\ r \in Config!Range(options[j].names)

GroupsAsked(options, groups, k) ==
    /\ groups \in AnyGroups /\ DifferentNames(groups)
    /\ \A x : Named(groups, x) <=> AskedGroup(options, x, k)
    /\ \A x, r : Holds(groups, x, r) <=> AskedRule(options, x, r, k)
    /\ \A r : TwiceIn(groups, r) <=> AskedTwice(options, r, k)

AnyConfiguration == [maxConcurrency : Int, stepCount : Int, alwaysCheckNames : Seq(STRING),
                     configuredRuleGroups : AnyGroups]

Configured(options, sm, k) ==
    /\ sm \in AnyConfiguration
    /\ sm.maxConcurrency = LastUpTo(options, "concurrency", 1, k)
    /\ sm.stepCount = LastUpTo(options, "steps", 50, k)
    /\ \A x : x \in Config!Range(sm.alwaysCheckNames) <=> AskedAlways(options, x, k)
    /\ GroupsAsked(options, sm.configuredRuleGroups, k)

LEMMA CallsGrow ==
    ASSUME NEW options, NEW sets, NEW k \in Nat
    PROVE  /\ options[k + 1].sets = sets
                => Calls(options, sets, k + 1) = Calls(options, sets, k) \cup {k + 1}
           /\ options[k + 1].sets # sets
                => Calls(options, sets, k + 1) = Calls(options, sets, k)
<1>1. \A i : i \in 1..k + 1 <=> i \in 1..k \/ i = k + 1
  OBVIOUS
<1> QED BY <1>1 DEF Calls

LEMMA LastGrows ==
    ASSUME NEW options, NEW sets, NEW otherwise, NEW k \in Nat
    PROVE  LastUpTo(options, sets, otherwise, k + 1)
             = IF options[k + 1].sets = sets THEN options[k + 1].to
               ELSE LastUpTo(options, sets, otherwise, k)
<1>1. CASE options[k + 1].sets = sets
  <2>1. PICK now : now = Calls(options, sets, k + 1)
    OBVIOUS
  <2>2. now \subseteq 1..k + 1 /\ k + 1 \in now /\ k + 1 \in Nat
    BY <1>1, <2>1 DEF Calls
  <2>3. Config!Max(now) \in now /\ \A i \in now : i <= Config!Max(now)
    BY ONLY <2>2, GreatestOf
  <2>4. PICK m : m = Config!Max(now)
    OBVIOUS
  <2>5. m \in 1..k + 1 /\ k + 1 <= m
    BY ONLY <2>2, <2>3, <2>4
  <2>6. m = k + 1
    BY <2>5
  <2>7. LastUpTo(options, sets, otherwise, k + 1) = options[k + 1].to
    BY <2>1, <2>2, <2>4, <2>6 DEF LastUpTo
  <2> QED BY <1>1, <2>7
<1>2. CASE options[k + 1].sets # sets
  <2>1. Calls(options, sets, k + 1) = Calls(options, sets, k)
    BY <1>2, CallsGrow
  <2> QED BY <1>2, <2>1 DEF LastUpTo
<1> QED BY <1>1, <1>2

(* One more option, and none of the two that it is not about.               *)
LEMMA NoGroupAsked ==
    ASSUME NEW options, NEW groups, NEW k \in Nat, GroupsAsked(options, groups, k),
           options[k + 1].sets # "group"
    PROVE  GroupsAsked(options, groups, k + 1)
<1>1. Calls(options, "group", k + 1) = Calls(options, "group", k)
  BY CallsGrow
<1> QED BY <1>1 DEF GroupsAsked, AskedGroup, AskedRule, AskedTwice

LEMMA GroupAsked ==
    ASSUME NEW options, NEW groups, NEW k \in Nat, GroupsAsked(options, groups, k),
           options[k + 1].sets = "group",
           options[k + 1].group \in STRING, options[k + 1].names \in Seq(STRING),
           NEW more,
           more = Config!AddToGroup(groups, options[k + 1].group, options[k + 1].names)
    PROVE  GroupsAsked(options, more, k + 1)
<1>1. PICK e : e = k + 1
  OBVIOUS
<1>2. PICK name \in STRING : name = options[e].group
  BY <1>1
<1>3. PICK names \in Seq(STRING) : names = options[e].names
  BY <1>1
<1>4. PICK was : was = Calls(options, "group", k)
  OBVIOUS
<1>5. Calls(options, "group", k + 1) = was \cup {e} /\ e \notin was
  <2>1. Calls(options, "group", k + 1) = was \cup {e}
    BY <1>1, <1>4, CallsGrow
  <2>2. k + 1 \notin 1..k
    OBVIOUS
  <2> QED BY <1>1, <1>4, <2>1, <2>2 DEF Calls
<1>6. /\ groups \in AnyGroups /\ DifferentNames(groups)
      /\ more = Config!AddToGroup(groups, name, names)
  BY <1>1, <1>2, <1>3 DEF GroupsAsked
<1>7. GroupMade(more, groups, name, names)
  BY Zenon, <1>6, AddedToGroup
<1>8. \A x : AskedGroup(options, x, k + 1) <=> AskedGroup(options, x, k) \/ x = name
  BY ONLY <1>2, <1>4, <1>5 DEF AskedGroup
<1>9. \A x, r : AskedRule(options, x, r, k + 1) <=>
        \/ AskedRule(options, x, r, k)
        \/ x = name /\ r \in Config!Range(names)
  BY ONLY <1>2, <1>3, <1>4, <1>5 DEF AskedRule
<1>10. ASSUME NEW r
       PROVE  AskedTwice(options, r, k + 1) <=>
                \/ AskedTwice(options, r, k) \/ TwiceHeld(names, r)
                \/ r \in Config!Range(names) /\ \E x : AskedRule(options, x, r, k)
  <2> DEFINE In(i) == r \in Config!Range(options[i].names)
             Twice(i) == TwiceHeld(options[i].names, r)
  <2>1. AskedTwice(options, r, k + 1) <=>
          \/ \E i \in was \cup {e} : Twice(i)
          \/ \E i, j \in was \cup {e} : i # j /\ In(i) /\ In(j)
    BY ONLY <1>5 DEF AskedTwice
  <2>2. AskedTwice(options, r, k) <=>
          \/ \E i \in was : Twice(i)
          \/ \E i, j \in was : i # j /\ In(i) /\ In(j)
    BY ONLY <1>4 DEF AskedTwice
  <2>3. /\ Twice(e) <=> TwiceHeld(names, r)
        /\ In(e) <=> r \in Config!Range(names)
    BY ONLY <1>3
  <2>4. (\E x : AskedRule(options, x, r, k)) <=> \E i \in was : In(i)
    BY ONLY <1>4 DEF AskedRule
  <2> HIDE DEF In, Twice
  <2>5. (\E i \in was \cup {e} : Twice(i)) <=> (\E i \in was : Twice(i)) \/ Twice(e)
    OBVIOUS
  <2>6. (\E i, j \in was \cup {e} : i # j /\ In(i) /\ In(j)) <=>
          \/ \E i, j \in was : i # j /\ In(i) /\ In(j)
          \/ In(e) /\ \E i \in was : In(i)
    BY ONLY <1>5
  <2> QED BY ONLY <2>1, <2>2, <2>3, <2>4, <2>5, <2>6
<1> QED BY ONLY <1>7, <1>8, <1>9, <1>10, GroupsAsked(options, groups, k)
       DEF GroupsAsked, GroupMade

LEMMA OneMoreOption ==
    ASSUME NEW options, NEW sm, NEW k \in Nat, Configured(options, sm, k),
           options[k + 1] \in Config!AnyOption
    PROVE  Configured(options, Config!Applied(sm, options[k + 1]), k + 1)
<1> DEFINE opt == options[k + 1]
           now == Config!Applied(sm, opt)
<1>1. /\ opt.sets \in {"concurrency", "steps", "always", "group"}
      /\ opt.sets \in {"concurrency", "steps"} => opt.to \in Int
      /\ opt.sets = "always" => opt.names \in Seq(STRING)
      /\ opt.sets = "group" => opt.group \in STRING /\ opt.names \in Seq(STRING)
  BY DEF Config!AnyOption
<1>2. /\ sm \in AnyConfiguration
      /\ sm.maxConcurrency = LastUpTo(options, "concurrency", 1, k)
      /\ sm.stepCount = LastUpTo(options, "steps", 50, k)
      /\ \A x : x \in Config!Range(sm.alwaysCheckNames) <=> AskedAlways(options, x, k)
      /\ GroupsAsked(options, sm.configuredRuleGroups, k)
  BY DEF Configured
<1>3. /\ LastUpTo(options, "concurrency", 1, k + 1)
           = IF opt.sets = "concurrency" THEN opt.to ELSE sm.maxConcurrency
      /\ LastUpTo(options, "steps", 50, k + 1)
           = IF opt.sets = "steps" THEN opt.to ELSE sm.stepCount
  BY <1>2, LastGrows
<1>4. opt.sets # "always" => \A x : AskedAlways(options, x, k + 1) <=> AskedAlways(options, x, k)
  BY CallsGrow DEF AskedAlways
<1>5. opt.sets # "group" => GroupsAsked(options, sm.configuredRuleGroups, k + 1)
  BY <1>2, NoGroupAsked
<1> HIDE DEF opt
<1>6. CASE opt.sets = "concurrency"
  <2>1. now = [sm EXCEPT !.maxConcurrency = opt.to]
    BY <1>6 DEF Config!Applied
  <2>2. /\ now \in AnyConfiguration /\ now.maxConcurrency = opt.to
        /\ now.stepCount = sm.stepCount /\ now.alwaysCheckNames = sm.alwaysCheckNames
        /\ now.configuredRuleGroups = sm.configuredRuleGroups
    BY <1>1, <1>2, <1>6, <2>1 DEF AnyConfiguration
  <2> HIDE DEF now
  <2>3. Configured(options, now, k + 1)
    BY <1>2, <1>3, <1>4, <1>5, <1>6, <2>2 DEF Configured
  <2> QED BY <2>3 DEF now, opt
<1>7. CASE opt.sets = "steps"
  <2>1. now = [sm EXCEPT !.stepCount = opt.to]
    BY <1>7 DEF Config!Applied
  <2>2. /\ now \in AnyConfiguration /\ now.stepCount = opt.to
        /\ now.maxConcurrency = sm.maxConcurrency
        /\ now.alwaysCheckNames = sm.alwaysCheckNames
        /\ now.configuredRuleGroups = sm.configuredRuleGroups
    BY <1>1, <1>2, <1>7, <2>1 DEF AnyConfiguration
  <2> HIDE DEF now
  <2>3. Configured(options, now, k + 1)
    BY <1>2, <1>3, <1>4, <1>5, <1>7, <2>2 DEF Configured
  <2> QED BY <2>3 DEF now, opt
<1>8. CASE opt.sets = "always"
  <2>1. PICK names \in Seq(STRING) : names = sm.alwaysCheckNames
    BY <1>2 DEF AnyConfiguration
  <2>2. PICK others \in Seq(STRING) : others = opt.names
    BY <1>1, <1>8
  <2>3. /\ names \o others \in Seq(STRING)
        /\ Config!Range(names \o others) = Config!Range(names) \cup Config!Range(others)
    BY ONLY names \in Seq(STRING), others \in Seq(STRING), JoinedNames
  <2>4. PICK all \in Seq(STRING) : all = names \o others
    BY <2>3
  <2>5. now = [sm EXCEPT !.alwaysCheckNames = all]
    BY <1>8, <2>1, <2>2, <2>4 DEF Config!Applied
  <2>6. /\ now \in AnyConfiguration /\ now.alwaysCheckNames = all
        /\ now.maxConcurrency = sm.maxConcurrency /\ now.stepCount = sm.stepCount
        /\ now.configuredRuleGroups = sm.configuredRuleGroups
    BY <1>2, <2>5 DEF AnyConfiguration
  <2>7. \A x : AskedAlways(options, x, k + 1)
                 <=> AskedAlways(options, x, k) \/ x \in Config!Range(others)
    <3>1. Calls(options, "always", k + 1) = Calls(options, "always", k) \cup {k + 1}
      BY <1>8, CallsGrow DEF opt
    <3> QED BY <2>2, <3>1 DEF AskedAlways, opt
  <2>8. \A x : x \in Config!Range(now.alwaysCheckNames) <=> AskedAlways(options, x, k + 1)
    BY <1>2, <2>1, <2>3, <2>4, <2>6, <2>7
  <2> HIDE DEF now
  <2>9. Configured(options, now, k + 1)
    BY <1>2, <1>3, <1>5, <1>8, <2>6, <2>8 DEF Configured
  <2> QED BY <2>9 DEF now, opt
<1>9. CASE opt.sets = "group"
  <2>1. PICK more : more = Config!AddToGroup(sm.configuredRuleGroups, opt.group, opt.names)
    OBVIOUS
  <2>2. GroupsAsked(options, more, k + 1)
    BY <1>1, <1>2, <1>9, <2>1, GroupAsked DEF opt
  <2>3. more \in AnyGroups
    BY <2>2 DEF GroupsAsked
  <2>4. now = [sm EXCEPT !.configuredRuleGroups = more]
    BY <1>9, <2>1 DEF Config!Applied
  <2>5. /\ now \in AnyConfiguration /\ now.alwaysCheckNames = sm.alwaysCheckNames
        /\ now.maxConcurrency = sm.maxConcurrency /\ now.stepCount = sm.stepCount
        /\ now.configuredRuleGroups = more
    BY <1>2, <2>3, <2>4 DEF AnyConfiguration
  <2> HIDE DEF now
  <2>6. Configured(options, now, k + 1)
    BY <1>2, <1>3, <1>4, <1>9, <2>2, <2>5 DEF Configured
  <2> QED BY <2>6 DEF now, opt
<1> QED BY <1>1, <1>6, <1>7, <1>8, <1>9

(* What the options make of a machine is what they ask for.                 *)
LEMMA OptionsConfigure ==
    ASSUME NEW options \in Seq(Config!AnyOption)
    PROVE  Configured(options, Config!FoldLeft(Config!Applied, Config!NewMachine, options),
                      Len(options))
<1> DEFINE n == Len(options)
           how == [of |-> "options"]
<1>1. n \in Nat /\ DOMAIN options = 1..n /\ \A i \in 1..n : options[i] \in Config!AnyOption
  OBVIOUS
<1> HIDE DEF n
<1>2. PICK g : /\ InTurn(how, Config!NewMachine, options, g, n)
               /\ Config!FoldLeft(Config!Applied, Config!NewMachine, options) = g[n]
  BY <1>1, OptionsInTurn
<1>3. \A was, x : Turn(how, was, x) = Config!Applied(was, x)
  BY DEF Turn
<1> HIDE DEF how
<1> DEFINE T == {k \in 0..n : Configured(options, g[k], k)}
<1>4. 0 \in T
  <2>1. g[0] = Config!NewMachine
    BY Zenon, <1>2 DEF InTurn
  <2>2. \A sets : Calls(options, sets, 0) = {}
    BY DEF Calls
  <2>3. PICK none : none = <<>>
    OBVIOUS
  <2>4. DOMAIN none = {} /\ Config!Range(none) = {} /\ none \in AnyGroups
        /\ none \in Seq(STRING)
    BY <2>3 DEF Config!Range, AnyGroups
  <2>5. GroupsAsked(options, none, 0)
    BY <2>2, <2>4 DEF GroupsAsked, AskedGroup, AskedRule, AskedTwice, Named, Holds, TwiceIn,
                      DifferentNames
  <2>6. /\ g[0] \in AnyConfiguration /\ g[0].maxConcurrency = 1 /\ g[0].stepCount = 50
        /\ g[0].alwaysCheckNames = none /\ g[0].configuredRuleGroups = none
    BY <2>1, <2>3, <2>4 DEF AnyConfiguration, Config!NewMachine
  <2>7. \A sets, otherwise : LastUpTo(options, sets, otherwise, 0) = otherwise
    BY <2>2 DEF LastUpTo
  <2>8. \A x : ~AskedAlways(options, x, 0)
    BY <2>2 DEF AskedAlways
  <2>9. Configured(options, g[0], 0)
    BY <2>4, <2>5, <2>6, <2>7, <2>8 DEF Configured
  <2>10. 0 \in 0..n
    BY <1>1
  <2> QED BY <2>9, <2>10
<1>5. ASSUME NEW k \in 0..n - 1, k \in T PROVE k + 1 \in T
  <2>1. k \in Nat /\ k + 1 \in 0..n /\ options[k + 1] \in Config!AnyOption
    BY <1>1
  <2>2. Configured(options, g[k], k)
    BY <1>5
  <2>3. Configured(options, Config!Applied(g[k], options[k + 1]), k + 1)
    BY ONLY <2>1, <2>2, OneMoreOption
  <2>4. g[k + 1] = Config!Applied(g[k], options[k + 1])
    BY Zenon, <1>2, <1>3 DEF InTurn
  <2> QED BY <2>1, <2>3, <2>4
<1>6. n \in T
  <2> HIDE DEF T
  <2> QED BY <1>1, <1>4, <1>5, OneByOne
<1> QED BY <1>2, <1>6 DEF n

Assigned(of) == [ok |-> TRUE, of |-> of]

WithNumber(f, name, number) == [Assigned(f) EXCEPT !.of[name] = number]

LEMMA AssignedExcept ==
    ASSUME NEW f, NEW name, NEW number
    PROVE  WithNumber(f, name, number) = Assigned([f EXCEPT ![name] = number])
<1> DEFINE s == WithNumber(f, name, number)
<1>1. DOMAIN s = {"ok", "of"}
  BY DEF Assigned, WithNumber
<1>2. s.ok = TRUE
  BY DEF Assigned, WithNumber
<1>3. s.of = [f EXCEPT ![name] = number]
  BY DEF Assigned, WithNumber
<1>4. s = [x \in {"ok", "of"} |-> s[x]]
  BY DEF Assigned, WithNumber
<1> HIDE DEF s
<1>5. s = Assigned([f EXCEPT ![name] = number])
  BY <1>1, <1>2, <1>3, <1>4 DEF Assigned
<1> QED BY <1>5 DEF s

PutsOne(rules, number, f, name) ==
    /\ Assigned(f) # Config!Refused
    /\ Config!Put(rules, number, Config!Refused, name) = Config!Refused
    /\ name \in Config!Range(rules) /\ f[name] = 0 =>
         Config!Put(rules, number, Assigned(f), name)
           = Assigned([f EXCEPT ![name] = number])
    /\ ~(name \in Config!Range(rules) /\ f[name] = 0) =>
         Config!Put(rules, number, Assigned(f), name) = Config!Refused

(* Giving a rule of no group its group, and a rule twice.                   *)
LEMMA PutOne ==
    ASSUME NEW rules, NEW number \in Nat, NEW f \in [Config!Range(rules) -> Nat], NEW name
    PROVE  PutsOne(rules, number, f, name)
<1>1. Assigned(f) # Config!Refused
  <2>1. Assigned(f).ok = TRUE /\ Config!Refused.ok = FALSE
    BY DEF Assigned, Config!Refused
  <2> QED BY <2>1
<1>2. Assigned(f).of = f
  BY DEF Assigned
<1>3. ASSUME name \in Config!Range(rules), f[name] = 0
      PROVE  Config!Put(rules, number, Assigned(f), name)
               = Assigned([f EXCEPT ![name] = number])
  <2>1. /\ ~(Assigned(f) = Config!Refused \/ name \notin Config!Range(rules))
        /\ ~(Assigned(f).of[name] # 0)
    BY <1>1, <1>2, <1>3
  <2>2. Config!Put(rules, number, Assigned(f), name)
          = IF Assigned(f) = Config!Refused \/ name \notin Config!Range(rules)
            THEN Config!Refused
            ELSE IF Assigned(f).of[name] # 0 THEN Config!Refused
            ELSE WithNumber(f, name, number)
    BY DEF Config!Put, WithNumber
  <2>3. Config!Put(rules, number, Assigned(f), name) = WithNumber(f, name, number)
    BY ONLY <2>1, <2>2
  <2>4. WithNumber(f, name, number) = Assigned([f EXCEPT ![name] = number])
    BY AssignedExcept
  <2> QED BY ONLY <2>3, <2>4
<1>4. /\ Config!Put(rules, number, Config!Refused, name) = Config!Refused
      /\ ~(name \in Config!Range(rules) /\ f[name] = 0) =>
           Config!Put(rules, number, Assigned(f), name) = Config!Refused
  BY <1>1, <1>2 DEF Config!Put
<1> QED BY <1>1, <1>3, <1>4 DEF PutsOne

Fits(names, R, f, j) ==
    /\ \A i \in 1..j : names[i] \in R /\ f[names[i]] = 0
    /\ \A i, l \in 1..j : names[i] = names[l] => i = l
PutAll(names, R, f, number, j) ==
    [r \in R |-> IF \E i \in 1..j : names[i] = r THEN number ELSE f[r]]

(* A group's rules, in turn.                                                *)
LEMMA PutInTurn ==
    ASSUME NEW rules, NEW number \in Nat \ {0}, NEW f \in [Config!Range(rules) -> Nat],
           NEW names \in Seq(STRING)
    PROVE  LET R == Config!Range(rules)
               n == Len(names)
           IN /\ Fits(names, R, f, n) =>
                   Filled(rules, number, Assigned(f), names)
                     = Assigned(PutAll(names, R, f, number, n))
              /\ ~Fits(names, R, f, n) =>
                   Filled(rules, number, Assigned(f), names)
                     = Config!Refused
<1> DEFINE R == Config!Range(rules)
           n == Len(names)
           how == [of |-> "names", rules |-> rules, number |-> number]
           base == Assigned(f)
           Stage(g, j) == /\ Fits(names, R, f, j) => g = Assigned(PutAll(names, R, f, number, j))
                          /\ ~Fits(names, R, f, j) => g = Config!Refused
<1>1. n \in Nat /\ DOMAIN names = 1..n
  OBVIOUS
<1>2. PICK g : /\ InTurn(how, base, names, g, n)
               /\ Filled(rules, number, base, names) = g[n]
  <2> HIDE DEF n, base
  <2> QED BY <1>1, NamesInTurn
<1>3. \A was, x : Turn(how, was, x) = Config!Put(rules, number, was, x)
  BY DEF Turn
<1>4. f \in [R -> Nat]
  OBVIOUS
<1> DEFINE T == {j \in 0..n : Stage(g[j], j)}
<1>5. 0 \in T
  <2>1. g[0] = Assigned(f)
    BY Zenon, <1>2 DEF InTurn
  <2>2. Fits(names, R, f, 0)
    BY DEF Fits
  <2>3. PutAll(names, R, f, number, 0) = f
    <3>1. ~\E i \in 1..0 : TRUE
      OBVIOUS
    <3> HIDE DEF R
    <3> QED BY <1>4, <3>1 DEF PutAll
  <2>4. 0 \in 0..n
    BY <1>1
  <2> HIDE DEF R
  <2> QED BY <2>1, <2>2, <2>3, <2>4
<1>6. ASSUME NEW j \in 0..n - 1, j \in T PROVE j + 1 \in T
  <2>1. j \in Nat /\ j + 1 \in 0..n /\ \A i : i \in 1..j + 1 <=> i \in 1..j \/ i = j + 1
    BY <1>1
  <2>2. PICK e : e = j + 1
    OBVIOUS
  <2>3. e \in 0..n /\ e \notin 1..j /\ \A i : i \in 1..e <=> i \in 1..j \/ i = e
    BY <2>1, <2>2
  <2>4. PICK name : name = names[e]
    OBVIOUS
  <2>5. g[e] = Config!Put(rules, number, g[j], name)
    BY Zenon, <1>2, <1>3, <2>2, <2>4 DEF InTurn
  <2>6. Stage(g[j], j)
    BY <1>6
  <2>7. CASE Fits(names, R, f, j)
    <3> DEFINE all == PutAll(names, R, f, number, j)
    <3>1. g[j] = Assigned(all)
      BY <2>6, <2>7
    <3>2. all \in [R -> Nat]
      <4> HIDE DEF R
      <4> QED BY <1>4 DEF PutAll
    <3>3. /\ name \in R /\ all[name] = 0 =>
                g[e] = Assigned([all EXCEPT ![name] = number])
          /\ ~(name \in R /\ all[name] = 0) => g[e] = Config!Refused
      <4>1. all \in [Config!Range(rules) -> Nat] /\ number \in Nat
        <5> HIDE DEF all
        <5> QED BY <3>2
      <4> HIDE DEF all
      <4>2. PutsOne(rules, number, all, name)
        BY Zenon, <4>1, PutOne
      <4> QED BY <2>5, <3>1, <4>2 DEF PutsOne
    <3>4. CASE name \in R /\ f[name] = 0 /\ \A i \in 1..j : names[i] # name
      <4>1. all[name] = 0
        <5> HIDE DEF R
        <5> QED BY <3>4 DEF PutAll
      <4>2. [all EXCEPT ![name] = number] = PutAll(names, R, f, number, e)
        <5>1. [all EXCEPT ![name] = number] = [r \in R |-> IF r = name THEN number ELSE all[r]]
          <6> HIDE DEF all, R
          <6> QED BY <3>2
        <5>2. \A r \in R : all[r] = IF \E i \in 1..j : names[i] = r THEN number ELSE f[r]
          <6> HIDE DEF R
          <6> QED BY DEF PutAll
        <5>3. \A r : (\E i \in 1..e : names[i] = r) <=> (\E i \in 1..j : names[i] = r) \/ r = name
          BY <2>3, <2>4
        <5> HIDE DEF all, R
        <5> QED BY <5>1, <5>2, <5>3 DEF PutAll
      <4>3. Fits(names, R, f, e)
        <5> HIDE DEF R
        <5> QED BY <2>3, <2>4, <2>7, <3>4 DEF Fits
      <4> HIDE DEF all, R
      <4> QED BY <2>2, <2>3, <3>3, <3>4, <4>1, <4>2, <4>3
    <3>5. CASE ~(name \in R /\ f[name] = 0 /\ \A i \in 1..j : names[i] # name)
      <4>1. ~(name \in R /\ all[name] = 0)
        <5>1. \A r \in R : all[r] = IF \E i \in 1..j : names[i] = r THEN number ELSE f[r]
          <6> HIDE DEF R
          <6> QED BY DEF PutAll
        <5> HIDE DEF all, R
        <5> QED BY <3>5, <5>1
      <4>2. ~Fits(names, R, f, e)
        <5> HIDE DEF R
        <5> QED BY <2>3, <2>4, <3>5 DEF Fits
      <4> HIDE DEF all, R
      <4> QED BY <2>2, <2>3, <3>3, <4>1, <4>2
    <3> QED BY <3>4, <3>5
  <2>8. CASE ~Fits(names, R, f, j)
    <3>1. g[j] = Config!Refused
      BY <2>6, <2>8
    <3>2. g[e] = Config!Refused
      <4>1. number \in Nat
        OBVIOUS
      <4>2. PutsOne(rules, number, f, name)
        BY Zenon, <4>1, PutOne
      <4> QED BY <2>5, <3>1, <4>2 DEF PutsOne
    <3>3. ~Fits(names, R, f, e)
      <4> HIDE DEF R
      <4> QED BY <2>3, <2>8 DEF Fits
    <3> HIDE DEF R
    <3> QED BY <2>2, <2>3, <3>2, <3>3
  <2> QED BY <2>7, <2>8
<1>7. Stage(g[n], n)
  <2>1. n \in T
    <3> HIDE DEF T, n, R, Stage, how, base
    <3>1. n \in Nat
      BY <1>1
    <3>2. \A j \in 0..n - 1 : j \in T => j + 1 \in T
      BY ONLY <1>6
    <3>3. \A j \in 0..n : j \in T
      BY ONLY <1>5, <3>1, <3>2, OneByOne
    <3> QED BY ONLY <3>1, <3>3
  <2> QED BY <2>1
<1> QED BY <1>2, <1>7

LEMMA PutNothing ==
    ASSUME NEW rules, NEW number \in Nat, NEW names \in Seq(STRING)
    PROVE  Filled(rules, number, Config!Refused, names) = Config!Refused
<1> DEFINE n == Len(names)
           how == [of |-> "names", rules |-> rules, number |-> number]
           base == Config!Refused
<1>1. n \in Nat /\ DOMAIN names = 1..n
  OBVIOUS
<1>2. PICK g : /\ InTurn(how, base, names, g, n)
               /\ Filled(rules, number, base, names) = g[n]
  <2> HIDE DEF n, base
  <2> QED BY <1>1, NamesInTurn
<1>3. \A was, x : Turn(how, was, x) = Config!Put(rules, number, was, x)
  BY DEF Turn
<1> DEFINE T == {j \in 0..n : g[j] = Config!Refused}
<1>4. 0 \in T
  <2>1. g[0] = Config!Refused
    BY Zenon, <1>2 DEF InTurn
  <2> QED BY <1>1, <2>1
<1>5. ASSUME NEW j \in 0..n - 1, j \in T PROVE j + 1 \in T
  <2>1. g[j + 1] = Config!Put(rules, number, Config!Refused, names[j + 1])
    BY Zenon, <1>2, <1>3, <1>5 DEF InTurn
  <2>2. g[j + 1] = Config!Refused
    BY <2>1 DEF Config!Put
  <2> QED BY <1>1, <2>2
<1>6. n \in T
  <2> HIDE DEF T, n
  <2> QED BY <1>1, <1>4, <1>5, OneByOne
<1> QED BY <1>2, <1>6

(* No group among the first m is empty, holds something else than a rule,   *)
(* or a rule that some place has already.                                   *)
Clean(groups, R, m) ==
    /\ \A a \in 1..m : groups[a].rules # <<>> /\ Config!Range(groups[a].rules) \subseteq R
    /\ \A a \in 1..m : \A r : ~TwiceHeld(groups[a].rules, r)
    /\ \A a, b \in 1..m : \A r : ~ /\ a # b
                                   /\ r \in Config!Range(groups[a].rules)
                                   /\ r \in Config!Range(groups[b].rules)

(* A rule has the number of its group.                                      *)
Numbered(f, groups, R, m) ==
    /\ f \in [R -> Nat]
    /\ \A r \in R : f[r] = 0 <=> \A a \in 1..m : r \notin Config!Range(groups[a].rules)
    /\ \A r \in R : f[r] # 0 => f[r] \in 1..m /\ r \in Config!Range(groups[f[r]].rules)

Filling(g, groups, R, m) ==
    /\ Clean(groups, R, m) => \E f : g = Assigned(f) /\ Numbered(f, groups, R, m)
    /\ ~Clean(groups, R, m) => g = Config!Refused

LEMMA CleanStep ==
    ASSUME NEW groups, NEW R, NEW m \in Nat, NEW names \in Seq(STRING),
           names = groups[m + 1].rules, names # <<>>, Clean(groups, R, m),
           NEW f, Numbered(f, groups, R, m)
    PROVE  Fits(names, R, f, Len(names)) <=> Clean(groups, R, m + 1)
<1>1. PICK e : e = m + 1
  OBVIOUS
<1>2. e \notin 1..m /\ e \in 1..e /\ \A i : i \in 1..e <=> i \in 1..m \/ i = e
  BY <1>1
<1>3. \A r : r \in Config!Range(names) <=> \E i \in 1..Len(names) : names[i] = r
  BY DEF Config!Range
<1>4. \A r : TwiceHeld(names, r)
               <=> \E i, l \in 1..Len(names) : i # l /\ names[i] = r /\ names[l] = r
  BY DEF TwiceHeld
<1>5. \A r \in R : f[r] = 0 <=> \A a \in 1..m : r \notin Config!Range(groups[a].rules)
  BY DEF Numbered
<1>6. groups[e].rules = names
  BY <1>1
<1>7. ASSUME Fits(names, R, f, Len(names)) PROVE Clean(groups, R, e)
  <2>1. \A r \in Config!Range(names) : r \in R /\ f[r] = 0
    BY ONLY <1>3, <1>7 DEF Fits
  <2>2. \A r : ~TwiceHeld(names, r)
    BY ONLY <1>4, <1>7 DEF Fits
  <2>3. \A a \in 1..m : \A r : ~ (r \in Config!Range(groups[a].rules) /\ r \in Config!Range(names))
    BY ONLY <1>5, <2>1
  <2>4. \A a \in 1..e : groups[a].rules # <<>> /\ Config!Range(groups[a].rules) \subseteq R
    BY <1>2, <1>6, <2>1 DEF Clean
  <2>5. \A a \in 1..e : \A r : ~TwiceHeld(groups[a].rules, r)
    BY <1>2, <1>6, <2>2 DEF Clean
  <2>6. ASSUME NEW a \in 1..e, NEW b \in 1..e, NEW r, a # b,
               r \in Config!Range(groups[a].rules), r \in Config!Range(groups[b].rules)
        PROVE  FALSE
    <3>1. CASE a \in 1..m /\ b \in 1..m
      BY <2>6, <3>1 DEF Clean
    <3>2. CASE a = e \/ b = e
      BY <1>2, <1>6, <2>3, <2>6, <3>2
    <3> QED BY <1>2, <3>1, <3>2
  <2> QED BY <2>4, <2>5, <2>6 DEF Clean
<1>8. ASSUME Clean(groups, R, e) PROVE Fits(names, R, f, Len(names))
  <2>1. Config!Range(names) \subseteq R /\ \A r : ~TwiceHeld(names, r)
    BY <1>2, <1>6, <1>8 DEF Clean
  <2>2. \A a \in 1..m : \A r : ~ (r \in Config!Range(groups[a].rules) /\ r \in Config!Range(names))
    BY ONLY <1>2, <1>6, <1>8 DEF Clean
  <2>3. \A i \in 1..Len(names) : names[i] \in R /\ f[names[i]] = 0
    <3> TAKE i \in 1..Len(names)
    <3>1. names[i] \in Config!Range(names)
      BY <1>3
    <3>2. names[i] \in R
      BY <2>1, <3>1
    <3> QED BY <1>5, <2>2, <3>1, <3>2
  <2>4. ASSUME NEW i \in 1..Len(names), NEW l \in 1..Len(names), names[i] = names[l]
        PROVE  i = l
    <3>1. PICK r : r = names[i]
      OBVIOUS
    <3>2. ~TwiceHeld(names, r)
      BY <2>1
    <3> QED BY ONLY <1>4, <2>4, <3>1, <3>2
  <2> QED BY <2>3, <2>4 DEF Fits
<1> QED BY <1>1, <1>7, <1>8

LEMMA NumberedStep ==
    ASSUME NEW groups, NEW R, NEW m \in Nat, NEW names \in Seq(STRING),
           names = groups[m + 1].rules, NEW f, Numbered(f, groups, R, m)
    PROVE  Numbered(PutAll(names, R, f, m + 1, Len(names)), groups, R, m + 1)
<1>1. PICK e \in Nat \ {0} : e = m + 1
  OBVIOUS
<1>2. e \notin 1..m /\ e \in 1..e /\ \A i : i \in 1..e <=> i \in 1..m \/ i = e
  BY <1>1
<1>3. \A r : r \in Config!Range(names) <=> \E i \in 1..Len(names) : names[i] = r
  BY DEF Config!Range
<1>4. groups[e].rules = names
  BY <1>1
<1>5. /\ f \in [R -> Nat]
      /\ \A r \in R : f[r] = 0 <=> \A a \in 1..m : r \notin Config!Range(groups[a].rules)
      /\ \A r \in R : f[r] # 0 => f[r] \in 1..m /\ r \in Config!Range(groups[f[r]].rules)
  BY DEF Numbered
<1> DEFINE now == PutAll(names, R, f, e, Len(names))
<1>6. \A r \in R : now[r] = IF r \in Config!Range(names) THEN e ELSE f[r]
  BY <1>3 DEF PutAll
<1>7. now \in [R -> Nat]
  BY <1>5 DEF PutAll
<1> HIDE DEF now
<1>8. ASSUME NEW r \in R
      PROVE  /\ now[r] = 0 <=> \A a \in 1..e : r \notin Config!Range(groups[a].rules)
             /\ now[r] # 0 => now[r] \in 1..e /\ r \in Config!Range(groups[now[r]].rules)
  <2>1. CASE r \in Config!Range(names)
    BY <1>2, <1>4, <1>6, <2>1
  <2>2. CASE r \notin Config!Range(names)
    BY <1>2, <1>4, <1>5, <1>6, <2>2
  <2> QED BY <2>1, <2>2
<1>9. Numbered(now, groups, R, e)
  BY <1>7, <1>8 DEF Numbered
<1> QED BY <1>1, <1>9 DEF now

LEMMA FillOne ==
    ASSUME NEW rules, NEW groups, NEW m \in Nat, groups[m + 1].rules \in Seq(STRING),
           NEW g, Filling(g, groups, Config!Range(rules), m)
    PROVE  Filling(Config!Fill(rules, groups, g, m + 1), groups, Config!Range(rules), m + 1)
<1> DEFINE R == Config!Range(rules)
<1>1. PICK e \in Nat \ {0} : e = m + 1
  OBVIOUS
<1>2. \A i \in 1..m : i \in 1..e
  BY <1>1
<1>3. e \in 1..e
  OBVIOUS
<1>4. PICK names \in Seq(STRING) : names = groups[e].rules
  BY <1>1
<1>5. Clean(groups, R, e) => Clean(groups, R, m) /\ names # <<>>
  <2> HIDE DEF R
  <2> QED BY <1>2, <1>3, <1>4 DEF Clean
<1> DEFINE now == Config!Fill(rules, groups, g, e)
<1>6. names = <<>> => now = Config!Refused
  BY <1>4 DEF Config!Fill
<1>7. names # <<>> => now = Filled(rules, e, g, names)
  BY Zenon, <1>4 DEF Config!Fill, Filled
<1> HIDE DEF now
<1>8. CASE names = <<>>
  <2> HIDE DEF R
  <2>1. Filling(now, groups, R, e)
    BY <1>5, <1>6, <1>8 DEF Filling
  <2> QED BY <1>1, <2>1 DEF now, R
<1>9. CASE names # <<>> /\ ~Clean(groups, R, m)
  <2>1. g = Config!Refused
    BY <1>9 DEF Filling
  <2>2. Filled(rules, e, Config!Refused, names) = Config!Refused
    BY PutNothing
  <2> HIDE DEF R
  <2>3. Filling(now, groups, R, e)
    BY <1>5, <1>7, <1>9, <2>1, <2>2 DEF Filling
  <2> QED BY <1>1, <2>3 DEF now, R
<1>10. CASE names # <<>> /\ Clean(groups, R, m)
  <2>1. PICK f : g = Assigned(f) /\ Numbered(f, groups, R, m)
    BY <1>10 DEF Filling
  <2>2. f \in [Config!Range(rules) -> Nat]
    BY <2>1 DEF Numbered
  <2>3. /\ Fits(names, R, f, Len(names)) =>
             Filled(rules, e, Assigned(f), names)
               = Assigned(PutAll(names, R, f, e, Len(names)))
        /\ ~Fits(names, R, f, Len(names)) =>
             Filled(rules, e, Assigned(f), names) = Config!Refused
    BY <2>2, PutInTurn
  <2>4. Fits(names, R, f, Len(names)) <=> Clean(groups, R, e)
    <3> HIDE DEF R
    <3> QED BY <1>1, <1>4, <1>10, <2>1, CleanStep
  <2>5. Numbered(PutAll(names, R, f, e, Len(names)), groups, R, e)
    <3> HIDE DEF R
    <3> QED BY <1>1, <1>4, <2>1, NumberedStep
  <2> HIDE DEF R
  <2>6. Filling(now, groups, R, e)
    BY <1>7, <1>10, <2>1, <2>3, <2>4, <2>5 DEF Filling
  <2> QED BY <1>1, <2>6 DEF now, R
<1> QED BY <1>8, <1>9, <1>10

(* Assign numbers the rules by their groups, or refuses the groups.         *)
LEMMA GroupsAssigned ==
    ASSUME NEW rules, NEW groups \in AnyGroups
    PROVE  Filling(Config!Assign(rules, groups), groups, Config!Range(rules), Len(groups))
<1> DEFINE n == Len(groups)
           R == Config!Range(rules)
           how == [of |-> "groups", rules |-> rules, configured |-> groups]
           base == [ok |-> TRUE, of |-> [r \in R |-> 0]]
           numbers == [number \in DOMAIN groups |-> number]
<1>1. /\ n \in Nat /\ DOMAIN groups = 1..n
      /\ \A i \in 1..n : groups[i].rules \in Seq(STRING)
  <2> DEFINE Record == [name : STRING, rules : Seq(STRING)]
  <2>1. groups \in Seq(Record)
    BY DEF AnyGroups
  <2>2. \A x \in Record : x.rules \in Seq(STRING)
    OBVIOUS
  <2> HIDE DEF Record
  <2> QED BY <2>1, <2>2
<1>2. \A i \in 1..n : numbers[i] = i
  BY <1>1
<1>3. PICK g : /\ InTurn(how, base, numbers, g, n)
               /\ Config!Assign(rules, groups) = g[n]
  <2> HIDE DEF n
  <2> QED BY <1>1, GroupsInTurn
<1>4. \A was, x : Turn(how, was, x) = Config!Fill(rules, groups, was, x)
  BY DEF Turn
<1> HIDE DEF how, numbers, n
<1> DEFINE T == {m \in 0..n : Filling(g[m], groups, R, m)}
<1>5. 0 \in T
  <2>1. g[0] = base
    BY Zenon, <1>3 DEF InTurn
  <2>2. PICK f : f = [r \in R |-> 0]
    OBVIOUS
  <2>3. g[0] = Assigned(f)
    BY <2>1, <2>2 DEF Assigned
  <2> HIDE DEF R
  <2>4. Numbered(f, groups, R, 0)
    <3>1. 1..0 = {}
      OBVIOUS
    <3> QED BY <2>2, <3>1 DEF Numbered
  <2>5. Clean(groups, R, 0)
    BY DEF Clean
  <2>6. Filling(g[0], groups, R, 0)
    BY <2>3, <2>4, <2>5 DEF Filling
  <2> QED BY <1>1, <2>6
<1>6. ASSUME NEW m \in 0..n - 1, m \in T PROVE m + 1 \in T
  <2>1. m \in Nat /\ m + 1 \in 1..n /\ m + 1 \in 0..n /\ groups[m + 1].rules \in Seq(STRING)
    BY <1>1
  <2>2. Filling(g[m], groups, Config!Range(rules), m)
    BY <1>6
  <2>3. Filling(Config!Fill(rules, groups, g[m], m + 1), groups, R, m + 1)
    BY ONLY <2>1, <2>2, FillOne
  <2>4. g[m + 1] = Config!Fill(rules, groups, g[m], m + 1)
    <3>1. g[m + 1] = Turn(how, g[m], numbers[m + 1])
      BY Zenon, <1>3 DEF InTurn
    <3> QED BY <1>2, <1>4, <2>1, <3>1
  <2> HIDE DEF R
  <2> QED BY <2>1, <2>3, <2>4
<1>7. n \in T
  <2> HIDE DEF T, R
  <2>1. n \in Nat
    BY <1>1
  <2>2. \A m \in 0..n - 1 : m \in T => m + 1 \in T
    BY ONLY <1>6
  <2>3. \A m \in 0..n : m \in T
    BY ONLY <1>5, <2>1, <2>2, OneByOne
  <2> QED BY ONLY <2>1, <2>3
<1> QED BY <1>3, <1>7 DEF n

(* The words of the comments and those of the folds.                        *)
LEMMA OptionWords ==
    ASSUME NEW options \in Seq(Config!AnyOption)
    PROVE  LET n == Len(options)
           IN /\ \A sets : Config!These(options, sets) = Calls(options, sets, n)
              /\ \A sets, otherwise :
                    Config!LastOf(options, sets, otherwise) = LastUpTo(options, sets, otherwise, n)
<1>1. DOMAIN options = 1..Len(options)
  OBVIOUS
<1> QED BY <1>1 DEF Config!These, Calls, Config!LastOf, LastUpTo

LEMMA MentionWords ==
    ASSUME NEW options \in Seq(Config!AnyOption), NEW r
    PROVE  LET n == Len(options)
           IN /\ \A x : x \in Config!GroupOf(options, r) <=> AskedRule(options, x, r, n)
              /\ (\A p, q \in Config!Mentions(options, r) : p = q) <=> ~AskedTwice(options, r, n)
<1> DEFINE n == Len(options)
           G == Calls(options, "group", n)
           M == Config!Mentions(options, r)
<1>1. Config!These(options, "group") = G
  BY OptionWords
<1> HIDE DEF G, n
<1>2. M = {place \in UNION {{i} \X DOMAIN options[i].names : i \in G} :
             options[place[1]].names[place[2]] = r}
  BY <1>1 DEF Config!Mentions
<1> HIDE DEF M
<1>3. \A i, l : <<i, l>> \in M <=>
                  i \in G /\ l \in DOMAIN options[i].names /\ options[i].names[l] = r
  BY ONLY <1>2
<1>4. \A p \in M : \E i, l : p = <<i, l>>
  BY ONLY <1>2
<1>5. \A i : r \in Config!Range(options[i].names)
               <=> \E l \in DOMAIN options[i].names : options[i].names[l] = r
  BY DEF Config!Range
<1>6. \A x : x \in Config!GroupOf(options, r) <=> AskedRule(options, x, r, n)
  <2>1. Config!GroupOf(options, r) = {options[place[1]].group : place \in M}
    BY DEF Config!GroupOf, M
  <2>2. ASSUME NEW x, x \in Config!GroupOf(options, r) PROVE AskedRule(options, x, r, n)
    <3>1. PICK place \in M : x = options[place[1]].group
      BY <2>1, <2>2
    <3>2. PICK i, l : place = <<i, l>>
      BY <1>4
    <3>3. x = options[i].group /\ <<i, l>> \in M
      BY <3>1, <3>2
    <3> QED BY <1>3, <1>5, <3>3 DEF AskedRule, G
  <2>3. ASSUME NEW x, AskedRule(options, x, r, n) PROVE x \in Config!GroupOf(options, r)
    <3>1. PICK i \in G : options[i].group = x /\ r \in Config!Range(options[i].names)
      BY <2>3 DEF AskedRule, G
    <3>2. PICK l : <<i, l>> \in M
      BY <1>3, <1>5, <3>1
    <3>3. PICK place : place = <<i, l>>
      OBVIOUS
    <3>4. place \in M /\ place[1] = i
      BY <3>2, <3>3
    <3> QED BY <2>1, <3>1, <3>4
  <2> QED BY <2>2, <2>3
<1>7. AskedTwice(options, r, n) <=>
        \E i, j, l, o : <<i, l>> \in M /\ <<j, o>> \in M /\ <<i, l>> # <<j, o>>
  <2>1. ASSUME AskedTwice(options, r, n)
        PROVE  \E i, j, l, o : <<i, l>> \in M /\ <<j, o>> \in M /\ <<i, l>> # <<j, o>>
    <3>1. CASE \E i \in G : TwiceHeld(options[i].names, r)
      <4>1. PICK i \in G : TwiceHeld(options[i].names, r)
        BY <3>1
      <4>2. PICK l, o \in DOMAIN options[i].names :
              l # o /\ options[i].names[l] = r /\ options[i].names[o] = r
        BY <4>1 DEF TwiceHeld
      <4>3. <<i, l>> \in M /\ <<i, o>> \in M /\ <<i, l>> # <<i, o>>
        BY <1>3, <4>1, <4>2
      <4> QED BY Zenon, <4>3
    <3>2. CASE \E i, j \in G : /\ i # j
                               /\ r \in Config!Range(options[i].names)
                               /\ r \in Config!Range(options[j].names)
      <4>1. PICK i, j \in G : /\ i # j
                              /\ r \in Config!Range(options[i].names)
                              /\ r \in Config!Range(options[j].names)
        BY <3>2
      <4>2. PICK l : <<i, l>> \in M
        BY <1>3, <1>5, <4>1
      <4>3. PICK o : <<j, o>> \in M
        BY <1>3, <1>5, <4>1
      <4>4. <<i, l>> # <<j, o>>
        BY <4>1
      <4> QED BY Zenon, <4>2, <4>3, <4>4
    <3> QED BY <2>1, <3>1, <3>2 DEF AskedTwice, G
  <2>2. ASSUME NEW i, NEW j, NEW l, NEW o,
               <<i, l>> \in M, <<j, o>> \in M, <<i, l>> # <<j, o>>
        PROVE  AskedTwice(options, r, n)
    <3>1. /\ i \in G /\ l \in DOMAIN options[i].names /\ options[i].names[l] = r
          /\ j \in G /\ o \in DOMAIN options[j].names /\ options[j].names[o] = r
      BY <1>3, <2>2
    <3>2. CASE i = j
      <4>1. l # o
        BY <2>2, <3>2
      <4>2. TwiceHeld(options[i].names, r)
        BY <3>1, <3>2, <4>1 DEF TwiceHeld
      <4> QED BY <3>1, <4>2 DEF AskedTwice, G
    <3>3. CASE i # j
      BY <1>5, <3>1, <3>3 DEF AskedTwice, G
    <3> QED BY <3>2, <3>3
  <2> QED BY <2>1, <2>2
<1>8. (\A p, q \in M : p = q) <=> ~AskedTwice(options, r, n)
  <2>1. ASSUME \A p, q \in M : p = q PROVE ~AskedTwice(options, r, n)
    BY Zenon, <1>7, <2>1
  <2>2. ASSUME NEW p \in M, NEW q \in M, p # q PROVE AskedTwice(options, r, n)
    <3>1. PICK i, l : p = <<i, l>>
      BY Zenon, <1>4
    <3>2. PICK j, o : q = <<j, o>>
      BY Zenon, <1>4
    <3>3. <<i, l>> \in M /\ <<j, o>> \in M /\ <<i, l>> # <<j, o>>
      BY ONLY <3>1, <3>2, <2>2
    <3> QED BY Zenon, <1>7, <3>3
  <2> QED BY <2>1, <2>2
<1> QED BY <1>6, <1>8 DEF M, n

LEMMA MethodWords ==
    ASSUME NEW methods \in Seq(Config!AnyMethod), NEW prefix
    PROVE  /\ Config!Discovered(methods, prefix) \in Seq(STRING)
           /\ {m.name : m \in {n \in Config!Range(methods) : n.prefix = prefix}}
                = Config!Range(Config!Discovered(methods, prefix))
<1>1. /\ Config!Discovered(methods, prefix) \in Seq(STRING)
      /\ Config!Range(Config!Discovered(methods, prefix))
           = NamesStarting(methods, prefix, Len(methods))
  BY DiscoveredNames
<1>2. DOMAIN methods = 1..Len(methods) /\ \A i \in 1..Len(methods) : methods[i] \in Config!AnyMethod
  OBVIOUS
<1>3. \A m \in Config!AnyMethod : m.name \in STRING
  BY DEF Config!AnyMethod
<1>4. \A m : m \in Config!Range(methods) <=> \E i \in 1..Len(methods) : methods[i] = m
  BY <1>2 DEF Config!Range
<1>5. \A x : x \in {m.name : m \in {n \in Config!Range(methods) : n.prefix = prefix}}
               <=> x \in NamesStarting(methods, prefix, Len(methods))
  BY <1>2, <1>3, <1>4 DEF NamesStarting
<1>6. {m.name : m \in {n \in Config!Range(methods) : n.prefix = prefix}}
        = NamesStarting(methods, prefix, Len(methods))
  BY <1>5
<1> QED BY <1>1, <1>6

(* The groups that the options ask for are in order if those that they make *)
(* are clean.                                                               *)
GroupsInOrder(options, R, n) ==
    /\ \A i \in Calls(options, "group", n) :
        /\ Config!Range(options[i].names) \subseteq R
        /\ \E j \in Calls(options, "group", n) :
            options[j].group = options[i].group /\ options[j].names # <<>>
    /\ \A r \in R : ~AskedTwice(options, r, n)

LEMMA EmptyNames ==
    ASSUME NEW names \in Seq(STRING)
    PROVE  names # <<>> <=> \E r : r \in Config!Range(names)
<1>1. names # <<>> <=> Len(names) # 0
  OBVIOUS
<1>2. \A r : r \in Config!Range(names) <=> \E i \in 1..Len(names) : names[i] = r
  BY DEF Config!Range
<1>3. Len(names) # 0 => names[1] \in Config!Range(names)
  <2>1. Len(names) \in Nat
    OBVIOUS
  <2>2. Len(names) # 0 => 1 \in 1..Len(names)
    BY <2>1
  <2> QED BY <1>2, <2>2
<1>4. Len(names) = 0 => \A r : r \notin Config!Range(names)
  BY <1>2
<1> QED BY <1>1, <1>3, <1>4

LEMMA CleanIsInOrder ==
    ASSUME NEW options \in Seq(Config!AnyOption), NEW groups, NEW R,
           GroupsAsked(options, groups, Len(options))
    PROVE  Clean(groups, R, Len(groups)) <=> GroupsInOrder(options, R, Len(options))
<1> DEFINE n == Len(options)
           G == Calls(options, "group", n)
           D == DOMAIN groups
<1>1. /\ groups \in AnyGroups /\ DifferentNames(groups)
      /\ \A x : Named(groups, x) <=> \E i \in G : options[i].group = x
      /\ \A x, r : Holds(groups, x, r) <=>
            \E i \in G : options[i].group = x /\ r \in Config!Range(options[i].names)
      /\ \A r : TwiceIn(groups, r) <=> AskedTwice(options, r, n)
  BY DEF GroupsAsked, AskedGroup, AskedRule
<1>2. 1..Len(groups) = D /\ \A a \in D : groups[a].rules \in Seq(STRING)
  <2> DEFINE Record == [name : STRING, rules : Seq(STRING)]
  <2>1. groups \in Seq(Record)
    BY <1>1 DEF AnyGroups
  <2>2. \A x \in Record : x.rules \in Seq(STRING)
    OBVIOUS
  <2> HIDE DEF Record
  <2> QED BY <2>1, <2>2
<1>3. \A a \in D : groups[a].rules # <<>> <=> \E r : r \in Config!Range(groups[a].rules)
  BY <1>2, EmptyNames
<1>4. \A i \in G : options[i].names # <<>> <=> \E r : r \in Config!Range(options[i].names)
  <2>1. \A i \in G : options[i] \in Config!AnyOption /\ options[i].sets = "group"
    BY DEF Calls
  <2>2. \A i \in G : options[i].names \in Seq(STRING)
    BY <2>1 DEF Config!AnyOption
  <2> HIDE DEF G
  <2> QED BY <2>2, EmptyNames
<1>5. \A x, r : Holds(groups, x, r) <=>
        \E a \in D : groups[a].name = x /\ r \in Config!Range(groups[a].rules)
  BY DEF Holds
<1>6. \A x : Named(groups, x) <=> \E a \in D : groups[a].name = x
  BY DEF Named
<1>7. \A r : TwiceIn(groups, r) <=>
        \/ \E a \in D : TwiceHeld(groups[a].rules, r)
        \/ \E a, b \in D : /\ a # b
                           /\ r \in Config!Range(groups[a].rules)
                           /\ r \in Config!Range(groups[b].rules)
  BY DEF TwiceIn
<1>8. \A names, r : TwiceHeld(names, r) => r \in Config!Range(names)
  BY DEF TwiceHeld, Config!Range
<1>9. \A a, b \in D : groups[a].name = groups[b].name => a = b
  BY <1>1 DEF DifferentNames
<1>10. Clean(groups, R, Len(groups)) <=>
         /\ \A a \in D : groups[a].rules # <<>> /\ Config!Range(groups[a].rules) \subseteq R
         /\ \A r : ~TwiceIn(groups, r)
  BY <1>2, <1>7 DEF Clean
<1>11. GroupsInOrder(options, R, n) <=>
         /\ \A i \in G : /\ Config!Range(options[i].names) \subseteq R
                         /\ \E j \in G : /\ options[j].group = options[i].group
                                         /\ options[j].names # <<>>
         /\ \A r \in R : ~AskedTwice(options, r, n)
  BY DEF GroupsInOrder
<1> HIDE DEF G, D, n
<1>12. ASSUME \A a \in D : groups[a].rules # <<>> /\ Config!Range(groups[a].rules) \subseteq R,
              \A r : ~TwiceIn(groups, r)
       PROVE  GroupsInOrder(options, R, n)
  <2>1. ASSUME NEW i \in G PROVE Config!Range(options[i].names) \subseteq R
    BY ONLY <1>1, <1>5, <1>12, <2>1
  <2>2. ASSUME NEW i \in G
        PROVE  \E j \in G : options[j].group = options[i].group /\ options[j].names # <<>>
    <3>1. PICK a \in D : groups[a].name = options[i].group
      BY ONLY <1>1, <1>6, <2>2
    <3>2. PICK r : r \in Config!Range(groups[a].rules)
      BY ONLY <1>3, <1>12, <3>1
    <3>3. Holds(groups, options[i].group, r)
      BY ONLY <1>5, <3>1, <3>2
    <3> QED BY ONLY <1>1, <1>4, <3>3
  <2> QED BY ONLY <1>1, <1>11, <1>12, <2>1, <2>2
<1>13. ASSUME GroupsInOrder(options, R, n) PROVE Clean(groups, R, Len(groups))
  <2>1. ASSUME NEW a \in D PROVE groups[a].rules # <<>>
    <3>1. PICK i \in G : options[i].group = groups[a].name
      BY ONLY <1>1, <1>6, <2>1
    <3>2. PICK j \in G : options[j].group = groups[a].name /\ options[j].names # <<>>
      BY ONLY <1>11, <1>13, <3>1
    <3>3. PICK r : r \in Config!Range(options[j].names)
      BY ONLY <1>4, <3>2
    <3>4. Holds(groups, groups[a].name, r)
      BY ONLY <1>1, <3>2, <3>3
    <3>5. r \in Config!Range(groups[a].rules)
      BY ONLY <1>5, <1>9, <2>1, <3>4
    <3> QED BY ONLY <1>3, <2>1, <3>5
  <2>2. ASSUME NEW a \in D, NEW r \in Config!Range(groups[a].rules) PROVE r \in R
    <3>1. Holds(groups, groups[a].name, r)
      BY ONLY <1>5, <2>2
    <3>2. PICK i \in G : r \in Config!Range(options[i].names)
      BY ONLY <1>1, <3>1
    <3> QED BY ONLY <1>11, <1>13, <3>2
  <2>3. ASSUME NEW r PROVE ~TwiceIn(groups, r)
    <3>1. CASE r \in R
      BY ONLY <1>1, <1>11, <1>13, <3>1
    <3>2. CASE r \notin R
      BY ONLY <1>7, <1>8, <2>2, <3>2
    <3> QED BY <3>1, <3>2
  <2> QED BY ONLY <1>10, <2>1, <2>2, <2>3
<1>14. Clean(groups, R, Len(groups)) => GroupsInOrder(options, R, n)
  BY ONLY <1>10, <1>12
<1> QED BY <1>13, <1>14 DEF n

LEMMA PermittedWords ==
    ASSUME NEW methods \in Seq(Config!AnyMethod), NEW options \in Seq(Config!AnyOption),
           NEW rules, rules = Config!Discovered(methods, "Rule"),
           NEW invariants, invariants = Config!Discovered(methods, "Invariant")
    PROVE  LET n == Len(options)
               R == Config!Range(rules)
           IN Config!Permitted(methods, options) <=>
                /\ rules # <<>>
                /\ ~\E m \in Config!Range(methods) : Config!Misplaced(m)
                /\ LastUpTo(options, "concurrency", 1, n) >= 1
                /\ LastUpTo(options, "steps", 50, n) >= 1
                /\ \A x : AskedAlways(options, x, n) => x \in Config!Range(invariants)
                /\ GroupsInOrder(options, R, n)
<1> DEFINE n == Len(options)
           R == Config!Range(rules)
           I == Config!Range(invariants)
           named(prefix) == {m.name : m \in {x \in Config!Range(methods) : x.prefix = prefix}}
<1>1. /\ named("Rule") = R /\ named("Invariant") = I
      /\ rules \in Seq(STRING) /\ invariants \in Seq(STRING)
  BY MethodWords
<1>2. R # {} <=> rules # <<>>
  <2>1. rules # <<>> <=> \E r : r \in R
    BY <1>1, EmptyNames
  <2> HIDE DEF R
  <2> QED BY <2>1
<1>3. /\ \A sets : Config!These(options, sets) = Calls(options, sets, n)
      /\ \A sets, otherwise :
            Config!LastOf(options, sets, otherwise) = LastUpTo(options, sets, otherwise, n)
  BY OptionWords
<1>4. \A r : (\A p, q \in Config!Mentions(options, r) : p = q) <=> ~AskedTwice(options, r, n)
  BY MentionWords
<1>5. (\A m \in Config!Range(methods) : (m.prefix = "" => ~m.takes) /\ (m.prefix # "" => m.fits))
        <=> ~\E m \in Config!Range(methods) : Config!Misplaced(m)
  <2>1. \A m \in Config!Range(methods) : m \in Config!AnyMethod
    BY DEF Config!Range
  <2>2. \A m \in Config!AnyMethod : m.takes \in BOOLEAN /\ m.fits \in BOOLEAN
    BY DEF Config!AnyMethod
  <2> QED BY <2>1, <2>2 DEF Config!Misplaced
<1>6. (\A i \in Calls(options, "always", n) : Config!Range(options[i].names) \subseteq I)
        <=> \A x : AskedAlways(options, x, n) => x \in I
  BY DEF AskedAlways
<1>7. GroupsInOrder(options, R, n) <=>
        /\ \A i \in Calls(options, "group", n) :
            /\ Config!Range(options[i].names) \subseteq R
            /\ \E j \in Calls(options, "group", n) :
                options[j].group = options[i].group /\ options[j].names # <<>>
        /\ \A r \in R : \A p, q \in Config!Mentions(options, r) : p = q
  BY ONLY <1>4 DEF GroupsInOrder
<1>8. Config!Permitted(methods, options) <=>
        /\ named("Rule") # {}
        /\ \A m \in Config!Range(methods) :
             (m.prefix = "" => ~m.takes) /\ (m.prefix # "" => m.fits)
        /\ LastUpTo(options, "concurrency", 1, n) >= 1 /\ LastUpTo(options, "steps", 50, n) >= 1
        /\ \A i \in Calls(options, "always", n) :
             Config!Range(options[i].names) \subseteq named("Invariant")
        /\ \A i \in Calls(options, "group", n) :
             /\ Config!Range(options[i].names) \subseteq named("Rule")
             /\ \E j \in Calls(options, "group", n) :
                 options[j].group = options[i].group /\ options[j].names # <<>>
        /\ \A r \in named("Rule") : \A p, q \in Config!Mentions(options, r) : p = q
  <2> DEFINE Ask(always, groupCalls, most, steps) ==
               /\ named("Rule") # {}
               /\ \A m \in Config!Range(methods) :
                    /\ m.prefix = "" => ~m.takes
                    /\ m.prefix # "" => m.fits
               /\ most >= 1
               /\ \A i \in always : Config!Range(options[i].names) \subseteq named("Invariant")
               /\ \A i \in groupCalls : Config!Range(options[i].names) \subseteq named("Rule")
               /\ steps >= 1
               /\ \A i \in groupCalls : \E j \in groupCalls :
                    options[j].group = options[i].group /\ options[j].names # <<>>
               /\ \A r \in named("Rule") : \A p, q \in Config!Mentions(options, r) : p = q
  <2>1. Config!Permitted(methods, options) <=>
          Ask(Config!These(options, "always"), Config!These(options, "group"),
              Config!LastOf(options, "concurrency", 1), Config!LastOf(options, "steps", 50))
    BY Zenon DEF Config!Permitted, Config!Sound, Config!Named
  <2>2. /\ Config!These(options, "always") = Calls(options, "always", n)
        /\ Config!These(options, "group") = Calls(options, "group", n)
        /\ Config!LastOf(options, "concurrency", 1) = LastUpTo(options, "concurrency", 1, n)
        /\ Config!LastOf(options, "steps", 50) = LastUpTo(options, "steps", 50, n)
    BY ONLY <1>3
  <2>3. Config!Permitted(methods, options) <=>
          Ask(Calls(options, "always", n), Calls(options, "group", n),
              LastUpTo(options, "concurrency", 1, n), LastUpTo(options, "steps", 50, n))
    <3> HIDE DEF Ask, n
    <3> QED BY Zenon, <2>1, <2>2
  <2> HIDE DEF named, n
  <2> QED BY Zenon, <2>3
<1> HIDE DEF R, I, n, named
<1>9. Config!Permitted(methods, options) <=>
        /\ rules # <<>>
        /\ ~\E m \in Config!Range(methods) : Config!Misplaced(m)
        /\ LastUpTo(options, "concurrency", 1, n) >= 1 /\ LastUpTo(options, "steps", 50, n) >= 1
        /\ \A x : AskedAlways(options, x, n) => x \in I
        /\ GroupsInOrder(options, R, n)
  BY ONLY <1>1, <1>2, <1>5, <1>6, <1>7, <1>8
<1> QED BY <1>9 DEF R, I, n

(* Where the comments agree, the words of both kinds forbid the same.       *)
LEMMA LetterAgrees ==
    ASSUME NEW methods \in Seq(Config!AnyMethod), NEW options \in Seq(Config!AnyOption),
           ~Config!AtOdds(options)
    PROVE  /\ Config!Legal(methods, options) <=> Config!Permitted(methods, options)
           /\ \A r, q : Config!GroupOf(options, r) = Config!GroupOf(options, q)
                           <=> Config!Callers(options, r) = Config!Callers(options, q)
<1> DEFINE n == Len(options)
           S == Calls(options, "steps", n)
           G == Calls(options, "group", n)
           Uses(r) == Config!Callers(options, r)
<1>1. Config!These(options, "steps") = S /\ Config!These(options, "group") = G
  BY OptionWords
<1>2. \A i, j \in S : ~(i < j /\ options[i].to < 1)
  BY <1>1 DEF Config!AtOdds, Config!Overridden
<1>3. \A i, j \in G : options[i].group = options[j].group => i = j
  BY <1>1 DEF Config!AtOdds, Config!SharedGroup
<1>4. \A i \in G : \A r : ~TwiceHeld(options[i].names, r)
  BY <1>1 DEF Config!AtOdds, Config!NamedTwice, TwiceHeld
<1>5. \A r : \A i : i \in Uses(r) <=> i \in G /\ r \in Config!Range(options[i].names)
  BY <1>1 DEF Config!Callers
<1>6. (\A i \in S : options[i].to >= 1) <=> Config!LastOf(options, "steps", 50) >= 1
  <2>1. CASE S = {}
    <3>1. Config!LastOf(options, "steps", 50) = 50
      BY <1>1, <2>1 DEF Config!LastOf
    <3> QED BY <2>1, <3>1
  <2>2. CASE S # {}
    <3>1. Config!LastOf(options, "steps", 50) = options[Config!Max(S)].to
      BY <1>1, <2>2 DEF Config!LastOf
    <3>2. Config!Max(S) \in S /\ \A i \in S : i <= Config!Max(S)
      <4>1. n \in Nat /\ S \in SUBSET (1..n)
        BY DEF Calls
      <4> HIDE DEF S, n
      <4> QED BY <2>2, <4>1, GreatestOf
    <3>3. \A i \in S : i \in Nat /\ options[i].to \in Int
      <4>1. \A i \in S : i \in 1..Len(options) /\ options[i].sets = "steps"
        BY DEF Calls
      <4>2. \A i \in 1..Len(options) : options[i] \in Config!AnyOption
        OBVIOUS
      <4>3. \A o \in Config!AnyOption : o.sets = "steps" => o.to \in Int
        BY DEF Config!AnyOption
      <4> QED BY ONLY <4>1, <4>2, <4>3
    <3>4. PICK last \in S : last = Config!Max(S)
      BY <3>2
    <3> HIDE DEF S
    <3>5. ASSUME options[last].to >= 1, NEW i \in S PROVE options[i].to >= 1
      <4>1. i <= last
        BY ONLY <3>2, <3>4, <3>5
      <4>2. CASE i = last
        BY ONLY <3>5, <4>2
      <4>3. CASE i # last
        <5>1. i < last
          BY ONLY <3>3, <3>4, <3>5, <4>1, <4>3
        <5> QED BY ONLY <1>2, <3>3, <3>4, <3>5, <5>1
      <4> QED BY ONLY <4>2, <4>3
    <3> QED BY ONLY <3>1, <3>4, <3>5
  <2> QED BY <2>1, <2>2
<1>7. (\A i \in G : options[i].names # <<>>)
        <=> \A i \in G : \E j \in G :
              options[j].group = options[i].group /\ options[j].names # <<>>
  <2> HIDE DEF G
  <2> QED BY ONLY <1>3
<1>8. \A r : (\A i, j \in Uses(r) : i = j)
               <=> \A p, q \in Config!Mentions(options, r) : p = q
  <2> SUFFICES ASSUME NEW r
               PROVE  (\A i, j \in Uses(r) : i = j) <=> ~AskedTwice(options, r, n)
    BY MentionWords
  <2>1. AskedTwice(options, r, n) <=>
          \E i, j \in G : /\ i # j
                          /\ r \in Config!Range(options[i].names)
                          /\ r \in Config!Range(options[j].names)
    BY <1>4 DEF AskedTwice
  <2> HIDE DEF G, Uses, n
  <2> QED BY ONLY <1>5, <2>1
<1>9. Config!Legal(methods, options) <=> Config!Permitted(methods, options)
  <2>1. Config!Legal(methods, options) <=>
          /\ Config!Sound(methods, options)
          /\ \A i \in S : options[i].to >= 1
          /\ \A i \in G : options[i].names # <<>>
          /\ \A r \in Config!Named(methods, "Rule") : \A i, j \in Uses(r) : i = j
    BY ONLY <1>1 DEF Config!Legal
  <2>2. Config!Permitted(methods, options) <=>
          /\ Config!Sound(methods, options)
          /\ Config!LastOf(options, "steps", 50) >= 1
          /\ \A i \in G : \E j \in G :
                options[j].group = options[i].group /\ options[j].names # <<>>
          /\ \A r \in Config!Named(methods, "Rule") :
                \A p, q \in Config!Mentions(options, r) : p = q
    BY ONLY <1>1 DEF Config!Permitted
  <2> HIDE DEF S, G, Uses
  <2> QED BY ONLY <1>6, <1>7, <1>8, <2>1, <2>2
<1>10. \A r : \A x : x \in Config!GroupOf(options, r)
                        <=> \E i \in Uses(r) : options[i].group = x
  <2> TAKE r
  <2>1. \A x : x \in Config!GroupOf(options, r) <=> AskedRule(options, x, r, n)
    BY MentionWords
  <2>2. \A x : AskedRule(options, x, r, n) <=>
                 \E i \in G : options[i].group = x /\ r \in Config!Range(options[i].names)
    BY DEF AskedRule
  <2> HIDE DEF G, Uses, n
  <2> QED BY ONLY <1>5, <2>1, <2>2
<1>11. ASSUME NEW r, NEW q, Config!GroupOf(options, r) = Config!GroupOf(options, q)
       PROVE  Uses(r) \subseteq Uses(q)
  <2> SUFFICES ASSUME NEW i \in Uses(r) PROVE i \in Uses(q)
    OBVIOUS
  <2> HIDE DEF G, Uses
  <2>1. options[i].group \in Config!GroupOf(options, q)
    BY ONLY <1>10, <1>11, i \in Uses(r)
  <2>2. PICK j \in Uses(q) : options[j].group = options[i].group
    BY ONLY <1>10, <2>1
  <2>3. i \in G /\ j \in G
    BY ONLY <1>5, <2>2, i \in Uses(r)
  <2> QED BY ONLY <1>3, <2>2, <2>3
<1>12. ASSUME NEW r, NEW q
       PROVE  Config!GroupOf(options, r) = Config!GroupOf(options, q) <=> Uses(r) = Uses(q)
  <2>1. ASSUME Config!GroupOf(options, r) = Config!GroupOf(options, q) PROVE Uses(r) = Uses(q)
    <3>1. Uses(r) \subseteq Uses(q) /\ Uses(q) \subseteq Uses(r)
      BY Zenon, <1>11, <2>1
    <3> HIDE DEF Uses
    <3> QED BY ONLY <3>1
  <2>2. ASSUME Uses(r) = Uses(q)
        PROVE  Config!GroupOf(options, r) = Config!GroupOf(options, q)
    <3> HIDE DEF Uses
    <3>1. \A x : x \in Config!GroupOf(options, r) <=> x \in Config!GroupOf(options, q)
      BY ONLY <1>10, <2>2
    <3> QED BY ONLY <3>1 DEF Config!GroupOf
  <2> QED BY ONLY <2>1, <2>2
<1> QED BY ONLY <1>9, <1>12 DEF Uses

(* The rules that share a group's number are those that share the group.    *)
LEMMA SameGroups ==
    ASSUME NEW options \in Seq(Config!AnyOption), NEW groups, NEW R, NEW f,
           GroupsAsked(options, groups, Len(options)),
           Clean(groups, R, Len(groups)), Numbered(f, groups, R, Len(groups))
    PROVE  /\ \A r, q \in R :
                f[r] = f[q] <=> Config!GroupOf(options, r) = Config!GroupOf(options, q)
           /\ \A r \in R : IF f[r] = 0 THEN Config!GroupOf(options, r) = {}
                           ELSE groups[f[r]].name \in Config!GroupOf(options, r)
<1> DEFINE D == 1..Len(groups)
           Of(r) == Config!GroupOf(options, r)
           In(a, r) == r \in Config!Range(groups[a].rules)
<1>1. DOMAIN groups = D
  <2> DEFINE Record == [name : STRING, rules : Seq(STRING)]
  <2>1. groups \in Seq(Record)
    BY DEF GroupsAsked, AnyGroups
  <2> HIDE DEF Record
  <2> QED BY <2>1
<1>2. \A r : \A x : x \in Of(r) <=> \E a \in D : groups[a].name = x /\ In(a, r)
  <2> TAKE r
  <2>1. \A x : x \in Of(r) <=> AskedRule(options, x, r, Len(options))
    BY MentionWords
  <2>2. \A x : AskedRule(options, x, r, Len(options)) <=> Holds(groups, x, r)
    BY DEF GroupsAsked
  <2>3. \A x : Holds(groups, x, r) <=> \E a \in D : groups[a].name = x /\ In(a, r)
    BY <1>1 DEF Holds
  <2> HIDE DEF Of
  <2> QED BY ONLY <2>1, <2>2, <2>3
<1>3. \A a, b \in D : groups[a].name = groups[b].name => a = b
  BY <1>1 DEF GroupsAsked, DifferentNames
<1>4. \A a, b \in D : \A r : In(a, r) /\ In(b, r) => a = b
  BY DEF Clean
<1>5. /\ \A r \in R : f[r] = 0 <=> \A a \in D : ~In(a, r)
      /\ \A r \in R : f[r] # 0 => f[r] \in D /\ In(f[r], r)
  BY DEF Numbered
<1>6. 0 \notin D
  OBVIOUS
<1> HIDE DEF D, Of, In
<1>7. \A r \in R : f[r] = 0 => Of(r) = {}
  BY ONLY <1>2, <1>5
<1>8. \A r \in R : f[r] # 0 => Of(r) = {groups[f[r]].name}
  <2> SUFFICES ASSUME NEW r \in R, f[r] # 0 PROVE Of(r) = {groups[f[r]].name}
    OBVIOUS
  <2>1. f[r] \in D /\ In(f[r], r)
    BY ONLY <1>5, f[r] # 0
  <2>2. PICK a \in D : a = f[r] /\ In(a, r)
    BY <2>1
  <2>3. \A x : x \in Of(r) <=> x = groups[a].name
    BY ONLY <1>2, <1>4, <2>2
  <2> QED BY ONLY <2>2, <2>3
<1>9. ASSUME NEW r \in R, NEW q \in R PROVE f[r] = f[q] <=> Of(r) = Of(q)
  <2>1. CASE f[r] = 0 \/ f[q] = 0
    BY ONLY <1>7, <1>8, <2>1
  <2>2. CASE f[r] # 0 /\ f[q] # 0
    <3>1. PICK a \in D : a = f[r] /\ Of(r) = {groups[a].name}
      BY ONLY <1>5, <1>8, <2>2, r \in R
    <3>2. PICK b \in D : b = f[q] /\ Of(q) = {groups[b].name}
      BY ONLY <1>5, <1>8, <2>2, q \in R
    <3>3. a = b <=> groups[a].name = groups[b].name
      BY ONLY <1>3
    <3> QED BY ONLY <3>1, <3>2, <3>3
  <2> QED BY ONLY <2>1, <2>2
<1>10. \A r \in R : f[r] # 0 => groups[f[r]].name \in Of(r)
  BY ONLY <1>8
<1>11. \A r \in R : IF f[r] = 0 THEN Of(r) = {} ELSE groups[f[r]].name \in Of(r)
  BY ONLY <1>7, <1>10
<1> QED BY <1>9, <1>11 DEF Of

(* What newStateMachine makes is what is asked for.                         *)
LEMMA MadeAsAsked ==
    ASSUME NEW methods \in Seq(Config!AnyMethod), NEW options \in Seq(Config!AnyOption)
    PROVE  Config!AsAsked(methods, options, Config!NewStateMachine(methods, options))
<1>1. PICK sm : sm = Config!FoldLeft(Config!Applied, Config!NewMachine, options)
  OBVIOUS
<1>2. PICK rules : rules = Config!Discovered(methods, "Rule")
  OBVIOUS
<1>3. PICK invariants : invariants = Config!Discovered(methods, "Invariant")
  OBVIOUS
<1>4. PICK groups : groups = Config!Assign(rules, sm.configuredRuleGroups)
  OBVIOUS
<1>5. PICK R : R = Config!Range(rules)
  OBVIOUS
<1>6. PICK C : C = sm.configuredRuleGroups
  OBVIOUS
<1>7. PICK n : n = Len(options)
  OBVIOUS
<1>8. PICK made : made = Config!NewStateMachine(methods, options)
  OBVIOUS
<1> DEFINE Wrong == \/ sm.maxConcurrency < 1 \/ sm.stepCount < 1
                    \/ \E m \in Config!Range(methods) : Config!Misplaced(m)
                    \/ rules = <<>>
                    \/ ~(Config!Range(sm.alwaysCheckNames) \subseteq Config!Range(invariants))
                    \/ groups = Config!Refused
<1>9. made = IF Wrong THEN Config!Refused
             ELSE [ok |-> TRUE, maxConcurrency |-> sm.maxConcurrency,
                   stepCount |-> sm.stepCount, rules |-> Config!Range(rules),
                   ruleGroups |-> groups.of, groupNames |-> sm.configuredRuleGroups,
                   invariants |-> invariants,
                   alwaysCheck |-> {i \in DOMAIN invariants :
                                      invariants[i] \in Config!Range(sm.alwaysCheckNames)}]
  BY Zenon, <1>1, <1>2, <1>3, <1>4, <1>8 DEF Config!NewStateMachine
<1>10. /\ sm \in AnyConfiguration
       /\ sm.maxConcurrency = LastUpTo(options, "concurrency", 1, n)
       /\ sm.stepCount = LastUpTo(options, "steps", 50, n)
       /\ \A x : x \in Config!Range(sm.alwaysCheckNames) <=> AskedAlways(options, x, n)
       /\ GroupsAsked(options, C, n)
  BY <1>1, <1>6, <1>7, OptionsConfigure DEF Configured
<1>11. Filling(groups, C, R, Len(C))
  <2>1. C \in AnyGroups
    BY <1>10 DEF GroupsAsked
  <2> QED BY <1>4, <1>5, <1>6, <2>1, GroupsAssigned
<1>12. Clean(C, R, Len(C)) <=> GroupsInOrder(options, R, n)
  BY <1>7, <1>10, CleanIsInOrder
<1>13. groups # Config!Refused <=> Clean(C, R, Len(C))
  <2>1. \A f : Assigned(f) # Config!Refused
    <3> TAKE f
    <3>1. Assigned(f).ok = TRUE /\ Config!Refused.ok = FALSE
      BY DEF Assigned, Config!Refused
    <3> QED BY <3>1
  <2> QED BY <1>11, <2>1 DEF Filling
<1>14. Config!Permitted(methods, options) <=>
         /\ rules # <<>>
         /\ ~\E m \in Config!Range(methods) : Config!Misplaced(m)
         /\ LastUpTo(options, "concurrency", 1, n) >= 1
         /\ LastUpTo(options, "steps", 50, n) >= 1
         /\ \A x : AskedAlways(options, x, n) => x \in Config!Range(invariants)
         /\ GroupsInOrder(options, R, n)
  BY <1>2, <1>3, <1>5, <1>7, PermittedWords
<1>15. Config!Permitted(methods, options) <=> ~Wrong
  <2>1. sm.maxConcurrency \in Int /\ sm.stepCount \in Int
    BY <1>10 DEF AnyConfiguration
  <2>2. (sm.maxConcurrency < 1 <=> ~(LastUpTo(options, "concurrency", 1, n) >= 1))
        /\ (sm.stepCount < 1 <=> ~(LastUpTo(options, "steps", 50, n) >= 1))
    BY ONLY <1>10, <2>1
  <2>3. Config!Range(sm.alwaysCheckNames) \subseteq Config!Range(invariants)
          <=> \A x : AskedAlways(options, x, n) => x \in Config!Range(invariants)
    BY ONLY <1>10
  <2> QED BY ONLY <1>12, <1>13, <1>14, <2>2, <2>3
<1>16. CASE Wrong
  <2> HIDE DEF Wrong
  <2>1. made.ok = FALSE
    BY <1>9, <1>16 DEF Config!Refused
  <2>2. ~Config!Permitted(methods, options)
    BY <1>15, <1>16
  <2>3. Config!ToTheLetter(methods, options, made)
    BY <2>1, <2>2, LetterAgrees DEF Config!ToTheLetter
  <2> QED BY <1>8, <2>1, <2>2, <2>3 DEF Config!AsAsked
<1>17. CASE ~Wrong
  <2>1. PICK f : groups = Assigned(f) /\ Numbered(f, C, R, Len(C))
    BY <1>11, <1>13, <1>17 DEF Filling
  <2>2. groups.of = f /\ Clean(C, R, Len(C))
    BY <1>13, <1>17, <2>1 DEF Assigned
  <2>3. /\ made.ok = TRUE /\ made.maxConcurrency = sm.maxConcurrency
        /\ made.stepCount = sm.stepCount /\ made.rules = R /\ made.ruleGroups = f
        /\ made.groupNames = C /\ made.invariants = invariants
        /\ made.alwaysCheck = {i \in DOMAIN invariants :
                                 invariants[i] \in Config!Range(sm.alwaysCheckNames)}
    <3> HIDE DEF Wrong
    <3> QED BY <1>5, <1>6, <1>9, <1>17, <2>2
  <2>4. /\ \A r, q \in R :
             f[r] = f[q] <=> Config!GroupOf(options, r) = Config!GroupOf(options, q)
        /\ \A r \in R : IF f[r] = 0 THEN Config!GroupOf(options, r) = {}
                        ELSE C[f[r]].name \in Config!GroupOf(options, r)
    BY <1>7, <1>10, <2>1, <2>2, SameGroups
  <2>5. /\ \A sets : Config!These(options, sets) = Calls(options, sets, n)
        /\ \A sets, otherwise :
              Config!LastOf(options, sets, otherwise) = LastUpTo(options, sets, otherwise, n)
    BY <1>7, OptionWords
  <2>6. Config!Permitted(methods, options)
    BY <1>15, <1>17
  <2>7. \A i \in DOMAIN invariants :
          i \in made.alwaysCheck <=>
            \E j \in Config!These(options, "always") :
                invariants[i] \in Config!Range(options[j].names)
    BY ONLY <1>10, <2>3, <2>5 DEF AskedAlways
  <2>8. /\ made.maxConcurrency = Config!LastOf(options, "concurrency", 1)
        /\ made.stepCount = Config!LastOf(options, "steps", 50)
    BY ONLY <1>10, <2>3, <2>5
  <2>9. Config!ToTheLetter(methods, options, made)
    <3>1. Config!ToTheLetter(methods, options, made) <=>
            (~Config!AtOdds(options) =>
               /\ made.ok <=> Config!Legal(methods, options)
               /\ made.ok =>
                   \A r, q \in made.rules :
                     made.ruleGroups[r] = made.ruleGroups[q]
                       <=> Config!Callers(options, r) = Config!Callers(options, q))
      BY Zenon DEF Config!ToTheLetter
    <3>2. ~Config!AtOdds(options) =>
            /\ Config!Legal(methods, options) <=> Config!Permitted(methods, options)
            /\ \A r, q : Config!GroupOf(options, r) = Config!GroupOf(options, q)
                           <=> Config!Callers(options, r) = Config!Callers(options, q)
      BY Zenon, LetterAgrees
    <3> QED BY ONLY <2>3, <2>4, <2>6, <3>1, <3>2
  <2>10. Config!AsAsked(methods, options, made)
    BY ONLY <2>3, <2>4, <2>6, <2>7, <2>8, <2>9 DEF Config!AsAsked
  <2> QED BY ONLY <1>8, <2>10
<1> QED BY <1>16, <1>17

(* Until a machine runs, it is asked for, or it is what newStateMachine     *)
(* made of what was asked for.                                              *)
MachineStage ==
    machine.at = "run"
    \/ /\ machine.methods \in Machines /\ machine.options \in OptionLists
       /\ \/ machine.at = "asked"
          \/ machine.at = "made"
             /\ machine.made = Config!NewStateMachine(machine.methods, machine.options)

LEMMA StageIsAsAsked == MachineStage => MachineAsAsked
<1> SUFFICES ASSUME MachineStage, machine.at = "made"
             PROVE  Config!AsAsked(machine.methods, machine.options, machine.made)
  BY DEF MachineAsAsked
<1>1. PICK methods \in Machines : methods = machine.methods
  BY DEF MachineStage
<1>2. PICK options \in OptionLists : options = machine.options
  BY DEF MachineStage
<1>3. methods \in Seq(Config!AnyMethod) /\ options \in Seq(Config!AnyOption)
  BY MachinesAssumption
<1>4. machine.made = Config!NewStateMachine(methods, options)
  BY <1>1, <1>2 DEF MachineStage
<1>5. Config!AsAsked(methods, options, Config!NewStateMachine(methods, options))
  BY ONLY <1>3, MadeAsAsked
<1> QED BY <1>1, <1>2, <1>4, <1>5

LEMMA StageKept == MachineStage /\ [RunNext]_runVars => MachineStage'
<1> SUFFICES ASSUME MachineStage, [RunNext]_runVars
             PROVE  MachineStage'
  OBVIOUS
<1>1. CASE Configure
  <2>1. PICK methods \in Machines : methods = machine.methods
    BY <1>1 DEF MachineStage, Configure
  <2>2. PICK options \in OptionLists : options = machine.options
    BY <1>1 DEF MachineStage, Configure
  <2>3. PICK made : made = Config!NewStateMachine(methods, options)
    OBVIOUS
  <2>4. machine' = [at |-> "made", methods |-> methods, options |-> options, made |-> made]
    BY <1>1, <2>1, <2>2, <2>3 DEF Configure
  <2>5. /\ machine'.at = "made" /\ machine'.methods = methods
        /\ machine'.options = options /\ machine'.made = made
    BY <2>4
  <2> QED BY <2>3, <2>5 DEF MachineStage
<1>2. CASE StartRun
  <2>1. machine'.at = "run"
    BY <1>2 DEF StartRun, Run
  <2> QED BY <2>1 DEF MachineStage
<1>3. CASE UNCHANGED machine
  BY <1>3 DEF MachineStage
<1>4. CASE InRun(MainStep) \/ (\E w \in Workers : InRun(WorkerStep(w)))
           \/ UNCHANGED runVars
  <2>1. UNCHANGED machine
    BY Zenon, <1>4 DEF InRun, runVars
  <2> QED BY <1>3, <2>1
<1> QED BY <1>1, <1>2, <1>4 DEF RunNext

(* Whatever methods a machine has and whatever options it is given,         *)
(* RunStateful makes the machine that the options ask for or panics         *)
(* (MachineAsAsked): by the letter of their comments if these agree with    *)
(* each other and with the code, and else by what the code makes of them.   *)
THEOREM MachinesAsAsked == RunSpec => []MachineAsAsked
<1>1. RunInit => MachineStage
  BY DEF RunInit, MachineStage
<1>2. RunSpec => RunInit /\ [][RunNext]_runVars
  BY PTL DEF RunSpec
<1>3. RunInit /\ [][RunNext]_runVars => []MachineStage
  BY <1>1, StageKept, PTL
<1>4. []MachineStage => []MachineAsAsked
  BY StageIsAsAsked, PTL
<1> QED BY <1>2, <1>3, <1>4, PTL
=============================================================================
