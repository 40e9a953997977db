---------------------------- MODULE StatefulRun ----------------------------
(***************************************************************************)
(* stateMachine.Run of stateful.go: one execution of a state machine       *)
(* inside one test case.                                                   *)
(*                                                                         *)
(* The main goroutine asks the engine for a round's rule group, clones one *)
(* native test case per worker, starts a goroutine per clone, receives one *)
(* result per worker from the shared buffered channel, frees the clones,   *)
(* and only then looks at the errors, runs the selected invariants and     *)
(* asks for the next group.  Each worker draws rules from the engine and   *)
(* runs them until the engine says Done or something goes wrong.           *)
(*                                                                         *)
(* The engine (libhegel) is external: its answers are nondeterministic     *)
(* within what internal/libhegel/libhegel.go documents.  A rule or an      *)
(* invariant is user code: what it does is one of the outcomes that        *)
(* testCase.invoke can report.  `policy` is the panicPolicy of the test    *)
(* case: user panics are captured while the engine explores and propagate  *)
(* when a failure is replayed.                                             *)
(***************************************************************************)
EXTENDS Workgroup, Sequences, FiniteSets

CONSTANTS
    Rules,           \* the Rule-prefixed methods
    RuleGroup,       \* the concurrency group of each rule, 0 the default one
    NumInvariants,   \* how many Invariant-prefixed methods there are
    AlwaysCheck,     \* those named by WithAlwaysCheckInvariants
    MaxConcurrency,  \* WithBoundedConcurrency
    StepCount,       \* WithStatefulStepCount, the engine's bound on rounds
    MaxDraws,        \* the engine's bound on rule draws per worker and round
    NoRule           \* not a rule: a worker between rules

ASSUME MachineAssumption ==
    /\ Rules # {}
    /\ RuleGroup \in [Rules -> Nat]
    /\ NumInvariants \in Nat
    /\ AlwaysCheck \subseteq 1..NumInvariants
    /\ MaxConcurrency \in Nat \ {0}
    /\ StepCount \in Nat \ {0}
    /\ MaxDraws \in Nat \ {0}
    /\ NoRule \notin Rules

Workers == 0..(MaxConcurrency - 1)
Groups == {RuleGroup[r] : r \in Rules}
Invariants == 1..NumInvariants
Root == -1      \* the main goroutine, where an error did not come from a worker

NoOutcome == [worker |-> Root, kind |-> "none"]
Failure(kind) == [worker |-> Root, kind |-> kind]

(* What invoke returns for a body that neither completes nor panics.        *)
BodyErrors == {"control", "overrun", "user"}
EngineErrors == {"control", "overrun", "assume"}

VARIABLES
    policy,       \* "capture" or "propagate", fixed for the test case
    pc,           \* where the main goroutine is in Run
    outcome,      \* the error Run aborted the test case with
    concurrency,  \* the worker count the engine chose
    round,        \* rounds started
    group,        \* the group of the current round
    invariant,    \* the next invariant of the loop the main goroutine is in
    handle,       \* the native clone of each worker
    wpc,          \* where each worker goroutine is
    rule,         \* the rule each worker is running
    drawn,        \* rules drawn by each worker this round
    inbox,        \* the channel of the workgroup
    received,     \* results Wait has taken from the channel this round
    results,      \* those of them that carry an error
    failed,       \* history: the errors the workers of this round returned
    checked,      \* history: invariants run since the last rule
    dropped       \* history: workers whose failure was logged as dropped

mainVars == <<policy, pc, outcome, concurrency, round, group, invariant>>
workVars == <<wpc, rule, drawn>>
joinVars == <<inbox, received, results, failed>>
vars == <<mainVars, handle, workVars, joinVars, checked, dropped>>

(* Team with one clone too many: a faulty variant for mutation testing.     *)
TeamOneMore == {w \in Workers : w <= concurrency}

(* The workers of this execution: `for worker := range concurrency`.        *)
Team == {w \in Workers : w < concurrency}

(* A channel as large as the bound the user gave: a faulty variant.         *)
CapacityOfBound == MaxConcurrency

(* cap(g): the channel is made with room for one result per worker.         *)
Capacity == concurrency

Init ==
    /\ policy \in {"capture", "propagate"}
    /\ pc = "new"
    /\ outcome = NoOutcome
    /\ concurrency = 0
    /\ round = 0
    /\ group = 0
    /\ invariant = 1
    /\ handle = [w \in Workers |-> "none"]
    /\ wpc = [w \in Workers |-> "idle"]
    /\ rule = [w \in Workers |-> NoRule]
    /\ drawn = [w \in Workers |-> 0]
    /\ inbox = <<>>
    /\ received = 0
    /\ results = {}
    /\ failed = {}
    /\ checked = {}
    /\ dropped = {}

-----------------------------------------------------------------------------
(* The main goroutine.                                                      *)

(* tc.abort: the panic leaves Run; nothing after it happens.                *)
Abort(error) ==
    /\ pc' = "aborted"
    /\ outcome' = error

(* The engine accepts the machine and chooses the concurrency, or fails.    *)
NewMachine ==
    /\ pc = "new"
    /\ \/ /\ concurrency' \in 1..MaxConcurrency
          /\ pc' = "initial"
          /\ outcome' = outcome
       \/ /\ \E kind \in EngineErrors : Abort(Failure(kind))
          /\ concurrency' = concurrency
    /\ UNCHANGED <<policy, round, group, invariant, handle, workVars, joinVars,
                   checked, dropped>>

(* One invokeRule(tc, inv.fn) on the main goroutine and the abort after it. *)
(* E_ASSUME only ends the invariant.  A user panic becomes an               *)
(* invocationError or, on replay, unwinds Run.                              *)
InvokeInvariant ==
    /\ checked' = checked \cup {invariant}
    /\ \/ /\ invariant' = invariant + 1
          /\ UNCHANGED <<pc, outcome>>
       \/ /\ \E kind \in BodyErrors : Abort(Failure(kind))
          /\ UNCHANGED invariant
       \/ /\ policy = "propagate"
          /\ Abort(Failure("panic"))
          /\ UNCHANGED invariant

(* The loops that run every invariant, before the first round and at the   *)
(* end.                                                                     *)
CheckAll ==
    /\ pc \in {"initial", "final"}
    /\ invariant \in Invariants
    /\ InvokeInvariant
    /\ UNCHANGED <<policy, concurrency, round, group, handle, workVars,
                   joinVars, dropped>>

AllChecked ==
    /\ pc \in {"initial", "final"}
    /\ invariant = NumInvariants + 1
    /\ pc' = IF pc = "initial" THEN "group" ELSE "returned"
    /\ UNCHANGED <<policy, outcome, concurrency, round, group, invariant,
                   handle, workVars, joinVars, checked, dropped>>

(* stateMachineNextGroup: another round in a group, Done, or an error.      *)
NextGroup ==
    /\ pc = "group"
    /\ \/ /\ round < StepCount
          /\ round' = round + 1
          /\ group' \in Groups
          /\ pc' = "clone"
          /\ UNCHANGED <<outcome, invariant>>
       \/ /\ pc' = "final"
          /\ invariant' = 1
          /\ UNCHANGED <<outcome, round, group>>
       \/ /\ \E kind \in EngineErrors : Abort(Failure(kind))
          /\ UNCHANGED <<round, group, invariant>>
    /\ handle' = [w \in Workers |-> "none"]
    /\ UNCHANGED <<policy, concurrency, workVars, joinVars, checked, dropped>>

(* Freeing the first clone only: a faulty variant of FreeClones.            *)
FreeFirst(handles) == [handles EXCEPT ![0] = "freed"]

(* The deferred loop that frees the clones appended to `workers` so far.    *)
FreeClones(handles) ==
    [w \in Workers |-> IF handles[w] = "live" THEN "freed" ELSE handles[w]]

(* tc.clone for the next worker, then setWorker when there is more than     *)
(* one.  A clone whose setup fails is freed by clone itself or by the       *)
(* deferred loop that the abort runs.                                       *)
CloneWorker(w) ==
    /\ pc = "clone"
    /\ \A v \in Team : (handle[v] = "none") <=> (v >= w)
    /\ \/ /\ handle' = [handle EXCEPT ![w] = "live"]
          /\ UNCHANGED <<pc, outcome>>
       \/ /\ \/ handle' = FreeClones(handle)
             \/ handle' = FreeClones([handle EXCEPT ![w] = "live"])
          /\ \E kind \in EngineErrors : Abort(Failure(kind))
    /\ UNCHANGED <<policy, concurrency, round, group, invariant, workVars,
                   joinVars, checked, dropped>>

(* workersGroup.Go for every worker; the closure's locals are fresh.        *)
StartWorkers ==
    /\ pc = "clone"
    /\ \A w \in Team : handle[w] = "live"
    /\ pc' = "wait"
    /\ wpc' = [w \in Workers |-> IF w \in Team THEN "draw" ELSE "idle"]
    /\ rule' = [w \in Workers |-> NoRule]
    /\ drawn' = [w \in Workers |-> 0]
    /\ received' = 0
    /\ results' = {}
    /\ failed' = {}
    /\ checked' = {}
    /\ UNCHANGED <<policy, outcome, concurrency, round, group, invariant,
                   handle, inbox, dropped>>

(* Faulty variants of Collected and AllReceived.                            *)
CollectedFirst(result) == IF results = {} THEN {result} ELSE results
AllReceivedButOne == received >= Capacity - 1

(* Wait keeps the results that carry an error.                              *)
Collected(result) ==
    IF result.kind = "none" THEN results ELSE results \cup {result}

(* The receive loop `for range cap(g)` is over.                             *)
AllReceived == received = Capacity

(* One iteration of that loop.                                              *)
Receive ==
    /\ pc = "wait"
    /\ ~AllReceived
    /\ inbox # <<>>
    /\ LET result == Head(inbox) IN
        /\ results' = Collected(result)
        /\ wpc' = [wpc EXCEPT ![result.worker] = "idle"]
    /\ inbox' = Tail(inbox)
    /\ received' = received + 1
    /\ UNCHANGED <<mainVars, handle, rule, drawn, failed, checked, dropped>>

(* Wait returns, which runs the deferred frees.                             *)
Join ==
    /\ pc = "wait"
    /\ AllReceived
    /\ pc' = "join"
    /\ handle' = FreeClones(handle)
    /\ UNCHANGED <<policy, outcome, concurrency, round, group, invariant,
                   workVars, joinVars, checked, dropped>>

(* The error check after the join: log the dropped failures, abort with the *)
(* selected one, or go on to the invariants.                                *)
Inspect ==
    /\ pc = "join"
    /\ IF results = {}
       THEN /\ pc' = "sample"
            /\ invariant' = 1
            /\ UNCHANGED <<outcome, dropped>>
       ELSE /\ Abort(Selected(results))
            /\ dropped' = DroppedWorkers(results)
            /\ UNCHANGED invariant
    /\ UNCHANGED <<policy, concurrency, round, group, handle, workVars,
                   joinVars, checked>>

(* `break` where the code has `continue`: a faulty variant of SkipInvariant. *)
SkipTheRest == invariant' = NumInvariants + 1

(* An invariant the engine did not select: `continue`.                      *)
SkipInvariant == invariant' = invariant + 1

(* stateMachineShouldCheckInvariant: the engine always selects an           *)
(* always-check invariant and samples the others.                           *)
SampleInvariant ==
    /\ pc = "sample"
    /\ invariant \in Invariants
    /\ \/ InvokeInvariant
       \/ /\ invariant \notin AlwaysCheck
          /\ SkipInvariant
          /\ UNCHANGED <<pc, outcome, checked>>
       \/ /\ \E kind \in EngineErrors : Abort(Failure(kind))
          /\ UNCHANGED <<invariant, checked>>
    /\ UNCHANGED <<policy, concurrency, round, group, handle, workVars,
                   joinVars, dropped>>

EndRound ==
    /\ pc = "sample"
    /\ invariant = NumInvariants + 1
    /\ pc' = "group"
    /\ UNCHANGED <<policy, outcome, concurrency, round, group, invariant,
                   handle, workVars, joinVars, checked, dropped>>

-----------------------------------------------------------------------------
(* The goroutine of worker w.  Returning sends the result on the channel.   *)

Return(w, kind) ==
    /\ Len(inbox) < Capacity
    /\ failed' = IF kind = "none" THEN failed
                                  ELSE failed \cup {[worker |-> w, kind |-> kind]}
    /\ inbox' = Append(inbox, [worker |-> w, kind |-> kind])
    /\ wpc' = [wpc EXCEPT ![w] = "sent"]
    /\ rule' = [rule EXCEPT ![w] = NoRule]

(* stateMachineNextRule: a rule of the current group, Done, or an error.    *)
NextRule(w) ==
    /\ wpc[w] = "draw"
    /\ \/ /\ drawn[w] < MaxDraws
          /\ \E r \in {q \in Rules : RuleGroup[q] = group} :
                rule' = [rule EXCEPT ![w] = r]
          /\ drawn' = [drawn EXCEPT ![w] = @ + 1]
          /\ wpc' = [wpc EXCEPT ![w] = "rule"]
          /\ UNCHANGED <<inbox, failed>>
       \/ /\ \E kind \in {"none"} \cup EngineErrors : Return(w, kind)
          /\ UNCHANGED drawn
    /\ UNCHANGED <<mainVars, handle, received, results, checked, dropped>>

(* invokeRule returns: the rule completed, was rejected, or failed.         *)
FinishRule(w) ==
    /\ wpc[w] = "rule"
    /\ \/ /\ \E next \in {"draw", "reject"} : wpc' = [wpc EXCEPT ![w] = next]
          /\ rule' = [rule EXCEPT ![w] = NoRule]
          /\ UNCHANGED <<inbox, failed>>
       \/ \E kind \in BodyErrors : Return(w, kind)
    /\ UNCHANGED <<mainVars, handle, drawn, received, results, checked,
                   dropped>>

(* A user panic that invoke lets through leaves the goroutine, and with it  *)
(* ends the process: no deferred call of the main goroutine runs.           *)
CrashInRule(w) ==
    /\ wpc[w] = "rule"
    /\ policy = "propagate"
    /\ pc' = "crashed"
    /\ UNCHANGED <<policy, outcome, concurrency, round, group, invariant,
                   handle, workVars, joinVars, checked, dropped>>

(* stateMachineRuleRejected.                                                *)
RejectRule(w) ==
    /\ wpc[w] = "reject"
    /\ \/ wpc' = [wpc EXCEPT ![w] = "draw"] /\ UNCHANGED <<inbox, rule, failed>>
       \/ \E kind \in EngineErrors : Return(w, kind)
    /\ UNCHANGED <<mainVars, handle, drawn, received, results, checked,
                   dropped>>

-----------------------------------------------------------------------------
MainStep ==
    \/ NewMachine \/ CheckAll \/ AllChecked \/ NextGroup
    \/ \E w \in Team : CloneWorker(w)
    \/ StartWorkers \/ Receive \/ Join \/ Inspect \/ SampleInvariant \/ EndRound

WorkerStep(w) ==
    /\ pc # "crashed"
    /\ NextRule(w) \/ FinishRule(w) \/ CrashInRule(w) \/ RejectRule(w)

(* Run is over: it returned, unwound, or the process died.                  *)
Over == pc \in {"returned", "aborted", "crashed"}

Finished == Over /\ UNCHANGED vars

Next == MainStep \/ (\E w \in Workers : WorkerStep(w)) \/ Finished

(* The Go scheduler runs every goroutine that can run; engine calls and     *)
(* user code are taken to return.                                           *)
Spec ==
    /\ Init
    /\ [][Next]_vars
    /\ WF_vars(MainStep)
    /\ \A w \in Workers : WF_vars(WorkerStep(w))

-----------------------------------------------------------------------------
(* Properties.                                                              *)

TypeOK ==
    /\ policy \in {"capture", "propagate"}
    /\ pc \in {"new", "initial", "group", "clone", "wait", "join", "sample",
              "final", "returned", "aborted", "crashed"}
    /\ outcome \in [worker : Workers \cup {Root},
                    kind : ErrorKinds \cup {"none", "panic"}]
    /\ concurrency \in 0..MaxConcurrency
    /\ round \in 0..StepCount
    /\ group \in Nat
    /\ invariant \in 1..(NumInvariants + 1)
    /\ handle \in [Workers -> {"none", "live", "freed"}]
    /\ wpc \in [Workers -> {"idle", "draw", "rule", "reject", "sent"}]
    /\ rule \in [Workers -> Rules \cup {NoRule}]
    /\ drawn \in [Workers -> 0..MaxDraws]
    /\ inbox \in Seq([worker : Workers, kind : ErrorKinds \cup {"none"}])
    /\ received \in 0..concurrency
    /\ results \subseteq [worker : Workers, kind : ErrorKinds]
    /\ failed \subseteq [worker : Workers, kind : ErrorKinds]
    /\ checked \subseteq Invariants
    /\ dropped \subseteq Workers
    /\ \A w \in Workers :
        w >= concurrency => handle[w] = "none" /\ wpc[w] = "idle"

(* WithRuleGroup: "rules in different groups never overlap".  A rule that   *)
(* still runs, on whatever worker, is of the group of the round the engine  *)
(* started last: no rule outlives its round into one of another group.      *)
GroupsNeverOverlap ==
    \A w \in Workers : wpc[w] = "rule" => RuleGroup[rule[w]] = group

(* WithConcurrency: selected invariants run "after every worker has         *)
(* finished its rules for a round" and "invariants are never executed       *)
(* concurrently".  Outside Wait no worker goroutine exists and no result is *)
(* left in the channel that the next round reuses.                          *)
InvariantsRunAlone ==
    pc \notin {"wait", "crashed"} =>
        inbox = <<>> /\ \A w \in Workers : wpc[w] = "idle"

(* A worker that may still draw from its clone has a live native handle,    *)
(* and however Run goes on from the join, or ends early, every clone has    *)
(* been freed.                                                              *)
HandlesFollowWorkers ==
    /\ \A w \in Workers :
        wpc[w] \in {"draw", "rule", "reject"} => handle[w] = "live"
    /\ pc \notin {"clone", "wait", "crashed"} =>
        \A w \in Workers : handle[w] # "live"

(* WithAlwaysCheckInvariants: "must run at every join point", and "all      *)
(* invariants run unconditionally on the initial and final states": when    *)
(* the next round is asked for, nothing has run since the always-check      *)
(* invariants saw the state, and a Run that returns has checked them all.   *)
AlwaysCheckedAtJoins ==
    /\ pc = "group" => AlwaysCheck \subseteq checked
    /\ pc = "returned" => checked = Invariants

(* Wait's order, as its test states it: a control error beats an overrun,   *)
(* an overrun a rejection, a rejection a user failure, and the lowest       *)
(* worker breaks ties.  The run ends with that error as soon as one worker  *)
(* failed, and every user failure it does not end with is logged.           *)
FailuresAccountedFor ==
    /\ failed # {} => pc \in {"wait", "join", "aborted", "crashed"}
    /\ pc = "aborted" /\ failed # {} =>
        /\ outcome \in failed
        /\ \A f \in failed \ {outcome} :
            /\ outcome.kind = "user" => f.kind = "user"
            /\ outcome.kind = "assume" => f.kind \in {"assume", "user"}
            /\ outcome.kind = "overrun" => f.kind # "control"
            /\ outcome.kind = f.kind => outcome.worker < f.worker
            /\ f.kind = "user" => f.worker \in dropped

(* Run implements RuleRounds: seen from the user's code there are only      *)
(* rounds, the rules that overlap inside them and invariants between them.  *)
Rounds == INSTANCE RuleRounds WITH
    current <- IF pc \in {"wait", "crashed"} THEN group ELSE -1,
    running <- rule,
    seen <- checked

ImplementsRuleRounds == Rounds!Spec
=============================================================================
