----------------------------- MODULE Invocation -----------------------------
(***************************************************************************)
(* The abort boundaries of runner.go: testCase.invoke, testCase.abort and  *)
(* the three callers of invoke.  A frame is one running invoke:            *)
(*                                                                         *)
(*   "test"     the test body, called by testCase.run                      *)
(*   "rule"     a rule, called by invokeRule on a worker's goroutine       *)
(*   "attempt"  one attempt of a Recursive generator                       *)
(*                                                                         *)
(* Every frame has its own copy of the test case, whose abortFn sets the   *)
(* frame's local `aborted` and panics.  User code runs on the top frame.   *)
(* A panic in flight is known by what errors.Is and errors.As tell of its  *)
(* value: one of the engine's sentinels, a failed assertion ("failure"),   *)
(* the retry of a recursion, a user panic with a value that is no error    *)
(* ("panic") or is one ("errorpanic"), or a failed type assertion.         *)
(*                                                                         *)
(* `habits` says what else the user code of this execution does: use a     *)
(* TestCase of an outer invocation than the one it was called for, and     *)
(* recover panics that are not its own.                                    *)
(***************************************************************************)
EXTENDS Integers, Sequences

CONSTANT MaxDepth  \* bound on nested invocations

ASSUME InvocationAssumption == MaxDepth \in Nat \ {0}

AbortClasses == {"assume", "overrun", "control", "failure", "retry"}
UserPanics == {"panic", "errorpanic"}
NoPanic == "none"
Habits == {"outer", "recover"}

VARIABLES
    habits,   \* of the user code: a subset of Habits
    policy,   \* panicPolicy, copied from the test case into every scope
    stack,    \* the frames, innermost last
    flight,   \* the panic that is unwinding the top frame, or NoPanic
    verdict,  \* what invoke returned to testCase.run
    ending,   \* how the invocation of the test body ended
    broken,   \* invoke itself panicked, in `recovered.(error)`
    raised    \* history: what user code and the engine raised, rejections
              \* inside a rule and retries apart

vars == <<habits, policy, stack, flight, verdict, ending, broken, raised>>

Frame(boundary) == [boundary |-> boundary, aborted |-> FALSE]
Depth == Len(stack)
Top == stack[Depth]
Popped == SubSeq(stack, 1, Depth - 1)

Init ==
    /\ habits \in SUBSET Habits
    /\ policy \in {"capture", "propagate"}
    /\ stack = <<Frame("test")>>
    /\ flight = NoPanic
    /\ verdict = "none"
    /\ ending = "running"
    /\ broken = FALSE
    /\ raised = {}

Running == ending = "running" /\ flight = NoPanic

-----------------------------------------------------------------------------
(* User code on the top frame.                                              *)

(* RunStateful starts a rule, or a Recursive generator starts an attempt.   *)
Invoke(boundary) ==
    /\ Running
    /\ Depth < MaxDepth
    /\ stack' = Append(stack, Frame(boundary))
    /\ UNCHANGED <<habits, policy, flight, verdict, ending, broken, raised>>

(* A rejection inside a rule stays in that rule; a retry in its recursion.  *)
Escaping(class) ==
    /\ class # "retry"
    /\ class = "assume" => \A k \in 1..Depth : stack[k].boundary # "rule"

Record(class) == raised' = IF Escaping(class) THEN raised \cup {class}
                                              ELSE raised

(* Every abort marks the invocation of the test body: a faulty variant.     *)
AbortedOutermost(frames, k) == [frames EXCEPT ![1].aborted = TRUE]

(* frames with the flag of the frame whose abortFn was called set.          *)
Aborted(frames, k) == [frames EXCEPT ![k].aborted = TRUE]

(* abort on the test case of frame k: Assume, FailNow, a failing draw...    *)
Abort(k, class) ==
    /\ Running
    /\ k = Depth \/ "outer" \in habits
    /\ class = "retry" => Top.boundary = "attempt"
    /\ stack' = Aborted(stack, k)
    /\ flight' = class
    /\ Record(class)
    /\ UNCHANGED <<habits, policy, verdict, ending, broken>>

UserPanic ==
    /\ Running
    /\ flight' \in UserPanics
    /\ raised' = raised \cup {"panic"}
    /\ UNCHANGED <<habits, policy, stack, verdict, ending, broken>>

(* A deferred recover of the user's, below the top frame's own.             *)
UserRecover ==
    /\ "recover" \in habits
    /\ ending = "running"
    /\ flight # NoPanic
    /\ flight' = NoPanic
    /\ UNCHANGED <<habits, policy, stack, verdict, ending, broken, raised>>

-----------------------------------------------------------------------------
(* The deferred function of invoke and what its caller does with `result`.  *)

(* The caller aborts the test case it was given: the scope one frame out.   *)
PassOn(class) ==
    /\ stack' = Aborted(Popped, Depth - 1)
    /\ flight' = class
    /\ UNCHANGED <<verdict, ending, raised>>

(* The body of the popped frame is over and its caller goes on.             *)
Resume ==
    /\ stack' = Popped
    /\ flight' = NoPanic
    /\ UNCHANGED <<verdict, ending, raised>>

(* testCase.run: the error of the test body, which decides its status.      *)
Conclude(class) ==
    /\ verdict' = class
    /\ ending' = "returned"
    /\ stack' = <<>>
    /\ flight' = NoPanic
    /\ UNCHANGED raised

(* Rejections reach the test body: a faulty variant of RuleReturned.        *)
RuleReturnedAnyError(class) == IF class = "none" THEN Resume ELSE PassOn(class)

(* invokeRule and the worker loop around it.                                *)
RuleReturned(class) ==
    IF class \in {"none", "assume"} THEN Resume ELSE PassOn(class)

(* recursiveGenerator.draw: a retry starts another attempt, unless          *)
(* recursion.Retry says that the attempts are used up.                      *)
AttemptReturned(class) ==
    CASE class = "none" -> Resume
      [] class = "retry" ->
            \/ /\ stack' = Append(Popped, Frame("attempt"))
               /\ flight' = NoPanic
               /\ UNCHANGED <<verdict, ending, raised>>
            \/ /\ stack' = Aborted(Popped, Depth - 1)
               /\ flight' = "assume"
               /\ Record("assume")
               /\ UNCHANGED <<verdict, ending>>
      [] OTHER -> PassOn(class)

Deliver(class) ==
    CASE Top.boundary = "test" -> Conclude(class)
      [] Top.boundary = "rule" -> RuleReturned(class)
      [] Top.boundary = "attempt" -> AttemptReturned(class)

(* A panic leaves invoke.  It goes on in the frame below, or, at the bottom *)
(* of a worker's goroutine, ends the process, or leaves testCase.run.       *)
Escape(value) ==
    /\ stack' = IF Top.boundary = "attempt" THEN Popped ELSE <<>>
    /\ flight' = IF Top.boundary = "attempt" THEN value ELSE NoPanic
    /\ ending' = CASE Top.boundary = "test" -> "propagated"
                   [] Top.boundary = "rule" -> "crashed"
                   [] Top.boundary = "attempt" -> ending
    /\ UNCHANGED <<verdict, raised>>

(* `recovered.(error)` on nil or on a value that is not an error.           *)
AssertionPanics ==
    /\ broken' = TRUE
    /\ Escape("assertion")

(* Recovering whatever the policy says: a faulty variant of MustPropagate.  *)
NeverPropagate == FALSE

MustPropagate == ~Top.aborted /\ policy = "propagate"

(* A user panic's own value as the result: a faulty variant of Recovered.   *)
RecoveredUnwrapped ==
    IF Top.aborted /\ flight \notin AbortClasses THEN "control" ELSE flight

(* What invoke returns for a panic it recovered: the error itself if this   *)
(* invocation was aborted, or else an invocationError that wraps it, behind *)
(* which errors.Is and errors.As still find a sentinel, an assertion or a   *)
(* retry.                                                                   *)
Recovered ==
    CASE Top.aborted -> IF flight \in AbortClasses THEN flight ELSE "control"
      [] ~Top.aborted -> IF flight \in AbortClasses \ {"control"} THEN flight ELSE "failure"

(* The top frame is unwound.                                                *)
Unwind ==
    /\ ending = "running"
    /\ flight # NoPanic
    /\ IF MustPropagate
       THEN Escape(flight) /\ UNCHANGED broken
       ELSE IF Top.aborted /\ flight = "panic"
       THEN AssertionPanics
       ELSE Deliver(Recovered) /\ UNCHANGED broken
    /\ UNCHANGED <<habits, policy>>

(* The body of the top frame returns.                                       *)
Return ==
    /\ Running
    /\ IF Top.aborted
       THEN AssertionPanics
       ELSE Deliver("none") /\ UNCHANGED broken
    /\ UNCHANGED <<habits, policy>>

Finished == ending # "running" /\ UNCHANGED vars

Next ==
    \/ \E boundary \in {"rule", "attempt"} : Invoke(boundary)
    \/ \E k \in 1..Depth, class \in AbortClasses : Abort(k, class)
    \/ UserPanic \/ UserRecover \/ Unwind \/ Return \/ Finished

Spec == Init /\ [][Next]_vars

-----------------------------------------------------------------------------
(* Properties.                                                              *)

Careful == habits = {}

TypeOK ==
    /\ habits \subseteq Habits
    /\ policy \in {"capture", "propagate"}
    /\ stack \in Seq([boundary : {"test", "rule", "attempt"}, aborted : BOOLEAN])
    /\ Depth <= MaxDepth
    /\ (stack = <<>>) = (ending # "running")
    /\ \A k \in 1..Depth : (stack[k].boundary = "test") = (k = 1)
    /\ flight \in AbortClasses \cup UserPanics \cup {"assertion", NoPanic}
    /\ verdict \in AbortClasses \cup {"none"}
    /\ ending \in {"running", "returned", "propagated", "crashed"}
    /\ broken \in BOOLEAN
    /\ raised \subseteq AbortClasses \cup {"panic"}

(* Under careful user code `aborted` stays set only while the panic that    *)
(* set it unwinds that very frame: what makes `recover()` return the error  *)
(* abort was called with, so that invoke itself never panics.               *)
AbortedFramesUnwind ==
    Careful =>
        /\ ~broken
        /\ \A k \in 1..Depth :
            stack[k].aborted => k = Depth /\ flight \in AbortClasses

(* "invoke runs fn with an invocation-local abort boundary.  Returns an     *)
(* invocationError if fn panics or trips an assertion, or a libhegel": it   *)
(* never panics itself, at least where user code leaves the abort panics    *)
(* alone.                                                                   *)
InvokeReports == "recover" \notin habits => ~broken

(* The test body's verdict is the one thing that was raised and not         *)
(* absorbed by a rule's own boundary or a recursion's retry, however deep   *)
(* it was raised: no rejection leaks, no failure or overrun is swallowed.   *)
VerdictIsWhatWasRaised ==
    Careful /\ ending = "returned" =>
        CASE verdict = "none" -> raised = {}
          [] verdict = "failure" -> raised \in {{"failure"}, {"panic"}}
          [] OTHER -> raised = {verdict}

(* A user panic becomes a verdict exactly when the policy captures it:      *)
(* otherwise it leaves testCase.run, or ends the process, with its value.   *)
PanicsFollowPolicy ==
    /\ policy = "capture" /\ ~broken => ending \notin {"propagated", "crashed"}
    /\ policy = "propagate" /\ Careful /\ ending = "returned" =>
        "panic" \notin raised
=============================================================================
