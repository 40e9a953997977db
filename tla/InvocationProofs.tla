-------------------------- MODULE InvocationProofs --------------------------
(***************************************************************************)
(* Proofs about Invocation, for invocations nested to any depth: type      *)
(* correctness, that an invocation is marked aborted only while the panic  *)
(* that marked it unwinds it, that the verdict of a test body is the one   *)
(* thing raised inside it, and that user panics follow the policy.         *)
(***************************************************************************)
EXTENDS Invocation, SequenceTheorems, TLAPS

Frames == [boundary : {"test", "rule", "attempt"}, aborted : BOOLEAN]

InRule == \E k \in 1..Depth : stack[k].boundary = "rule"

(* While a panic is in flight it is, under careful user code, all that was  *)
(* raised, and the frame it unwinds is the one its abort has marked: why    *)
(* VerdictIsWhatWasRaised, which speaks of the end only, holds there.  A    *)
(* rejection counts as raised where no rule will absorb it, and a captured  *)
(* panic goes on as a failure.                                              *)
FlightIsWhatWasRaised ==
    Careful /\ ending = "running" =>
        /\ flight # "assertion"
        /\ flight \in AbortClasses => Top.aborted
        /\ flight \in {NoPanic, "retry"} => raised = {}
        /\ flight = "retry" => Top.boundary = "attempt"
        /\ flight = "assume" => raised = IF InRule THEN {} ELSE {"assume"}
        /\ flight \in {"overrun", "control"} => raised = {flight}
        /\ flight = "failure" =>
            \/ raised = {"failure"}
            \/ policy = "capture" /\ raised = {"panic"}
        /\ flight \in UserPanics => raised = {"panic"}

IInv ==
    /\ TypeOK
    /\ AbortedFramesUnwind
    /\ FlightIsWhatWasRaised
    /\ VerdictIsWhatWasRaised
    /\ PanicsFollowPolicy

-----------------------------------------------------------------------------
(* The frames below the top one.                                            *)

LEMMA FrameType ==
    \A boundary \in {"test", "rule", "attempt"} :
        Frame(boundary) \in Frames /\ Frame(boundary).boundary = boundary
                                   /\ Frame(boundary).aborted = FALSE
BY DEF Frame, Frames

LEMMA PoppedFacts ==
    ASSUME TypeOK, ending = "running"
    PROVE  /\ stack \in Seq(Frames) /\ Depth \in Nat /\ Depth >= 1 /\ Depth <= MaxDepth
           /\ Top \in Frames /\ (Top.boundary = "test" <=> Depth = 1)
           /\ Popped \in Seq(Frames)
           /\ Len(Popped) = Depth - 1
           /\ \A k \in 1..(Depth - 1) : Popped[k] = stack[k]
<1>1. stack \in Seq(Frames) /\ stack # <<>> /\ Depth \in Nat /\ Depth <= MaxDepth
  BY DEF TypeOK, Frames, Depth
<1>2. Depth >= 1
  BY <1>1, EmptySeq DEF Depth
<1>3. Top \in Frames
  BY <1>1, <1>2, ElementOfSeq DEF Top, Depth
<1>4. Top.boundary = "test" <=> Depth = 1
  BY <1>1, <1>2 DEF TypeOK, Top
<1>5. \A k \in 1..(Depth - 1) : stack[k] \in Frames
  BY <1>1, ElementOfSeq DEF Depth
<1>6. /\ Popped \in Seq(Frames) /\ Len(Popped) = Depth - 1
      /\ \A k \in 1..(Depth - 1) : Popped[k] = stack[k]
  <2> HIDE DEF Frames
  <2> QED BY <1>1, <1>2, <1>5, SubSeqProperties DEF Popped
<1> QED BY <1>1, <1>2, <1>3, <1>4, <1>6

-----------------------------------------------------------------------------
(* What becomes of the frames when the top one is over.                     *)

Pop == Depth > 1 /\ stack' = Popped
AbortCaller == Depth > 1 /\ stack' = Aborted(Popped, Depth - 1)

(* The five outcomes of an invocation that hands class to its caller.       *)
Concluded(class) ==
    /\ Depth = 1
    /\ stack' = <<>> /\ verdict' = class /\ ending' = "returned"
    /\ flight' = NoPanic /\ raised' = raised

Resumed(class) ==
    /\ class = "none" \/ (class = "assume" /\ Top.boundary = "rule")
    /\ Pop /\ flight' = NoPanic
    /\ UNCHANGED <<verdict, ending, raised>>

TriedAgain(class) ==
    /\ class = "retry" /\ Depth > 1
    /\ stack' = Append(Popped, Frame("attempt")) /\ flight' = NoPanic
    /\ UNCHANGED <<verdict, ending, raised>>

PassedOn(class) ==
    /\ class # "none"
    /\ class = "assume" => Top.boundary # "rule"
    /\ class = "retry" => Top.boundary # "attempt"
    /\ AbortCaller /\ flight' = class
    /\ UNCHANGED <<verdict, ending, raised>>

GaveUp(class) ==
    /\ class = "retry" /\ Top.boundary = "attempt"
    /\ AbortCaller /\ flight' = "assume" /\ Record("assume")
    /\ UNCHANGED <<verdict, ending>>

Delivered(class) ==
    \/ Concluded(class) \/ Resumed(class) \/ TriedAgain(class)
    \/ PassedOn(class) \/ GaveUp(class)

Escaped(value) ==
    /\ \/ /\ Pop /\ Top.boundary = "attempt"
          /\ flight' = value /\ ending' = ending
       \/ /\ stack' = <<>> /\ flight' = NoPanic
          /\ ending' \in {"propagated", "crashed"}
    /\ UNCHANGED <<verdict, raised>>

LEMMA DeliverEffect ==
    ASSUME TypeOK, ending = "running",
           NEW class \in AbortClasses \cup {"none"}, Deliver(class)
    PROVE  Delivered(class)
<1>1. /\ Depth \in Nat /\ Depth >= 1 /\ Top.boundary \in {"test", "rule", "attempt"}
      /\ Top.boundary = "test" <=> Depth = 1
  BY PoppedFacts DEF Frames
<1>2. CASE Top.boundary = "test"
  BY <1>1, <1>2 DEF Deliver, Conclude, Delivered, Concluded
<1>3. CASE Top.boundary = "rule"
  <2>1. RuleReturned(class) /\ Depth > 1
    BY <1>1, <1>3 DEF Deliver
  <2>2. CASE class \in {"none", "assume"}
    BY <1>3, <2>1, <2>2 DEF RuleReturned, Resume, Delivered, Resumed, Pop
  <2>3. CASE class \notin {"none", "assume"}
    BY <1>3, <2>1, <2>3 DEF RuleReturned, PassOn, Delivered, PassedOn, AbortCaller
  <2> QED BY <2>2, <2>3
<1>4. CASE Top.boundary = "attempt"
  <2>1. AttemptReturned(class) /\ Depth > 1
    BY <1>1, <1>4 DEF Deliver
  <2>2. CASE class = "none"
    BY <2>1, <2>2 DEF AttemptReturned, Resume, Delivered, Resumed, Pop
  <2>3. CASE class = "retry"
    BY <1>4, <2>1, <2>3
       DEF AttemptReturned, Delivered, TriedAgain, GaveUp, AbortCaller
  <2>4. CASE class \notin {"none", "retry"}
    BY <1>4, <2>1, <2>4
       DEF AttemptReturned, PassOn, Delivered, PassedOn, AbortCaller
  <2> QED BY <2>2, <2>3, <2>4
<1> QED BY <1>1, <1>2, <1>3, <1>4

LEMMA EscapeEffect ==
    ASSUME TypeOK, ending = "running", NEW value, Escape(value)
    PROVE  Escaped(value)
<1>1. /\ Depth \in Nat /\ Depth >= 1 /\ Top.boundary \in {"test", "rule", "attempt"}
      /\ Top.boundary = "test" <=> Depth = 1
  BY PoppedFacts DEF Frames
<1> QED BY <1>1 DEF Escape, Escaped, Pop

LEMMA RecoveredType == Recovered \in AbortClasses
BY DEF Recovered, AbortClasses

LEMMA ReturnEffect ==
    ASSUME TypeOK, Return
    PROVE  /\ ending = "running" /\ flight = NoPanic /\ UNCHANGED <<habits, policy>>
           /\ \/ Top.aborted /\ broken' = TRUE /\ Escaped("assertion")
              \/ broken' = broken /\ Delivered("none")
BY EscapeEffect, DeliverEffect DEF Return, Running, AssertionPanics

LEMMA UnwindEffect ==
    ASSUME TypeOK, Unwind
    PROVE  /\ ending = "running" /\ flight # NoPanic /\ UNCHANGED <<habits, policy>>
           /\ \/ MustPropagate /\ broken' = broken /\ Escaped(flight)
              \/ /\ Top.aborted /\ flight = "panic"
                 /\ broken' = TRUE /\ Escaped("assertion")
              \/ ~MustPropagate /\ broken' = broken /\ Delivered(Recovered)
BY EscapeEffect, DeliverEffect, RecoveredType DEF Unwind, AssertionPanics

-----------------------------------------------------------------------------
(* The shapes those outcomes leave.                                         *)

LEMMA PopShape ==
    ASSUME TypeOK, ending = "running", Pop
    PROVE  /\ stack' \in Seq(Frames) /\ Depth' = Depth - 1 /\ stack' # <<>>
           /\ \A k \in 1..Depth' : stack'[k] = stack[k]
BY PoppedFacts DEF Pop, Depth

LEMMA TriedAgainShape ==
    ASSUME TypeOK, ending = "running", Depth > 1,
           stack' = Append(Popped, Frame("attempt"))
    PROVE  /\ stack' \in Seq(Frames) /\ Depth' = Depth /\ stack' # <<>>
           /\ \A k \in 1..(Depth - 1) : stack'[k] = stack[k]
           /\ stack'[Depth] = Frame("attempt")
<1> HIDE DEF Frames
<1>1. Frame("attempt") \in Frames
  BY FrameType
<1> QED BY <1>1, PoppedFacts, AppendProperties DEF Depth

LEMMA AbortCallerShape ==
    ASSUME TypeOK, ending = "running", AbortCaller
    PROVE  /\ stack' \in Seq(Frames) /\ Depth' = Depth - 1 /\ stack' # <<>>
           /\ \A k \in 1..(Depth - 1) : stack'[k].boundary = stack[k].boundary
           /\ \A k \in 1..(Depth - 2) : stack'[k] = stack[k]
           /\ stack'[Depth - 1].aborted
<1>1. stack' = [Popped EXCEPT ![Depth - 1].aborted = TRUE]
  BY DEF AbortCaller, Aborted
<1>2. Depth - 1 \in 1..Len(Popped) /\ Popped[Depth - 1] \in Frames
  BY PoppedFacts, ElementOfSeq DEF AbortCaller
<1> DEFINE Marked == [Popped[Depth - 1] EXCEPT !.aborted = TRUE]
<1>3. Marked \in Frames /\ Marked.boundary = Popped[Depth - 1].boundary
  BY <1>2 DEF Frames
<1>4. stack' = [Popped EXCEPT ![Depth - 1] = Marked]
  BY <1>1
<1>5. /\ stack' \in Seq(Frames) /\ Len(stack') = Len(Popped)
      /\ \A j \in 1..Len(Popped) : stack'[j] = IF j = Depth - 1 THEN Marked ELSE Popped[j]
  <2> HIDE DEF Marked
  <2> QED BY <1>2, <1>3, <1>4, PoppedFacts, ExceptSeq
<1> HIDE DEF Marked
<1>6. Depth \in Nat /\ Depth' \in Nat /\ Depth' = Depth - 1 /\ Depth - 1 >= 1
  BY <1>5, PoppedFacts DEF Depth, AbortCaller
<1>7. ASSUME NEW k \in 1..(Depth - 1) PROVE stack'[k].boundary = stack[k].boundary
  <2>1. k \in 1..Len(Popped) /\ Popped[k] = stack[k]
    BY <1>6, PoppedFacts
  <2> QED BY <1>3, <1>5, <2>1
<1>8. ASSUME NEW k \in 1..(Depth - 2) PROVE stack'[k] = stack[k]
  <2>1. k \in 1..Len(Popped) /\ Popped[k] = stack[k] /\ k # Depth - 1
    BY <1>6, PoppedFacts
  <2> QED BY <1>5, <2>1
<1>9. stack' # <<>>
  BY <1>6, EmptySeq DEF Depth
<1>10. \A k \in 1..(Depth - 1) : stack'[k].boundary = stack[k].boundary
  BY <1>7
<1>11. \A k \in 1..(Depth - 2) : stack'[k] = stack[k]
  BY <1>8
<1>12. stack'[Depth - 1].aborted
  <2>1. Marked.aborted = TRUE
    BY <1>2 DEF Marked, Frames
  <2> QED BY <1>2, <1>5, <2>1
<1> QED BY <1>5, <1>6, <1>9, <1>10, <1>11, <1>12

-----------------------------------------------------------------------------
(* Type correctness.                                                        *)

LEMMA TypeInit == Init => TypeOK
<1> SUFFICES ASSUME Init PROVE TypeOK
  OBVIOUS
<1>1. stack = <<Frame("test")>> /\ Frame("test").boundary = "test"
  BY FrameType DEF Init
<1>2. stack \in Seq(Frames) /\ Len(stack) = 1 /\ stack # <<>> /\ stack[1] = Frame("test")
  BY <1>1, FrameType
<1>3. \A k \in 1..Depth : (stack[k].boundary = "test") = (k = 1)
  BY <1>1, <1>2 DEF Depth
<1>4. Depth <= MaxDepth
  BY <1>2, InvocationAssumption DEF Depth
<1> QED BY <1>2, <1>3, <1>4 DEF Init, TypeOK, Frames, NoPanic

LEMMA PopKeepsShape ==
    ASSUME TypeOK, ending = "running", Pop
    PROVE  /\ stack' \in Seq(Frames) /\ stack' # <<>>
           /\ Depth' <= MaxDepth
           /\ \A k \in 1..Depth' : (stack'[k].boundary = "test") = (k = 1)
<1>1. Depth' <= MaxDepth
  BY PopShape, PoppedFacts, InvocationAssumption
<1>2. \A k \in 1..Depth' : k \in 1..Depth /\ stack'[k] = stack[k]
  BY PopShape, PoppedFacts
<1>3. \A k \in 1..Depth' : (stack'[k].boundary = "test") = (k = 1)
  BY <1>2 DEF TypeOK
<1> QED BY <1>1, <1>3, PopShape

LEMMA DeliveredType ==
    ASSUME TypeOK, ending = "running", NEW class \in AbortClasses \cup {"none"},
           Delivered(class), UNCHANGED <<habits, policy>>, broken' \in BOOLEAN
    PROVE  TypeOK'
<1>1. raised' \subseteq AbortClasses \cup {"panic"}
  BY DEF Delivered, Concluded, Resumed, TriedAgain, PassedOn, GaveUp, Record,
         AbortClasses, TypeOK
<1>2. CASE Concluded(class)
  BY <1>1, <1>2, InvocationAssumption DEF Concluded, TypeOK, Depth, NoPanic
<1>3. CASE Resumed(class)
  <2>1. Pop /\ flight' = NoPanic /\ UNCHANGED <<verdict, ending, raised>>
    BY <1>3 DEF Resumed
  <2> QED BY <1>1, <2>1, PopKeepsShape DEF TypeOK, Frames
<1>4. CASE TriedAgain(class)
  <2>1. \A k \in 1..Depth' : (stack'[k].boundary = "test") = (k = 1)
    <3>1. Depth > 1 /\ stack' = Append(Popped, Frame("attempt"))
      BY <1>4 DEF TriedAgain
    <3>2. /\ Depth' = Depth /\ Depth \in Nat /\ Depth > 1
          /\ \A k \in 1..(Depth - 1) : stack'[k] = stack[k]
          /\ stack'[Depth].boundary = "attempt"
      BY <3>1, TriedAgainShape, PoppedFacts, FrameType
    <3>3. ASSUME NEW k \in 1..Depth
          PROVE  (stack'[k].boundary = "test") = (k = 1)
      <4>1. CASE k = Depth
        BY <3>2, <4>1
      <4>2. CASE k # Depth
        <5>1. k \in 1..(Depth - 1)
          BY <3>2, <4>2
        <5> QED BY <3>2, <5>1 DEF TypeOK
      <4> QED BY <4>1, <4>2
    <3> QED BY <3>2, <3>3
  <2> QED BY <1>1, <1>4, <2>1, TriedAgainShape DEF TriedAgain, TypeOK, Frames
<1>5. CASE PassedOn(class) \/ GaveUp(class)
  <2>1. AbortCaller /\ flight' \in AbortClasses /\ UNCHANGED <<verdict, ending>>
    BY <1>5 DEF PassedOn, GaveUp, AbortClasses
  <2>2. /\ \A k \in 1..Depth' : (stack'[k].boundary = "test") = (k = 1)
        /\ Depth' <= MaxDepth
    <3>1. Depth' <= MaxDepth /\ 1..Depth' \subseteq 1..Depth
      BY <2>1, AbortCallerShape, PoppedFacts, InvocationAssumption
    <3> QED BY <2>1, <3>1, AbortCallerShape DEF TypeOK
  <2> QED BY <1>1, <2>1, <2>2, AbortCallerShape DEF TypeOK, Frames
<1> QED BY <1>2, <1>3, <1>4, <1>5 DEF Delivered

LEMMA EscapedType ==
    ASSUME TypeOK, ending = "running",
           NEW value \in AbortClasses \cup UserPanics \cup {"assertion"},
           Escaped(value), UNCHANGED <<habits, policy>>, broken' \in BOOLEAN
    PROVE  TypeOK'
<1>1. CASE Pop /\ flight' = value /\ ending' = ending
  BY <1>1, PopKeepsShape DEF Escaped, TypeOK, Frames
<1>2. CASE /\ stack' = <<>> /\ flight' = NoPanic
           /\ ending' \in {"propagated", "crashed"}
  BY <1>2, InvocationAssumption DEF Escaped, TypeOK, Depth
<1> QED BY <1>1, <1>2 DEF Escaped

(* A new frame on top.                                                      *)
LEMMA InvokeShape ==
    ASSUME TypeOK, NEW boundary \in {"rule", "attempt"}, Invoke(boundary)
    PROVE  /\ stack' \in Seq(Frames) /\ Depth' = Depth + 1 /\ stack' # <<>>
           /\ \A k \in 1..Depth : stack'[k] = stack[k]
           /\ stack'[Depth + 1] = Frame(boundary)
<1>1. Frame(boundary) \in Frames /\ stack \in Seq(Frames)
  BY FrameType DEF TypeOK, Frames
<1> HIDE DEF Frames
<1> QED BY <1>1, AppendProperties DEF Invoke, Depth

(* The flag of one frame.                                                   *)
LEMMA AbortShape ==
    ASSUME TypeOK, NEW k \in 1..Depth, NEW class \in AbortClasses, Abort(k, class)
    PROVE  /\ stack' \in Seq(Frames) /\ Depth' = Depth /\ stack' # <<>>
           /\ \A j \in 1..Depth : stack'[j].boundary = stack[j].boundary
           /\ \A j \in 1..Depth : j # k => stack'[j] = stack[j]
           /\ stack'[k].aborted
<1>1. stack \in Seq(Frames) /\ k \in 1..Len(stack) /\ Depth \in Nat
  BY DEF TypeOK, Frames, Depth
<1>2. stack[k] \in Frames
  BY <1>1, ElementOfSeq
<1> DEFINE Marked == [stack[k] EXCEPT !.aborted = TRUE]
<1>3. Marked \in Frames /\ Marked.boundary = stack[k].boundary
  BY <1>2 DEF Frames
<1>4. stack' = [stack EXCEPT ![k] = Marked]
  BY DEF Abort, Aborted
<1>5. /\ stack' \in Seq(Frames) /\ Len(stack') = Len(stack)
      /\ \A j \in 1..Len(stack) : stack'[j] = IF j = k THEN Marked ELSE stack[j]
  <2> HIDE DEF Marked
  <2> QED BY <1>1, <1>3, <1>4, ExceptSeq
<1>6. stack' # <<>>
  BY <1>1, <1>5, EmptySeq
<1>7. Marked.aborted = TRUE
  BY <1>2 DEF Frames
<1> HIDE DEF Marked
<1> QED BY <1>1, <1>3, <1>5, <1>6, <1>7 DEF Depth

LEMMA TypeNext == TypeOK /\ [Next]_vars => TypeOK'
<1> SUFFICES ASSUME TypeOK, [Next]_vars PROVE TypeOK'
  OBVIOUS
<1>1. ASSUME NEW boundary \in {"rule", "attempt"}, Invoke(boundary) PROVE TypeOK'
  <2>1. \A k \in 1..Depth' : (stack'[k].boundary = "test") = (k = 1)
    <3>1. /\ Depth' = Depth + 1 /\ Depth \in Nat /\ Depth >= 1
          /\ \A k \in 1..Depth : stack'[k] = stack[k]
          /\ stack'[Depth + 1].boundary = boundary
      BY <1>1, InvokeShape, PoppedFacts, FrameType DEF Invoke, Running
    <3>2. ASSUME NEW k \in 1..(Depth + 1)
          PROVE  (stack'[k].boundary = "test") = (k = 1)
      <4>1. CASE k = Depth + 1
        BY <3>1, <4>1
      <4>2. CASE k \in 1..Depth
        BY <3>1, <4>2 DEF TypeOK
      <4> QED BY <3>1, <4>1, <4>2
    <3> QED BY <3>1, <3>2
  <2>2. Depth' <= MaxDepth
    BY <1>1, InvokeShape, PoppedFacts, InvocationAssumption DEF Invoke, Running
  <2> QED BY <1>1, <2>1, <2>2, InvokeShape DEF Invoke, Running, TypeOK, Frames
<1>2. ASSUME NEW k \in 1..Depth, NEW class \in AbortClasses, Abort(k, class)
      PROVE  TypeOK'
  <2>1. \A j \in 1..Depth' : (stack'[j].boundary = "test") = (j = 1)
    BY <1>2, AbortShape DEF TypeOK
  <2>2. raised' \subseteq AbortClasses \cup {"panic"}
    BY <1>2 DEF Abort, Record, TypeOK
  <2> QED BY <1>2, <2>1, <2>2, AbortShape DEF Abort, Running, TypeOK, Frames
<1>3. CASE UserPanic
  BY <1>3 DEF UserPanic, TypeOK, Depth
<1>4. CASE UserRecover
  BY <1>4 DEF UserRecover, TypeOK, Depth
<1>5. CASE Unwind
  <2>1. broken' \in BOOLEAN /\ flight \in AbortClasses \cup UserPanics \cup {"assertion"}
    BY <1>5, UnwindEffect DEF TypeOK
  <2> QED BY <1>5, <2>1, UnwindEffect, DeliveredType, EscapedType, RecoveredType
<1>6. CASE Return
  <2>1. broken' \in BOOLEAN
    BY <1>6, ReturnEffect DEF TypeOK
  <2> QED BY <1>6, <2>1, ReturnEffect, DeliveredType, EscapedType
<1>7. CASE UNCHANGED vars
  BY <1>7 DEF vars, TypeOK, Depth
<1> QED BY <1>1, <1>2, <1>3, <1>4, <1>5, <1>6, <1>7 DEF Next, Finished

(* Every variable keeps its type: one test body at the bottom of the stack, *)
(* rules and attempts above it, and no frame once the test case is over.    *)
THEOREM TypeCorrect == Spec => []TypeOK
BY TypeInit, TypeNext, PTL DEF Spec

-----------------------------------------------------------------------------
(* The flags of the frames.                                                 *)

LEMMA InvInit == Init => IInv
<1> SUFFICES ASSUME Init PROVE IInv
  OBVIOUS
<1>1. \A k \in 1..Depth : stack[k].aborted = FALSE
  BY FrameType DEF Init, Depth
<1>2. AbortedFramesUnwind /\ FlightIsWhatWasRaised
  BY <1>1 DEF Init, AbortedFramesUnwind, FlightIsWhatWasRaised, NoPanic, UserPanics,
              AbortClasses
<1> QED BY <1>2, TypeInit
        DEF Init, IInv, VerdictIsWhatWasRaised, PanicsFollowPolicy

LEMMA FlagsReturn ==
    ASSUME TypeOK, AbortedFramesUnwind, Careful, Return
    PROVE  AbortedFramesUnwind'
<1>1. ~broken /\ \A k \in 1..Depth : ~stack[k].aborted
  BY ReturnEffect DEF AbortedFramesUnwind, NoPanic, AbortClasses
<1>2. broken' = broken /\ Delivered("none")
  <2>1. Depth \in 1..Depth
    BY ReturnEffect, PoppedFacts
  <2>2. ~Top.aborted
    BY <1>1, <2>1 DEF Top
  <2> QED BY <2>2, ReturnEffect
<1>3. CASE stack' = <<>>
  BY <1>1, <1>2, <1>3 DEF AbortedFramesUnwind, Depth
<1>4. CASE Pop
  <2>1. \A k \in 1..Depth' : k \in 1..Depth /\ stack'[k] = stack[k]
    BY <1>4, ReturnEffect, PopShape, PoppedFacts
  <2> QED BY <1>1, <1>2, <2>1 DEF AbortedFramesUnwind
<1> QED BY <1>2, <1>3, <1>4
        DEF Delivered, Concluded, Resumed, TriedAgain, PassedOn, GaveUp

LEMMA FlagsUnwind ==
    ASSUME TypeOK, AbortedFramesUnwind, Careful, Unwind
    PROVE  AbortedFramesUnwind'
<1>1. ~broken /\ \A k \in 1..(Depth - 1) : k \in 1..Depth /\ ~stack[k].aborted
  BY UnwindEffect, PoppedFacts DEF AbortedFramesUnwind
<1>2. Top.aborted => flight \in AbortClasses
  BY UnwindEffect, PoppedFacts DEF AbortedFramesUnwind, Top
<1>3. ~broken'
  BY <1>1, <1>2, UnwindEffect DEF AbortClasses
<1>4. CASE stack' = <<>>
  BY <1>3, <1>4 DEF AbortedFramesUnwind, Depth
<1>5. CASE Pop
  <2>1. \A k \in 1..Depth' : k \in 1..(Depth - 1) /\ stack'[k] = stack[k]
    BY <1>5, UnwindEffect, PopShape, PoppedFacts
  <2> QED BY <1>1, <1>3, <2>1 DEF AbortedFramesUnwind
<1>6. CASE Depth > 1 /\ stack' = Append(Popped, Frame("attempt"))
  <2>1. \A k \in 1..(Depth - 1) : ~stack'[k].aborted
    BY <1>1, <1>6, UnwindEffect, TriedAgainShape
  <2>2. ~stack'[Depth].aborted /\ Depth' = Depth /\ Depth \in Nat
    BY <1>6, UnwindEffect, TriedAgainShape, PoppedFacts, FrameType
  <2>3. \A k \in 1..Depth' : k \in 1..(Depth - 1) \/ k = Depth
    BY <2>2
  <2> QED BY <1>3, <2>1, <2>2, <2>3 DEF AbortedFramesUnwind
<1>7. CASE AbortCaller /\ flight' \in AbortClasses
  <2>1. \A k \in 1..(Depth - 2) : k \in 1..(Depth - 1) /\ ~stack'[k].aborted
    BY <1>1, <1>7, UnwindEffect, AbortCallerShape, PoppedFacts
  <2>2. Depth' = Depth - 1 /\ Depth \in Nat
    BY <1>7, UnwindEffect, AbortCallerShape, PoppedFacts
  <2>3. \A k \in 1..Depth' : k \in 1..(Depth - 2) \/ k = Depth'
    BY <2>2
  <2> QED BY <1>3, <1>7, <2>1, <2>3 DEF AbortedFramesUnwind
<1>8. Recovered \in AbortClasses /\ "assume" \in AbortClasses
  BY RecoveredType DEF AbortClasses
<1> QED BY <1>4, <1>5, <1>6, <1>7, <1>8, UnwindEffect
        DEF Delivered, Concluded, Resumed, TriedAgain, PassedOn, GaveUp, Escaped

LEMMA FlagsNext ==
    ASSUME TypeOK, AbortedFramesUnwind, [Next]_vars
    PROVE  AbortedFramesUnwind'
<1> SUFFICES ASSUME Careful PROVE AbortedFramesUnwind'
  BY ReturnEffect, UnwindEffect
     DEF AbortedFramesUnwind, Careful, Next, Invoke, Abort, UserPanic, UserRecover,
         Finished, vars
<1>1. flight = NoPanic => ~broken /\ \A k \in 1..Depth : ~stack[k].aborted
  BY DEF AbortedFramesUnwind, NoPanic, AbortClasses
<1>2. ASSUME NEW boundary \in {"rule", "attempt"}, Invoke(boundary)
      PROVE  AbortedFramesUnwind'
  <2>1. /\ Depth' = Depth + 1 /\ Depth \in Nat
        /\ \A k \in 1..Depth : stack'[k] = stack[k]
        /\ ~stack'[Depth + 1].aborted
    BY <1>2, InvokeShape, PoppedFacts, FrameType DEF Invoke, Running
  <2>2. \A k \in 1..Depth' : k \in 1..Depth \/ k = Depth + 1
    BY <2>1
  <2>3. ~broken' /\ \A k \in 1..Depth : ~stack[k].aborted
    BY <1>1, <1>2 DEF Invoke, Running
  <2> QED BY <2>1, <2>2, <2>3 DEF AbortedFramesUnwind
<1>3. ASSUME NEW k \in 1..Depth, NEW class \in AbortClasses, Abort(k, class)
      PROVE  AbortedFramesUnwind'
  <2>1. k = Depth
    BY <1>3 DEF Abort, Careful
  <2>2. \A j \in 1..Depth' : j # Depth => ~stack'[j].aborted
    BY <1>1, <1>3, <2>1, AbortShape DEF Abort, Running
  <2> QED BY <1>1, <1>3, <2>2, AbortShape DEF AbortedFramesUnwind, Abort, Running
<1>4. CASE UserPanic
  BY <1>1, <1>4 DEF UserPanic, Running, AbortedFramesUnwind, Depth
<1>5. CASE UserRecover
  BY <1>5 DEF UserRecover, Careful
<1>6. CASE UNCHANGED vars
  BY <1>6 DEF vars, AbortedFramesUnwind, Careful, Depth
<1> QED BY <1>2, <1>3, <1>4, <1>5, <1>6, FlagsReturn, FlagsUnwind DEF Next, Finished

-----------------------------------------------------------------------------
(* What is raised, in flight and delivered.                                 *)

LEMMA CarefulReturn ==
    ASSUME IInv, Careful, Return
    PROVE  /\ ending = "running" /\ flight = NoPanic /\ raised = {}
           /\ broken' = broken /\ Delivered("none")
<1>1. ending = "running" /\ flight = NoPanic
  BY ReturnEffect DEF IInv
<1>2. Depth \in 1..Depth
  BY <1>1, PoppedFacts DEF IInv
<1>3. ~Top.aborted
  BY <1>1, <1>2 DEF IInv, AbortedFramesUnwind, Top, NoPanic, AbortClasses
<1> QED BY <1>1, <1>3, ReturnEffect DEF IInv, FlightIsWhatWasRaised

LEMMA CarefulUnwind ==
    ASSUME IInv, Careful, Unwind
    PROVE  /\ ending = "running" /\ broken' = broken
           /\ \/ /\ policy = "propagate" /\ flight \in UserPanics
                 /\ Escaped(flight)
              \/ flight \in AbortClasses /\ Delivered(flight)
              \/ /\ policy = "capture" /\ flight \in UserPanics
                 /\ Delivered("failure")
<1>1. ending = "running" /\ flight \in AbortClasses \cup UserPanics
  BY UnwindEffect DEF IInv, TypeOK, FlightIsWhatWasRaised
<1>2. Depth \in 1..Depth
  BY <1>1, PoppedFacts DEF IInv
<1>3. Top.aborted <=> flight \in AbortClasses
  BY <1>1, <1>2 DEF IInv, AbortedFramesUnwind, FlightIsWhatWasRaised, Top
<1>4. flight \in AbortClasses => Recovered = flight /\ ~MustPropagate
  BY <1>3 DEF Recovered, MustPropagate
<1>5. flight \notin AbortClasses => Recovered = "failure"
  BY <1>3 DEF Recovered
<1>6. flight \notin AbortClasses => (MustPropagate <=> policy = "propagate")
  BY <1>3 DEF MustPropagate
<1>7. policy \in {"capture", "propagate"} /\ "panic" \notin AbortClasses
  BY DEF IInv, TypeOK, AbortClasses
<1> QED BY <1>1, <1>3, <1>4, <1>5, <1>6, <1>7, UnwindEffect DEF IInv

(* Leaving a frame that is no rule neither enters nor leaves a rule.        *)
LEMMA StillInRule ==
    ASSUME TypeOK, ending = "running", Top.boundary # "rule",
           Depth' = Depth - 1,
           \A k \in 1..(Depth - 1) : stack'[k].boundary = stack[k].boundary
    PROVE  InRule' <=> InRule
<1>1. Depth \in Nat /\ \A k \in 1..(Depth - 1) : k \in 1..Depth
  BY PoppedFacts
<1>2. \A k \in 1..Depth : stack[k].boundary = "rule" => k \in 1..(Depth - 1)
  BY <1>1 DEF Top
<1> QED BY <1>1, <1>2 DEF InRule

LEMMA FlightReturn ==
    ASSUME IInv, Careful, Return
    PROVE  FlightIsWhatWasRaised'
<1>1. Delivered("none") /\ raised = {}
  BY CarefulReturn
<1> QED BY <1>1
        DEF Delivered, Concluded, Resumed, TriedAgain, PassedOn, GaveUp,
            FlightIsWhatWasRaised, NoPanic, AbortClasses, UserPanics

(* The invariant once the caller is aborted with class.                     *)
LEMMA FlightPassedOn ==
    ASSUME TypeOK, ending = "running", AbortCaller,
           NEW class \in AbortClasses \ {"retry"}, flight' = class,
           class = "assume" => Top.boundary # "rule",
           class = "assume" => raised' = IF InRule THEN {} ELSE {"assume"},
           class \in {"overrun", "control"} => raised' = {class},
           class = "failure" =>
                raised' = {"failure"} \/ (policy' = "capture" /\ raised' = {"panic"})
    PROVE  FlightIsWhatWasRaised'
<1>1. Depth' = Depth - 1 /\ stack'[Depth - 1].aborted
  BY AbortCallerShape
<1>2. Top'.aborted
  BY <1>1 DEF Top
<1>3. class = "assume" => (InRule' <=> InRule)
  BY AbortCallerShape, StillInRule
<1> QED BY <1>2, <1>3 DEF FlightIsWhatWasRaised, AbortClasses, UserPanics, NoPanic

LEMMA FlightUnwind ==
    ASSUME IInv, Careful, Unwind
    PROVE  FlightIsWhatWasRaised'
<1>1. TypeOK /\ ending = "running" /\ policy' = policy
  BY UnwindEffect DEF IInv
<1>2. CASE flight \in UserPanics /\ Escaped(flight)
  BY <1>1, <1>2 DEF Escaped, IInv, FlightIsWhatWasRaised, UserPanics, AbortClasses, NoPanic
<1>3. ASSUME flight \in AbortClasses, Delivered(flight)
      PROVE  FlightIsWhatWasRaised'
  <2>1. CASE Concluded(flight)
    BY <2>1 DEF Concluded, FlightIsWhatWasRaised
  <2>2. CASE Resumed(flight) \/ TriedAgain(flight)
    <3>1. flight = "retry" \/ (flight = "assume" /\ Top.boundary = "rule")
      BY <1>3, <2>2 DEF Resumed, TriedAgain, AbortClasses
    <3>2. Depth \in 1..Depth
      BY <1>1, PoppedFacts
    <3>3. Top.boundary = "rule" => InRule
      BY <3>2 DEF Top, InRule
    <3>4. raised = {}
      BY <1>1, <3>1, <3>3 DEF IInv, FlightIsWhatWasRaised
    <3>5. flight' = NoPanic /\ raised' = {}
      BY <2>2, <3>4 DEF Resumed, TriedAgain
    <3> QED BY <3>5 DEF FlightIsWhatWasRaised, NoPanic, AbortClasses, UserPanics
  <2>3. CASE PassedOn(flight)
    <3>1. flight # "retry"
      BY <1>1, <2>3 DEF PassedOn, IInv, FlightIsWhatWasRaised
    <3> QED BY <1>1, <1>3, <2>3, <3>1, FlightPassedOn
            DEF PassedOn, IInv, FlightIsWhatWasRaised
  <2>4. CASE GaveUp(flight)
    <3>1. raised = {} /\ Top.boundary = "attempt"
      BY <1>1, <2>4 DEF GaveUp, IInv, FlightIsWhatWasRaised
    <3>2. raised' = IF InRule THEN {} ELSE {"assume"}
      BY <2>4, <3>1 DEF GaveUp, Record, Escaping, InRule
    <3> QED BY <1>1, <2>4, <3>1, <3>2, FlightPassedOn DEF GaveUp, AbortClasses
  <2> QED BY <1>3, <2>1, <2>2, <2>3, <2>4 DEF Delivered
<1>4. ASSUME policy = "capture", flight \in UserPanics, Delivered("failure")
      PROVE  FlightIsWhatWasRaised'
  <2>1. raised = {"panic"}
    BY <1>1, <1>4 DEF IInv, FlightIsWhatWasRaised
  <2>2. CASE Concluded("failure")
    BY <2>2 DEF Concluded, FlightIsWhatWasRaised
  <2>3. CASE PassedOn("failure")
    BY <1>1, <1>4, <2>1, <2>3, FlightPassedOn DEF PassedOn, AbortClasses
  <2> QED BY <1>4, <2>2, <2>3 DEF Delivered, Resumed, TriedAgain, GaveUp
<1> QED BY <1>2, <1>3, <1>4, CarefulUnwind

LEMMA FlightAbort ==
    ASSUME IInv, Careful, NEW k \in 1..Depth, NEW class \in AbortClasses, Abort(k, class)
    PROVE  FlightIsWhatWasRaised'
<1>1. /\ k = Depth /\ raised = {} /\ flight' = class /\ ending = "running"
      /\ raised' = IF Escaping(class) THEN {class} ELSE {}
      /\ class = "retry" => Top.boundary = "attempt"
  BY DEF Abort, Careful, Running, Record, IInv, FlightIsWhatWasRaised
<1>2. /\ Depth' = Depth /\ stack'[k].aborted
      /\ \A j \in 1..Depth : stack'[j].boundary = stack[j].boundary
  BY AbortShape DEF IInv
<1>3. (InRule' <=> InRule) /\ Top'.aborted /\ Top'.boundary = Top.boundary
  BY <1>1, <1>2 DEF InRule, Top
<1>4. class # "retry" => (Escaping(class) <=> ~(class = "assume" /\ InRule))
  BY DEF Escaping, InRule
<1>5. ~Escaping("retry")
  BY DEF Escaping
<1> QED BY <1>1, <1>3, <1>4, <1>5
        DEF FlightIsWhatWasRaised, AbortClasses, UserPanics, NoPanic

LEMMA FlightNext ==
    ASSUME IInv, [Next]_vars
    PROVE  FlightIsWhatWasRaised'
<1> SUFFICES ASSUME Careful PROVE FlightIsWhatWasRaised'
  BY ReturnEffect, UnwindEffect
     DEF IInv, FlightIsWhatWasRaised, Careful, Next, Invoke, Abort, UserPanic,
         UserRecover, Finished, vars
<1>1. ASSUME NEW boundary \in {"rule", "attempt"}, Invoke(boundary)
      PROVE  FlightIsWhatWasRaised'
  BY <1>1 DEF Invoke, Running, IInv, FlightIsWhatWasRaised, NoPanic, AbortClasses, UserPanics
<1>2. CASE UserPanic
  BY <1>2 DEF UserPanic, Running, IInv, FlightIsWhatWasRaised, NoPanic, AbortClasses, UserPanics
<1>3. CASE UserRecover
  BY <1>3 DEF UserRecover, Careful
<1>4. CASE UNCHANGED vars
  BY <1>4 DEF vars, IInv, FlightIsWhatWasRaised, Careful, InRule, Top, Depth
<1> QED BY <1>1, <1>2, <1>3, <1>4, FlightAbort, FlightReturn, FlightUnwind
        DEF Next, Finished

-----------------------------------------------------------------------------
(* The verdict and the policy.                                              *)

LEMMA VerdictNext ==
    ASSUME IInv, [Next]_vars
    PROVE  VerdictIsWhatWasRaised'
<1>1. CASE UNCHANGED <<habits, verdict, ending, raised>>
  BY <1>1 DEF IInv, VerdictIsWhatWasRaised, Careful
<1>2. CASE ending' # "returned"
  BY <1>2 DEF VerdictIsWhatWasRaised
<1>3. ASSUME ~Careful, habits' = habits
      PROVE  VerdictIsWhatWasRaised'
  BY <1>3 DEF VerdictIsWhatWasRaised, Careful
<1>4. CASE Careful /\ Return
  <2>1. raised = {} /\ Delivered("none")
    BY <1>4, CarefulReturn
  <2>2. (raised' = {} /\ verdict' = "none") \/ ending' # "returned"
    BY <1>4, <2>1, CarefulReturn
       DEF Delivered, Concluded, Resumed, TriedAgain, PassedOn, GaveUp
  <2> QED BY <1>2, <2>2 DEF VerdictIsWhatWasRaised
<1>5. CASE Careful /\ Unwind
  <2>1. TypeOK /\ ending = "running"
    BY <1>5, CarefulUnwind DEF IInv
  <2>2. CASE Escaped(flight)
    BY <1>2, <2>1, <2>2 DEF Escaped
  <2>3. ASSUME NEW class \in AbortClasses, Delivered(class), ~Concluded(class)
        PROVE  VerdictIsWhatWasRaised'
    BY <1>2, <2>1, <2>3 DEF Delivered, Resumed, TriedAgain, PassedOn, GaveUp
  <2>4. ASSUME flight \in AbortClasses, Concluded(flight)
        PROVE  VerdictIsWhatWasRaised'
    <3>1. /\ Depth = 1 /\ Top.boundary = "test" /\ ~InRule
          /\ verdict' = flight /\ raised' = raised
      BY <2>1, <2>4, PoppedFacts DEF Concluded, Top, InRule
    <3>2. flight # "retry"
      BY <1>5, <2>1, <3>1 DEF IInv, FlightIsWhatWasRaised
    <3>3. IF flight = "failure" THEN raised \in {{"failure"}, {"panic"}}
                               ELSE raised = {flight}
      BY <1>5, <2>1, <2>4, <3>1, <3>2 DEF IInv, FlightIsWhatWasRaised, AbortClasses
    <3>4. flight # "none"
      BY <2>4 DEF AbortClasses
    <3> QED BY <3>1, <3>3, <3>4 DEF VerdictIsWhatWasRaised
  <2>5. ASSUME flight \in UserPanics, Concluded("failure")
        PROVE  VerdictIsWhatWasRaised'
    <3>1. raised = {"panic"}
      BY <1>5, <2>1, <2>5 DEF IInv, FlightIsWhatWasRaised
    <3> QED BY <2>5, <3>1 DEF Concluded, VerdictIsWhatWasRaised
  <2>6. "failure" \in AbortClasses
    BY DEF AbortClasses
  <2> QED BY <1>5, <2>2, <2>3, <2>4, <2>5, <2>6, CarefulUnwind
<1>6. Return \/ Unwind => habits' = habits
  BY ReturnEffect, UnwindEffect DEF IInv
<1> QED BY <1>1, <1>3, <1>4, <1>5, <1>6
        DEF Next, Invoke, Abort, UserPanic, UserRecover, Finished, vars,
            IInv, VerdictIsWhatWasRaised, Careful, Running

LEMMA PolicyNext ==
    ASSUME IInv, [Next]_vars
    PROVE  PanicsFollowPolicy'
<1>1. UNCHANGED <<habits, policy>>
  BY ReturnEffect, UnwindEffect
     DEF IInv, Next, Invoke, Abort, UserPanic, UserRecover, Finished, vars
<1>2. CASE UNCHANGED <<ending, broken>> /\ (ending = "running" \/ raised' = raised)
  BY <1>1, <1>2 DEF IInv, PanicsFollowPolicy, Careful
<1>3. CASE Return \/ Unwind
  <2>1. TypeOK /\ ending = "running" /\ broken \in BOOLEAN
    BY <1>3, ReturnEffect, UnwindEffect DEF IInv, TypeOK
  <2>2. policy = "capture" /\ ~broken' => ending' \in {"running", "returned"}
    <3> SUFFICES ASSUME policy = "capture", ~broken'
                 PROVE  ending' \in {"running", "returned"}
      OBVIOUS
    <3>1. \E class : Delivered(class)
      BY <1>3, <2>1, ReturnEffect, UnwindEffect DEF MustPropagate
    <3> QED BY <2>1, <3>1 DEF Delivered, Concluded, Resumed, TriedAgain, PassedOn, GaveUp
  <2>3. ASSUME policy = "propagate", Careful, ending' = "returned"
        PROVE  "panic" \notin raised'
    <3>1. CASE Return
      <4>1. Delivered("none") /\ raised = {}
        BY <2>3, <3>1, CarefulReturn
      <4> QED BY <2>1, <2>3, <4>1
              DEF Delivered, Concluded, Resumed, TriedAgain, PassedOn, GaveUp
    <3>2. CASE Unwind
      <4>1. flight \in AbortClasses /\ Delivered(flight)
        BY <2>1, <2>3, <3>2, CarefulUnwind DEF Escaped
      <4>2. Concluded(flight)
        BY <2>1, <2>3, <4>1
           DEF Delivered, Concluded, Resumed, TriedAgain, PassedOn, GaveUp
      <4>3. "panic" \notin raised
        BY <2>1, <2>3, <4>1 DEF IInv, FlightIsWhatWasRaised, AbortClasses
      <4> QED BY <4>2, <4>3 DEF Concluded
    <3> QED BY <1>3, <3>1, <3>2
  <2> QED BY <1>1, <2>2, <2>3 DEF PanicsFollowPolicy, Careful
<1> QED BY <1>1, <1>2, <1>3
        DEF Next, Invoke, Abort, UserPanic, UserRecover, Finished, vars, Running

LEMMA Invariance == Spec => []IInv
<1>1. IInv /\ [Next]_vars => IInv'
  BY TypeNext, FlagsNext, FlightNext, VerdictNext, PolicyNext DEF IInv
<1> QED BY InvInit, <1>1, PTL DEF Spec

(* Where user code keeps to its own TestCase and lets abort panics through, *)
(* `recover()` returns the error abort was called with: invoke itself never *)
(* panics, and no stale flag turns a later return into an abort.            *)
THEOREM FlagsSafe == Spec => []AbortedFramesUnwind
<1>1. IInv => AbortedFramesUnwind
  BY DEF IInv
<1> QED BY <1>1, Invariance, PTL

(* Under the same conditions the test case ends with the one thing that was *)
(* raised in it, from however deep below rules and recursions.              *)
THEOREM VerdictSafe == Spec => []VerdictIsWhatWasRaised
<1>1. IInv => VerdictIsWhatWasRaised
  BY DEF IInv
<1> QED BY <1>1, Invariance, PTL

(* A user panic is captured or propagated as the policy says, also by user  *)
(* code that recovers, unless invoke itself has panicked.                   *)
THEOREM PolicySafe == Spec => []PanicsFollowPolicy
<1>1. IInv => PanicsFollowPolicy
  BY DEF IInv
<1> QED BY <1>1, Invariance, PTL
=============================================================================
