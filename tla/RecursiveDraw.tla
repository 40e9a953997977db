--------------------------- MODULE RecursiveDraw ---------------------------
(***************************************************************************)
(* Draws inside one invocation of user code: Draw, Filter and Recursive of *)
(* generators.go and recursive.go, with the spans they open.               *)
(*                                                                         *)
(* A span is counted twice.  The engine keeps the open spans of the test   *)
(* case's stream; the Go side keeps a depth in every copy of the test      *)
(* case, which tells a draw by the user's body, which is reported, from    *)
(* one inside a generator.  A Recursive generator may be told by the       *)
(* engine to give up an attempt and start another: the error unwinds to    *)
(* the invoke around the attempt, leaving its spans open.                  *)
(*                                                                         *)
(* The stack holds the calls in progress, innermost last:                  *)
(*                                                                         *)
(*   "body"     the user's body                                            *)
(*   "draw"     withSpan around a generator of the user's choice           *)
(*   "filter"   filteredGenerator.draw, `level` its failed attempts        *)
(*   "attempt"  recursiveGenerator.draw and the invoke of one attempt      *)
(*   "tree"     withSpan around a subtree generator                        *)
(*   "subtree"  subtreeGenerator.draw at depth `level`                     *)
(*                                                                         *)
(* Which generators the user composes, and what the engine answers, is     *)
(* left open.  Every draw is taken to be a call of Draw by a Composite:    *)
(* one that is not never reports.                                          *)
(***************************************************************************)
EXTENDS Naturals, Sequences, FiniteSets

CONSTANTS
    MaxDepth,     \* RecursiveGenerator.MaxDepth
    MaxLeaves,    \* RecursiveGenerator.MaxLeaves
    MaxAttempts,  \* the engine's bound on retries of a recursion
    MaxNesting,   \* bound on calls in progress
    MaxDraws      \* bound on draws of the body

ASSUME DrawAssumption ==
    /\ MaxDepth \in Nat
    /\ MaxLeaves \in Nat
    /\ MaxAttempts \in Nat
    /\ MaxNesting \in Nat \ {0}
    /\ MaxDraws \in Nat

maxFilterAttempts == 3
NoError == "none"
Errors == {"assume", "other", "leafRetry", "finishRetry"}

VARIABLES
    crossing,  \* user code draws the subtrees of one recursion inside another
    stack,     \* the calls in progress, as [kind, rec, level, phase]
    depths,    \* testCase.depth of the body's copy and of each attempt's
    spans,     \* the engine's open spans
    engine,    \* the engine's recursions, as [base, leaves, tries, owed]
    flight,    \* the error on its way to the innermost invoke, or NoError
    completed, \* history: draws of the body that returned
    reports    \* draws that were reported

vars == <<crossing, stack, depths, spans, engine, flight, completed, reports>>

Call(kind, rec, level, phase) ==
    [kind |-> kind, rec |-> rec, level |-> level, phase |-> phase]

Last(s) == s[Len(s)]
ButLast(s) == SubSeq(s, 1, Len(s) - 1)
Top == Last(stack)
Depth == Last(depths)

Init ==
    /\ crossing \in BOOLEAN
    /\ stack = <<Call("body", 0, 0, "call")>>
    /\ depths = <<0>>
    /\ spans = 0
    /\ engine = <<>>
    /\ flight = NoError
    /\ completed = 0
    /\ reports = 0

At(kind, phase) == flight = NoError /\ Top.kind = kind /\ Top.phase = phase

Move(phase) == stack' = [stack EXCEPT ![Len(stack)].phase = phase]
Push(call) == Len(stack) < MaxNesting /\ stack' = Append(stack, call)

(* The calls after the innermost one has returned a value.                  *)
Returned == [ButLast(stack) EXCEPT ![Len(stack) - 1].phase = "back"]

-----------------------------------------------------------------------------
(* Spans and errors.                                                        *)

StartSpan ==
    /\ spans' = spans + 1
    /\ depths' = [depths EXCEPT ![Len(depths)] = @ + 1]

StopSpan ==
    /\ spans' = spans - 1
    /\ depths' = [depths EXCEPT ![Len(depths)] = @ - 1]

Scopes == {k \in 1..Len(stack) : stack[k].kind \in {"body", "attempt"}}

(* The calls that are left when an error has reached the invoke around the  *)
(* innermost of calls 1..n: returned by generators, raised by Draw.         *)
Unwound(n) ==
    LET k == CHOOSE s \in Scopes : s <= n /\ \A t \in Scopes : t <= n => t <= s
    IN SubSeq(stack, 1, k)

(* The error leaves its spans open.                                         *)
Fail(error) ==
    /\ flight' = error
    /\ stack' = Unwound(Len(stack))
    /\ UNCHANGED <<crossing, depths, spans, engine, completed, reports>>

(* Any engine call or user function of the top call fails.                  *)
EngineError ==
    /\ flight = NoError
    /\ \E error \in {"assume", "other"} : Fail(error)

-----------------------------------------------------------------------------
(* Draw.                                                                    *)

MayDraw ==
    /\ flight = NoError
    /\ \/ Top.kind = "body" /\ completed < MaxDraws
       \/ Top.kind = "draw"
       \/ Top.kind = "filter" /\ Top.phase = "source"
       \/ Top.kind = "subtree" /\ Top.phase \in {"branch", "leaf"}

(* draw(tc, g) of some generator.                                           *)
Draw ==
    /\ MayDraw
    /\ Push(Call("draw", 0, 0, "call"))
    /\ StartSpan
    /\ UNCHANGED <<crossing, engine, flight, completed, reports>>

(* The child generators a branch function was given and has not returned    *)
(* from: those of the innermost recursion, or of any.                       *)
Visible(rec, level) ==
    /\ crossing \/ rec = Len(engine)
    /\ \E k \in 1..Len(stack) :
        /\ stack[k].kind = "subtree" /\ stack[k].phase = "branch"
        /\ stack[k].rec = rec /\ stack[k].level + 1 = level

(* draw(tc, subtree), by user code or, for the root, by an attempt.         *)
DrawTree(rec, level) ==
    /\ \/ MayDraw /\ Visible(rec, level)
       \/ At("attempt", "call") /\ rec = Top.rec /\ level = 0
    /\ Push(Call("tree", rec, level, "call"))
    /\ StartSpan
    /\ UNCHANGED <<crossing, engine, flight, completed, reports>>

(* A depth of one taken for no span at all: a faulty variant of InSpan.     *)
InSpanTwice(depth) == depth > 1

InSpan(depth) == depth > 0

(* The generator has returned its value: the span ends and Draw reports the *)
(* value unless it is part of another one.                                  *)
FinishDraw ==
    /\ \/ At("draw", "call") \/ At("draw", "back") \/ At("tree", "back")
    /\ StopSpan
    /\ stack' = Returned
    /\ reports' = IF InSpan(Last(depths')) THEN reports ELSE reports + 1
    /\ completed' = IF Len(stack) = 2 THEN completed + 1 ELSE completed
    /\ UNCHANGED <<crossing, engine, flight>>

-----------------------------------------------------------------------------
(* filteredGenerator.draw.                                                  *)

Filter ==
    /\ At("draw", "call")
    /\ Push(Call("filter", 0, 0, "call"))
    /\ UNCHANGED <<crossing, depths, spans, engine, flight, completed, reports>>

FilterAttempt ==
    /\ At("filter", "call")
    /\ IF Top.level < maxFilterAttempts
       THEN /\ Move("source")
            /\ StartSpan
            /\ UNCHANGED <<crossing, engine, flight, completed, reports>>
       ELSE Fail("assume")

Accept ==
    /\ At("filter", "back")
    /\ StopSpan
    /\ stack' = Returned
    /\ UNCHANGED <<crossing, engine, flight, completed, reports>>

Discard ==
    /\ At("filter", "back")
    /\ StopSpan
    /\ stack' = [stack EXCEPT ![Len(stack)].level = @ + 1,
                              ![Len(stack)].phase = "call"]
    /\ UNCHANGED <<crossing, engine, flight, completed, reports>>

-----------------------------------------------------------------------------
(* recursiveGenerator.draw and subtreeGenerator.draw.                       *)

(* An attempt that goes on with the depth the last one left: a faulty       *)
(* variant of Restarted.                                                    *)
RestartedInPlace(ds) == ds

(* invoke gives every attempt a copy of the test case of its own...         *)
Entered(ds) == Append(ds, Last(ds))

(* ... and the copy of the attempt before is gone.                          *)
Restarted(ds) == Entered(ButLast(ds))

(* The copy stays in use after the attempt: a faulty variant of Left.       *)
LeftOpen(ds) == ds
Left(ds) == ButLast(ds)

NewRecursion ==
    /\ At("draw", "call")
    /\ Push(Call("attempt", Len(engine) + 1, 0, "call"))
    /\ engine' = Append(engine,
            [base |-> spans, leaves |-> 0, tries |-> 0, owed |-> FALSE])
    /\ depths' = Entered(depths)
    /\ UNCHANGED <<crossing, spans, flight, completed, reports>>

Subtree ==
    /\ At("tree", "call")
    /\ Push(Call("subtree", Top.rec, Top.level, "call"))
    /\ UNCHANGED <<crossing, depths, spans, engine, flight, completed, reports>>

SubtreeSpan ==
    /\ At("subtree", "call")
    /\ Move("open")
    /\ StartSpan
    /\ UNCHANGED <<crossing, engine, flight, completed, reports>>

(* recursion.Branch: the engine decides.                                    *)
Branch ==
    /\ At("subtree", "open")
    /\ \/ Top.level < MaxDepth /\ Move("branch")
       \/ Move("decided")
    /\ UNCHANGED <<crossing, depths, spans, engine, flight, completed, reports>>

(* recursion.Leaf: counted, or refused once the budget is used up.          *)
Leaf ==
    /\ At("subtree", "decided")
    /\ IF engine[Top.rec].leaves < MaxLeaves
       THEN /\ Move("leaf")
            /\ engine' = [engine EXCEPT ![Top.rec].leaves = @ + 1]
            /\ UNCHANGED flight
       ELSE /\ engine' = [engine EXCEPT ![Top.rec].owed = TRUE]
            /\ flight' = "leafRetry"
            /\ stack' = Unwound(Len(stack))
    /\ UNCHANGED <<crossing, depths, spans, completed, reports>>

(* What the engine does to a recursion that starts over: its spans are      *)
(* discarded and its leaves forgotten.                                      *)
StartOver(rec) ==
    /\ engine[rec].tries < MaxAttempts
    /\ spans' = engine[rec].base
    /\ engine' = [engine EXCEPT ![rec].leaves = 0, ![rec].tries = @ + 1,
                                ![rec].owed = FALSE]

(* The root subtree asks recursion.Finish; the others are done.             *)
FinishSubtree ==
    /\ At("subtree", "back")
    /\ \/ /\ StopSpan
          /\ stack' = Returned
          /\ UNCHANGED <<engine, flight>>
       \/ /\ Top.level = 0
          /\ StartOver(Top.rec)
          /\ flight' = "finishRetry"
          /\ stack' = Unwound(Len(stack))
          /\ UNCHANGED depths
    /\ UNCHANGED <<crossing, completed, reports>>

(* The attempt drew its value.                                              *)
FinishAttempt ==
    /\ At("attempt", "back")
    /\ stack' = Returned
    /\ depths' = Left(depths)
    /\ engine' = ButLast(engine)
    /\ UNCHANGED <<crossing, spans, flight, completed, reports>>

Caught == flight # NoError /\ Top.kind = "attempt"

Restart ==
    /\ Move("call")
    /\ depths' = Restarted(depths)
    /\ flight' = NoError

(* `return zero, err`, to the invoke around this recursion's draw.          *)
GiveUp(error) ==
    /\ stack' = Unwound(Len(stack) - 1)
    /\ depths' = Left(depths)
    /\ engine' = ButLast(engine)
    /\ flight' = error
    /\ UNCHANGED spans

(* Every retry taken for a finishRetry: a faulty variant of NeedsRetry.     *)
NeverNeedsRetry(error) == FALSE

(* A leafBudgetRetry, whichever recursion's.                                *)
NeedsRetry(error) == error = "leafRetry"

(* recursion.Retry: another attempt, or the attempts are used up.  It may   *)
(* also refuse when this recursion is not the one that is over its budget.  *)
Retry ==
    /\ Caught /\ NeedsRetry(flight)
    /\ \/ StartOver(Top.rec) /\ Restart
       \/ \E error \in {"assume", "other"} : GiveUp(error)
    /\ UNCHANGED <<crossing, completed, reports>>

(* Finish has already reset the scope.                                      *)
Continue ==
    /\ Caught /\ flight \in {"leafRetry", "finishRetry"} /\ ~NeedsRetry(flight)
    /\ Restart
    /\ UNCHANGED <<crossing, spans, engine, completed, reports>>

PassOn ==
    /\ Caught /\ flight \in {"assume", "other"}
    /\ GiveUp(flight)
    /\ UNCHANGED <<crossing, completed, reports>>

-----------------------------------------------------------------------------
(* The body returns between two draws, or its invoke reports the error.     *)
Over == Top.kind = "body" /\ (flight # NoError \/ completed = MaxDraws)
Finished == Over /\ UNCHANGED vars

Levels == 0..MaxDepth

Next ==
    \/ EngineError
    \/ Draw \/ FinishDraw
    \/ \E rec \in 1..Len(engine), level \in Levels : DrawTree(rec, level)
    \/ Filter \/ FilterAttempt \/ Accept \/ Discard
    \/ NewRecursion \/ Subtree \/ SubtreeSpan \/ Branch \/ Leaf
    \/ FinishSubtree \/ FinishAttempt \/ Retry \/ Continue \/ PassOn
    \/ Finished

Spec == Init /\ [][Next]_vars

-----------------------------------------------------------------------------
(* Properties.                                                              *)

TypeOK ==
    /\ crossing \in BOOLEAN
    /\ stack \in Seq([kind : {"body", "draw", "filter", "attempt", "tree", "subtree"},
                      rec : 0..MaxNesting, level : 0..(MaxDepth + maxFilterAttempts),
                      phase : {"call", "source", "open", "branch", "decided",
                               "leaf", "back"}])
    /\ Len(stack) \in 1..MaxNesting
    /\ depths \in Seq(Nat)
    /\ spans \in Nat
    /\ engine \in Seq([base : Nat, leaves : 0..MaxLeaves, tries : 0..MaxAttempts,
                       owed : BOOLEAN])
    /\ flight \in Errors \cup {NoError}
    /\ completed \in 0..MaxDraws
    /\ reports \in Nat
    /\ \A k \in 1..Len(stack) : (stack[k].kind = "body") = (k = 1)
    /\ Len(depths) = Len(engine) + 1
    /\ Scopes = {1} \cup {k \in 1..Len(stack) : stack[k].rec \in 1..Len(engine)
                                              /\ stack[k].kind = "attempt"}

(* A call that opened a span and has not stopped it.                        *)
HoldsSpan(call) ==
    \/ call.kind \in {"draw", "tree"}
    \/ call.kind \in {"filter", "subtree"} /\ call.phase # "call"

Held == {k \in 1..Len(stack) : HoldsSpan(stack[k])}

(* Whenever user code or a generator runs, the depth of its test case and   *)
(* the engine's open spans are the same, and both are the generators that   *)
(* are at work: "The scoped TestCase passed to invoke keeps their Go-side   *)
(* depth from leaking", and no retry or discarded filter attempt leaves a   *)
(* span behind.                                                             *)
DepthsAgree ==
    flight = NoError =>
        /\ Depth = spans
        /\ Cardinality(Held) = spans

(* "Nested draws are reported as part of the parent's value": each draw of  *)
(* the body is reported, once, and no other, whatever was retried inside.   *)
ReportedOnce == reports = completed

(* E_RETRY: "Unwind the current generation attempt - drawing nothing        *)
(* further for it - back to where the recursion scope was created, then     *)
(* call [Recursion.Retry]": a recursion that is over its budget is retried  *)
(* before anything else is drawn.                                           *)
RetriedFirst ==
    \A r \in 1..Len(engine) : engine[r].owed => flight = "leafRetry"

(* So it is when every recursion draws its own subtrees only.               *)
OwnRetriedFirst == ~crossing => RetriedFirst
=============================================================================
