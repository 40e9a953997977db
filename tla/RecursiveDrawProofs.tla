------------------------ MODULE RecursiveDrawProofs ------------------------
(***************************************************************************)
(* Proofs about RecursiveDraw, for any depth, budget, number of attempts   *)
(* and nesting of calls: the depth of a test case is the number of spans   *)
(* that the engine has open whenever anything is drawn, each draw of the   *)
(* body is reported once, and a recursion over its budget is retried first *)
(* if no other recursion draws its subtrees.                               *)
(***************************************************************************)
EXTENDS RecursiveDraw, FiniteSetTheorems, SequenceTheorems, TLAPS

Kinds == {"body", "draw", "filter", "attempt", "tree", "subtree"}
Phases == {"call", "source", "open", "branch", "decided", "leaf", "back"}
Calls ==
    [kind : Kinds, rec : 0..MaxNesting, level : 0..(MaxDepth + maxFilterAttempts),
     phase : Phases]
Recursions ==
    [base : Nat, leaves : 0..MaxLeaves, tries : 0..MaxAttempts, owed : BOOLEAN]

IsAttempt(call) == call.kind = "attempt"
IsTree(call) == call.kind \in {"tree", "subtree"}

Types ==
    /\ crossing \in BOOLEAN
    /\ stack \in Seq(Calls) /\ Len(stack) \in 1..MaxNesting
    /\ depths \in Seq(Nat)
    /\ spans \in Nat
    /\ engine \in Seq(Recursions)
    /\ flight \in Errors \cup {NoError}
    /\ completed \in 0..MaxDraws
    /\ reports \in Nat
    /\ Len(depths) = Len(engine) + 1

(* A filter that is at work has an attempt left.                            *)
Levelled ==
    \A k \in 1..Len(stack) :
        IF stack[k].kind = "filter"
        THEN /\ stack[k].level <= maxFilterAttempts
             /\ stack[k].phase # "call" => stack[k].level < maxFilterAttempts
        ELSE stack[k].level <= MaxDepth

(* The body draws through Draw only; what has called another is past its    *)
(* beginning; an error has unwound to an invoke.                            *)
Nested ==
    /\ \A k \in 1..Len(stack) : stack[k].kind = "body" <=> k = 1
    /\ Len(stack) >= 2 => stack[2].kind \in {"draw", "tree"}
    /\ \A k \in 1..(Len(stack) - 1) :
        stack[k].kind \in {"filter", "subtree"} => stack[k].phase # "call"
    /\ flight # NoError => Top.kind \in {"body", "attempt"}

(* The engine's recursions are the attempts on the stack, in their order.   *)
Numbered ==
    /\ \A k \in 1..Len(stack) :
        IsAttempt(stack[k]) => stack[k].rec \in 1..Len(engine) /\ stack[k].rec < k
    /\ \A r \in 1..Len(engine) :
        \E k \in 1..Len(stack) : IsAttempt(stack[k]) /\ stack[k].rec = r
    /\ \A j, k \in 1..Len(stack) :
        IsAttempt(stack[j]) /\ IsAttempt(stack[k]) /\ j < k => stack[j].rec < stack[k].rec

(* A subtree is drawn above the attempt that it belongs to; above no other  *)
(* one if it is the root, or if no recursion draws another's subtrees.      *)
Owned ==
    \A k \in 1..Len(stack) : IsTree(stack[k]) =>
        /\ stack[k].rec \in 1..Len(engine)
        /\ \A a \in 1..Len(stack) :
            IsAttempt(stack[a]) /\ stack[a].rec <= stack[k].rec => a < k
        /\ ~crossing \/ stack[k].level = 0 =>
            \A a \in 1..Len(stack) :
                IsAttempt(stack[a]) /\ a < k => stack[a].rec <= stack[k].rec

Shape == Levelled /\ Nested /\ Numbered /\ Owned

(* The spans that the calls up to the n-th hold.                            *)
HeldTo(s, n) == {k \in 1..n : HoldsSpan(s[k])}
Count(s, n) == Cardinality(HeldTo(s, n))
Held1(call) == IF HoldsSpan(call) THEN 1 ELSE 0

(* A recursion's base, and the depth that its attempts start with, are the  *)
(* spans that were open when it was created.                                *)
BasesHeld ==
    \A k \in 1..Len(stack) : IsAttempt(stack[k]) =>
        /\ engine[stack[k].rec].base = Count(stack, k)
        /\ depths[stack[k].rec] = Count(stack, k)

SpansHeld ==
    flight = NoError => Depth = Count(stack, Len(stack)) /\ spans = Count(stack, Len(stack))

(* Finish has discarded the attempt's spans.                                *)
Discarded ==
    flight = "finishRetry" => IsAttempt(Top) /\ spans = engine[Len(engine)].base

Owing ==
    ~crossing => \A r \in 1..Len(engine) :
        engine[r].owed => flight = "leafRetry" /\ r = Len(engine)

(* The body draws only as long as it has draws left.                        *)
Counting == ReportedOnce /\ (Len(stack) >= 2 => completed < MaxDraws)

IInv == Types /\ Shape /\ BasesHeld /\ SpansHeld /\ Discarded /\ Owing /\ Counting

-----------------------------------------------------------------------------
(* Sequences of calls.                                                      *)
USE DrawAssumption DEF maxFilterAttempts, NoError

LEMMA Pushes ==
    ASSUME Types, NEW call \in Calls, Push(call)
    PROVE  /\ stack' \in Seq(Calls) /\ Len(stack') = Len(stack) + 1
           /\ Len(stack') \in 1..MaxNesting
           /\ \A k \in 1..Len(stack) : stack'[k] = stack[k]
           /\ stack'[Len(stack')] = call
<1>1. stack \in Seq(Calls) /\ Len(stack) \in 1..MaxNesting /\ Len(stack) < MaxNesting
      /\ stack' = Append(stack, call)
  BY DEF Types, Push
<1> QED BY <1>1

LEMMA Changes ==
    ASSUME Types, NEW call \in Calls, stack' = [stack EXCEPT ![Len(stack)] = call]
    PROVE  /\ stack' \in Seq(Calls) /\ Len(stack') = Len(stack)
           /\ Len(stack') \in 1..MaxNesting
           /\ \A k \in 1..(Len(stack) - 1) : stack'[k] = stack[k]
           /\ stack'[Len(stack')] = call
<1>1. stack \in Seq(Calls) /\ Len(stack) \in 1..MaxNesting
  BY DEF Types
<1> QED BY <1>1

LEMMA Cuts ==
    ASSUME Types, NEW n \in 1..Len(stack), stack' = SubSeq(stack, 1, n)
    PROVE  /\ stack' \in Seq(Calls) /\ Len(stack') = n
           /\ Len(stack') \in 1..MaxNesting
           /\ \A k \in 1..n : stack'[k] = stack[k]
<1>1. stack \in Seq(Calls) /\ Len(stack) \in 1..MaxNesting
  BY DEF Types
<1> QED BY <1>1

LEMMA Returns ==
    ASSUME Types, Len(stack) >= 2, stack' = Returned
    PROVE  /\ stack' \in Seq(Calls) /\ Len(stack') = Len(stack) - 1
           /\ Len(stack') \in 1..MaxNesting
           /\ \A k \in 1..(Len(stack) - 2) : stack'[k] = stack[k]
           /\ stack'[Len(stack')] = [stack[Len(stack) - 1] EXCEPT !.phase = "back"]
<1>1. stack \in Seq(Calls) /\ Len(stack) \in 1..MaxNesting
  BY DEF Types
<1> DEFINE n == Len(stack) - 1
           call == [stack[n] EXCEPT !.phase = "back"]
           below == SubSeq(stack, 1, n)
<1>2. n \in 1..Len(stack) /\ stack[n] \in Calls /\ call \in Calls
  <2>1. n \in 1..Len(stack) /\ stack[n] \in Calls
    BY <1>1
  <2>2. \A c \in Calls : [c EXCEPT !.phase = "back"] \in Calls
    BY DEF Calls, Phases
  <2> HIDE DEF n
  <2> QED BY <2>1, <2>2
<1>3. below \in Seq(Calls) /\ Len(below) = n /\ \A k \in 1..n : below[k] = stack[k]
  BY <1>1
<1>4. stack' = [below EXCEPT ![n] = call]
  <2>1. stack' = [below EXCEPT ![n].phase = "back"]
    BY DEF Returned, ButLast
  <2>2. below[n] = stack[n]
    BY <1>2, <1>3
  <2> HIDE DEF below, n
  <2> QED BY <2>1, <2>2
<1> HIDE DEF below, call
<1>5. stack' \in Seq(Calls) /\ Len(stack') = n /\ stack'[n] = call
      /\ \A k \in 1..(n - 1) : stack'[k] = below[k]
  BY <1>1, <1>2, <1>3, <1>4
<1> QED BY <1>1, <1>3, <1>5 DEF call

(* The innermost call is not the body's.                                    *)
LEMMA ReturnedLess ==
    ASSUME Types, Shape, Top.kind # "body", stack' = Returned
    PROVE  Len(stack) \in Nat /\ Len(stack) >= 2 /\ Len(stack') = Len(stack) - 1
<1>1. Len(stack) \in Nat \ {0} /\ Top = stack[Len(stack)]
  BY DEF Types, Top, Last
<1>2. Len(stack) # 1
  BY <1>1 DEF Shape, Nested
<1>3. Len(stack) \in Nat /\ Len(stack) >= 2
  <2>1. PICK n \in Nat \ {0} : n = Len(stack)
    BY <1>1
  <2>2. n # 1
    BY <1>2, <2>1
  <2>3. n >= 2
    BY ONLY <2>2
  <2> QED BY <2>1, <2>3
<1>4. Len(stack') = Len(stack) - 1
  BY <1>3, Returns
<1> QED BY <1>3, <1>4

-----------------------------------------------------------------------------
(* Counting spans.                                                          *)
LEMMA CountIs ==
    ASSUME NEW s, NEW n \in Nat
    PROVE  /\ Count(s, n) \in Nat
           /\ Count(s, n + 1) = Count(s, n) + Held1(s[n + 1])
           /\ Count(s, n) = 0 <=> \A k \in 1..n : ~HoldsSpan(s[k])
<1>1. IsFiniteSet(HeldTo(s, n)) /\ Cardinality(HeldTo(s, n)) \in Nat
  <2>1. HeldTo(s, n) \subseteq 1..n /\ IsFiniteSet(1..n)
    BY FS_Interval DEF HeldTo
  <2> QED BY <2>1, FS_Subset, FS_CardinalityType
<1>2. CASE HoldsSpan(s[n + 1])
  <2>1. HeldTo(s, n + 1) = HeldTo(s, n) \cup {n + 1} /\ n + 1 \notin HeldTo(s, n)
    BY <1>2 DEF HeldTo
  <2> QED BY <1>1, <1>2, <2>1, FS_AddElement, FS_EmptySet DEF Count, HeldTo, Held1
<1>3. CASE ~HoldsSpan(s[n + 1])
  <2>1. HeldTo(s, n + 1) = HeldTo(s, n)
    BY <1>3 DEF HeldTo
  <2> QED BY <1>1, <1>3, <2>1, FS_EmptySet DEF Count, HeldTo, Held1
<1> QED BY <1>2, <1>3

LEMMA CountSame ==
    ASSUME NEW s, NEW t, NEW n \in Nat,
           \A k \in 1..n : HoldsSpan(s[k]) <=> HoldsSpan(t[k])
    PROVE  Count(s, n) = Count(t, n)
BY DEF Count, HeldTo

-----------------------------------------------------------------------------
(* The shape of the stack.                                                  *)

LEMMA TopIs ==
    ASSUME Types
    PROVE  Len(stack) \in 1..Len(stack) /\ Top = stack[Len(stack)] /\ Top \in Calls
BY DEF Types, Top, Last

LEMMA DepthIs ==
    ASSUME Types
    PROVE  Len(depths) \in Nat \ {0} /\ Len(engine) \in Nat /\ Depth \in Nat
BY DEF Types, Depth, Last

(* The last attempt is the engine's innermost recursion.                    *)
LEMMA TopAttempt ==
    ASSUME Types, Shape, IsAttempt(Top)
    PROVE  Top.rec = Len(engine) /\ Len(engine) \in Nat \ {0}
<1>1. Top.rec \in 1..Len(engine) /\ Len(engine) \in Nat
  BY TopIs DEF Types, Shape, Numbered
<1>2. PICK k \in 1..Len(stack) : IsAttempt(stack[k]) /\ stack[k].rec = Len(engine)
  BY <1>1 DEF Shape, Numbered
<1>3. k < Len(stack) => stack[k].rec < Top.rec
  BY <1>2, TopIs DEF Shape, Numbered
<1>4. k < Len(stack) \/ k = Len(stack)
  BY <1>2 DEF Types
<1> QED BY <1>1, <1>2, <1>3, <1>4, TopIs

(* A root, or any subtree if none is drawn by another recursion, belongs to *)
(* the innermost one.                                                       *)
LEMMA TopOwned ==
    ASSUME Types, Shape, IsTree(Top)
    PROVE  /\ Top.rec \in 1..Len(engine)
           /\ ~crossing \/ Top.level = 0 => Top.rec = Len(engine)
<1>1. Top.rec \in 1..Len(engine) /\ Len(engine) \in Nat
  <2>1. Top.rec \in 1..Len(engine)
    BY TopIs DEF Shape, Owned
  <2> QED BY <2>1, DepthIs
<1>2. PICK k \in 1..Len(stack) : IsAttempt(stack[k]) /\ stack[k].rec = Len(engine)
  BY <1>1 DEF Shape, Numbered
<1>3. k < Len(stack)
  <2>1. k # Len(stack)
    BY <1>2, TopIs DEF IsAttempt, IsTree
  <2> QED BY <1>2, <2>1 DEF Types
<1>4. ~crossing \/ Top.level = 0 => stack[k].rec <= Top.rec
  BY <1>2, <1>3, TopIs DEF Shape, Owned
<1> QED BY <1>1, <1>2, <1>4

LEMMA ShapePush ==
    ASSUME Types, Shape, NEW call \in Calls, Push(call),
           ~IsAttempt(call), call.kind # "body",
           call.kind = "filter" => call.level = 0 /\ call.phase = "call",
           call.kind # "filter" => call.level <= MaxDepth,
           Top.kind = "body" => call.kind \in {"draw", "tree"},
           Top.kind \in {"filter", "subtree"} => Top.phase # "call",
           IsTree(call) => call.rec \in 1..Len(engine)
                           /\ (~crossing \/ call.level = 0 => call.rec = Len(engine)),
           flight' = NoError, crossing' = crossing, Len(engine') = Len(engine)
    PROVE  Shape'
<1>1. /\ stack' \in Seq(Calls) /\ Len(stack') = Len(stack) + 1 /\ Len(stack) \in Nat \ {0}
      /\ \A k \in 1..Len(stack) : stack'[k] = stack[k]
      /\ stack'[Len(stack')] = call
      /\ Len(engine) \in Nat
  BY Pushes DEF Types
<1>2. \A k \in 1..Len(stack') : k \in 1..Len(stack) \/ k = Len(stack')
  BY <1>1
<1>3. Levelled'
  BY <1>1, <1>2 DEF Shape, Levelled
<1>4. Nested'
  <2>1. \A k \in 1..Len(stack') : stack'[k].kind = "body" <=> k = 1
    BY <1>1, <1>2 DEF Shape, Nested
  <2>2. stack'[2].kind \in {"draw", "tree"}
    <3>1. CASE Len(stack) = 1
      BY <1>1, <3>1, TopIs DEF Shape, Nested
    <3>2. CASE Len(stack) >= 2
      BY <1>1, <3>2 DEF Shape, Nested
    <3>3. Len(stack) \in Nat \ {0}
      BY <1>1
    <3>4. Len(stack) = 1 \/ Len(stack) >= 2
      BY ONLY <3>3
    <3> QED BY <3>1, <3>2, <3>4
  <2>3. \A k \in 1..Len(stack) :
            stack'[k].kind \in {"filter", "subtree"} => stack'[k].phase # "call"
    <3>1. \A k \in 1..Len(stack) : k \in 1..(Len(stack) - 1) \/ k = Len(stack)
      BY <1>1
    <3> QED BY <1>1, <3>1, TopIs DEF Shape, Nested
  <2> QED BY <1>1, <2>1, <2>2, <2>3 DEF Nested
<1>5. Numbered'
  <2>1. \A k \in 1..Len(stack') : IsAttempt(stack'[k]) =>
            k \in 1..Len(stack) /\ stack'[k] = stack[k]
    BY <1>1, <1>2
  <2>2. \A r \in 1..Len(engine) :
            \E k \in 1..Len(stack') : IsAttempt(stack'[k]) /\ stack'[k].rec = r
    <3>1. \A k \in 1..Len(stack) : k \in 1..Len(stack')
      BY <1>1
    <3> QED BY <1>1, <3>1 DEF Shape, Numbered
  <2> QED BY <2>1, <2>2 DEF Shape, Numbered
<1>6. Owned'
  <2>1. \A k \in 1..Len(stack') : IsAttempt(stack'[k]) =>
            k \in 1..Len(stack) /\ stack'[k] = stack[k] /\ stack[k].rec <= Len(engine)
            /\ k < Len(stack')
    BY <1>1, <1>2 DEF Shape, Numbered
  <2>2. ASSUME NEW k \in 1..Len(stack), IsTree(stack'[k])
        PROVE  /\ stack'[k].rec \in 1..Len(engine')
               /\ \A a \in 1..Len(stack') :
                    IsAttempt(stack'[a]) /\ stack'[a].rec <= stack'[k].rec => a < k
               /\ ~crossing' \/ stack'[k].level = 0 =>
                    \A a \in 1..Len(stack') :
                        IsAttempt(stack'[a]) /\ a < k => stack'[a].rec <= stack'[k].rec
    <3>1. stack'[k] = stack[k]
      BY <1>1
    <3> QED BY <2>1, <2>2, <3>1 DEF Shape, Owned
  <2>3. ASSUME IsTree(call)
        PROVE  /\ call.rec \in 1..Len(engine')
               /\ \A a \in 1..Len(stack') :
                    IsAttempt(stack'[a]) /\ stack'[a].rec <= call.rec => a < Len(stack')
               /\ ~crossing' \/ call.level = 0 =>
                    \A a \in 1..Len(stack') :
                        IsAttempt(stack'[a]) /\ a < Len(stack') => stack'[a].rec <= call.rec
    BY <2>1, <2>3
  <2> QED BY <1>1, <1>2, <2>2, <2>3 DEF Owned
<1> QED BY <1>3, <1>4, <1>5, <1>6 DEF Shape

(* Calls return, change what they know of themselves or are left, and with  *)
(* the attempts that are left go their recursions.                          *)
LEMMA ShapeKept ==
    ASSUME Types, Shape, NEW n \in 1..Len(stack), Len(stack') = n,
           \A k \in 1..n :
                /\ stack'[k].kind = stack[k].kind /\ stack'[k].rec = stack[k].rec
                /\ IF stack[k].kind = "filter"
                   THEN /\ stack'[k].level <= maxFilterAttempts
                        /\ stack'[k].phase # "call" => stack'[k].level < maxFilterAttempts
                   ELSE stack'[k].level = stack[k].level,
           \A k \in 1..(n - 1) : stack'[k].phase = stack[k].phase,
           flight' # NoError => stack[n].kind \in {"body", "attempt"},
           crossing' = crossing,
           Len(engine') \in 0..Len(engine),
           \A a \in 1..Len(stack) :
                IsAttempt(stack[a]) => (a <= n <=> stack[a].rec <= Len(engine'))
    PROVE  Shape'
<1>1. Len(stack) \in Nat \ {0} /\ Len(engine) \in Nat
  BY DEF Types
<1>2. \A k \in 1..n :
        /\ k \in 1..Len(stack)
        /\ IsTree(stack'[k]) <=> IsTree(stack[k])
        /\ IsAttempt(stack'[k]) <=> IsAttempt(stack[k])
        /\ IsTree(stack[k]) => stack'[k].level = stack[k].level
  BY <1>1 DEF IsTree, IsAttempt
<1>3. Levelled'
  BY <1>2 DEF Shape, Levelled
<1>4. Nested'
  <2>1. \A k \in 1..n : stack'[k].kind = "body" <=> k = 1
    BY <1>2 DEF Shape, Nested
  <2>2. n >= 2 => stack'[2].kind \in {"draw", "tree"}
    BY <1>1, <1>2 DEF Shape, Nested
  <2>3. \A k \in 1..(n - 1) :
            stack'[k].kind \in {"filter", "subtree"} => stack'[k].phase # "call"
    <3>1. \A k \in 1..(n - 1) : k \in 1..(Len(stack) - 1) /\ k \in 1..n
      BY <1>1
    <3> QED BY <1>2, <3>1 DEF Shape, Nested
  <2>4. flight' # NoError => Top'.kind \in {"body", "attempt"}
    <3>1. Top' = stack'[n] /\ n \in 1..n
      BY <1>1 DEF Top, Last
    <3> QED BY <1>2, <3>1
  <2> QED BY <2>1, <2>2, <2>3, <2>4 DEF Nested
<1>5. Numbered'
  <2>1. \A k \in 1..n :
            IsAttempt(stack'[k]) => stack'[k].rec \in 1..Len(engine') /\ stack'[k].rec < k
    BY <1>2 DEF Shape, Numbered
  <2>2. ASSUME NEW r \in 1..Len(engine')
        PROVE  \E k \in 1..n : IsAttempt(stack'[k]) /\ stack'[k].rec = r
    <3>1. r \in 1..Len(engine) /\ r <= Len(engine')
      BY <1>1
    <3>2. PICK k \in 1..Len(stack) : IsAttempt(stack[k]) /\ stack[k].rec = r
      BY <3>1 DEF Shape, Numbered
    <3>3. k \in 1..n
      BY <3>1, <3>2
    <3> QED BY <1>2, <3>2, <3>3
  <2>3. \A j, k \in 1..n :
            IsAttempt(stack'[j]) /\ IsAttempt(stack'[k]) /\ j < k
                => stack'[j].rec < stack'[k].rec
    BY <1>2 DEF Shape, Numbered
  <2> QED BY <2>1, <2>2, <2>3 DEF Numbered
<1>6. Owned'
  <2> SUFFICES ASSUME NEW k \in 1..n, IsTree(stack'[k])
               PROVE  /\ stack'[k].rec \in 1..Len(engine')
                      /\ \A a \in 1..n :
                            IsAttempt(stack'[a]) /\ stack'[a].rec <= stack'[k].rec => a < k
                      /\ ~crossing \/ stack'[k].level = 0 =>
                            \A a \in 1..n :
                                IsAttempt(stack'[a]) /\ a < k => stack'[a].rec <= stack'[k].rec
    BY DEF Owned
  <2>1. /\ stack[k].rec \in 1..Len(engine)
        /\ \A a \in 1..Len(stack) :
            IsAttempt(stack[a]) /\ stack[a].rec <= stack[k].rec => a < k
        /\ ~crossing \/ stack[k].level = 0 =>
            \A a \in 1..Len(stack) :
                IsAttempt(stack[a]) /\ a < k => stack[a].rec <= stack[k].rec
    BY <1>2 DEF Shape, Owned
  <2>2. stack[k].rec \in 1..Len(engine')
    <3>1. PICK a \in 1..Len(stack) : IsAttempt(stack[a]) /\ stack[a].rec = stack[k].rec
      BY <2>1 DEF Shape, Numbered
    <3>2. a < k
      BY <2>1, <3>1
    <3> QED BY <1>1, <2>1, <3>1, <3>2
  <2> QED BY <1>2, <2>1, <2>2
<1> QED BY <1>3, <1>4, <1>5, <1>6 DEF Shape

(* Each recursion has an attempt, above the body.                           *)
LEMMA EngineBelow ==
    ASSUME Types, Shape
    PROVE  Len(engine) < Len(stack)
<1>1. Len(stack) \in Nat \ {0} /\ Len(engine) \in Nat
  BY DEF Types
<1>2. CASE Len(engine) = 0
  BY <1>1, <1>2
<1>3. CASE Len(engine) # 0
  <2>1. Len(engine) \in 1..Len(engine)
    BY ONLY <1>1, <1>3
  <2>2. PICK k \in 1..Len(stack) : IsAttempt(stack[k]) /\ stack[k].rec = Len(engine)
    BY <2>1 DEF Shape, Numbered
  <2>3. Len(engine) < k
    BY <2>2 DEF Shape, Numbered
  <2> QED BY ONLY <1>1, <2>3, k \in 1..Len(stack)
<1> QED BY <1>2, <1>3

(* A recursion begins.                                                      *)
LEMMA ShapeEnter ==
    ASSUME Types, Shape, NEW call \in Calls, Push(call),
           IsAttempt(call), call.rec = Len(engine) + 1, call.level = 0,
           Top.kind = "draw",
           flight' = NoError, crossing' = crossing, Len(engine') = Len(engine) + 1
    PROVE  Shape'
<1>1. /\ Len(stack') = Len(stack) + 1 /\ Len(stack) \in Nat \ {0}
      /\ \A k \in 1..Len(stack) : stack'[k] = stack[k]
      /\ stack'[Len(stack')] = call
      /\ Len(engine) \in Nat
  <2>1. Len(stack) \in Nat \ {0} /\ Len(engine) \in Nat
    BY DEF Types
  <2>2. /\ Len(stack') = Len(stack) + 1
        /\ \A k \in 1..Len(stack) : stack'[k] = stack[k]
        /\ stack'[Len(stack')] = call
    BY Pushes
  <2> QED BY <2>1, <2>2
<1>2. \A k \in 1..Len(stack') : k \in 1..Len(stack) \/ k = Len(stack')
  BY <1>1
<1>3. Levelled'
  BY <1>1, <1>2 DEF Shape, Levelled, IsAttempt
<1>4. Nested'
  <2>1. \A k \in 1..Len(stack') : stack'[k].kind = "body" <=> k = 1
    BY <1>1, <1>2 DEF Shape, Nested, IsAttempt
  <2>2. Len(stack) >= 2
    BY <1>1, TopIs DEF Shape, Nested
  <2>3. \A k \in 1..Len(stack) :
            stack'[k].kind \in {"filter", "subtree"} => stack'[k].phase # "call"
    <3>1. \A k \in 1..Len(stack) : k \in 1..(Len(stack) - 1) \/ k = Len(stack)
      BY <1>1
    <3> QED BY <1>1, <3>1, TopIs DEF Shape, Nested
  <2> QED BY <1>1, <2>1, <2>2, <2>3 DEF Shape, Nested
<1>5. Len(engine) < Len(stack)
  BY EngineBelow
<1>6. Numbered'
  <2>1. \A k \in 1..Len(stack') :
            IsAttempt(stack'[k]) => stack'[k].rec \in 1..Len(engine') /\ stack'[k].rec < k
    BY <1>1, <1>2, <1>5 DEF Shape, Numbered
  <2>2. ASSUME NEW r \in 1..Len(engine')
        PROVE  \E k \in 1..Len(stack') : IsAttempt(stack'[k]) /\ stack'[k].rec = r
    <3>1. CASE r = Len(engine')
      BY <1>1, <3>1
    <3>2. CASE r \in 1..Len(engine)
      BY <1>1, <3>2 DEF Shape, Numbered
    <3> QED BY <1>1, <3>1, <3>2
  <2>3. \A j, k \in 1..Len(stack') :
            IsAttempt(stack'[j]) /\ IsAttempt(stack'[k]) /\ j < k
                => stack'[j].rec < stack'[k].rec
    <3>1. \A j \in 1..Len(stack) : IsAttempt(stack'[j]) => stack'[j].rec < call.rec
      BY <1>1 DEF Shape, Numbered
    <3>2. \A j, k \in 1..Len(stack) :
            IsAttempt(stack'[j]) /\ IsAttempt(stack'[k]) /\ j < k
                => stack'[j].rec < stack'[k].rec
      BY <1>1 DEF Shape, Numbered
    <3>3. \A j, k \in 1..Len(stack') : j < k => j \in 1..Len(stack)
      BY <1>1
    <3> QED BY <1>1, <1>2, <3>1, <3>2, <3>3
  <2> QED BY <2>1, <2>2, <2>3 DEF Numbered
<1>7. Owned'
  <2>1. ~IsTree(call)
    BY DEF IsTree, IsAttempt
  <2>2. ASSUME NEW k \in 1..Len(stack), IsTree(stack'[k])
        PROVE  /\ stack'[k].rec \in 1..Len(engine')
               /\ \A a \in 1..Len(stack') :
                    IsAttempt(stack'[a]) /\ stack'[a].rec <= stack'[k].rec => a < k
               /\ ~crossing' \/ stack'[k].level = 0 =>
                    \A a \in 1..Len(stack') :
                        IsAttempt(stack'[a]) /\ a < k => stack'[a].rec <= stack'[k].rec
    <3>1. stack'[k] = stack[k] /\ stack[k].rec \in 1..Len(engine)
      BY <1>1, <2>2 DEF Shape, Owned
    <3>2. /\ \A a \in 1..Len(stack) :
                IsAttempt(stack[a]) /\ stack[a].rec <= stack[k].rec => a < k
          /\ ~crossing \/ stack[k].level = 0 =>
                \A a \in 1..Len(stack) :
                    IsAttempt(stack[a]) /\ a < k => stack[a].rec <= stack[k].rec
      BY <2>2, <3>1 DEF Shape, Owned
    <3>3. /\ \A a \in 1..Len(stack) : stack'[a] = stack[a]
          /\ ~(stack'[Len(stack')].rec <= stack[k].rec) /\ ~(Len(stack') < k)
      BY <1>1, <3>1
    <3>4. stack'[k].rec \in 1..Len(engine')
      BY <1>1, <3>1
    <3>5. crossing' = crossing
      OBVIOUS
    <3> QED BY ONLY <1>2, <3>1, <3>2, <3>3, <3>4, <3>5
  <2> QED BY <1>1, <1>2, <2>1, <2>2 DEF Owned
<1> QED BY <1>3, <1>4, <1>6, <1>7 DEF Shape

-----------------------------------------------------------------------------
(* Spans and depths.                                                        *)

LEMMA SpanStarts ==
    ASSUME Types, StartSpan
    PROVE  /\ depths' \in Seq(Nat) /\ Len(depths') = Len(depths)
           /\ \A r \in 1..Len(engine) : depths'[r] = depths[r]
           /\ Last(depths') = Depth + 1
           /\ spans' = spans + 1 /\ spans' \in Nat
<1>1. depths \in Seq(Nat) /\ Len(depths) = Len(engine) + 1 /\ Len(engine) \in Nat
      /\ spans \in Nat
  BY DEF Types
<1>2. depths' = [depths EXCEPT ![Len(depths)] = depths[Len(depths)] + 1]
  BY DEF StartSpan
<1>3. depths' \in Seq(Nat) /\ Len(depths') = Len(depths)
      /\ \A r \in 1..Len(engine) : depths'[r] = depths[r]
      /\ depths'[Len(depths)] = depths[Len(depths)] + 1
  BY <1>1, <1>2
<1> QED BY <1>1, <1>3 DEF StartSpan, Depth, Last

LEMMA SpanStops ==
    ASSUME Types, StopSpan, Depth > 0, spans > 0
    PROVE  /\ depths' \in Seq(Nat) /\ Len(depths') = Len(depths)
           /\ \A r \in 1..Len(engine) : depths'[r] = depths[r]
           /\ Last(depths') = Depth - 1
           /\ spans' = spans - 1 /\ spans' \in Nat
<1>1. depths \in Seq(Nat) /\ Len(depths) = Len(engine) + 1 /\ Len(engine) \in Nat
      /\ spans \in Nat
  BY DEF Types
<1>2. depths' = [depths EXCEPT ![Len(depths)] = depths[Len(depths)] - 1]
  BY DEF StopSpan
<1>3. depths[Len(depths)] - 1 \in Nat
  BY <1>1 DEF Depth, Last
<1>4. depths' \in Seq(Nat) /\ Len(depths') = Len(depths)
      /\ \A r \in 1..Len(engine) : depths'[r] = depths[r]
      /\ depths'[Len(depths)] = depths[Len(depths)] - 1
  BY <1>1, <1>2, <1>3
<1> QED BY <1>1, <1>4 DEF StopSpan, Depth, Last

(* What calls 1..n are, and the recursions they belong to, has not changed. *)
LEMMA BasesKept ==
    ASSUME Types, BasesHeld, Types', Shape',
           NEW n \in 0..Len(stack), Len(stack') \in {n, n + 1},
           \A k \in 1..n :
                /\ stack'[k].kind = stack[k].kind /\ stack'[k].rec = stack[k].rec
                /\ HoldsSpan(stack'[k]) <=> HoldsSpan(stack[k]),
           Len(stack') = n + 1 => ~IsAttempt(stack'[n + 1]),
           \A r \in 1..Len(engine') :
                engine'[r].base = engine[r].base /\ depths'[r] = depths[r]
    PROVE  BasesHeld' /\ \A k \in 0..n : Count(stack', k) = Count(stack, k)
<1>1. Len(stack) \in Nat /\ n \in Nat
  BY DEF Types
<1>2. ASSUME NEW k \in 0..n
      PROVE  Count(stack', k) = Count(stack, k)
  <2>1. k \in Nat /\ \A i \in 1..k : HoldsSpan(stack'[i]) <=> HoldsSpan(stack[i])
    BY <1>1
  <2> QED BY <2>1, CountSame
<1>3. ASSUME NEW k \in 1..Len(stack'), IsAttempt(stack'[k])
      PROVE  /\ engine'[stack'[k].rec].base = Count(stack', k)
             /\ depths'[stack'[k].rec] = Count(stack', k)
  <2>1. k \in 1..n /\ k \in 0..n /\ k \in 1..Len(stack)
    BY <1>1, <1>3
  <2>2. IsAttempt(stack[k]) /\ stack'[k].rec = stack[k].rec
    BY <1>3, <2>1 DEF IsAttempt
  <2>3. stack[k].rec \in 1..Len(engine')
    BY <1>3, <2>2 DEF Shape, Numbered
  <2>4. engine[stack[k].rec].base = Count(stack, k) /\ depths[stack[k].rec] = Count(stack, k)
    BY <2>1, <2>2 DEF BasesHeld
  <2> QED BY <1>2, <2>1, <2>2, <2>3, <2>4
<1>4. BasesHeld'
  BY <1>3 DEF BasesHeld, Count, HeldTo
<1> QED BY <1>2, <1>4

(* A step that begins or ends with the innermost call opens or closes as    *)
(* many spans as the call comes to hold or holds no more.                   *)
LEMMA Balanced ==
    ASSUME Types, BasesHeld, SpansHeld, Owing, Types', Shape',
           flight = NoError, flight' = NoError, crossing' = crossing,
           Len(engine') = Len(engine),
           \A r \in 1..Len(engine) :
                /\ engine'[r].base = engine[r].base /\ engine'[r].owed = engine[r].owed
                /\ depths'[r] = depths[r],
           NEW n \in 0..Len(stack), n >= Len(stack) - 1, Len(stack') \in {n, n + 1},
           \A k \in 1..n :
                /\ stack'[k].kind = stack[k].kind /\ stack'[k].rec = stack[k].rec
                /\ HoldsSpan(stack'[k]) <=> HoldsSpan(stack[k]),
           Len(stack') = n + 1 => ~IsAttempt(stack'[n + 1]),
           NEW more \in 0..1, more = IF Len(stack') = n + 1 THEN Held1(stack'[n + 1]) ELSE 0,
           NEW less \in 0..1, less = IF Len(stack) = n + 1 THEN Held1(stack[n + 1]) ELSE 0,
           Last(depths') = Depth + more - less, spans' = spans + more - less
    PROVE  BasesHeld' /\ SpansHeld' /\ Discarded' /\ Owing'
<1>1. Len(stack) \in Nat /\ n \in Nat
  BY DEF Types
<1>2. BasesHeld' /\ Count(stack', n) = Count(stack, n)
  <2>1. n \in 0..n
    BY <1>1
  <2>2. \A r \in 1..Len(engine') :
            engine'[r].base = engine[r].base /\ depths'[r] = depths[r]
    OBVIOUS
  <2> QED BY <2>1, <2>2, BasesKept
<1>3. Count(stack', n) \in Nat /\ Count(stack, n) \in Nat
  BY <1>1, CountIs
<1>4. Count(stack, Len(stack)) = Count(stack, n) + less
  <2>1. CASE Len(stack) = n
    BY <1>1, <1>3, <2>1
  <2>2. CASE Len(stack) = n + 1
    <3>1. Count(stack, n + 1) = Count(stack, n) + Held1(stack[n + 1])
      BY <1>1, CountIs
    <3> QED BY <2>2, <3>1
  <2> QED BY <1>1, <2>1, <2>2
<1>5. Count(stack', Len(stack')) = Count(stack', n) + more
  <2>1. CASE Len(stack') = n
    BY <1>1, <1>3, <2>1
  <2>2. CASE Len(stack') = n + 1
    <3>1. Count(stack', n + 1) = Count(stack', n) + Held1(stack'[n + 1])
      BY <1>1, CountIs
    <3> QED BY <2>2, <3>1
  <2> QED BY <1>1, <2>1, <2>2
<1>6. Depth = Count(stack, Len(stack)) /\ spans = Count(stack, Len(stack))
  BY DEF SpansHeld
<1>7. Last(depths') = Count(stack', Len(stack')) /\ spans' = Count(stack', Len(stack'))
  BY <1>2, <1>3, <1>4, <1>5, <1>6
<1>8. SpansHeld'
  BY <1>7 DEF SpansHeld, Depth, Last, Count, HeldTo
<1>9. Discarded' /\ Owing'
  BY DEF Discarded, Owing
<1> QED BY <1>2, <1>8, <1>9

-----------------------------------------------------------------------------
(* The steps that call, go on and return.                                   *)

(* A call, with its span if it opens one.                                   *)
LEMMA Opens ==
    ASSUME IInv, NEW call \in Calls, Push(call), flight = NoError,
           ~IsAttempt(call), call.kind # "body",
           call.kind = "filter" => call.level = 0 /\ call.phase = "call",
           call.kind # "filter" => call.level <= MaxDepth,
           Top.kind = "body" => call.kind \in {"draw", "tree"},
           Top.kind \in {"filter", "subtree"} => Top.phase # "call",
           IsTree(call) => call.rec \in 1..Len(engine)
                           /\ (~crossing \/ call.level = 0 => call.rec = Len(engine)),
           IF HoldsSpan(call) THEN StartSpan ELSE UNCHANGED <<depths, spans>>,
           UNCHANGED <<crossing, engine, flight, completed, reports>>,
           Top.kind = "body" => completed < MaxDraws
    PROVE  IInv'
<1>1. /\ stack' \in Seq(Calls) /\ Len(stack') = Len(stack) + 1
      /\ Len(stack') \in 1..MaxNesting
      /\ \A k \in 1..Len(stack) : stack'[k] = stack[k]
      /\ stack'[Len(stack')] = call
  BY Pushes DEF IInv
<1>2. Shape'
  BY ShapePush DEF IInv
<1>3. PICK more \in 0..1 : more = Held1(call)
  BY DEF Held1
<1>4. /\ depths' \in Seq(Nat) /\ Len(depths') = Len(depths) /\ spans' \in Nat
      /\ \A r \in 1..Len(engine) : depths'[r] = depths[r]
      /\ Last(depths') = Depth + more - 0 /\ spans' = spans + more - 0
  <2>1. CASE HoldsSpan(call)
    <3>1. more = 1
      BY <1>3, <2>1 DEF Held1
    <3>2. StartSpan
      BY <2>1
    <3>3. Depth \in Nat /\ spans \in Nat
      BY DepthIs DEF IInv, Types
    <3>4. /\ depths' \in Seq(Nat) /\ Len(depths') = Len(depths)
          /\ \A r \in 1..Len(engine) : depths'[r] = depths[r]
          /\ Last(depths') = Depth + 1
          /\ spans' = spans + 1 /\ spans' \in Nat
      BY <3>2, SpanStarts DEF IInv
    <3> QED BY ONLY <3>1, <3>3, <3>4
  <2>2. CASE ~HoldsSpan(call)
    <3>1. more = 0
      BY <1>3, <2>2 DEF Held1
    <3>2. UNCHANGED <<depths, spans>>
      BY <2>2
    <3>3. Depth \in Nat /\ spans \in Nat /\ depths \in Seq(Nat)
      BY DepthIs DEF IInv, Types
    <3> QED BY ONLY <3>1, <3>2, <3>3 DEF Depth
  <2> QED BY <2>1, <2>2
<1>5. Types'
  BY <1>1, <1>4 DEF IInv, Types
<1>6. BasesHeld' /\ SpansHeld' /\ Discarded' /\ Owing'
  <2>1. Len(stack) \in 0..Len(stack) /\ Len(stack) >= Len(stack) - 1
        /\ Len(stack) \in Nat /\ Len(stack) # Len(stack) + 1
    BY DEF IInv, Types
  <2>2. more = IF Len(stack') = Len(stack) + 1 THEN Held1(stack'[Len(stack) + 1]) ELSE 0
    BY <1>1, <1>3
  <2>3. 0 = IF Len(stack) = Len(stack) + 1 THEN Held1(stack[Len(stack) + 1]) ELSE 0
    BY <2>1
  <2>4. Len(stack') = Len(stack) + 1 => ~IsAttempt(stack'[Len(stack) + 1])
    BY <1>1
  <2>5. /\ Types /\ BasesHeld /\ SpansHeld /\ Owing
        /\ flight = NoError /\ flight' = NoError /\ crossing' = crossing
        /\ engine' = engine /\ Len(stack') \in {Len(stack), Len(stack) + 1} /\ 0 \in 0..1
    BY <1>1 DEF IInv
  <2>6. \A k \in 1..Len(stack) :
            /\ stack'[k].kind = stack[k].kind /\ stack'[k].rec = stack[k].rec
            /\ HoldsSpan(stack'[k]) <=> HoldsSpan(stack[k])
    BY <1>1
  <2>7. \A r \in 1..Len(engine) :
            /\ engine'[r].base = engine[r].base /\ engine'[r].owed = engine[r].owed
            /\ depths'[r] = depths[r]
    BY <1>4, <2>5
  <2> QED BY ONLY <1>2, <1>4, <1>5, <2>1, <2>2, <2>3, <2>4, <2>5, <2>6, <2>7, Balanced
<1>7. Counting'
  <2>1. completed < MaxDraws
    <3>1. Top.kind = "body" \/ Len(stack) >= 2
      BY TopIs DEF IInv, Types, Shape, Nested
    <3> QED BY <3>1 DEF IInv, Counting
  <2>2. completed' = completed /\ reports' = reports /\ ReportedOnce
    BY DEF IInv, Counting
  <2> QED BY ONLY <2>1, <2>2 DEF Counting, ReportedOnce
<1> QED BY <1>2, <1>5, <1>6, <1>7 DEF IInv

(* What a step does to both counts of the spans.                            *)
Counted(more, less) ==
    /\ depths' \in Seq(Nat) /\ Len(depths') = Len(depths) /\ spans' \in Nat
    /\ \A r \in 1..Len(engine) : depths'[r] = depths[r]
    /\ Last(depths') = Depth + more - less /\ spans' = spans + more - less

LEMMA CountedUp ==
    ASSUME Types, StartSpan
    PROVE  Counted(1, 0)
<1>1. Depth \in Nat /\ spans \in Nat
  BY DepthIs DEF Types
<1> QED BY <1>1, SpanStarts DEF Counted

LEMMA CountedDown ==
    ASSUME IInv, flight = NoError, StopSpan, HoldsSpan(Top)
    PROVE  Counted(0, 1)
<1>1. Depth \in Nat /\ spans \in Nat
  BY DepthIs DEF IInv, Types
<1>2. Depth > 0 /\ spans > 0
  <2>1. Len(stack) \in Nat \ {0} /\ Top = stack[Len(stack)]
    BY TopIs DEF IInv, Types
  <2>2. Count(stack, Len(stack)) > 0
    BY <2>1, CountIs
  <2> QED BY <2>2 DEF IInv, SpansHeld
<1>3. /\ depths' \in Seq(Nat) /\ Len(depths') = Len(depths)
      /\ \A r \in 1..Len(engine) : depths'[r] = depths[r]
      /\ Last(depths') = Depth - 1
      /\ spans' = spans - 1 /\ spans' \in Nat
  BY <1>2, SpanStops DEF IInv
<1> QED BY ONLY <1>1, <1>3 DEF Counted

LEMMA CountedSame ==
    ASSUME Types, UNCHANGED <<depths, spans>>, NEW more \in 0..1
    PROVE  Counted(more, more)
<1>1. Depth \in Nat /\ spans \in Nat /\ depths \in Seq(Nat)
  BY DepthIs DEF Types
<1>2. depths' = depths /\ spans' = spans
  OBVIOUS
<1> QED BY ONLY <1>1, <1>2, more \in 0..1 DEF Counted, Depth

(* The innermost call goes on.                                              *)
LEMMA Turns ==
    ASSUME IInv, NEW call \in Calls, stack' = [stack EXCEPT ![Len(stack)] = call],
           flight = NoError, ~IsAttempt(Top),
           call.kind = Top.kind, call.rec = Top.rec,
           IF call.kind = "filter"
           THEN call.level <= maxFilterAttempts
                /\ (call.phase # "call" => call.level < maxFilterAttempts)
           ELSE call.level = Top.level,
           Counted(Held1(call), Held1(Top)),
           engine' \in Seq(Recursions), Len(engine') = Len(engine),
           \A r \in 1..Len(engine) :
                engine'[r].base = engine[r].base /\ engine'[r].owed = engine[r].owed,
           UNCHANGED <<crossing, flight, completed, reports>>
    PROVE  IInv'
<1> DEFINE n == Len(stack) - 1
<1>1. /\ stack' \in Seq(Calls) /\ Len(stack') = Len(stack) /\ Len(stack') \in 1..MaxNesting
      /\ \A k \in 1..n : stack'[k] = stack[k]
      /\ stack'[Len(stack)] = call
  BY Changes DEF IInv
<1>2. /\ Len(stack) \in Nat \ {0} /\ n \in 0..Len(stack) /\ n >= Len(stack) - 1
      /\ Len(stack) = n + 1 /\ Len(stack') \in {n, n + 1} /\ Len(stack) \in 1..Len(stack)
      /\ \A k \in 1..Len(stack) : k \in 1..n \/ k = Len(stack)
  <2>1. Len(stack) \in Nat \ {0}
    BY DEF IInv, Types
  <2>2. Len(stack') = Len(stack)
    BY ONLY <1>1
  <2> QED BY ONLY <2>1, <2>2
<1>3. Top = stack[Len(stack)]
  BY TopIs DEF IInv
<1>4. Types'
  BY <1>1 DEF IInv, Types, Counted
<1>5. Shape'
  <2>1. \A k \in 1..Len(stack) :
            /\ stack'[k].kind = stack[k].kind /\ stack'[k].rec = stack[k].rec
            /\ IF stack[k].kind = "filter"
               THEN /\ stack'[k].level <= maxFilterAttempts
                    /\ stack'[k].phase # "call" => stack'[k].level < maxFilterAttempts
               ELSE stack'[k].level = stack[k].level
    <3>1. ASSUME NEW k \in 1..n
          PROVE  stack'[k] = stack[k]
      BY ONLY <1>1
    <3>2. \A k \in 1..Len(stack) : stack[k].kind = "filter" =>
            /\ stack[k].level <= maxFilterAttempts
            /\ stack[k].phase # "call" => stack[k].level < maxFilterAttempts
      BY DEF IInv, Shape, Levelled
    <3> HIDE DEF n
    <3>3. ASSUME NEW k \in 1..n
          PROVE  /\ stack'[k].kind = stack[k].kind /\ stack'[k].rec = stack[k].rec
                 /\ stack'[k].level = stack[k].level /\ stack'[k].phase = stack[k].phase
      BY <3>1
    <3>4. /\ call.kind = Top.kind /\ call.rec = Top.rec
          /\ IF Top.kind = "filter"
             THEN /\ call.level <= maxFilterAttempts
                  /\ call.phase # "call" => call.level < maxFilterAttempts
             ELSE call.level = Top.level
      OBVIOUS
    <3> QED BY ONLY <1>1, <1>2, <1>3, <3>2, <3>3, <3>4
  <2>2. Len(engine') \in 0..Len(engine)
        /\ \A a \in 1..Len(stack) :
            IsAttempt(stack[a]) => (a <= Len(stack) <=> stack[a].rec <= Len(engine'))
    <3>1. Len(engine) \in Nat /\ Len(engine') = Len(engine)
      BY DepthIs DEF IInv
    <3>2. \A a \in 1..Len(stack) : IsAttempt(stack[a]) => stack[a].rec \in 1..Len(engine)
      BY DEF IInv, Shape, Numbered
    <3>3. Len(stack) \in Nat
      BY <1>2
    <3> QED BY ONLY <3>1, <3>2, <3>3
  <2>3. Types /\ Shape /\ crossing' = crossing /\ ~(flight' # NoError)
        /\ \A k \in 1..n : stack'[k].phase = stack[k].phase
    BY <1>1 DEF IInv
  <2> QED BY ONLY <1>1, <1>2, <2>1, <2>2, <2>3, ShapeKept
<1>6. BasesHeld' /\ SpansHeld' /\ Discarded' /\ Owing'
  <2>1. PICK more \in 0..1, less \in 0..1 : more = Held1(call) /\ less = Held1(Top)
    BY DEF Held1
  <2>2. /\ more = IF Len(stack') = n + 1 THEN Held1(stack'[n + 1]) ELSE 0
        /\ less = IF Len(stack) = n + 1 THEN Held1(stack[n + 1]) ELSE 0
    <3> HIDE DEF n
    <3> QED BY <1>1, <1>2, <1>3, <2>1
  <2>3. Len(stack') = n + 1 => ~IsAttempt(stack'[n + 1])
    <3> HIDE DEF n
    <3> QED BY <1>1, <1>2 DEF IsAttempt
  <2>4. /\ Types /\ BasesHeld /\ SpansHeld /\ Owing
        /\ flight = NoError /\ flight' = NoError /\ crossing' = crossing
        /\ Len(engine') = Len(engine)
    BY DEF IInv
  <2>5. \A k \in 1..n :
            /\ stack'[k].kind = stack[k].kind /\ stack'[k].rec = stack[k].rec
            /\ HoldsSpan(stack'[k]) <=> HoldsSpan(stack[k])
    BY <1>1
  <2>6. /\ \A r \in 1..Len(engine) :
            /\ engine'[r].base = engine[r].base /\ engine'[r].owed = engine[r].owed
            /\ depths'[r] = depths[r]
        /\ Last(depths') = Depth + more - less /\ spans' = spans + more - less
    BY <2>1 DEF Counted
  <2> HIDE DEF n
  <2> QED
    BY ONLY <1>2, <1>4, <1>5, <2>1, <2>2, <2>3, <2>4, <2>5, <2>6, Balanced
<1>7. Counting'
  <2>1. completed' = completed /\ reports' = reports /\ Counting
    BY DEF IInv
  <2>2. Len(stack') = Len(stack)
    BY ONLY <1>1
  <2> QED BY ONLY <2>1, <2>2 DEF Counting, ReportedOnce
<1> QED BY <1>4, <1>5, <1>6, <1>7 DEF IInv

(* The innermost call returns its value.                                    *)
LEMMA Closes ==
    ASSUME IInv, stack' = Returned,
           flight = NoError, ~IsAttempt(Top), Top.kind # "body", HoldsSpan(Top), StopSpan,
           UNCHANGED <<crossing, engine, flight>>,
           completed' \in 0..MaxDraws, reports' \in Nat
    PROVE  Types' /\ Shape' /\ BasesHeld' /\ SpansHeld' /\ Discarded' /\ Owing'
<1> DEFINE n == Len(stack) - 1
<1>1. Len(stack) \in Nat \ {0} /\ Top = stack[Len(stack)] /\ stack \in Seq(Calls)
  BY TopIs DEF IInv, Types
<1>2. Len(stack) # 1
  BY <1>1 DEF IInv, Shape, Nested
<1>3. /\ n \in 0..Len(stack) /\ n \in 1..Len(stack) /\ n >= Len(stack) - 1 /\ n # n + 1
      /\ Len(stack) = n + 1 /\ n - 1 = Len(stack) - 2 /\ Len(stack) >= 2
      /\ \A k \in 1..n : k \in 1..(n - 1) \/ k = n
      /\ \A k \in 1..n : k \in 1..Len(stack)
  <2>1. Len(stack) \in Nat /\ Len(stack) # 0 /\ Len(stack) # 1
    BY <1>1, <1>2
  <2>2. n \in Nat /\ n # 0 /\ Len(stack) = n + 1
    BY ONLY <2>1
  <2> HIDE DEF n
  <2> QED BY ONLY <2>2
<1>4. /\ stack' \in Seq(Calls) /\ Len(stack') = n /\ Len(stack') \in 1..MaxNesting
      /\ \A k \in 1..(n - 1) : stack'[k] = stack[k]
      /\ stack'[n] = [stack[n] EXCEPT !.phase = "back"]
  <2> HIDE DEF n
  <2> QED BY <1>3, Returns DEF IInv, n
<1>5. Counted(0, 1)
  BY CountedDown
<1>6. Types'
  BY <1>4, <1>5 DEF IInv, Types, Counted
<1>7. /\ stack[n] \in Calls
      /\ stack[n].kind \in {"filter", "subtree"} => stack[n].phase # "call"
  <2> HIDE DEF n
  <2>1. n \in 1..(Len(stack) - 1)
    BY ONLY <1>1, <1>3
  <2>2. stack \in Seq(Calls) /\ n \in 1..Len(stack)
    BY ONLY <1>1, <1>3
  <2>3. stack[n] \in Calls
    BY ONLY <2>2
  <2>4. \A k \in 1..(Len(stack) - 1) :
            stack[k].kind \in {"filter", "subtree"} => stack[k].phase # "call"
    BY DEF IInv, Shape, Nested
  <2> QED BY <2>1, <2>3, <2>4
<1>8. /\ stack'[n].kind = stack[n].kind /\ stack'[n].rec = stack[n].rec
      /\ stack'[n].level = stack[n].level /\ stack'[n].phase = "back"
  <2>1. \A c \in Calls :
            LET b == [c EXCEPT !.phase = "back"]
            IN  b.kind = c.kind /\ b.rec = c.rec /\ b.level = c.level /\ b.phase = "back"
    BY DEF Calls
  <2> HIDE DEF n
  <2> QED BY <1>4, <1>7, <2>1
<1>9. HoldsSpan(stack'[n]) <=> HoldsSpan(stack[n])
  BY <1>7, <1>8 DEF HoldsSpan
<1> HIDE DEF n
<1>10. Shape'
  <2>1. \A k \in 1..n :
            /\ stack'[k].kind = stack[k].kind /\ stack'[k].rec = stack[k].rec
            /\ IF stack[k].kind = "filter"
               THEN /\ stack'[k].level <= maxFilterAttempts
                    /\ stack'[k].phase # "call" => stack'[k].level < maxFilterAttempts
               ELSE stack'[k].level = stack[k].level
    <3>1. \A k \in 1..n : stack[k].kind = "filter" =>
            /\ stack[k].level <= maxFilterAttempts
            /\ stack[k].phase # "call" => stack[k].level < maxFilterAttempts
      BY <1>3 DEF IInv, Shape, Levelled
    <3>2. ASSUME NEW k \in 1..(n - 1)
          PROVE  /\ stack'[k].kind = stack[k].kind /\ stack'[k].rec = stack[k].rec
                 /\ stack'[k].level = stack[k].level /\ stack'[k].phase = stack[k].phase
      BY <1>4
    <3>3. n \in 1..n /\ (stack[n].kind = "filter" => stack[n].level < maxFilterAttempts)
      BY <1>3, <1>7 DEF IInv, Shape, Levelled
    <3> QED BY ONLY <1>3, <1>8, <3>1, <3>2, <3>3
  <2>2. Len(engine') \in 0..Len(engine)
        /\ \A a \in 1..Len(stack) :
            IsAttempt(stack[a]) => (a <= n <=> stack[a].rec <= Len(engine'))
    <3>1. Len(engine) \in Nat /\ engine' = engine
      BY DepthIs DEF IInv
    <3>2. \A a \in 1..Len(stack) : IsAttempt(stack[a]) => a # Len(stack)
      BY <1>1
    <3>3. \A a \in 1..Len(stack) : a = Len(stack) \/ a <= n
      BY ONLY <1>1, <1>3
    <3>4. \A a \in 1..Len(stack) : IsAttempt(stack[a]) => stack[a].rec \in 1..Len(engine)
      BY DEF IInv, Shape, Numbered
    <3> QED BY ONLY <3>1, <3>2, <3>3, <3>4
  <2>3. Types /\ Shape /\ crossing' = crossing /\ ~(flight' # NoError)
        /\ \A k \in 1..(n - 1) : stack'[k].phase = stack[k].phase
    BY <1>4 DEF IInv
  <2> QED BY ONLY <1>3, <1>4, <2>1, <2>2, <2>3, ShapeKept
<1>11. BasesHeld' /\ SpansHeld' /\ Discarded' /\ Owing'
  <2>1. /\ 0 = IF Len(stack') = n + 1 THEN Held1(stack'[n + 1]) ELSE 0
        /\ 1 = IF Len(stack) = n + 1 THEN Held1(stack[n + 1]) ELSE 0
        /\ Len(stack') = n + 1 => ~IsAttempt(stack'[n + 1])
        /\ 0 \in 0..1 /\ 1 \in 0..1
    BY <1>1, <1>3, <1>4 DEF Held1
  <2>2. /\ Types /\ BasesHeld /\ SpansHeld /\ Owing
        /\ flight = NoError /\ flight' = NoError /\ crossing' = crossing
        /\ engine' = engine
    BY DEF IInv
  <2>3. \A k \in 1..n :
            /\ stack'[k].kind = stack[k].kind /\ stack'[k].rec = stack[k].rec
            /\ HoldsSpan(stack'[k]) <=> HoldsSpan(stack[k])
    BY <1>3, <1>4, <1>8, <1>9
  <2>4. /\ \A r \in 1..Len(engine) :
            /\ engine'[r].base = engine[r].base /\ engine'[r].owed = engine[r].owed
            /\ depths'[r] = depths[r]
        /\ Len(engine') = Len(engine) /\ Len(stack') \in {n, n + 1}
        /\ Last(depths') = Depth + 0 - 1 /\ spans' = spans + 0 - 1
    BY <1>4, <1>5, <2>2 DEF Counted
  <2> QED
    BY ONLY <1>3, <1>6, <1>10, <2>1, <2>2, <2>3, <2>4, Balanced
<1> QED BY <1>6, <1>10, <1>11

-----------------------------------------------------------------------------
(* Draw, DrawTree, Filter and Subtree.                                      *)

LEMMA DrawStep ==
    ASSUME IInv, Draw
    PROVE  IInv'
<1> DEFINE call == Call("draw", 0, 0, "call")
<1>1. /\ call \in Calls /\ call.kind = "draw" /\ call.level <= MaxDepth
      /\ HoldsSpan(call) /\ ~IsTree(call) /\ ~IsAttempt(call)
  BY DEF Call, Calls, Kinds, Phases, HoldsSpan, IsTree, IsAttempt
<1>2. /\ Push(call) /\ StartSpan /\ flight = NoError
      /\ UNCHANGED <<crossing, engine, flight, completed, reports>>
      /\ Top.kind = "body" => completed < MaxDraws
      /\ Top.kind \in {"filter", "subtree"} => Top.phase # "call"
  BY DEF Draw, MayDraw
<1> HIDE DEF call
<1> QED BY <1>1, <1>2, Opens

LEMMA DrawTreeStep ==
    ASSUME IInv, NEW rec \in 1..Len(engine), NEW level \in Levels, DrawTree(rec, level)
    PROVE  IInv'
<1> DEFINE call == Call("tree", rec, level, "call")
<1>1. rec \in 0..MaxNesting /\ (~crossing \/ level = 0 => rec = Len(engine))
  <2>1. CASE Visible(rec, level)
    <3>1. PICK k \in 1..Len(stack) : stack[k].rec = rec /\ stack[k].level + 1 = level
      BY <2>1 DEF Visible
    <3>2. stack[k].rec \in 0..MaxNesting /\ stack[k].level \in Nat
      <4>1. stack[k] \in Calls
        BY DEF IInv, Types
      <4> QED BY ONLY <4>1 DEF Calls
    <3> QED BY <2>1, <3>1, <3>2 DEF Visible
  <2>2. CASE At("attempt", "call") /\ rec = Top.rec
    <3>1. rec \in 0..MaxNesting
      BY <2>2, TopIs DEF IInv, Calls
    <3> QED BY <2>2, <3>1, TopAttempt DEF IInv, At, IsAttempt
  <2> QED BY <2>1, <2>2 DEF DrawTree
<1>2. level \in 0..MaxDepth /\ level \in 0..(MaxDepth + maxFilterAttempts)
  BY DEF Levels
<1>3. /\ call \in Calls /\ call.kind = "tree" /\ call.level <= MaxDepth
      /\ call.rec \in 1..Len(engine)
      /\ ~crossing \/ call.level = 0 => call.rec = Len(engine)
      /\ HoldsSpan(call) /\ ~IsAttempt(call)
  BY <1>1, <1>2 DEF Call, Calls, Kinds, Phases, HoldsSpan, IsAttempt
<1>4. /\ Push(call) /\ StartSpan /\ flight = NoError
      /\ UNCHANGED <<crossing, engine, flight, completed, reports>>
      /\ Top.kind = "body" => completed < MaxDraws
      /\ Top.kind \in {"filter", "subtree"} => Top.phase # "call"
  BY DEF DrawTree, MayDraw, At
<1> HIDE DEF call
<1> QED BY <1>3, <1>4, Opens

LEMMA FilterStep ==
    ASSUME IInv, Filter
    PROVE  IInv'
<1> DEFINE call == Call("filter", 0, 0, "call")
<1>1. /\ call \in Calls /\ call.kind = "filter" /\ call.level = 0 /\ call.phase = "call"
      /\ ~HoldsSpan(call) /\ ~IsTree(call) /\ ~IsAttempt(call)
  BY DEF Call, Calls, Kinds, Phases, HoldsSpan, IsTree, IsAttempt
<1>2. /\ Push(call) /\ flight = NoError /\ Top.kind = "draw"
      /\ UNCHANGED <<depths, spans>>
      /\ UNCHANGED <<crossing, engine, flight, completed, reports>>
  BY DEF Filter, At
<1> HIDE DEF call
<1> QED BY <1>1, <1>2, Opens

LEMMA SubtreeStep ==
    ASSUME IInv, Subtree
    PROVE  IInv'
<1> DEFINE call == Call("subtree", Top.rec, Top.level, "call")
<1>1. flight = NoError /\ Top.kind = "tree" /\ Push(call)
      /\ UNCHANGED <<depths, spans>>
      /\ UNCHANGED <<crossing, engine, flight, completed, reports>>
  BY DEF Subtree, At
<1>2. Top.rec \in 0..MaxNesting /\ Top.level \in 0..(MaxDepth + maxFilterAttempts)
      /\ Top.level <= MaxDepth
  BY <1>1, TopIs DEF IInv, Calls, Shape, Levelled
<1>3. Top.rec \in 1..Len(engine) /\ (~crossing \/ Top.level = 0 => Top.rec = Len(engine))
  BY <1>1, TopOwned DEF IInv, IsTree
<1>4. /\ call \in Calls /\ call.kind = "subtree" /\ call.rec = Top.rec
      /\ call.level = Top.level /\ ~HoldsSpan(call) /\ ~IsAttempt(call)
  BY <1>2 DEF Call, Calls, Kinds, Phases, HoldsSpan, IsAttempt
<1> HIDE DEF call
<1> QED BY <1>1, <1>2, <1>3, <1>4, Opens

-----------------------------------------------------------------------------
(* FilterAttempt, Discard, SubtreeSpan, Branch and a counted Leaf.          *)

LEMMA Moves ==
    ASSUME Types, NEW phase \in Phases, Move(phase)
    PROVE  \E call \in Calls :
                /\ stack' = [stack EXCEPT ![Len(stack)] = call]
                /\ call.kind = Top.kind /\ call.rec = Top.rec
                /\ call.level = Top.level /\ call.phase = phase
<1> DEFINE call == [Top EXCEPT !.phase = phase]
<1>1. Top \in Calls /\ Top = stack[Len(stack)]
  BY TopIs
<1>2. \A c \in Calls :
        LET b == [c EXCEPT !.phase = phase]
        IN  /\ b \in Calls /\ b.kind = c.kind /\ b.rec = c.rec
            /\ b.level = c.level /\ b.phase = phase
  BY DEF Calls
<1>3. stack' = [stack EXCEPT ![Len(stack)] = call]
  BY <1>1 DEF Move
<1>4. /\ call \in Calls /\ call.kind = Top.kind /\ call.rec = Top.rec
      /\ call.level = Top.level /\ call.phase = phase
  BY <1>1, <1>2
<1> HIDE DEF call
<1> QED BY ONLY <1>3, <1>4

LEMMA FilterAttemptStep ==
    ASSUME IInv, At("filter", "call"), Top.level < maxFilterAttempts,
           Move("source"), StartSpan, UNCHANGED <<crossing, engine, flight, completed, reports>>
    PROVE  IInv'
<1>1. PICK call \in Calls :
        /\ stack' = [stack EXCEPT ![Len(stack)] = call]
        /\ call.kind = Top.kind /\ call.rec = Top.rec
        /\ call.level = Top.level /\ call.phase = "source"
  BY Moves DEF IInv, Phases
<1>2. /\ Top.kind = "filter" /\ Top.phase = "call" /\ flight = NoError
      /\ ~IsAttempt(Top) /\ ~HoldsSpan(Top)
  BY DEF At, IsAttempt, HoldsSpan
<1>3. Held1(call) = 1 /\ Held1(Top) = 0
  BY <1>1, <1>2 DEF Held1, HoldsSpan
<1>4. Counted(Held1(call), Held1(Top))
  BY <1>3, CountedUp DEF IInv
<1>5. engine' \in Seq(Recursions) /\ engine' = engine
  BY DEF IInv, Types
<1>6. call.level <= maxFilterAttempts /\ call.level < maxFilterAttempts
  BY <1>1, TopIs DEF IInv, Calls
<1> QED BY <1>1, <1>2, <1>4, <1>5, <1>6, Turns

LEMMA DiscardStep ==
    ASSUME IInv, Discard
    PROVE  IInv'
<1> DEFINE call == [Top EXCEPT !.level = @ + 1, !.phase = "call"]
<1>1. /\ Top.kind = "filter" /\ Top.phase = "back" /\ flight = NoError /\ StopSpan
      /\ UNCHANGED <<crossing, engine, flight, completed, reports>>
  BY DEF Discard, At
<1>2. Top \in Calls /\ Top = stack[Len(stack)] /\ Top.level < maxFilterAttempts
  BY <1>1, TopIs DEF IInv, Shape, Levelled
<1>3. /\ call \in Calls /\ call.kind = Top.kind /\ call.rec = Top.rec
      /\ call.level = Top.level + 1 /\ call.phase = "call"
  <2>1. ASSUME NEW c \in Calls, c.level < maxFilterAttempts
        PROVE  LET b == [c EXCEPT !.level = @ + 1, !.phase = "call"]
               IN  /\ b \in Calls /\ b.kind = c.kind /\ b.rec = c.rec
                   /\ b.level = c.level + 1 /\ b.phase = "call"
    <3>1. c.level \in Nat /\ c.level + 1 \in 0..(MaxDepth + maxFilterAttempts)
      BY <2>1 DEF Calls
    <3> QED BY <3>1 DEF Calls, Phases
  <2> QED BY <1>2, <2>1
<1>4. stack' = [stack EXCEPT ![Len(stack)] = call]
  <2>1. stack \in Seq(Calls) /\ Len(stack) \in 1..Len(stack)
    BY TopIs DEF IInv, Types
  <2> DEFINE once == [Top EXCEPT !.level = @ + 1]
             first == [stack EXCEPT ![Len(stack)] = once]
  <2>2. first[Len(stack)] = once /\ Len(first) = Len(stack)
    BY ONLY <2>1
  <2>3. stack' = [first EXCEPT ![Len(stack)].phase = "call"]
    BY <1>2 DEF Discard
  <2>4. stack' = [first EXCEPT ![Len(stack)] = [once EXCEPT !.phase = "call"]]
    <3> HIDE DEF first, once
    <3> QED BY <2>2, <2>3
  <2>5. [once EXCEPT !.phase = "call"] = call
    BY <1>2 DEF Calls
  <2>6. stack' = [first EXCEPT ![Len(stack)] = call]
    <3> HIDE DEF first, once, call
    <3> QED BY <2>4, <2>5
  <2> HIDE DEF call, once
  <2> QED BY <2>1, <2>6
<1> HIDE DEF call
<1>5. ~IsAttempt(Top) /\ HoldsSpan(Top) /\ Held1(Top) = 1 /\ Held1(call) = 0
  BY <1>1, <1>3 DEF IsAttempt, HoldsSpan, Held1
<1>6. Counted(Held1(call), Held1(Top))
  BY <1>1, <1>5, CountedDown
<1>7. engine' \in Seq(Recursions) /\ engine' = engine
  BY <1>1 DEF IInv, Types
<1>8. call.level <= maxFilterAttempts /\ call.kind = "filter"
  BY <1>1, <1>2, <1>3 DEF Calls
<1> QED BY <1>1, <1>3, <1>4, <1>5, <1>6, <1>7, <1>8, Turns

(* subtreeGenerator.draw opens its span, then asks the engine.              *)
LEMMA SubtreeSpanStep ==
    ASSUME IInv, SubtreeSpan
    PROVE  IInv'
<1>1. PICK call \in Calls :
        /\ stack' = [stack EXCEPT ![Len(stack)] = call]
        /\ call.kind = Top.kind /\ call.rec = Top.rec
        /\ call.level = Top.level /\ call.phase = "open"
  BY Moves DEF IInv, SubtreeSpan, Phases
<1>2. /\ Top.kind = "subtree" /\ Top.phase = "call" /\ flight = NoError /\ StartSpan
      /\ UNCHANGED <<crossing, engine, flight, completed, reports>>
  BY DEF SubtreeSpan, At
<1>3. ~IsAttempt(Top) /\ Held1(call) = 1 /\ Held1(Top) = 0
  BY <1>1, <1>2 DEF Held1, HoldsSpan, IsAttempt
<1>4. Counted(Held1(call), Held1(Top))
  BY <1>2, <1>3, CountedUp DEF IInv
<1>5. engine' \in Seq(Recursions) /\ engine' = engine
  BY <1>2 DEF IInv, Types
<1> QED BY <1>1, <1>2, <1>3, <1>4, <1>5, Turns

(* A subtree that keeps its span open while it goes on.                     *)
LEMMA SubtreeMoves ==
    ASSUME IInv, flight = NoError, Top.kind = "subtree", Top.phase # "call",
           NEW phase \in Phases, phase # "call", Move(phase),
           engine' \in Seq(Recursions), Len(engine') = Len(engine),
           \A r \in 1..Len(engine) :
                engine'[r].base = engine[r].base /\ engine'[r].owed = engine[r].owed,
           UNCHANGED <<crossing, depths, spans, flight, completed, reports>>
    PROVE  IInv'
<1>1. PICK call \in Calls :
        /\ stack' = [stack EXCEPT ![Len(stack)] = call]
        /\ call.kind = Top.kind /\ call.rec = Top.rec
        /\ call.level = Top.level /\ call.phase = phase
  BY Moves DEF IInv
<1>2. ~IsAttempt(Top) /\ Held1(call) = 1 /\ Held1(Top) = 1
  BY <1>1 DEF Held1, HoldsSpan, IsAttempt
<1>3. Counted(Held1(call), Held1(Top))
  BY <1>2, CountedSame DEF IInv
<1> QED BY <1>1, <1>2, <1>3, Turns

LEMMA BranchStep ==
    ASSUME IInv, Branch
    PROVE  IInv'
<1>1. /\ flight = NoError /\ Top.kind = "subtree" /\ Top.phase # "call"
      /\ UNCHANGED <<crossing, depths, spans, flight, completed, reports>>
      /\ engine' = engine
  BY DEF Branch, At
<1>2. PICK phase \in {"branch", "decided"} : Move(phase)
  BY DEF Branch
<1>3. engine' \in Seq(Recursions)
  BY <1>1 DEF IInv, Types
<1> QED BY <1>1, <1>2, <1>3, SubtreeMoves DEF Phases

(* A leaf that the engine counts.                                           *)
LEMMA LeafStep ==
    ASSUME IInv, At("subtree", "decided"), engine[Top.rec].leaves < MaxLeaves,
           Move("leaf"), engine' = [engine EXCEPT ![Top.rec].leaves = @ + 1],
           UNCHANGED <<crossing, depths, spans, flight, completed, reports>>
    PROVE  IInv'
<1>1. flight = NoError /\ Top.kind = "subtree" /\ Top.phase = "decided"
  BY DEF At
<1>2. Top.rec \in 1..Len(engine) /\ engine \in Seq(Recursions)
  BY <1>1, TopOwned DEF IInv, IsTree, Types
<1>3. PICK r \in 1..Len(engine) : r = Top.rec
  BY <1>2
<1> DEFINE recursion == [engine[r] EXCEPT !.leaves = @ + 1]
<1>4. /\ engine[r] \in Recursions /\ engine[r].leaves < MaxLeaves
      /\ engine' = [engine EXCEPT ![r] = recursion]
  BY <1>2, <1>3
<1>5. /\ recursion \in Recursions
      /\ recursion.base = engine[r].base /\ recursion.owed = engine[r].owed
  <2>1. ASSUME NEW q \in Recursions, q.leaves < MaxLeaves
        PROVE  LET s == [q EXCEPT !.leaves = @ + 1]
               IN  s \in Recursions /\ s.base = q.base /\ s.owed = q.owed
    <3>1. q.leaves + 1 \in 0..MaxLeaves
      BY <2>1 DEF Recursions
    <3> QED BY <3>1 DEF Recursions
  <2> QED BY <1>4, <2>1
<1> HIDE DEF recursion
<1>6. /\ engine' \in Seq(Recursions) /\ Len(engine') = Len(engine)
      /\ \A q \in 1..Len(engine) :
            engine'[q].base = engine[q].base /\ engine'[q].owed = engine[q].owed
  BY ONLY <1>2, <1>4, <1>5
<1> QED BY <1>1, <1>6, SubtreeMoves DEF Phases

-----------------------------------------------------------------------------
(* FinishDraw, Accept and a subtree that is done.                           *)

LEMMA AcceptStep ==
    ASSUME IInv, Accept
    PROVE  IInv'
<1>1. /\ flight = NoError /\ Top.kind = "filter" /\ StopSpan /\ stack' = Returned
      /\ UNCHANGED <<crossing, engine, flight>>
      /\ completed' = completed /\ reports' = reports
      /\ ~IsAttempt(Top) /\ HoldsSpan(Top)
  BY DEF Accept, At, IsAttempt, HoldsSpan
<1>2. completed' \in 0..MaxDraws /\ reports' \in Nat
  BY <1>1 DEF IInv, Types
<1>3. Types' /\ Shape' /\ BasesHeld' /\ SpansHeld' /\ Discarded' /\ Owing'
  BY <1>1, <1>2, Closes
<1>4. Counting'
  BY <1>1, ReturnedLess DEF IInv, Counting, ReportedOnce
<1> QED BY <1>3, <1>4 DEF IInv

LEMMA DoneStep ==
    ASSUME IInv, At("subtree", "back"), StopSpan, stack' = Returned,
           UNCHANGED <<crossing, engine, flight, completed, reports>>
    PROVE  IInv'
<1>1. /\ flight = NoError /\ Top.kind = "subtree"
      /\ ~IsAttempt(Top) /\ HoldsSpan(Top)
      /\ completed' = completed /\ reports' = reports
  BY DEF At, IsAttempt, HoldsSpan
<1>2. completed' \in 0..MaxDraws /\ reports' \in Nat
  BY <1>1 DEF IInv, Types
<1>3. Types' /\ Shape' /\ BasesHeld' /\ SpansHeld' /\ Discarded' /\ Owing'
  BY <1>1, <1>2, Closes
<1>4. Counting'
  BY <1>1, ReturnedLess DEF IInv, Counting, ReportedOnce
<1> QED BY <1>3, <1>4 DEF IInv

(* Draw reports its value if it was the only span: the body's draw is the   *)
(* first call that holds one.                                               *)
LEMMA FinishDrawStep ==
    ASSUME IInv, FinishDraw
    PROVE  IInv'
<1>1. /\ flight = NoError /\ Top.kind \in {"draw", "tree"} /\ StopSpan
      /\ stack' = Returned /\ UNCHANGED <<crossing, engine, flight>>
      /\ reports' = (IF InSpan(Last(depths')) THEN reports ELSE reports + 1)
      /\ completed' = (IF Len(stack) = 2 THEN completed + 1 ELSE completed)
      /\ ~IsAttempt(Top) /\ HoldsSpan(Top)
  BY DEF FinishDraw, At, IsAttempt, HoldsSpan
<1>2. /\ completed \in 0..MaxDraws /\ completed < MaxDraws /\ reports \in Nat
      /\ reports = completed
      /\ Len(stack) \in Nat /\ Len(stack) >= 2 /\ Len(stack') = Len(stack) - 1
  BY <1>1, ReturnedLess DEF IInv, Types, Counting, ReportedOnce
<1>3. completed' \in 0..MaxDraws /\ reports' \in Nat
      /\ (Len(stack) # 2 => completed' < MaxDraws)
  BY ONLY <1>1, <1>2, DrawAssumption
<1>4. Types' /\ Shape' /\ BasesHeld' /\ SpansHeld' /\ Discarded' /\ Owing'
  BY <1>1, <1>3, Closes
<1>5. InSpan(Last(depths')) <=> Len(stack) # 2
  <2>1. Last(depths') = Count(stack', Len(stack'))
    BY <1>1, <1>4 DEF SpansHeld, Depth, Last, Count, HeldTo
  <2>2. /\ Len(stack') \in Nat /\ Count(stack', Len(stack')) \in Nat
        /\ Count(stack', Len(stack')) = 0 <=>
                \A k \in 1..Len(stack') : ~HoldsSpan(stack'[k])
    <3>1. Len(stack') \in Nat
      BY <1>2
    <3> QED BY <3>1, CountIs
  <2>3. stack'[1].kind = "body" /\ ~HoldsSpan(stack'[1])
    BY <1>2, <1>4 DEF Shape, Nested, HoldsSpan
  <2>4. Len(stack) # 2 => HoldsSpan(stack'[2]) /\ 2 \in 1..Len(stack')
    BY <1>2, <1>4 DEF Shape, Nested, HoldsSpan
  <2>5. Len(stack) = 2 => \A k \in 1..Len(stack') : k = 1
    BY <1>2
  <2>6. InSpan(Last(depths')) <=> Count(stack', Len(stack')) # 0
    BY <2>1, <2>2 DEF InSpan
  <2> QED BY ONLY <2>2, <2>3, <2>4, <2>5, <2>6
<1>6. Counting'
  BY <1>1, <1>2, <1>3, <1>5 DEF Counting, ReportedOnce
<1> QED BY <1>4, <1>6 DEF IInv

-----------------------------------------------------------------------------
(* A recursion begins, ends and begins again.                               *)

LEMMA NewRecursionStep ==
    ASSUME IInv, NewRecursion
    PROVE  IInv'
<1> DEFINE call == Call("attempt", Len(engine) + 1, 0, "call")
           recursion == [base |-> spans, leaves |-> 0, tries |-> 0, owed |-> FALSE]
<1>1. /\ flight = NoError /\ Top.kind = "draw" /\ Push(call)
      /\ engine' = Append(engine, recursion) /\ depths' = Append(depths, Depth)
      /\ crossing' = crossing /\ spans' = spans /\ flight' = flight
      /\ completed' = completed /\ reports' = reports
  BY DEF NewRecursion, At, Entered, Depth
<1>2. /\ Len(engine) \in Nat /\ engine \in Seq(Recursions) /\ depths \in Seq(Nat)
      /\ Len(depths) = Len(engine) + 1 /\ spans \in Nat /\ Depth \in Nat
      /\ Len(stack) \in Nat \ {0} /\ Len(stack) < MaxNesting
  BY <1>1, DepthIs DEF IInv, Types, Push
<1>3. Len(engine) < Len(stack)
  BY EngineBelow DEF IInv
<1>4. /\ call \in Calls /\ call.kind = "attempt" /\ call.level = 0
      /\ call.rec = Len(engine) + 1 /\ IsAttempt(call) /\ ~HoldsSpan(call)
  <2>1. Len(engine) + 1 \in 0..MaxNesting
    BY ONLY <1>2, <1>3, DrawAssumption
  <2> QED BY <2>1 DEF Call, Calls, Kinds, Phases, IsAttempt, HoldsSpan
<1>5. recursion \in Recursions /\ recursion.base = spans /\ recursion.owed = FALSE
  BY <1>2 DEF Recursions
<1> HIDE DEF call, recursion
<1>6. /\ engine' \in Seq(Recursions) /\ Len(engine') = Len(engine) + 1
      /\ \A r \in 1..Len(engine) : engine'[r] = engine[r]
      /\ engine'[Len(engine) + 1] = recursion
  BY ONLY <1>1, <1>2, <1>5
<1>7. /\ depths' \in Seq(Nat) /\ Len(depths') = Len(depths) + 1
      /\ \A r \in 1..Len(depths) : depths'[r] = depths[r]
      /\ depths'[Len(depths')] = Depth
  BY ONLY <1>1, <1>2
<1>8. /\ stack' \in Seq(Calls) /\ Len(stack') = Len(stack) + 1
      /\ Len(stack') \in 1..MaxNesting
      /\ \A k \in 1..Len(stack) : stack'[k] = stack[k]
      /\ stack'[Len(stack')] = call
  BY <1>1, <1>4, Pushes DEF IInv
<1>9. Types'
  <2>1. /\ crossing' \in BOOLEAN /\ spans' \in Nat /\ flight' \in Errors \cup {NoError}
        /\ completed' \in 0..MaxDraws /\ reports' \in Nat
    BY <1>1 DEF IInv, Types
  <2> QED BY <1>2, <1>6, <1>7, <1>8, <2>1 DEF Types
<1>10. Shape'
  BY <1>1, <1>4, <1>6, ShapeEnter DEF IInv
<1>11. /\ Depth = Count(stack, Len(stack)) /\ spans = Count(stack, Len(stack))
       /\ \A k \in 0..Len(stack) : Count(stack', k) = Count(stack, k)
       /\ Count(stack', Len(stack')) = Count(stack, Len(stack))
  <2>1. Depth = Count(stack, Len(stack)) /\ spans = Count(stack, Len(stack))
    BY <1>1 DEF IInv, SpansHeld
  <2>2. ASSUME NEW k \in 0..Len(stack)
        PROVE  Count(stack', k) = Count(stack, k)
    <3>1. k \in Nat /\ \A i \in 1..k : i \in 1..Len(stack)
      BY <1>2
    <3>2. \A i \in 1..k : stack'[i] = stack[i]
      BY <1>8, <3>1
    <3> QED BY ONLY <3>1, <3>2, CountSame
  <2>3. Count(stack', Len(stack) + 1) = Count(stack', Len(stack)) + 0
    <3>1. Held1(stack'[Len(stack) + 1]) = 0
      BY <1>4, <1>8 DEF Held1
    <3>2. Len(stack) \in Nat
      BY <1>2
    <3> QED BY <3>1, <3>2, CountIs
  <2>4. Count(stack', Len(stack)) = Count(stack, Len(stack)) /\ Count(stack, Len(stack)) \in Nat
    <3>1. Len(stack) \in Nat /\ Len(stack) \in 0..Len(stack)
      BY <1>2
    <3>2. Count(stack', Len(stack)) = Count(stack, Len(stack))
      BY ONLY <2>2, <3>1
    <3> QED BY <3>1, <3>2, CountIs
  <2> QED BY <1>8, <2>1, <2>2, <2>3, <2>4
<1>12. BasesHeld'
  <2>1. ASSUME NEW k \in 1..Len(stack'), IsAttempt(stack'[k])
        PROVE  /\ engine'[stack'[k].rec].base = Count(stack', k)
               /\ depths'[stack'[k].rec] = Count(stack', k)
    <3>1. CASE k \in 1..Len(stack)
      <4>1. stack'[k] = stack[k] /\ k \in 0..Len(stack) /\ IsAttempt(stack[k])
        BY <1>8, <2>1, <3>1
      <4>2. stack[k].rec \in 1..Len(engine) /\ stack[k].rec \in 1..Len(depths)
        BY <1>2, <3>1, <4>1 DEF IInv, Shape, Numbered
      <4>3. /\ engine[stack[k].rec].base = Count(stack, k)
            /\ depths[stack[k].rec] = Count(stack, k)
        BY <3>1, <4>1 DEF IInv, BasesHeld
      <4> QED BY <1>6, <1>7, <1>11, <4>1, <4>2, <4>3
    <3>2. CASE k = Len(stack) + 1
      <4>1. stack'[k] = call /\ k = Len(stack') /\ call.rec = Len(depths)
            /\ Len(depths) \in 1..Len(depths)
        BY <1>2, <1>4, <1>8, <3>2
      <4>2. engine'[call.rec].base = spans /\ depths'[call.rec] = Depth
        BY <1>2, <1>4, <1>5, <1>6, <1>7, <4>1 DEF Depth, Last
      <4> QED BY <1>11, <4>1, <4>2
    <3> QED BY <1>2, <1>8, <3>1, <3>2
  <2> QED BY <2>1 DEF BasesHeld, Count, HeldTo
<1>13. SpansHeld' /\ Discarded' /\ Owing' /\ Counting'
  <2>1. SpansHeld'
    <3>1. depths'[Len(depths')] = Count(stack', Len(stack')) /\ spans' = Count(stack', Len(stack'))
      BY <1>1, <1>7, <1>11
    <3> QED BY <3>1 DEF SpansHeld, Depth, Last, Count, HeldTo
  <2>2. Discarded'
    BY <1>1 DEF Discarded
  <2>3. Owing'
    BY <1>1, <1>2, <1>5, <1>6 DEF IInv, Owing
  <2>4. Counting'
    <3>1. Len(stack) >= 2
      BY <1>1, TopIs DEF IInv, Types, Shape, Nested
    <3> QED BY <1>1, <3>1 DEF IInv, Counting, ReportedOnce
  <2> QED BY <2>1, <2>2, <2>3, <2>4
<1> QED BY <1>9, <1>10, <1>12, <1>13 DEF IInv

(* The innermost recursion is over: its copy of the test case is gone, and  *)
(* what it drew is part of the draw that called it.                         *)
LEMMA FinishAttemptStep ==
    ASSUME IInv, FinishAttempt
    PROVE  IInv'
<1>1. /\ flight = NoError /\ Top.kind = "attempt" /\ IsAttempt(Top) /\ stack' = Returned
      /\ depths' = SubSeq(depths, 1, Len(depths) - 1)
      /\ engine' = SubSeq(engine, 1, Len(engine) - 1)
      /\ crossing' = crossing /\ spans' = spans /\ flight' = flight
      /\ completed' = completed /\ reports' = reports
  BY DEF FinishAttempt, At, IsAttempt, Left, ButLast
<1>2. PICK last \in Nat \ {0} : last = Len(stack)
  BY DEF IInv, Types
<1>3. Len(stack) >= 2 /\ Len(stack') = Len(stack) - 1 /\ stack \in Seq(Calls)
  BY <1>1, ReturnedLess DEF IInv, Types
<1>4. PICK n \in Nat \ {0} : last = n + 1
  <2>1. last - 1 \in Nat \ {0}
    BY ONLY <1>2, <1>3
  <2> QED BY <2>1
<1>5. /\ stack' \in Seq(Calls) /\ Len(stack') = n /\ Len(stack') \in 1..MaxNesting
      /\ \A k \in 1..(n - 1) : stack'[k] = stack[k]
      /\ stack'[n] = [stack[n] EXCEPT !.phase = "back"]
  <2>1. n = Len(stack) - 1 /\ n - 1 = Len(stack) - 2
    BY <1>2, <1>4
  <2> QED BY <1>1, <1>3, <2>1, Returns DEF IInv
<1>6. /\ stack[n] \in Calls
      /\ stack[n].kind \in {"filter", "subtree"} => stack[n].phase # "call"
  <2>1. n \in 1..(Len(stack) - 1) /\ n \in 1..Len(stack)
    BY <1>2, <1>4
  <2> QED BY <1>3, <2>1 DEF IInv, Shape, Nested
<1>7. /\ stack'[n].kind = stack[n].kind /\ stack'[n].rec = stack[n].rec
      /\ stack'[n].level = stack[n].level /\ stack'[n].phase = "back"
  <2>1. \A c \in Calls :
            LET b == [c EXCEPT !.phase = "back"]
            IN  b.kind = c.kind /\ b.rec = c.rec /\ b.level = c.level /\ b.phase = "back"
    BY DEF Calls
  <2> QED BY <1>5, <1>6, <2>1
<1>8. HoldsSpan(stack'[n]) <=> HoldsSpan(stack[n])
  BY <1>6, <1>7 DEF HoldsSpan
<1>9. PICK e \in Nat : Len(engine) = e + 1 /\ Top.rec = e + 1
  <2>1. Top.rec = Len(engine) /\ Len(engine) - 1 \in Nat
    BY <1>1, TopAttempt DEF IInv
  <2> QED BY <2>1
<1>10. /\ engine' \in Seq(Recursions) /\ Len(engine') = e
       /\ \A r \in 1..e : engine'[r] = engine[r]
       /\ depths' \in Seq(Nat) /\ Len(depths') = e + 1
       /\ \A r \in 1..(e + 1) : depths'[r] = depths[r]
  <2>1. engine \in Seq(Recursions) /\ depths \in Seq(Nat) /\ Len(depths) = e + 2
    BY <1>9 DEF IInv, Types
  <2> QED BY ONLY <1>1, <1>9, <2>1
<1>11. Types'
  <2>1. /\ crossing' \in BOOLEAN /\ spans' \in Nat /\ flight' \in Errors \cup {NoError}
        /\ completed' \in 0..MaxDraws /\ reports' \in Nat
    BY <1>1 DEF IInv, Types
  <2> QED BY <1>5, <1>10, <2>1 DEF Types
<1>12. Shape'
  <2>1. ASSUME NEW k \in 1..n
        PROVE  /\ stack'[k].kind = stack[k].kind /\ stack'[k].rec = stack[k].rec
               /\ stack'[k].level = stack[k].level
               /\ k \in 1..(n - 1) => stack'[k].phase = stack[k].phase
    <3>1. k \in 1..(n - 1) \/ k = n
      BY <1>4
    <3> QED BY ONLY <1>5, <1>7, <3>1
  <2>2. \A k \in 1..n : stack[k].kind = "filter" => stack[k].level < maxFilterAttempts
    <3>1. ASSUME NEW k \in 1..n, stack[k].kind = "filter"
          PROVE  stack[k].level < maxFilterAttempts
      <4>1. k \in 1..(Len(stack) - 1) /\ k \in 1..Len(stack)
        BY <1>2, <1>4
      <4>2. stack[k].phase # "call"
        BY <3>1, <4>1 DEF IInv, Shape, Nested
      <4> QED BY <3>1, <4>1, <4>2 DEF IInv, Shape, Levelled
    <3> QED BY <3>1
  <2>3. \A k \in 1..n : stack[k].level \in Nat
    <3>1. ASSUME NEW k \in 1..n
          PROVE  stack[k] \in Calls
      <4>1. k \in 1..Len(stack)
        BY <1>2, <1>4
      <4> QED BY ONLY <1>3, <4>1
    <3> QED BY ONLY <3>1, DrawAssumption DEF Calls
  <2>4. \A a \in 1..Len(stack) :
            IsAttempt(stack[a]) => (a <= n <=> stack[a].rec <= Len(engine'))
    <3>1. ASSUME NEW a \in 1..Len(stack), IsAttempt(stack[a])
          PROVE  a <= n <=> stack[a].rec <= e
      <4>1. stack[a].rec \in 1..(e + 1) /\ Top = stack[Len(stack)]
        BY <1>9, <3>1, TopIs DEF IInv, Shape, Numbered
      <4>2. a < Len(stack) => stack[a].rec < Top.rec
        <5>1. /\ Len(stack) \in 1..Len(stack) /\ Top = stack[Len(stack)]
              /\ IsAttempt(stack[Len(stack)])
          BY <1>1, TopIs DEF IInv
        <5>2. \A j, k \in 1..Len(stack) :
                IsAttempt(stack[j]) /\ IsAttempt(stack[k]) /\ j < k => stack[j].rec < stack[k].rec
          BY DEF IInv, Shape, Numbered
        <5> QED BY ONLY <3>1, <5>1, <5>2, a \in 1..Len(stack)
      <4>3. a = Len(stack) => stack[a].rec = e + 1
        BY <1>9, <4>1
      <4>4. a \in 1..(n + 1) /\ Len(stack) = n + 1
        BY <1>2, <1>4
      <4> QED BY ONLY <1>9, <4>1, <4>2, <4>3, <4>4
    <3> QED BY <1>10, <3>1
  <2>5. /\ Types /\ Shape /\ n \in 1..Len(stack) /\ crossing' = crossing
        /\ ~(flight' # NoError) /\ Len(engine') \in 0..Len(engine) /\ Len(stack') = n
    <3>1. Types /\ Shape /\ crossing' = crossing /\ ~(flight' # NoError)
      BY <1>1 DEF IInv
    <3>2. n \in 1..Len(stack)
      BY ONLY <1>2, <1>4
    <3>3. Len(engine') \in 0..Len(engine) /\ Len(stack') = n
      BY ONLY <1>5, <1>9, <1>10
    <3> QED BY <3>1, <3>2, <3>3
  <2>6. \A k \in 1..n :
            /\ stack'[k].kind = stack[k].kind /\ stack'[k].rec = stack[k].rec
            /\ IF stack[k].kind = "filter"
               THEN /\ stack'[k].level <= maxFilterAttempts
                    /\ stack'[k].phase # "call" => stack'[k].level < maxFilterAttempts
               ELSE stack'[k].level = stack[k].level
    BY ONLY <2>1, <2>2, <2>3
  <2> QED BY ONLY <2>1, <2>4, <2>5, <2>6, ShapeKept
<1>13. BasesHeld' /\ Count(stack', n) = Count(stack, n)
  <2>1. \A k \in 1..n :
            /\ stack'[k].kind = stack[k].kind /\ stack'[k].rec = stack[k].rec
            /\ HoldsSpan(stack'[k]) <=> HoldsSpan(stack[k])
    <3>1. \A k \in 1..n : k \in 1..(n - 1) \/ k = n
      BY <1>4
    <3> QED BY ONLY <1>5, <1>7, <1>8, <3>1
  <2>2. /\ Types /\ BasesHeld /\ n \in 0..Len(stack) /\ n \in 0..n
        /\ Len(stack') \in {n, n + 1} /\ Len(stack') # n + 1
    BY <1>2, <1>4, <1>5 DEF IInv
  <2>3. \A r \in 1..Len(engine') :
            engine'[r].base = engine[r].base /\ depths'[r] = depths[r]
    BY <1>9, <1>10
  <2> QED BY ONLY <1>11, <1>12, <2>1, <2>2, <2>3, BasesKept
<1>14. Count(stack, n + 1) = Count(stack, n) /\ Count(stack, n) \in Nat
  <2>1. Top = stack[n + 1] /\ Held1(stack[n + 1]) = 0
    BY <1>1, <1>2, <1>4, TopIs DEF IInv, Held1, HoldsSpan
  <2>2. /\ Count(stack, n + 1) = Count(stack, n) + Held1(stack[n + 1])
        /\ Count(stack, n) \in Nat
    BY <1>4, CountIs
  <2> QED BY <2>1, <2>2
<1>15. depths[e + 1] = Count(stack, n + 1) /\ spans = Count(stack, n + 1)
  <2>1. n + 1 \in 1..Len(stack) /\ n + 1 = Len(stack) /\ Top = stack[n + 1]
    <3>1. n + 1 \in 1..Len(stack) /\ n + 1 = Len(stack)
      BY ONLY <1>2, <1>4
    <3> QED BY <3>1, TopIs DEF IInv
  <2>2. depths[e + 1] = Count(stack, n + 1)
    BY <1>1, <1>9, <2>1 DEF IInv, BasesHeld
  <2>3. spans = Count(stack, n + 1)
    BY <1>1, <2>1 DEF IInv, SpansHeld
  <2> QED BY <2>2, <2>3
<1>16. SpansHeld'
  <2>1. depths'[Len(depths')] = Count(stack', Len(stack')) /\ spans' = Count(stack', Len(stack'))
    <3>1. Count(stack', Len(stack')) = Count(stack, n + 1)
      BY <1>5, <1>13, <1>14
    <3>2. depths'[e + 1] = depths[e + 1] /\ Len(depths') = e + 1
      BY <1>10
    <3> QED BY <1>1, <1>15, <3>1, <3>2
  <2> QED BY <2>1 DEF SpansHeld, Depth, Last, Count, HeldTo
<1>17. Discarded' /\ Owing'
  BY <1>1, <1>9, <1>10 DEF IInv, Discarded, Owing
<1>18. Counting'
  <2>1. /\ completed' = completed /\ reports' = reports /\ Counting
    BY <1>1 DEF IInv
  <2> QED BY ONLY <1>3, <2>1 DEF Counting, ReportedOnce
<1> QED BY <1>11, <1>12, <1>13, <1>16, <1>17, <1>18 DEF IInv

(* The attempt starts over with a fresh copy of the test case: with the     *)
(* spans, in both counts, that were open when the recursion was created.    *)
LEMMA Restarts ==
    ASSUME IInv, IsAttempt(Top), Restart, spans' = engine[Len(engine)].base,
           engine' \in Seq(Recursions), Len(engine') = Len(engine),
           \A r \in 1..Len(engine) : engine'[r].base = engine[r].base,
           UNCHANGED <<crossing, completed, reports>>
    PROVE  /\ Types' /\ Shape' /\ BasesHeld' /\ SpansHeld' /\ Discarded' /\ Counting'
           /\ flight' = NoError
<1>1. PICK call \in Calls :
        /\ stack' = [stack EXCEPT ![Len(stack)] = call]
        /\ call.kind = Top.kind /\ call.rec = Top.rec
        /\ call.level = Top.level /\ call.phase = "call"
  BY Moves DEF IInv, Restart, Phases
<1>2. PICK n \in Nat \ {0} : n = Len(stack)
  BY DEF IInv, Types
<1>3. /\ stack' \in Seq(Calls) /\ Len(stack') = n /\ Len(stack') \in 1..MaxNesting
      /\ \A k \in 1..(n - 1) : stack'[k] = stack[k]
      /\ stack'[n] = call
  BY <1>1, <1>2, Changes DEF IInv
<1>4. PICK e \in Nat \ {0} : Len(engine) = e /\ Top.rec = e
  BY TopAttempt DEF IInv
<1>5. Top = stack[n] /\ stack \in Seq(Calls) /\ Top.kind = "attempt"
  BY <1>2, TopIs DEF IInv, Types, IsAttempt
<1>6. /\ depths' \in Seq(Nat) /\ Len(depths') = e + 1
      /\ \A r \in 1..e : depths'[r] = depths[r]
      /\ depths'[e + 1] = depths[e]
  <2>1. depths \in Seq(Nat) /\ Len(depths) = e + 1
    BY <1>4 DEF IInv, Types
  <2> DEFINE before == SubSeq(depths, 1, e)
  <2>2. before \in Seq(Nat) /\ Len(before) = e /\ \A r \in 1..e : before[r] = depths[r]
    BY ONLY <2>1
  <2>3. depths' = Append(before, before[e])
    BY <2>1, <2>2 DEF Restart, Restarted, Entered, ButLast, Last
  <2>4. before[e] \in Nat /\ before[e] = depths[e]
    BY ONLY <2>2, e \in Nat \ {0}
  <2> HIDE DEF before
  <2> QED BY ONLY <2>2, <2>3, <2>4
<1>7. /\ flight' = NoError /\ crossing' = crossing
      /\ completed' = completed /\ reports' = reports
  BY DEF Restart
<1>8. ASSUME NEW k \in 1..n
      PROVE  /\ stack'[k].kind = stack[k].kind /\ stack'[k].rec = stack[k].rec
             /\ stack'[k].level = stack[k].level
             /\ k \in 1..(n - 1) => stack'[k].phase = stack[k].phase
             /\ HoldsSpan(stack'[k]) <=> HoldsSpan(stack[k])
  <2>1. k \in 1..(n - 1) \/ k = n
    OBVIOUS
  <2>2. ~HoldsSpan(Top) /\ ~HoldsSpan(call)
    BY <1>1, <1>5 DEF HoldsSpan
  <2> QED BY ONLY <1>1, <1>3, <1>5, <2>1, <2>2
<1>9. engine[e].base = Count(stack, n) /\ depths[e] = Count(stack, n) /\ Count(stack, n) \in Nat
  <2>1. n \in 1..Len(stack)
    BY <1>2
  <2> QED BY <1>4, <1>5, <2>1, CountIs DEF IInv, BasesHeld
<1>10. Types'
  <2>1. /\ crossing' \in BOOLEAN /\ flight' \in Errors \cup {NoError}
        /\ completed' \in 0..MaxDraws /\ reports' \in Nat
    BY <1>7 DEF IInv, Types
  <2>2. spans' \in Nat
    BY <1>4, <1>9
  <2> QED BY <1>3, <1>4, <1>6, <2>1, <2>2 DEF Types
<1>11. Shape'
  <2>1. /\ Types /\ Shape /\ n \in 1..Len(stack) /\ crossing' = crossing
        /\ ~(flight' # NoError) /\ Len(engine') \in 0..Len(engine) /\ Len(stack') = n
    BY <1>2, <1>3, <1>4, <1>7 DEF IInv
  <2>2. \A k \in 1..n : stack[k].kind = "filter" =>
            /\ stack[k].level <= maxFilterAttempts
            /\ stack[k].phase # "call" => stack[k].level < maxFilterAttempts
    BY <1>2 DEF IInv, Shape, Levelled
  <2>3. \A k \in 1..n :
            /\ stack'[k].kind = stack[k].kind /\ stack'[k].rec = stack[k].rec
            /\ IF stack[k].kind = "filter"
               THEN /\ stack'[k].level <= maxFilterAttempts
                    /\ stack'[k].phase # "call" => stack'[k].level < maxFilterAttempts
               ELSE stack'[k].level = stack[k].level
    <3>1. \A k \in 1..n : stack[k].kind = "filter" => k \in 1..(n - 1)
      BY <1>5
    <3> QED BY ONLY <1>8, <2>2, <3>1
  <2>4. \A a \in 1..Len(stack) :
            IsAttempt(stack[a]) => (a <= n <=> stack[a].rec <= Len(engine'))
    BY <1>2, <1>4 DEF IInv, Shape, Numbered
  <2> QED BY ONLY <1>8, <2>1, <2>3, <2>4, ShapeKept
<1>12. BasesHeld' /\ Count(stack', n) = Count(stack, n)
  <2>1. /\ Types /\ BasesHeld /\ n \in 0..Len(stack) /\ n \in 0..n
        /\ Len(stack') \in {n, n + 1} /\ Len(stack') # n + 1
    BY <1>2, <1>3 DEF IInv
  <2>2. \A r \in 1..Len(engine') :
            engine'[r].base = engine[r].base /\ depths'[r] = depths[r]
    BY <1>4, <1>6
  <2> QED BY ONLY <1>8, <1>10, <1>11, <2>1, <2>2, BasesKept
<1>13. SpansHeld'
  <2>1. depths'[Len(depths')] = Count(stack', Len(stack')) /\ spans' = Count(stack', Len(stack'))
    BY <1>3, <1>4, <1>6, <1>9, <1>12
  <2> QED BY <2>1 DEF SpansHeld, Depth, Last, Count, HeldTo
<1>14. Discarded' /\ Counting'
  BY <1>2, <1>3, <1>7 DEF IInv, Discarded, Counting, ReportedOnce
<1> QED BY <1>7, <1>10, <1>11, <1>12, <1>13, <1>14

(* What becomes of a recursion, one field after the other.                  *)
LEMMA Forgets ==
    ASSUME NEW q \in Recursions, q.tries < MaxAttempts
    PROVE  /\ [q EXCEPT !.leaves = 0] \in Recursions
           /\ [[q EXCEPT !.leaves = 0] EXCEPT !.tries = @ + 1] \in Recursions
           /\ LET s == [[[q EXCEPT !.leaves = 0] EXCEPT !.tries = @ + 1] EXCEPT !.owed = FALSE]
              IN  s \in Recursions /\ s.base = q.base /\ s.owed = FALSE
<1> DEFINE first == [q EXCEPT !.leaves = 0]
           second == [first EXCEPT !.tries = @ + 1]
           third == [second EXCEPT !.owed = FALSE]
<1>1. q.tries + 1 \in 0..MaxAttempts /\ 0 \in 0..MaxLeaves
  BY DEF Recursions
<1>2. first \in Recursions /\ first.base = q.base /\ first.tries = q.tries
  BY <1>1 DEF Recursions
<1> HIDE DEF first
<1>3. second \in Recursions /\ second.base = q.base
  BY <1>1, <1>2 DEF Recursions
<1> HIDE DEF second
<1>4. third \in Recursions /\ third.base = q.base /\ third.owed = FALSE
  BY <1>3 DEF Recursions
<1> QED BY <1>2, <1>3, <1>4 DEF first, second

LEMMA StartsOver ==
    ASSUME Types, NEW rec \in 1..Len(engine), StartOver(rec)
    PROVE  /\ spans' = engine[rec].base /\ spans' \in Nat
           /\ engine' \in Seq(Recursions) /\ Len(engine') = Len(engine)
           /\ \A r \in 1..Len(engine) :
                engine'[r].base = engine[r].base
                /\ (engine'[r].owed => engine[r].owed /\ r # rec)
<1> DEFINE first == [engine[rec] EXCEPT !.leaves = 0]
           second == [first EXCEPT !.tries = @ + 1]
           recursion == [second EXCEPT !.owed = FALSE]
           one == [engine EXCEPT ![rec].leaves = 0]
           two == [one EXCEPT ![rec].tries = @ + 1]
<1>1. engine \in Seq(Recursions) /\ engine[rec] \in Recursions
      /\ engine[rec].tries < MaxAttempts /\ spans' = engine[rec].base
  <2>1. engine \in Seq(Recursions)
    BY DEF Types
  <2>2. engine[rec] \in Recursions
    BY ONLY <2>1, rec \in 1..Len(engine)
  <2>3. engine[rec].tries < MaxAttempts /\ spans' = engine[rec].base
    BY DEF StartOver
  <2> QED BY <2>1, <2>2, <2>3
<1>2. /\ first \in Recursions /\ second \in Recursions /\ recursion \in Recursions
      /\ recursion.base = engine[rec].base /\ recursion.owed = FALSE
  BY <1>1, Forgets
<1>3. engine' = [engine EXCEPT ![rec] = recursion]
  <2>1. one = [engine EXCEPT ![rec] = first] /\ engine' = [two EXCEPT ![rec].owed = FALSE]
    BY DEF StartOver
  <2> HIDE DEF first
  <2>2. one \in Seq(Recursions) /\ Len(one) = Len(engine) /\ one[rec] = first
    <3> HIDE DEF one, second, recursion
    <3> QED BY ONLY <1>1, <1>2, <2>1, rec \in 1..Len(engine)
  <2>3. two = [engine EXCEPT ![rec] = second]
    <3> HIDE DEF one
    <3>1. two = [one EXCEPT ![rec] = second]
      BY <2>2
    <3> HIDE DEF second, two
    <3> QED BY ONLY <1>1, <1>2, <2>1, <2>2, <3>1, rec \in 1..Len(engine)
  <2> HIDE DEF one, two
  <2>4. two \in Seq(Recursions) /\ Len(two) = Len(engine) /\ two[rec] = second
    <3> HIDE DEF second
    <3> QED BY ONLY <1>1, <1>2, <2>3, rec \in 1..Len(engine)
  <2>5. engine' = [two EXCEPT ![rec] = recursion]
    BY <2>1, <2>4
  <2> HIDE DEF second, recursion
  <2> QED BY ONLY <1>1, <1>2, <2>3, <2>4, <2>5, rec \in 1..Len(engine)
<1> HIDE DEF recursion
<1>4. /\ engine' \in Seq(Recursions) /\ Len(engine') = Len(engine)
      /\ engine'[rec] = recursion
      /\ \A r \in 1..Len(engine) : r # rec => engine'[r] = engine[r]
  BY ONLY <1>1, <1>2, <1>3, rec \in 1..Len(engine)
<1>5. spans' \in Nat
  BY <1>1 DEF Recursions
<1> QED BY <1>1, <1>2, <1>4, <1>5

LEMMA ContinueStep ==
    ASSUME IInv, Continue
    PROVE  IInv'
<1>1. /\ flight = "finishRetry" /\ IsAttempt(Top) /\ Restart /\ spans' = spans
      /\ engine' = engine /\ UNCHANGED <<crossing, completed, reports>>
  BY DEF Continue, Caught, NeedsRetry, IsAttempt
<1>2. spans' = engine[Len(engine)].base
  BY <1>1 DEF IInv, Discarded
<1>3. engine' \in Seq(Recursions)
  BY <1>1 DEF IInv, Types
<1>4. /\ Types' /\ Shape' /\ BasesHeld' /\ SpansHeld' /\ Discarded' /\ Counting'
  BY <1>1, <1>2, <1>3, Restarts
<1>5. Owing'
  BY <1>1 DEF IInv, Owing
<1> QED BY <1>4, <1>5 DEF IInv

LEMMA RetryStep ==
    ASSUME IInv, Caught, StartOver(Top.rec), Restart,
           UNCHANGED <<crossing, completed, reports>>
    PROVE  IInv'
<1>1. IsAttempt(Top)
  BY DEF Caught, IsAttempt
<1>2. PICK rec \in 1..Len(engine) : rec = Top.rec /\ rec = Len(engine)
  BY <1>1, TopAttempt DEF IInv
<1>3. /\ spans' = engine[rec].base
      /\ engine' \in Seq(Recursions) /\ Len(engine') = Len(engine)
      /\ \A r \in 1..Len(engine) :
            engine'[r].base = engine[r].base
            /\ (engine'[r].owed => engine[r].owed /\ r # rec)
  BY <1>2, StartsOver DEF IInv
<1>4. /\ Types' /\ Shape' /\ BasesHeld' /\ SpansHeld' /\ Discarded' /\ Counting'
  BY <1>1, <1>2, <1>3, Restarts
<1>5. Owing'
  BY <1>2, <1>3 DEF IInv, Owing
<1> QED BY <1>4, <1>5 DEF IInv

-----------------------------------------------------------------------------
(* Errors.                                                                  *)

(* The innermost invoke around the calls up to the n-th, of which the       *)
(* attempts are those of the first r recursions.                            *)
LEMMA Innermost ==
    ASSUME Types, Shape, NEW n \in 1..Len(stack), NEW r \in 0..Len(engine),
           \A a \in 1..Len(stack) : IsAttempt(stack[a]) => (a <= n <=> stack[a].rec <= r)
    PROVE  \E k \in 1..n :
                /\ Unwound(n) = SubSeq(stack, 1, k)
                /\ stack[k].kind \in {"body", "attempt"}
                /\ r > 0 => IsAttempt(stack[k])
                /\ \A a \in 1..Len(stack) :
                        IsAttempt(stack[a]) => (a <= k <=> stack[a].rec <= r)
<1>1. Len(stack) \in Nat \ {0} /\ Len(engine) \in Nat /\ n \in Nat
  BY DEF Types
<1>2. \A a \in 1..Len(stack) :
        /\ a \in Scopes <=> a = 1 \/ IsAttempt(stack[a])
        /\ IsAttempt(stack[a]) => stack[a].rec \in 1..Len(engine) /\ a # 1
  BY DEF Shape, Nested, Numbered, Scopes, IsAttempt
<1>3. Scopes \subseteq 1..Len(stack) /\ 1 \in Scopes
  BY <1>1, <1>2 DEF Scopes
<1>4. \E k \in Scopes :
        /\ k <= n /\ \A t \in Scopes : t <= n => t <= k
        /\ r > 0 => IsAttempt(stack[k])
        /\ \A a \in 1..Len(stack) : IsAttempt(stack[a]) => (a <= k <=> stack[a].rec <= r)
  <2>1. CASE r = 0
    <3>1. \A a \in 1..Len(stack) : IsAttempt(stack[a]) => ~(a <= n) /\ ~(a <= 1)
      BY <1>1, <1>2, <2>1
    <3>2. \A t \in Scopes : t <= n => t <= 1
      BY <1>2, <1>3, <3>1
    <3> QED BY <1>1, <1>2, <1>3, <2>1, <3>1, <3>2
  <2>2. CASE r # 0
    <3>1. r \in 1..Len(engine)
      BY <1>1, <2>2
    <3>2. PICK k \in 1..Len(stack) : IsAttempt(stack[k]) /\ stack[k].rec = r
      BY <3>1 DEF Shape, Numbered
    <3>3. k <= n /\ k \in Scopes
      BY <1>1, <1>2, <3>2
    <3>4. ASSUME NEW a \in 1..Len(stack), IsAttempt(stack[a])
          PROVE  a <= k <=> stack[a].rec <= r
      <4>1. /\ a < k => stack[a].rec < r
            /\ k < a => r < stack[a].rec
        BY <3>2, <3>4 DEF Shape, Numbered
      <4> QED BY <1>1, <1>2, <3>1, <3>2, <3>4, <4>1
    <3>5. \A t \in Scopes : t <= n => t <= k
      BY <1>1, <1>2, <1>3, <3>2, <3>4
    <3> QED BY <3>2, <3>3, <3>4, <3>5
  <2> QED BY <2>1, <2>2
<1>5. PICK k \in Scopes :
        /\ k <= n /\ \A t \in Scopes : t <= n => t <= k
        /\ r > 0 => IsAttempt(stack[k])
        /\ \A a \in 1..Len(stack) : IsAttempt(stack[a]) => (a <= k <=> stack[a].rec <= r)
  BY <1>4
<1>6. \A s \in Scopes : s <= n /\ (\A t \in Scopes : t <= n => t <= s) => s = k
  BY <1>1, <1>3, <1>5
<1>7. k = CHOOSE s \in Scopes : s <= n /\ \A t \in Scopes : t <= n => t <= s
  BY <1>5, <1>6
<1>8. Unwound(n) = SubSeq(stack, 1, k)
  BY <1>7 DEF Unwound
<1>9. k \in 1..n /\ stack[k].kind \in {"body", "attempt"}
  BY <1>1, <1>3, <1>5 DEF Scopes
<1> QED BY <1>5, <1>8, <1>9

(* An error leaves the calls up to that invoke, and the recursions that     *)
(* belong to them.                                                          *)
LEMMA Unwinds ==
    ASSUME IInv, NEW n \in 1..Len(stack), NEW r \in 0..Len(engine),
           \A a \in 1..Len(stack) : IsAttempt(stack[a]) => (a <= n <=> stack[a].rec <= r),
           stack' = Unwound(n), flight' \in Errors, spans' \in Nat,
           engine' \in Seq(Recursions), Len(engine') = r,
           \A q \in 1..r : engine'[q].base = engine[q].base,
           depths' \in Seq(Nat), Len(depths') = r + 1,
           \A q \in 1..r : depths'[q] = depths[q],
           UNCHANGED <<crossing, completed, reports>>
    PROVE  /\ Types' /\ Shape' /\ BasesHeld' /\ SpansHeld' /\ Counting'
           /\ r > 0 => IsAttempt(Top')
<1>1. PICK k \in 1..n :
        /\ Unwound(n) = SubSeq(stack, 1, k)
        /\ stack[k].kind \in {"body", "attempt"}
        /\ r > 0 => IsAttempt(stack[k])
        /\ \A a \in 1..Len(stack) : IsAttempt(stack[a]) => (a <= k <=> stack[a].rec <= r)
  BY Innermost DEF IInv
<1>2. Len(stack) \in Nat \ {0} /\ Len(engine) \in Nat /\ k \in 1..Len(stack) /\ k \in Nat
  BY DEF IInv, Types
<1>3. stack' = SubSeq(stack, 1, k)
  BY <1>1
<1>4. /\ stack' \in Seq(Calls) /\ Len(stack') = k /\ Len(stack') \in 1..MaxNesting
      /\ \A j \in 1..k : stack'[j] = stack[j]
  BY <1>2, <1>3, Cuts DEF IInv
<1>5. Types'
  <2>1. /\ crossing' \in BOOLEAN /\ flight' \in Errors \cup {NoError}
        /\ completed' \in 0..MaxDraws /\ reports' \in Nat
    BY DEF IInv, Types
  <2>2. /\ depths' \in Seq(Nat) /\ engine' \in Seq(Recursions) /\ spans' \in Nat
        /\ Len(depths') = Len(engine') + 1
    OBVIOUS
  <2> QED BY ONLY <1>4, <2>1, <2>2 DEF Types
<1>6. Shape'
  <2>1. /\ Types /\ Shape /\ crossing' = crossing /\ Len(engine') \in 0..Len(engine)
        /\ \A a \in 1..Len(stack) :
                IsAttempt(stack[a]) => (a <= k <=> stack[a].rec <= Len(engine'))
    BY <1>1 DEF IInv
  <2>2. \A j \in 1..k : stack[j].kind = "filter" =>
            /\ stack[j].level <= maxFilterAttempts
            /\ stack[j].phase # "call" => stack[j].level < maxFilterAttempts
    BY <1>2 DEF IInv, Shape, Levelled
  <2>3. \A j \in 1..k :
            /\ stack'[j].kind = stack[j].kind /\ stack'[j].rec = stack[j].rec
            /\ IF stack[j].kind = "filter"
               THEN /\ stack'[j].level <= maxFilterAttempts
                    /\ stack'[j].phase # "call" => stack'[j].level < maxFilterAttempts
               ELSE stack'[j].level = stack[j].level
    BY ONLY <1>4, <2>2
  <2>4. \A j \in 1..(k - 1) : stack'[j].phase = stack[j].phase
    BY ONLY <1>2, <1>4
  <2> QED BY ONLY <1>1, <1>2, <1>4, <2>1, <2>3, <2>4, ShapeKept
<1>7. BasesHeld'
  <2>1. \A j \in 1..k :
            /\ stack'[j].kind = stack[j].kind /\ stack'[j].rec = stack[j].rec
            /\ HoldsSpan(stack'[j]) <=> HoldsSpan(stack[j])
    BY ONLY <1>4
  <2>2. /\ Types /\ BasesHeld /\ k \in 0..Len(stack)
        /\ Len(stack') \in {k, k + 1} /\ Len(stack') # k + 1
    BY <1>2, <1>4 DEF IInv
  <2>3. \A q \in 1..Len(engine') :
            engine'[q].base = engine[q].base /\ depths'[q] = depths[q]
    OBVIOUS
  <2> QED BY ONLY <1>5, <1>6, <2>1, <2>2, <2>3, BasesKept
<1>8. SpansHeld'
  BY DEF SpansHeld, Errors
<1>9. Counting'
  <2>1. /\ completed' = completed /\ reports' = reports /\ Counting
    BY DEF IInv
  <2> QED BY ONLY <1>2, <1>4, <2>1 DEF Counting, ReportedOnce
<1>10. r > 0 => IsAttempt(Top')
  <2>1. k \in 1..k
    BY <1>2
  <2>2. Top' = stack'[k]
    BY <1>4 DEF Top, Last
  <2> QED BY <1>1, <1>4, <2>1, <2>2
<1> QED BY <1>5, <1>6, <1>7, <1>8, <1>9, <1>10

(* An error of the innermost call: its attempt, if any, is the innermost    *)
(* recursion's, and no recursion is left.                                   *)
LEMMA Raises ==
    ASSUME IInv, stack' = Unwound(Len(stack)), flight' \in Errors, depths' = depths,
           spans' \in Nat, engine' \in Seq(Recursions), Len(engine') = Len(engine),
           \A r \in 1..Len(engine) : engine'[r].base = engine[r].base,
           UNCHANGED <<crossing, completed, reports>>
    PROVE  /\ Types' /\ Shape' /\ BasesHeld' /\ SpansHeld' /\ Counting'
           /\ Len(engine) > 0 => IsAttempt(Top')
<1>1. PICK n \in 1..Len(stack), r \in 0..Len(engine) : n = Len(stack) /\ r = Len(engine)
  <2>1. Len(stack) \in 1..Len(stack) /\ Len(engine) \in 0..Len(engine)
    BY TopIs, DepthIs DEF IInv
  <2> QED BY ONLY <2>1
<1>2. \A a \in 1..Len(stack) : IsAttempt(stack[a]) => (a <= n <=> stack[a].rec <= r)
  BY <1>1 DEF IInv, Shape, Numbered
<1>3. depths' \in Seq(Nat) /\ Len(depths') = r + 1 /\ stack' = Unwound(n)
      /\ \A q \in 1..r : depths'[q] = depths[q] /\ engine'[q].base = engine[q].base
  BY <1>1 DEF IInv, Types
<1>4. Len(engine') = r
  BY <1>1
<1> QED BY <1>1, <1>2, <1>3, <1>4, Unwinds

LEMMA FailStep ==
    ASSUME IInv, flight = NoError, NEW error \in {"assume", "other"}, Fail(error)
    PROVE  IInv'
<1>1. /\ stack' = Unwound(Len(stack)) /\ flight' = error /\ flight' \in Errors
      /\ depths' = depths /\ spans' = spans /\ engine' = engine
      /\ UNCHANGED <<crossing, completed, reports>>
  BY DEF Fail, Errors
<1>2. spans' \in Nat /\ engine' \in Seq(Recursions)
  BY <1>1 DEF IInv, Types
<1>3. /\ Types' /\ Shape' /\ BasesHeld' /\ SpansHeld' /\ Counting'
  BY <1>1, <1>2, Raises
<1>4. Discarded' /\ Owing'
  BY <1>1 DEF IInv, Discarded, Owing
<1> QED BY <1>3, <1>4 DEF IInv

(* A leaf that the engine refuses: the recursion that is over its budget is *)
(* the innermost one if each draws its own subtrees.                        *)
LEMMA RefusedStep ==
    ASSUME IInv, At("subtree", "decided"), engine' = [engine EXCEPT ![Top.rec].owed = TRUE],
           flight' = "leafRetry", stack' = Unwound(Len(stack)),
           UNCHANGED <<crossing, depths, spans, completed, reports>>
    PROVE  IInv'
<1>1. flight = NoError /\ IsTree(Top)
  BY DEF At, IsTree
<1>2. PICK rec \in 1..Len(engine) : rec = Top.rec /\ (~crossing => rec = Len(engine))
  BY <1>1, TopOwned DEF IInv
<1> DEFINE recursion == [engine[rec] EXCEPT !.owed = TRUE]
<1>3. engine \in Seq(Recursions) /\ engine[rec] \in Recursions
      /\ engine' = [engine EXCEPT ![rec] = recursion]
  BY <1>2 DEF IInv, Types
<1>4. recursion \in Recursions /\ recursion.base = engine[rec].base
  <2>1. \A q \in Recursions :
            [q EXCEPT !.owed = TRUE] \in Recursions /\ [q EXCEPT !.owed = TRUE].base = q.base
    BY DEF Recursions
  <2> QED BY <1>3, <2>1
<1> HIDE DEF recursion
<1>5. /\ engine' \in Seq(Recursions) /\ Len(engine') = Len(engine)
      /\ engine'[rec] = recursion
      /\ \A r \in 1..Len(engine) : r # rec => engine'[r] = engine[r]
  BY ONLY <1>3, <1>4, rec \in 1..Len(engine)
<1>6. /\ flight' \in Errors /\ depths' = depths /\ spans' \in Nat
      /\ crossing' = crossing
      /\ \A r \in 1..Len(engine) : engine'[r].base = engine[r].base
  BY <1>4, <1>5 DEF Errors, IInv, Types
<1>7. /\ Types' /\ Shape' /\ BasesHeld' /\ SpansHeld' /\ Counting'
  BY <1>5, <1>6, Raises
<1>8. Discarded'
  BY DEF Discarded
<1>9. Owing'
  BY <1>1, <1>2, <1>5, <1>6 DEF IInv, Owing
<1> QED BY <1>7, <1>8, <1>9 DEF IInv

(* The root is asked to start over.                                         *)
LEMMA FinishRetryStep ==
    ASSUME IInv, At("subtree", "back"), Top.level = 0, StartOver(Top.rec),
           flight' = "finishRetry", stack' = Unwound(Len(stack)),
           UNCHANGED <<crossing, depths, completed, reports>>
    PROVE  IInv'
<1>1. flight = NoError /\ IsTree(Top)
  BY DEF At, IsTree
<1>2. PICK rec \in 1..Len(engine) : rec = Top.rec /\ rec = Len(engine)
  BY <1>1, TopOwned DEF IInv
<1>3. /\ spans' = engine[rec].base /\ spans' \in Nat
      /\ engine' \in Seq(Recursions) /\ Len(engine') = Len(engine)
      /\ \A r \in 1..Len(engine) :
            engine'[r].base = engine[r].base
            /\ (engine'[r].owed => engine[r].owed /\ r # rec)
  BY <1>2, StartsOver DEF IInv
<1>4. flight' \in Errors
  BY DEF Errors
<1>5. /\ Types' /\ Shape' /\ BasesHeld' /\ SpansHeld' /\ Counting' /\ IsAttempt(Top')
  BY <1>2, <1>3, <1>4, Raises
<1>6. Discarded'
  BY <1>2, <1>3, <1>5 DEF Discarded
<1>7. Owing'
  BY <1>1, <1>3 DEF IInv, Owing
<1> QED BY <1>5, <1>6, <1>7 DEF IInv

(* The innermost recursion is given up.                                     *)
LEMMA GiveUpStep ==
    ASSUME IInv, Caught, NEW error \in {"assume", "other"}, GiveUp(error),
           UNCHANGED <<crossing, completed, reports>>
    PROVE  IInv'
<1>1. /\ IsAttempt(Top) /\ stack' = Unwound(Len(stack) - 1)
      /\ depths' = SubSeq(depths, 1, Len(depths) - 1)
      /\ engine' = SubSeq(engine, 1, Len(engine) - 1)
      /\ flight' = error /\ spans' = spans
  BY DEF Caught, IsAttempt, GiveUp, Left, ButLast
<1>2. PICK e \in Nat : Len(engine) = e + 1 /\ Top.rec = e + 1
  <2>1. Top.rec = Len(engine) /\ Len(engine) - 1 \in Nat
    BY <1>1, TopAttempt DEF IInv
  <2> QED BY <2>1
<1>3. PICK last \in Nat \ {0} : last = Len(stack)
  BY DEF IInv, Types
<1>4. PICK n \in Nat \ {0} : last = n + 1
  <2>1. last # 1
    BY <1>1, <1>3, TopIs DEF IInv, Shape, Nested, IsAttempt
  <2>2. last - 1 \in Nat \ {0}
    BY ONLY <2>1
  <2> QED BY <2>2
<1>5. /\ engine' \in Seq(Recursions) /\ Len(engine') = e
      /\ \A r \in 1..e : engine'[r] = engine[r]
      /\ depths' \in Seq(Nat) /\ Len(depths') = e + 1
      /\ \A r \in 1..(e + 1) : depths'[r] = depths[r]
  <2>1. engine \in Seq(Recursions) /\ depths \in Seq(Nat) /\ Len(depths) = e + 2
    BY <1>2 DEF IInv, Types
  <2> QED BY ONLY <1>1, <1>2, <2>1
<1>6. n \in 1..Len(stack) /\ e \in 0..Len(engine) /\ stack' = Unwound(n)
      /\ flight' \in Errors /\ spans' \in Nat
  <2>1. n \in 1..Len(stack) /\ e \in 0..Len(engine) /\ n = Len(stack) - 1
    BY <1>2, <1>3, <1>4
  <2>2. flight' \in Errors /\ spans' \in Nat
    BY <1>1 DEF IInv, Types, Errors
  <2> QED BY <1>1, <2>1, <2>2
<1>7. \A a \in 1..Len(stack) : IsAttempt(stack[a]) => (a <= n <=> stack[a].rec <= e)
  <2>1. ASSUME NEW a \in 1..Len(stack), IsAttempt(stack[a])
        PROVE  a <= n <=> stack[a].rec <= e
    <3>1. stack[a].rec \in 1..(e + 1) /\ Top = stack[Len(stack)]
      BY <1>2, <2>1, TopIs DEF IInv, Shape, Numbered
    <3>2. a < Len(stack) => stack[a].rec < Top.rec
      BY <1>1, <2>1, TopIs DEF IInv, Shape, Numbered
    <3>3. a = Len(stack) => stack[a].rec = e + 1
      BY <1>2, <3>1
    <3>4. a \in 1..(n + 1) /\ Len(stack) = n + 1
      BY <1>3, <1>4
    <3> QED BY ONLY <1>2, <3>1, <3>2, <3>3, <3>4
  <2> QED BY <2>1
<1>8. \A q \in 1..e : engine'[q].base = engine[q].base /\ depths'[q] = depths[q]
  BY <1>5
<1>9. /\ Types' /\ Shape' /\ BasesHeld' /\ SpansHeld' /\ Counting'
  BY <1>5, <1>6, <1>7, <1>8, Unwinds
<1>10. Discarded'
  BY <1>1 DEF Discarded
<1>11. Owing'
  BY <1>2, <1>5 DEF IInv, Owing
<1> QED BY <1>9, <1>10, <1>11 DEF IInv

-----------------------------------------------------------------------------
(* The invariant.                                                           *)

LEMMA Initially ==
    ASSUME Init
    PROVE  IInv
<1> DEFINE body == Call("body", 0, 0, "call")
<1>1. /\ body \in Calls /\ body.kind = "body" /\ body.level = 0
      /\ ~IsAttempt(body) /\ ~IsTree(body) /\ ~HoldsSpan(body)
  BY DEF Call, Calls, Kinds, Phases, IsAttempt, IsTree, HoldsSpan
<1>2. /\ crossing \in BOOLEAN /\ stack = <<body>> /\ depths = <<0>> /\ spans = 0
      /\ engine = <<>> /\ flight = NoError /\ completed = 0 /\ reports = 0
  BY DEF Init
<1> HIDE DEF body
<1>3. /\ stack \in Seq(Calls) /\ Len(stack) = 1 /\ stack[1] = body
      /\ \A k \in 1..Len(stack) : k = 1
  BY ONLY <1>1, <1>2
<1>4. /\ depths \in Seq(Nat) /\ Len(depths) = 1 /\ depths[1] = 0
      /\ engine \in Seq(Recursions) /\ Len(engine) = 0
  BY ONLY <1>2
<1>5. Types
  BY <1>2, <1>3, <1>4 DEF Types
<1>6. Shape
  <2>1. Levelled /\ Nested
    BY <1>1, <1>2, <1>3 DEF Levelled, Nested
  <2>2. Numbered /\ Owned
    BY <1>1, <1>3, <1>4 DEF Numbered, Owned
  <2> QED BY <2>1, <2>2 DEF Shape
<1>7. Count(stack, 1) = 0
  BY <1>1, <1>3, CountIs
<1>8. BasesHeld /\ SpansHeld
  BY <1>1, <1>2, <1>3, <1>4, <1>7 DEF BasesHeld, SpansHeld, Depth, Last
<1>9. Discarded /\ Owing /\ Counting
  BY <1>2, <1>3, <1>4 DEF Discarded, Owing, Counting, ReportedOnce
<1> QED BY <1>5, <1>6, <1>8, <1>9 DEF IInv

LEMMA Inductive ==
    ASSUME IInv, [Next]_vars
    PROVE  IInv'
<1>1. CASE EngineError
  BY <1>1, FailStep DEF EngineError
<1>2. CASE Draw
  BY <1>2, DrawStep
<1>3. CASE FinishDraw
  BY <1>3, FinishDrawStep
<1>4. CASE \E rec \in 1..Len(engine), level \in Levels : DrawTree(rec, level)
  BY <1>4, DrawTreeStep
<1>5. CASE Filter
  BY <1>5, FilterStep
<1>6. CASE FilterAttempt
  <2>1. CASE Top.level < maxFilterAttempts
    BY <1>6, <2>1, FilterAttemptStep DEF FilterAttempt
  <2>2. CASE ~(Top.level < maxFilterAttempts)
    <3>1. Fail("assume") /\ flight = NoError
      BY <1>6, <2>2 DEF FilterAttempt, At
    <3> QED BY <3>1, FailStep
  <2> QED BY <2>1, <2>2
<1>7. CASE Accept
  BY <1>7, AcceptStep
<1>8. CASE Discard
  BY <1>8, DiscardStep
<1>9. CASE NewRecursion
  BY <1>9, NewRecursionStep
<1>10. CASE Subtree
  BY <1>10, SubtreeStep
<1>11. CASE SubtreeSpan
  BY <1>11, SubtreeSpanStep
<1>12. CASE Branch
  BY <1>12, BranchStep
<1>13. CASE Leaf
  BY <1>13, LeafStep, RefusedStep DEF Leaf
<1>14. CASE FinishSubtree
  BY <1>14, DoneStep, FinishRetryStep DEF FinishSubtree
<1>15. CASE FinishAttempt
  BY <1>15, FinishAttemptStep
<1>16. CASE Retry
  BY <1>16, RetryStep, GiveUpStep DEF Retry
<1>17. CASE Continue
  BY <1>17, ContinueStep
<1>18. CASE PassOn
  BY <1>18, GiveUpStep DEF PassOn
<1>19. CASE UNCHANGED vars
  <2>1. /\ crossing' = crossing /\ stack' = stack /\ depths' = depths /\ spans' = spans
        /\ engine' = engine /\ flight' = flight /\ completed' = completed
        /\ reports' = reports
    BY <1>19 DEF vars
  <2>2. Types' /\ Counting'
    BY <2>1 DEF IInv, Types, Counting, ReportedOnce
  <2>3. Levelled' /\ Nested'
    BY <2>1 DEF IInv, Shape, Levelled, Nested, Top, Last
  <2>4. Numbered' /\ Owned'
    BY <2>1 DEF IInv, Shape, Numbered, Owned
  <2>5. BasesHeld' /\ SpansHeld'
    BY <2>1 DEF IInv, BasesHeld, SpansHeld, Depth, Last, Count, HeldTo
  <2>6. Discarded' /\ Owing'
    BY <2>1 DEF IInv, Discarded, Owing, Top, Last
  <2> QED BY <2>2, <2>3, <2>4, <2>5, <2>6 DEF IInv, Shape
<1> QED
  BY <1>1, <1>2, <1>3, <1>4, <1>5, <1>6, <1>7, <1>8, <1>9, <1>10, <1>11, <1>12,
     <1>13, <1>14, <1>15, <1>16, <1>17, <1>18, <1>19 DEF Next, Finished

LEMMA Invariance == Spec => []IInv
<1>1. Init => IInv
  BY Initially
<1>2. IInv /\ [Next]_vars => IInv'
  BY Inductive
<1> QED BY <1>1, <1>2, PTL DEF Spec

-----------------------------------------------------------------------------
(* What follows.                                                            *)

(* Every variable has the values that it was declared for, the body is the  *)
(* outermost call, and there are as many copies of the test case as         *)
(* attempts of recursions, and the body's.                                  *)
THEOREM TypeCorrect == Spec => []TypeOK
<1>1. IInv => TypeOK
  <2> SUFFICES ASSUME IInv PROVE TypeOK
    OBVIOUS
  <2>1. \A k \in 1..Len(stack) :
            /\ (stack[k].kind = "body") = (k = 1)
            /\ stack[k].kind = "attempt" => stack[k].rec \in 1..Len(engine)
    <3> SUFFICES ASSUME NEW k \in 1..Len(stack)
                 PROVE  /\ (stack[k].kind = "body") = (k = 1)
                        /\ stack[k].kind = "attempt" => stack[k].rec \in 1..Len(engine)
      OBVIOUS
    <3>1. stack[k].kind = "body" <=> k = 1
      BY DEF IInv, Shape, Nested
    <3>2. stack[k].kind = "attempt" => stack[k].rec \in 1..Len(engine)
      BY DEF IInv, Shape, Numbered, IsAttempt
    <3> QED BY ONLY <3>1, <3>2
  <2>2. Scopes = {1} \cup {k \in 1..Len(stack) : stack[k].rec \in 1..Len(engine)
                                               /\ stack[k].kind = "attempt"}
    <3>1. 1 \in 1..Len(stack)
      BY DEF IInv, Types
    <3> QED BY <2>1, <3>1 DEF Scopes
  <2> QED BY <2>1, <2>2 DEF TypeOK, IInv, Types, Calls, Kinds, Phases, Recursions
<1> QED BY <1>1, Invariance, PTL

(* "The scoped TestCase passed to invoke keeps their Go-side depth from     *)
(* leaking": whenever something is drawn, the depth of its test case, the   *)
(* engine's open spans and the generators at work are the same number.      *)
THEOREM DepthsAlwaysAgree == Spec => []DepthsAgree
<1>1. IInv => DepthsAgree
  <2> SUFFICES ASSUME IInv PROVE DepthsAgree
    OBVIOUS
  <2>1. Cardinality(Held) = Count(stack, Len(stack))
    BY DEF Held, Count, HeldTo
  <2> QED BY <2>1 DEF IInv, SpansHeld, DepthsAgree
<1> QED BY <1>1, Invariance, PTL

(* "Nested draws are reported as part of the parent's value": each draw of  *)
(* the body is reported once, and no other.                                 *)
THEOREM DrawsReportedOnce == Spec => []ReportedOnce
<1>1. IInv => ReportedOnce
  BY DEF IInv, Counting
<1> QED BY <1>1, Invariance, PTL

(* A recursion over its budget is retried before anything else is drawn, if *)
(* every recursion draws its own subtrees only.                             *)
THEOREM RetriedBeforeDraws == Spec => []OwnRetriedFirst
<1>1. IInv => OwnRetriedFirst
  BY DEF IInv, Owing, OwnRetriedFirst, RetriedFirst
<1> QED BY <1>1, Invariance, PTL
=============================================================================
