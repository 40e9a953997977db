---------------------------- MODULE Collections ----------------------------
(***************************************************************************)
(* Lists, unique lists and maps: the loops of collections.go and of the    *)
(* slices and maps of default.go over the collection protocol of runner.go.*)
(*                                                                         *)
(* The engine counts the elements it has asked for and the Go side keeps   *)
(* those it accepted.  An element that repeats a key is given back with    *)
(* Reject.  Errors of More and Reject are put aside, end the loop as if    *)
(* the collection were complete, and are looked at after it.               *)
(*                                                                         *)
(* Sizes are ints of Bits bits, which the engine gets as unsigned numbers, *)
(* the greatest of them standing for no maximum.  An element is its key.   *)
(* A key that is not equal to itself, as NaN, is new every time.           *)
(***************************************************************************)
EXTENDS Integers, Sequences, FiniteSets

CONSTANTS
    Goroutines,  \* each draws in a test case of its own
    Bits,        \* width of an int
    Sizes,       \* the sizes user code asks for
    Keys,        \* the keys elements have
    Irreflexive, \* those that are not equal to themselves
    MaxLength    \* bound on the elements of an unbounded collection

Unsigned(n) == n % 2^Bits
NoMaximum == 2^Bits - 1

VARIABLES
    draw,    \* each goroutine's generator: its kind, place and sizes
    pending, \* the key whose value is being drawn
    coll,    \* the engine's collection: its bounds and its count
    result,  \* the elements accepted
    failed   \* collection.err

vars == <<draw, pending, coll, result, failed>>

NoDraw == [at |-> "idle", kind |-> "list", min |-> 0, max |-> 0, hasMax |-> FALSE]
NoKey == "none"
NoColl == [min |-> 0, max |-> 0, count |-> 0, over |-> FALSE]
Places == {"call", "more", "element", "key", "value", "after", "return", "error"}
Config == [kind : {"list", "unique", "map"}, min : Sizes, max : Sizes,
           hasMax : BOOLEAN]

Init ==
    /\ draw = [g \in Goroutines |-> NoDraw]
    /\ pending = [g \in Goroutines |-> NoKey]
    /\ coll = [g \in Goroutines |-> NoColl]
    /\ result = [g \in Goroutines |-> <<>>]
    /\ failed = [g \in Goroutines |-> FALSE]

At(g, place) == draw[g].at = place
Goto(g, place) == draw' = [draw EXCEPT ![g].at = place]

(* A default generator's slice or map has no bounds.                        *)
Start(g) ==
    /\ draw[g] = NoDraw
    /\ \E c \in Config :
        draw' = [draw EXCEPT ![g] = [at |-> "call", kind |-> c.kind,
            min |-> c.min, max |-> IF c.hasMax THEN c.max ELSE c.min,
            hasMax |-> c.hasMax]]
    /\ UNCHANGED <<pending, coll, result, failed>>

Valid(c) ==
    /\ c.min >= 0
    /\ c.hasMax => c.max >= 0 /\ c.min <= c.max

(* The checks of the generator and testCase.newCollection, which may fail.  *)
Open(g) ==
    /\ At(g, "call")
    /\ \/ /\ Valid(draw[g])
          /\ coll' = [coll EXCEPT ![g] =
                [NoColl EXCEPT !.min = Unsigned(draw[g].min),
                    !.max = IF draw[g].hasMax THEN Unsigned(draw[g].max)
                            ELSE NoMaximum]]
          /\ Goto(g, "more")
       \/ Goto(g, "error") /\ UNCHANGED coll
    /\ UNCHANGED <<pending, result, failed>>

-----------------------------------------------------------------------------
(* collection.More.                                                         *)

(* The engine asks for elements up to the minimum, for none beyond the      *)
(* maximum, and decides in between.                                         *)
EngineAsks(c) == c.count < c.max /\ c.count < MaxLength
EngineStops(c) == c.count >= c.min

More(g) ==
    /\ At(g, "more")
    /\ \/ /\ failed[g]
          /\ Goto(g, "after")
          /\ UNCHANGED <<coll, failed>>
       \/ /\ ~failed[g] /\ EngineAsks(coll[g])
          /\ coll' = [coll EXCEPT ![g].count = @ + 1]
          /\ Goto(g, "element")
          /\ UNCHANGED failed
       \/ /\ ~failed[g] /\ EngineStops(coll[g])
          /\ coll' = [coll EXCEPT ![g].over = TRUE]
          /\ Goto(g, "after")
          /\ UNCHANGED failed
       \/ /\ ~failed[g]
          /\ failed' = [failed EXCEPT ![g] = TRUE]
          /\ Goto(g, "after")
          /\ UNCHANGED coll
    /\ UNCHANGED <<pending, result>>

-----------------------------------------------------------------------------
(* The loop's body.                                                         *)

SameKey(j, k) == j = k /\ j \notin Irreflexive
Repeats(g, k) == \E i \in 1..Len(result[g]) : SameKey(result[g][i], k)
Accept(g, k) == result' = [result EXCEPT ![g] = Append(@, k)]

(* The element is dropped and the engine not told: a faulty variant of      *)
(* GivenBack.                                                               *)
DroppedOnly(c) == c

(* collection.Reject.                                                       *)
GivenBack(c) == [c EXCEPT !.count = @ - 1]

(* draw(tc, g.elements) and, for maps, draw(tc, g.keys).                    *)
Element(g) ==
    /\ At(g, "element")
    /\ \E k \in Keys :
        \/ /\ draw[g].kind = "list"
           /\ Accept(g, k)
           /\ Goto(g, "more")
           /\ UNCHANGED <<pending, coll, failed>>
        \/ /\ draw[g].kind # "list" /\ Repeats(g, k)
           /\ \/ /\ coll' = [coll EXCEPT ![g] = GivenBack(@)]
                 /\ UNCHANGED failed
              \/ /\ failed' = [failed EXCEPT ![g] = TRUE]
                 /\ UNCHANGED coll
           /\ Goto(g, "more")
           /\ UNCHANGED <<pending, result>>
        \/ /\ draw[g].kind = "unique" /\ ~Repeats(g, k)
           /\ Accept(g, k)
           /\ Goto(g, "more")
           /\ UNCHANGED <<pending, coll, failed>>
        \/ /\ draw[g].kind = "map" /\ ~Repeats(g, k)
           /\ pending' = [pending EXCEPT ![g] = k]
           /\ Goto(g, "value")
           /\ UNCHANGED <<coll, result, failed>>

(* draw(tc, g.values), after which the map gets the entry.                  *)
Value(g) ==
    /\ At(g, "value")
    /\ Accept(g, pending[g])
    /\ Goto(g, "more")
    /\ UNCHANGED <<pending, coll, failed>>

(* An element, a key or a value cannot be drawn or, in a unique list, not   *)
(* be compared: the generator returns the error.                            *)
ElementError(g) ==
    /\ At(g, "element") \/ At(g, "value")
    /\ Goto(g, "error")
    /\ UNCHANGED <<pending, coll, result, failed>>

(* collection.Err.                                                          *)
Finish(g) ==
    /\ At(g, "after")
    /\ Goto(g, IF failed[g] THEN "error" ELSE "return")
    /\ UNCHANGED <<pending, coll, result, failed>>

Step(g) ==
    \/ Start(g) \/ Open(g) \/ More(g) \/ Element(g) \/ Value(g)
    \/ ElementError(g) \/ Finish(g)

Finished(g) == At(g, "return") \/ At(g, "error")

(* The test case goes away with what it drew.                               *)
Forget(g) ==
    /\ draw' = [draw EXCEPT ![g] = NoDraw]
    /\ pending' = [pending EXCEPT ![g] = NoKey]
    /\ coll' = [coll EXCEPT ![g] = NoColl]
    /\ result' = [result EXCEPT ![g] = <<>>]
    /\ failed' = [failed EXCEPT ![g] = FALSE]

-----------------------------------------------------------------------------
TypeOK ==
    /\ draw \in [Goroutines -> [at : Places \cup {"idle"},
            kind : {"list", "unique", "map"}, min : Sizes \cup {0},
            max : Sizes \cup {0}, hasMax : BOOLEAN]]
    /\ pending \in [Goroutines -> Keys \cup {NoKey}]
    /\ coll \in [Goroutines -> [min : 0..NoMaximum, max : 0..NoMaximum,
            count : 0..MaxLength, over : BOOLEAN]]
    /\ result \in [Goroutines -> Seq(Keys)]
    /\ failed \in [Goroutines -> BOOLEAN]

(* The engine works with the sizes the user gave: no negative size reaches  *)
(* it as a huge one, none is taken for no maximum.                          *)
BoundsArrive(g) ==
    draw[g].at \in {"more", "element", "value", "after", "return"} =>
        /\ coll[g].min = draw[g].min
        /\ IF draw[g].hasMax THEN coll[g].max = draw[g].max
           ELSE coll[g].max = NoMaximum

(* A collection is returned only when the engine has said that it is over;  *)
(* then both sides count the same elements, as many as the bounds allow and *)
(* with distinct keys where they must be.                                   *)
Sound(g) ==
    At(g, "return") =>
        /\ coll[g].over /\ coll[g].count = Len(result[g])
        /\ Len(result[g]) >= draw[g].min
        /\ draw[g].hasMax => Len(result[g]) <= draw[g].max
        /\ draw[g].kind # "list" =>
            \A i, j \in 1..Len(result[g]) :
                SameKey(result[g][i], result[g][j]) => i = j
=============================================================================
