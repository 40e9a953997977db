----------------------------- MODULE AtomicPool -----------------------------
(***************************************************************************)
(* What the comments of pool.go promise of a Pool that concurrent workers  *)
(* share: every operation takes effect at one instant.  Add registers a    *)
(* value, a reusable draw returns a registered one, a consuming draw       *)
(* removes what it returns, a draw from an empty pool is a rejection, and  *)
(* Len counts.                                                             *)
(***************************************************************************)
EXTENDS Naturals, FiniteSets

CONSTANTS Workers, Values, Ids, NoValue

VARIABLES
    contents,  \* the value registered under each id, or NoValue
    answer     \* what the last operation of each worker returned

vars == <<contents, answer>>

Registered == {i \in Ids : contents[i] # NoValue}

Value(v) == [kind |-> "value", value |-> v]
Outcome(kind) == [kind |-> kind, value |-> NoValue]
Size(n) == [kind |-> "len", value |-> n]

Init ==
    /\ contents = [i \in Ids |-> NoValue]
    /\ answer = [w \in Workers |-> Outcome("none")]

Answer(w, a) == answer' = [answer EXCEPT ![w] = a]

Add(w, v) ==
    /\ \E i \in Ids \ Registered : contents' = [contents EXCEPT ![i] = v]
    /\ Answer(w, Outcome("added"))

Draw(w, i) ==
    /\ Answer(w, Value(contents[i]))
    /\ UNCHANGED contents

Consume(w, i) ==
    /\ Answer(w, Value(contents[i]))
    /\ contents' = [contents EXCEPT ![i] = NoValue]

Reject(w) ==
    /\ Registered = {}
    /\ Answer(w, Outcome("assume"))
    /\ UNCHANGED contents

Len(w) ==
    /\ Answer(w, Size(Cardinality(Registered)))
    /\ UNCHANGED contents

(* The engine ends the test case: the operation has no effect.              *)
Fail(w) ==
    /\ Answer(w, Outcome("engine"))
    /\ UNCHANGED contents

Next ==
    \E w \in Workers :
        \/ \E v \in Values : Add(w, v)
        \/ \E i \in Registered : Draw(w, i) \/ Consume(w, i)
        \/ Reject(w) \/ Len(w) \/ Fail(w)

Spec == Init /\ [][Next]_vars
=============================================================================
