---------------------------- MODULE DefaultCache ----------------------------
(***************************************************************************)
(* The generators of Default[T]: a map from types to generators behind a   *)
(* read-write lock, shared by the goroutines of the process.  A lookup     *)
(* reads the map under the read lock and, on a miss, takes the write lock, *)
(* looks again and constructs the generator.  The construction panics for  *)
(* a type that Default does not support; the deferred unlock gives the     *)
(* lock back.                                                              *)
(*                                                                         *)
(* With options a generator is constructed that no other call gets.  What  *)
(* is constructed, and for which types, is DefaultShape's subject.         *)
(*                                                                         *)
(* A cached generator is the number of its construction.                   *)
(***************************************************************************)
EXTENDS DefaultShape, FiniteSets

CONSTANTS
    Goroutines,
    Types,       \* the types user code asks for without options
    Supported,   \* those a generator can be constructed for
    Programs,    \* the types of the programs that ask with options
    Root,        \* the type they ask for
    OptionLists, \* and the options
    MaxMade      \* bound on constructions

VARIABLES
    byType,    \* defaultGenerators.byType; 0 is a missing entry
    readers,   \* who holds the read lock
    writers,   \* who holds the write lock
    lookup,    \* each goroutine's place in Default and its type
    made,      \* the number of generators constructed
    handedOut  \* history: the cached generators Default returned, by type

vars == <<byType, readers, writers, lookup, made, handedOut>>

NoLookup == [at |-> "idle"]
At(g, place, t) == lookup[g] = [at |-> place, type |-> t]
Goto(g, place, t) == lookup' = [lookup EXCEPT ![g] = [at |-> place, type |-> t]]
Places == {"call", "read", "missed", "recheck", "return", "panic"}

Init ==
    /\ byType = [t \in Types |-> 0]
    /\ readers = {}
    /\ writers = {}
    /\ lookup = [g \in Goroutines |-> NoLookup]
    /\ made = 0
    /\ handedOut = [t \in Types |-> {}]

(* Default[T]().                                                            *)
Ask(g, t) ==
    /\ lookup[g] = NoLookup
    /\ Goto(g, "call", t)
    /\ UNCHANGED <<byType, readers, writers, made, handedOut>>

(* Default[T](options...) shares nothing with other calls: all of it is one *)
(* step.                                                                    *)
BuildOwn(g) ==
    /\ lookup[g] = NoLookup
    /\ \E types \in Programs, options \in OptionLists :
        lookup' = [lookup EXCEPT ![g] =
            [at |-> "built", types |-> types, options |-> options,
             generator |-> NewDefaultGenerator(types, options, Root)]]
    /\ UNCHANGED <<byType, readers, writers, made, handedOut>>

Drop(g) ==
    /\ lookup' = [lookup EXCEPT ![g] = NoLookup]
    /\ UNCHANGED <<byType, readers, writers, made, handedOut>>

ReadLock(g, t) ==
    /\ At(g, "call", t)
    /\ writers = {}
    /\ readers' = readers \cup {g}
    /\ Goto(g, "read", t)
    /\ UNCHANGED <<byType, writers, made, handedOut>>

HandOut(t, generator) == handedOut' = [handedOut EXCEPT ![t] = @ \cup {generator}]

Read(g, t) ==
    /\ At(g, "read", t)
    /\ readers' = readers \ {g}
    /\ IF byType[t] # 0
       THEN Goto(g, "return", t) /\ HandOut(t, byType[t])
       ELSE Goto(g, "missed", t) /\ UNCHANGED handedOut
    /\ UNCHANGED <<byType, writers, made>>

WriteLock(g, t) ==
    /\ At(g, "missed", t)
    /\ readers = {} /\ writers = {}
    /\ writers' = {g}
    /\ Goto(g, "recheck", t)
    /\ UNCHANGED <<byType, readers, made, handedOut>>

(* The lock is kept when the construction panics: a faulty variant of       *)
(* AfterPanic.                                                              *)
KeptByPanic == writers

AfterPanic == {}

(* The first miss counts: a faulty variant of Missing.                      *)
MissingBefore(t) == TRUE

Missing(t) == byType[t] = 0

(* The second lookup, the construction and the deferred unlock.             *)
Construct(g, t) ==
    /\ At(g, "recheck", t)
    /\ \/ /\ ~Missing(t)
          /\ HandOut(t, byType[t])
          /\ writers' = {}
          /\ Goto(g, "return", t)
          /\ UNCHANGED <<byType, made>>
       \/ /\ Missing(t) /\ t \in Supported /\ made < MaxMade
          /\ made' = made + 1
          /\ byType' = [byType EXCEPT ![t] = made + 1]
          /\ HandOut(t, made + 1)
          /\ writers' = {}
          /\ Goto(g, "return", t)
       \/ /\ Missing(t) /\ t \notin Supported
          /\ writers' = AfterPanic
          /\ Goto(g, "panic", t)
          /\ UNCHANGED <<byType, made, handedOut>>
    /\ UNCHANGED readers

Step(g, t) ==
    \/ Ask(g, t) \/ ReadLock(g, t) \/ Read(g, t) \/ WriteLock(g, t) \/ Construct(g, t)

Finished(g) == \E t \in Types : At(g, "return", t) \/ At(g, "panic", t)

-----------------------------------------------------------------------------
TypeOK ==
    /\ byType \in [Types -> 0..MaxMade]
    /\ readers \subseteq Goroutines
    /\ writers \subseteq Goroutines
    /\ Cardinality(writers) <= 1
    /\ writers # {} => readers = {}
    /\ \A g \in writers : \E t \in Types : At(g, "recheck", t)
    /\ \A g \in Goroutines :
        \/ lookup[g] \in {NoLookup} \cup [at : Places, type : Types]
        \/ lookup[g].at = "built" /\ lookup[g].options \in OptionLists
    /\ made \in 0..MaxMade
    /\ handedOut \in [Types -> SUBSET (1..MaxMade)]

(* "Default returns the same cached generator for each type when no options *)
(* are supplied", whichever goroutines ask for it first at the same time.   *)
SameGenerator == \A t \in Types : Cardinality(handedOut[t]) <= 1

(* A generator is constructed exactly for the types that Default promises,  *)
(* and draws every part of every type from the override that comes first,   *)
(* whatever the types refer to and however often.                           *)
DefaultsFollowTypes ==
    \A g \in Goroutines : lookup[g].at = "built" =>
        Conforms(lookup[g].types, lookup[g].options, Root, lookup[g].generator)
=============================================================================
