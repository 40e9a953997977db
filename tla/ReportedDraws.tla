--------------------------- MODULE ReportedDraws ---------------------------
(***************************************************************************)
(* Goroutines that draw a collection each, the workers of a state machine  *)
(* or parallel tests: a goroutine finds the default generator of a type or *)
(* constructs one of its own, draws a list, a unique list, a map, an       *)
(* integer or a text with it in a test case of its own, and reports the    *)
(* value with the statement that drew it.  The caches of the first and the *)
(* last step are those of the process; DefaultCache, Collections or        *)
(* PrimitiveDraws, and SourceCache are the three steps.                    *)
(***************************************************************************)
EXTENDS Integers, Sequences, FiniteSets

CONSTANTS
    Goroutines,
    Types, Supported, Programs, Root, OptionLists, MaxMade,   \* of DefaultCache
    Bits, Sizes, Keys, Irreflexive, MaxLength,     \* of Collections
    ByteBits, WordBytes, IntegerBits, Characters, Calls, MaxCalls,   \* of PrimitiveDraws
    Lines, Versions, MaxEdits                      \* of SourceCache

(* The parts of a program's types are types of the program.                 *)
ASSUME ProgramsAssumption ==
    /\ \A types \in Programs :
        /\ IsFiniteSet(DOMAIN types) /\ Root \in DOMAIN types
        /\ \A name \in DOMAIN types :
            types[name].parts \in Seq([type : DOMAIN types, exported : BOOLEAN])
    /\ OptionLists \subseteq Seq([type : STRING, field : Nat])

ASSUME DrawsAssumption ==
    /\ IsFiniteSet(Goroutines)
    /\ Supported \subseteq Types
    /\ MaxMade \in Nat
    /\ {ByteBits, WordBytes} \subseteq Nat \ {0}
    /\ \A bits \in IntegerBits : bits \in 1..ByteBits * WordBytes
    /\ Characters \in Seq(SUBSET STRING)
    /\ \A c \in DOMAIN Characters : "Cs" \in Characters[c] => Characters[c] = {"C", "Cs"}
    /\ \A call \in Calls :
        \/ call.method \in {"categories", "excludeCategories"}
        \/ call.method \in {"minCodepoint", "maxCodepoint"} /\ call.arg \in Nat
        \/ /\ call.method \in {"Alphabet", "includeCharacters", "excludeCharacters"}
           /\ call.arg \subseteq {c \in DOMAIN Characters : "Cs" \notin Characters[c]}
    /\ MaxCalls \in Nat
    /\ Bits \in Nat \ {0}
    /\ MaxLength \in Nat
    /\ Sizes \subseteq Int
    /\ \A n \in Sizes : -(2^(Bits - 1)) <= n /\ n < 2^(Bits - 1) /\ n <= MaxLength
    /\ Irreflexive \subseteq Keys
    /\ MaxEdits \in Nat
    /\ {"missing", "unparsable"} \cap Versions = {}

VARIABLES
    stage,  \* each goroutine's step: "default", "draw", "report" or "done"
    byType, typeReaders, typeWriters, lookup, made, handedOut,
    draw, pending, coll, result, failed, prim,
    disk, edits, file, statements, lineReaders, lineWriters, report, reads

Default == INSTANCE DefaultCache WITH readers <- typeReaders, writers <- typeWriters
Drawn == INSTANCE Collections
Primitive == INSTANCE PrimitiveDraws
Source == INSTANCE SourceCache WITH readers <- lineReaders, writers <- lineWriters

defaultVars == <<byType, typeReaders, typeWriters, lookup, made, handedOut>>
collectionVars == <<draw, pending, coll, result, failed>>
drawVars == <<collectionVars, prim>>
sourceVars ==
    <<disk, edits, file, statements, lineReaders, lineWriters, report, reads>>
vars == <<stage, defaultVars, drawVars, sourceVars>>

Init ==
    /\ stage \in [Goroutines -> {"default", "draw"}]
    /\ Default!Init /\ Drawn!Init /\ Primitive!Init /\ Source!Init

Enter(g, next) == stage' = [stage EXCEPT ![g] = next]

(* A generator with options, or the draw of a primitive, is nobody else's:  *)
(* it is enough to make it first, and the others need not move meanwhile.   *)
NothingBegun(g) ==
    /\ \A h \in Goroutines : lookup[h] = Default!NoLookup
    /\ \A h \in Goroutines \ {g} : stage[h] = "default"
    /\ made = 0 /\ edits = 0
Undisturbed(g) ==
    \A h \in Goroutines \ {g} : lookup[h].at # "built" /\ prim[h] = Primitive!Idle

FindGenerator(g) ==
    /\ stage[g] = "default"
    /\ \E t \in Types :
        \/ Default!Step(g, t) /\ UNCHANGED stage
        \/ NothingBegun(g) /\ Default!BuildOwn(g) /\ UNCHANGED stage
        \/ /\ lookup[g].at = "built"
           /\ Enter(g, IF lookup[g].generator.ok THEN "draw" ELSE "done")
           /\ Default!Drop(g)
        \/ /\ Default!At(g, "return", t)
           /\ Enter(g, "draw")
           /\ UNCHANGED defaultVars
        \/ /\ Default!At(g, "panic", t)
           /\ Enter(g, "done")
           /\ UNCHANGED defaultVars
    /\ UNCHANGED <<drawVars, sourceVars>>

(* Test cases share nothing, so it is enough to draw in one at a time,      *)
(* while other goroutines look up and report.                               *)
DrawsAlone(g) == \A h \in Goroutines \ {g} : Drawn!At(h, "idle")

(* A value is reported when the test case has a printer.                    *)
DrawCollection(g) ==
    /\ stage[g] = "draw" /\ prim[g] = Primitive!Idle
    /\ \/ DrawsAlone(g) /\ Drawn!Step(g) /\ UNCHANGED stage
       \/ /\ Drawn!At(g, "return")
          /\ Enter(g, "report") \/ Enter(g, "done")
          /\ Drawn!Forget(g)
       \/ /\ Drawn!At(g, "error")
          /\ Enter(g, "done")
          /\ Drawn!Forget(g)
    /\ UNCHANGED <<defaultVars, prim, sourceVars>>

DrawPrimitive(g) ==
    /\ stage[g] = "draw" /\ Drawn!At(g, "idle")
    /\ \/ NothingBegun(g) /\ Primitive!Step(g) /\ UNCHANGED stage
       \/ /\ Primitive!Finished(g)
          /\ Enter(g, "report") \/ Enter(g, "done")
          /\ Primitive!Forget(g)
    /\ UNCHANGED <<defaultVars, collectionVars, sourceVars>>

ReportDraw(g) ==
    /\ stage[g] = "report"
    /\ \E l \in Lines :
        \/ Source!Step(g, l) /\ UNCHANGED stage
        \/ /\ Source!At(g, "return", l)
           /\ Enter(g, "done")
           /\ UNCHANGED sourceVars
    /\ UNCHANGED <<defaultVars, drawVars>>

EditSource == Source!Edit /\ UNCHANGED <<stage, defaultVars, drawVars>>

Finished == (\A g \in Goroutines : stage[g] = "done") /\ UNCHANGED vars

Next ==
    \/ \E g \in Goroutines :
        /\ Undisturbed(g)
        /\ FindGenerator(g) \/ DrawCollection(g) \/ DrawPrimitive(g) \/ ReportDraw(g)
    \/ (\A g \in Goroutines : Undisturbed(g)) /\ EditSource
    \/ Finished

Spec == Init /\ [][Next]_vars

-----------------------------------------------------------------------------
(* Properties.                                                              *)

TypeOK ==
    /\ stage \in [Goroutines -> {"default", "draw", "report", "done"}]
    /\ Default!TypeOK /\ Drawn!TypeOK /\ Primitive!TypeOK /\ Source!TypeOK

(* "Default returns the same cached generator for each type when no options *)
(* are supplied".                                                           *)
SameGenerator == Default!SameGenerator

(* "Options override generators for exact types or struct fields; the last  *)
(* option for a type or field wins"; Default "panics at construction for    *)
(* ... recursive or unsupported types that are not handled by an override". *)
DefaultsFollowTypes == Default!DefaultsFollowTypes

(* No size reaches the engine as another one, and a collection that is      *)
(* returned is complete, agrees with the engine's, and is within its bounds *)
(* and without repetitions.                                                 *)
SoundCollections ==
    \A g \in Goroutines : Drawn!BoundsArrive(g) /\ Drawn!Sound(g)

(* "a non-negative value whose top bit would otherwise read as negative     *)
(* gets a trailing 0x00 sign byte"; textArgs is "automatically injecting    *)
(* surrogate exclusion for Go's UTF-8 strings".                             *)
PrimitivesArrive == Primitive!PrimitivesArrive

(* "a missing or unparseable file is read at most once per process".        *)
ReadOnce == Source!ReadOnce
=============================================================================
