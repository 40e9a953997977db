--------------------------- MODULE PrimitiveDraws ---------------------------
(***************************************************************************)
(* Draws of integers and of texts: what primitives.go makes of the         *)
(* generator's configuration, how it travels to the engine                 *)
(* (internal/libhegel/libhegel.go), and what comes back.                   *)
(*                                                                         *)
(* A word is WordBytes bytes of ByteBits bits; it stands for int64 and     *)
(* uint64.  Bounds that do not fit a signed word, and the number drawn     *)
(* between them, travel as two's complement bytes, least byte first.       *)
(*                                                                         *)
(* A text's alphabet is the set of characters that the engine may choose   *)
(* from.  The engine is taken to allow the characters of the categories it *)
(* is given, or of all but the excluded ones, within the codepoints, and   *)
(* those included, but never those excluded.                               *)
(***************************************************************************)
EXTENDS Integers, Sequences, SequencesExt, FiniteSetsExt

CONSTANTS
    Goroutines,   \* each draws in a test case of its own
    ByteBits, WordBytes,
    IntegerBits,  \* the widths of the integer types
    Characters,   \* a sequence of characters, by codepoint: their categories
    Calls,        \* the calls of a builder's methods
    MaxCalls      \* bound on how many of them build a generator

VARIABLE prim     \* each goroutine's draw

-----------------------------------------------------------------------------
(* Integers.                                                                *)

Word == ByteBits * WordBytes
Byte == 2^ByteBits
Numbers(n) == 2^(ByteBits * n)  \* those of n bytes
IntegerType == [signed : BOOLEAN, bits : IntegerBits]
Least(type) == IF type.signed THEN -(2^(type.bits - 1)) ELSE 0
Greatest(type) == IF type.signed THEN 2^(type.bits - 1) - 1 ELSE 2^type.bits - 1

fitsInt64(type, v) == type.signed \/ v <= 2^(Word - 1) - 1

(* The conversion T(v) of a Go integer: its low bits, read as T reads them. *)
Converted(type, v) ==
    LET low == v % 2^type.bits
    IN IF low > Greatest(type) THEN low - 2^type.bits ELSE low

(* Without a sign byte: a faulty variant of LastByte.                       *)
NothingRemains(signed, rest, b) == rest = 0 \/ (signed /\ rest = -1)

(* Nothing remains and the top bit says the sign.                           *)
LastByte(signed, rest, b) ==
    \/ rest = 0 /\ b < Byte \div 2
    \/ signed /\ rest = -1 /\ b >= Byte \div 2

NewBigInt(type, v) ==
    LET Bytes[x \in (IF type.signed THEN Int ELSE Nat)] ==
            LET b == x % Byte rest == x \div Byte
            IN <<b>> \o (IF LastByte(type.signed, rest, b) THEN <<>> ELSE Bytes[rest])
    IN Bytes[v]

Magnitude(bytes) ==
    LET Low[n \in 0..Len(bytes)] ==
            IF n = 0 THEN 0 ELSE Low[n - 1] + bytes[n] * Numbers(n - 1)
    IN Low[Len(bytes)]

(* How the engine reads and writes its numbers.                             *)
EngineReads(bytes) ==
    Magnitude(bytes) - (IF Last(bytes) >= Byte \div 2 THEN Numbers(Len(bytes)) ELSE 0)
EngineWrites(v) ==
    LET half(n) == Numbers(n) \div 2
        length == Min({n \in 1..WordBytes + 1 : -half(n) <= v /\ v < half(n)})
    IN [n \in 1..length |-> (v \div Numbers(n - 1)) % Byte]

(* BigInt.Uint64; bytes beyond the word must be zero.                       *)
Overflows(bytes) == \E i \in DOMAIN bytes : i > WordBytes /\ bytes[i] # 0
Uint64(bytes) == Magnitude(SubSeq(bytes, 1, Min({WordBytes, Len(bytes)})))

Idle == [at |-> "idle"]

(* Integers panics if the bounds are swapped, before there is a draw.       *)
DrawInteger(g) ==
    /\ prim[g] = Idle
    /\ \E type \in IntegerType :
       \E min, max \in Least(type)..Greatest(type) :
        /\ min <= max
        /\ LET big == ~(fitsInt64(type, min) /\ fitsInt64(type, max))
               asked(v) == IF big THEN EngineReads(NewBigInt(type, v)) ELSE v
           IN prim' = [prim EXCEPT ![g] =
                [at |-> "asked", type |-> type, min |-> min, max |-> max, big |-> big,
                 low |-> asked(min), high |-> asked(max)]]

(* hegel_generate_integer and hegel_generate_integer_big, and the           *)
(* conversion of what they drew.                                            *)
ReturnInteger(g) ==
    /\ prim[g].at = "asked"
    /\ LET asked == prim[g] IN
       \/ \E v \in asked.low..asked.high :
            LET bytes == EngineWrites(v)
                result == CASE ~asked.big -> v
                            [] asked.big /\ ~Overflows(bytes) -> Uint64(bytes)
                            [] asked.big /\ Overflows(bytes) -> -1
            IN prim' = [prim EXCEPT ![g] =
                 [at |-> IF asked.big /\ Overflows(bytes) THEN "panic" ELSE "integer",
                  asked |-> asked, drawn |-> v, value |-> Converted(asked.type, result)]]
       \/ prim' = [prim EXCEPT ![g] = [at |-> "error"]]

-----------------------------------------------------------------------------
(* Texts.                                                                   *)

Codepoints == DOMAIN Characters
SurrogateCategories == {"Cs", "C"}
CallOf(method, arg) == [method |-> method, arg |-> arg]

NoFields == [categories |-> {}, hasCategoriesSet |-> FALSE, excludeCategories |-> {},
             includeCharacters |-> {}, excludeCharacters |-> {},
             minCodepoint |-> 1, maxCodepoint |-> Len(Characters)]
NewText == [fields |-> NoFields, alphabetCalled |-> FALSE, charParamCalled |-> FALSE]

WithParam(gen, field, arg) ==
    [gen EXCEPT !.charParamCalled = TRUE, !.fields = [@ EXCEPT ![field] = arg]]

(* One call of a builder's method.                                          *)
Called(gen, call) ==
    CASE call.method = "Alphabet" ->
            [gen EXCEPT !.alphabetCalled = TRUE,
                        !.fields = [NoFields EXCEPT !.hasCategoriesSet = TRUE,
                                                    !.includeCharacters = call.arg]]
      [] call.method = "categories" ->
            WithParam([gen EXCEPT !.fields.hasCategoriesSet = TRUE], "categories", call.arg)
      [] OTHER -> WithParam(gen, call.method, call.arg)

NamesSurrogates(categories) == categories \cap SurrogateCategories # {}

(* textArgs: categories that are asked for leave out the excluded ones.     *)
TextArgs(fields) ==
    IF fields.hasCategoriesSet
    THEN [only |-> TRUE, categories |-> fields.categories]
    ELSE [only |-> FALSE, categories |-> fields.excludeCategories \cup {"Cs"}]

InCategory(c, categories) == Characters[c] \cap categories # {}

EngineAlphabet(args, fields) ==
    ({c \in Codepoints :
        /\ InCategory(c, args.categories) = args.only
        /\ c \in fields.minCodepoint..fields.maxCodepoint}
     \cup fields.includeCharacters)
    \ fields.excludeCharacters

(* Text() and its methods, and the checks of the draw before it asks the    *)
(* engine.                                                                  *)
DrawText(g) ==
    /\ prim[g] = Idle
    /\ \E calls \in BoundedSeq(Calls, MaxCalls) :
        LET gen == FoldLeft(Called, NewText, calls)
            refused == \/ gen.alphabetCalled /\ gen.charParamCalled
                       \/ /\ gen.fields.hasCategoriesSet
                          /\ NamesSurrogates(gen.fields.categories)
        IN prim' = [prim EXCEPT ![g] =
              IF refused THEN [at |-> "refused", calls |-> calls]
              ELSE [at |-> "text", calls |-> calls,
                    alphabet |-> EngineAlphabet(TextArgs(gen.fields), gen.fields)]]

Step(g) == DrawInteger(g) \/ ReturnInteger(g) \/ DrawText(g)
Finished(g) == prim[g].at \in {"integer", "error", "panic", "text", "refused"}
Forget(g) == prim' = [prim EXCEPT ![g] = Idle]

Init == prim = [g \in Goroutines |-> Idle]

-----------------------------------------------------------------------------
TypeOK ==
    \A g \in Goroutines :
        prim[g].at \in {"idle", "asked", "integer", "error", "panic", "text", "refused"}

(* The engine draws between the bounds that the generator was given,        *)
(* whichever way they travel, and the number it draws is the one returned.  *)
IntegersArrive ==
    \A g \in Goroutines :
        /\ prim[g].at = "asked" => prim[g].low = prim[g].min /\ prim[g].high = prim[g].max
        /\ prim[g].at = "integer" => prim[g].value = prim[g].drawn
        /\ prim[g].at # "panic"

(* What the comments on the methods say of a sequence of calls.             *)
LastArg(calls, method, otherwise) ==
    LET these == {i \in DOMAIN calls : calls[i].method = method}
    IN IF these = {} THEN otherwise ELSE calls[Max(these)].arg
Has(calls, method) == \E i \in DOMAIN calls : calls[i].method = method

Forbidden(calls) ==
    \/ /\ Has(calls, "Alphabet")
       /\ \E i \in DOMAIN calls : calls[i].method # "Alphabet"
    \/ LastArg(calls, "categories", {}) \cap {"Cs", "C"} # {}

Documented(calls) ==
    IF Has(calls, "Alphabet") THEN LastArg(calls, "Alphabet", {})
    ELSE ({c \in Codepoints :
            /\ Has(calls, "categories") => InCategory(c, LastArg(calls, "categories", {}))
            /\ ~InCategory(c, LastArg(calls, "excludeCategories", {}) \cup {"Cs"})
            /\ c >= LastArg(calls, "minCodepoint", 1)
            /\ c <= LastArg(calls, "maxCodepoint", Len(Characters))}
          \cup LastArg(calls, "includeCharacters", {}))
         \ LastArg(calls, "excludeCharacters", {})

(* Whatever methods are called in whatever order, no text has a surrogate,  *)
(* which Go strings cannot represent, combinations that are excluded by the *)
(* comments are refused, and the alphabet is the documented one: except     *)
(* that ExcludeCategories has no effect together with Categories.           *)
TextsAsBuilt ==
    \A g \in Goroutines :
        /\ prim[g].at = "refused" => Forbidden(prim[g].calls)
        /\ prim[g].at = "text" =>
            /\ ~Forbidden(prim[g].calls)
            /\ \A c \in prim[g].alphabet : ~InCategory(c, {"Cs"})
            /\ \/ /\ Has(prim[g].calls, "categories")
                  /\ Has(prim[g].calls, "excludeCategories")
               \/ prim[g].alphabet = Documented(prim[g].calls)

PrimitivesArrive == IntegersArrive /\ TextsAsBuilt
=============================================================================
