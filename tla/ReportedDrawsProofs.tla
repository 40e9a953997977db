------------------------ MODULE ReportedDrawsProofs ------------------------
(***************************************************************************)
(* Proofs about ReportedDraws, for any number of goroutines, types, sizes  *)
(* and lines: Default returns one generator for each type and constructs   *)
(* what the types and the options ask for, a file is read once, a          *)
(* collection that is returned is complete, agrees with the engine's and   *)
(* is within its bounds, and numbers and texts arrive as they were asked   *)
(* for.                                                                    *)
(***************************************************************************)
EXTENDS ReportedDraws, FiniteSetTheorems, FunctionTheorems, WellFoundedInduction, TLAPS

(* An array indexed by the goroutines.                                      *)
PerGoroutine(f) == f = [g \in Goroutines |-> f[g]]

(* One of the goroutines that are at the place between taking and giving    *)
(* back the write lock has it, and nobody reads meanwhile.                  *)
Exclusive(readers, writers, holders) ==
    /\ readers \subseteq Goroutines
    /\ writers = holders
    /\ \A g, h \in holders : g = h
    /\ writers # {} => readers = {}

Looking(place) == {[at |-> place, type |-> t] : t \in Types}
Rechecking == {g \in Goroutines : lookup[g] \in Looking("recheck")}

Lookup(l) ==
    \/ l \in {Default!NoLookup} \cup [at : Default!Places, type : Types]
    \/ /\ l.at = "built" /\ l.options \in OptionLists
       /\ Default!Conforms(l.types, l.options, Root, l.generator)

DefaultInv ==
    /\ PerGoroutine(lookup)
    /\ \A g \in Goroutines : Lookup(lookup[g])
    /\ Exclusive(typeReaders, typeWriters, Rechecking)
    /\ byType \in [Types -> 0..MaxMade]
    /\ made \in 0..MaxMade
    /\ handedOut \in [Types -> SUBSET (1..MaxMade)]
    /\ \A t \in Types : handedOut[t] \subseteq {byType[t]}

-----------------------------------------------------------------------------
(* Induction: over the numbers up to one, as facts about sets of numbers,   *)
(* and over a sequence that a fold takes in turn (InTurn).                  *)

LEMMA LeastNatural ==
    ASSUME NEW T, T \subseteq Nat, T # {}
    PROVE  \E x \in T : \A y \in T : x <= y
<1> DEFINE Less == OpToRel(<, Nat)
<1>1. IsWellFoundedOn(Less, Nat)
  BY NatLessThanWellFounded
<1>2. PICK x \in T : \A y \in T : ~(<<y, x>> \in Less)
  <2> HIDE DEF Less
  <2> QED BY <1>1, WFMin
<1>3. \A y \in T : x <= y
  <2> TAKE y \in T
  <2>1. Less = {ss \in Nat \X Nat : ss[1] < ss[2]}
    BY Zenon DEF OpToRel
  <2>2. <<y, x>> \notin Less
    BY <1>2
  <2> HIDE DEF Less
  <2>3. ~(y < x)
    BY <2>1, <2>2
  <2> QED BY <2>3
<1> QED BY <1>3

LEMMA OneByOne ==
    ASSUME NEW n \in Nat, NEW T, 0 \in T, \A k \in 0..n - 1 : k \in T => k + 1 \in T
    PROVE  \A k \in 0..n : k \in T
<1> DEFINE Bad == (0..n) \ T
<1> SUFFICES ASSUME Bad # {} PROVE FALSE
  OBVIOUS
<1>1. PICK k \in Bad : \A j \in Bad : k <= j
  <2> Bad \subseteq Nat
    OBVIOUS
  <2> HIDE DEF Bad
  <2> QED BY LeastNatural
<1>2. k \in 0..n /\ k \notin T /\ k # 0
  OBVIOUS
<1>3. k - 1 \in 0..n - 1 /\ k - 1 \notin Bad /\ (k - 1) + 1 = k
  BY <1>1, <1>2
<1> QED BY <1>2, <1>3

LEMMA GreatestOf ==
    ASSUME NEW n \in Nat, NEW s \in SUBSET (1..n), s # {}
    PROVE  Primitive!Max(s) \in s /\ \A i \in s : i <= Primitive!Max(s)
<1> DEFINE D == {n - i : i \in s}
<1>1. D \subseteq Nat /\ D # {}
  <2>1. \A i \in s : n - i \in Nat
    OBVIOUS
  <2>2. PICK i : i \in s
    OBVIOUS
  <2>3. n - i \in D
    BY <2>2
  <2> QED BY <2>1, <2>3
<1>2. PICK d \in D : \A e \in D : d <= e
  <2> HIDE DEF D
  <2> QED BY <1>1, LeastNatural
<1>3. PICK i \in s : d = n - i
  BY <1>2
<1>4. ASSUME NEW j \in s PROVE i >= j
  <2>1. n - j \in D
    OBVIOUS
  <2>2. d <= n - j
    BY <1>2, <2>1
  <2>3. i \in Int /\ j \in Int
    OBVIOUS
  <2> HIDE DEF D
  <2> QED BY <1>3, <2>2, <2>3
<1> DEFINE Top(m) == \A j \in s : m >= j
<1>5. \E m \in s : Top(m)
  BY <1>4
<1>6. Primitive!Max(s) \in s /\ Top(Primitive!Max(s))
  <2>1. Primitive!Max(s) = CHOOSE m \in s : Top(m)
    BY Zenon DEF Primitive!Max
  <2> HIDE DEF Top
  <2> QED BY <1>5, <2>1
<1>7. \A j \in s : j \in Int
  OBVIOUS
<1> QED BY <1>6, <1>7

(* A fold takes the elements of a sequence in turn: Turn is what it does    *)
(* with one of them.                                                        *)
Turn(how, was, x) ==
    CASE how.of = "calls" -> Primitive!Called(was, x)
      [] how.of = "overrides" -> Default!Kept(how.options, was, x)
      [] how.of = "parts" ->
            Default!Walk(how.types, how.overrides, how.name, how.build, was, x)

TurnsOf(how, base, seq, f, n) ==
    \A s \in SUBSET (1..n) :
        f[s] = IF s = {} THEN base
               ELSE Turn(how, f[s \ {Primitive!Max(s)}], seq[Primitive!Max(s)])

LEMMA TurnsExist ==
    ASSUME NEW how, NEW base, NEW seq, NEW n \in Nat
    PROVE  \E f : f = [s \in SUBSET (1..n) |-> f[s]] /\ TurnsOf(how, base, seq, f, n)
<1> DEFINE Bad == {k \in 0..n : ~\E f : TurnsOf(how, base, seq, f, k)}
<1>1. Bad = {}
  <2> SUFFICES ASSUME Bad # {} PROVE FALSE
    OBVIOUS
  <2>1. PICK k \in Bad : \A j \in Bad : k <= j
    <3> Bad \subseteq Nat
      OBVIOUS
    <3> HIDE DEF Bad
    <3> QED BY LeastNatural
  <2>2. k # 0
    <3> SUFFICES \E f : TurnsOf(how, base, seq, f, 0)
      BY <2>1
    <3> DEFINE f == [s \in SUBSET (1..0) |-> base]
    <3>1. \A s \in SUBSET (1..0) : s = {}
      OBVIOUS
    <3>2. \A s \in SUBSET (1..0) : f[s] = base
      OBVIOUS
    <3> HIDE DEF f
    <3> QED BY Zenon, <3>1, <3>2 DEF TurnsOf
  <2>3. k \in Nat /\ k - 1 \in Nat /\ k - 1 \notin Bad /\ k - 1 \in 0..n
    BY <2>1, <2>2
  <2>4. PICK f : TurnsOf(how, base, seq, f, k - 1)
    BY <2>3
  <2> DEFINE h == [s \in SUBSET (1..k) |->
                     IF k \in s THEN Turn(how, f[s \ {k}], seq[k]) ELSE f[s]]
  <2>5. \A s \in SUBSET (1..k) :
          h[s] = IF k \in s THEN Turn(how, f[s \ {k}], seq[k]) ELSE f[s]
    OBVIOUS
  <2> HIDE DEF h, Bad
  <2>6. TurnsOf(how, base, seq, h, k)
    <3> SUFFICES ASSUME NEW s \in SUBSET (1..k)
                 PROVE  h[s] = IF s = {} THEN base
                               ELSE Turn(how, h[s \ {Primitive!Max(s)}], seq[Primitive!Max(s)])
      BY DEF TurnsOf
    <3>1. CASE k \in s
      <4>1. Primitive!Max(s) \in s /\ k <= Primitive!Max(s)
        BY <2>3, <3>1, GreatestOf
      <4>2. Primitive!Max(s) = k
        <5>1. PICK m : m = Primitive!Max(s)
          OBVIOUS
        <5>2. m \in 1..k /\ k <= m
          BY <4>1, <5>1
        <5>3. m = k
          BY <2>3, <5>2
        <5> QED BY <5>1, <5>3
      <4>3. h[s \ {k}] = f[s \ {k}]
        BY <2>5
      <4>4. h[s] = Turn(how, f[s \ {k}], seq[k]) /\ s # {}
        BY <2>5, <3>1
      <4> QED BY <4>2, <4>3, <4>4
    <3>2. CASE k \notin s
      <4>1. s \in SUBSET (1..k - 1)
        BY <2>3, <3>2
      <4>2. h[s] = f[s] /\ \A i : h[s \ {i}] = f[s \ {i}]
        <5>1. \A i : s \ {i} \in SUBSET (1..k) /\ k \notin s \ {i}
          BY <3>2
        <5> QED BY <2>5, <3>2, <5>1
      <4>3. f[s] = IF s = {} THEN base
                   ELSE Turn(how, f[s \ {Primitive!Max(s)}], seq[Primitive!Max(s)])
        BY Zenon, <2>4, <4>1 DEF TurnsOf
      <4> QED BY Zenon, <4>2, <4>3
    <3> QED BY <3>1, <3>2
  <2> QED BY <2>1, <2>6 DEF Bad
<1>2. n \in 0..n /\ n \notin Bad
  BY <1>1
<1>3. PICK f : TurnsOf(how, base, seq, f, n)
  BY <1>2
<1> DEFINE g == [s \in SUBSET (1..n) |-> f[s]]
<1>4. \A s \in SUBSET (1..n) : g[s] = f[s] /\ \A i : g[s \ {i}] = f[s \ {i}]
  <2> TAKE s \in SUBSET (1..n)
  <2>1. \A i : s \ {i} \in SUBSET (1..n)
    OBVIOUS
  <2> QED BY <2>1
<1>5. g = [s \in SUBSET (1..n) |-> g[s]]
  OBVIOUS
<1> HIDE DEF g
<1>6. TurnsOf(how, base, seq, g, n)
  <2> SUFFICES ASSUME NEW s \in SUBSET (1..n)
               PROVE  g[s] = IF s = {} THEN base
                             ELSE Turn(how, g[s \ {Primitive!Max(s)}], seq[Primitive!Max(s)])
    BY DEF TurnsOf
  <2>1. f[s] = IF s = {} THEN base
               ELSE Turn(how, f[s \ {Primitive!Max(s)}], seq[Primitive!Max(s)])
    BY Zenon, <1>3 DEF TurnsOf
  <2> QED BY Zenon, <1>4, <2>1
<1> QED BY Zenon, <1>5, <1>6

(* One after the other.                                                     *)
InTurn(how, base, seq, g, n) ==
    g[0] = base /\ \A k \in 0..n - 1 : g[k + 1] = Turn(how, g[k], seq[k + 1])

LEMMA OneAfterTheOther ==
    ASSUME NEW how, NEW base, NEW seq, NEW n \in Nat, NEW f, TurnsOf(how, base, seq, f, n)
    PROVE  \E g : InTurn(how, base, seq, g, n) /\ g[n] = f[1..n]
<1> DEFINE g == [k \in 0..n |-> f[1..k]]
<1>1. \A k \in 0..n : g[k] = f[1..k]
  OBVIOUS
<1>2. 0 \in 0..n /\ n \in 0..n /\ 1..0 = {} /\ {} \in SUBSET (1..n)
  OBVIOUS
<1> HIDE DEF g
<1>3. g[0] = base
  <2>1. f[{}] = base
    BY Zenon, <1>2 DEF TurnsOf
  <2> QED BY Zenon, <1>1, <1>2, <2>1
<1>4. ASSUME NEW k \in 0..n - 1 PROVE g[k + 1] = Turn(how, g[k], seq[k + 1])
  <2> DEFINE s == 1..k + 1
  <2>1. /\ s \in SUBSET (1..n) /\ s # {} /\ s \ {k + 1} = 1..k
        /\ k \in 0..n /\ k + 1 \in 0..n /\ k + 1 \in Nat
    OBVIOUS
  <2>2. Primitive!Max(s) = k + 1
    <3>1. Primitive!Max(s) \in s /\ \A i \in s : i <= Primitive!Max(s)
      <4> HIDE DEF s
      <4> QED BY <2>1, GreatestOf
    <3>2. k + 1 \in s
      OBVIOUS
    <3>3. PICK m : m = Primitive!Max(s)
      OBVIOUS
    <3>4. m \in 1..k + 1 /\ k + 1 <= m
      BY <3>1, <3>2, <3>3
    <3>5. m = k + 1
      BY <3>4
    <3> QED BY <3>3, <3>5
  <2>3. g[k + 1] = f[s] /\ g[k] = f[1..k]
    BY <1>1, <2>1
  <2> HIDE DEF s
  <2>4. f[s] = Turn(how, f[s \ {Primitive!Max(s)}], seq[Primitive!Max(s)])
    BY Zenon, <2>1 DEF TurnsOf
  <2> QED BY Zenon, <2>1, <2>2, <2>3, <2>4
<1>5. g[n] = f[1..n]
  BY Zenon, <1>1, <1>2
<1>6. InTurn(how, base, seq, g, n)
  BY Zenon, <1>3, <1>4 DEF InTurn
<1> QED BY Zenon, <1>5, <1>6

LEMMA CallsInTurn ==
    ASSUME NEW calls, NEW n \in Nat, DOMAIN calls = 1..n
    PROVE  \E g : /\ InTurn([of |-> "calls"], Primitive!NewText, calls, g, n)
                 /\ Primitive!FoldLeft(Primitive!Called, Primitive!NewText, calls) = g[n]
<1> DEFINE S == SUBSET (1..n)
           How == [of |-> "calls"]
           Base == Primitive!NewText
           Body(f, s) == IF s = {} THEN Base
                         ELSE Primitive!Called(f[s \ {Primitive!Max(s)}], calls[Primitive!Max(s)])
           P(f) == f = [s \in S |-> Body(f, s)]
           iter == CHOOSE f : P(f)
<1>1. PICK f : f = [s \in S |-> f[s]] /\ TurnsOf(How, Base, calls, f, n)
  <2> HIDE DEF How, Base
  <2> QED BY Zenon, TurnsExist
<1>2. \A h, s : Body(h, s) = IF s = {} THEN Base
                            ELSE Turn(How, h[s \ {Primitive!Max(s)}],
                                      calls[Primitive!Max(s)])
  <2> TAKE h, s
  <2> QED BY DEF Turn
<1>3. \A h : TurnsOf(How, Base, calls, h, n) <=> \A s \in S : h[s] = Body(h, s)
  <2> HIDE DEF Body, How, Base
  <2> QED BY Zenon, <1>2 DEF TurnsOf
<1>4. P(f)
  <2>1. \A s \in S : f[s] = Body(f, s)
    <3> HIDE DEF Body, How, Base, S
    <3> QED BY Zenon, <1>1, <1>3
  <2>2. [s \in S |-> f[s]] = [s \in S |-> Body(f, s)]
    <3> HIDE DEF Body, S
    <3> QED BY <2>1
  <2> HIDE DEF Body, S
  <2> QED BY Zenon, <1>1, <2>2
<1>5. P(iter)
  <2> HIDE DEF P
  <2> QED BY Zenon, <1>4
<1>6. TurnsOf(How, Base, calls, iter, n)
  <2>1. \A s \in S : iter[s] = Body(iter, s)
    <3> HIDE DEF iter, Body, S
    <3> QED BY <1>5
  <2> HIDE DEF iter, Body, How, Base, S
  <2> QED BY Zenon, <1>3, <2>1
<1>7. Primitive!FoldLeft(Primitive!Called, Primitive!NewText, calls) = iter[1..n]
  BY Zenon DEF Primitive!FoldLeft, Primitive!MapThenFoldSet
<1>8. \E g : InTurn(How, Base, calls, g, n) /\ g[n] = iter[1..n]
  <2> HIDE DEF iter, How, Base
  <2> HIDE DEF S, Body, P
  <2> QED BY <1>6, OneAfterTheOther
<1> HIDE DEF iter
<1> QED BY Zenon, <1>7, <1>8

LEMMA OverridesInTurn ==
    ASSUME NEW options, NEW seq, NEW n \in Nat,
           seq = Default!Positions(options), DOMAIN seq = 1..n
    PROVE  \E g : /\ InTurn([of |-> "overrides", options |-> options], [k \in {} |-> 0], seq, g, n)
                 /\ Default!Overrides(options) = g[n]
<1> DEFINE given == Default!Positions(options)
           S == SUBSET DOMAIN given
           How == [of |-> "overrides", options |-> options]
           Base == [k \in {} |-> 0]
           Body(f, s) == IF s = {} THEN Base
                         ELSE Default!Kept(options, f[s \ {Primitive!Max(s)}], given[Primitive!Max(s)])
           P(f) == f = [s \in S |-> Body(f, s)]
           iter == CHOOSE f : P(f)
<1>0. given = seq /\ S = SUBSET (1..n)
  OBVIOUS
<1>1. PICK f : f = [s \in S |-> f[s]] /\ TurnsOf(How, Base, seq, f, n)
  <2> HIDE DEF How, Base, S, given
  <2> QED BY Zenon, <1>0, TurnsExist
<1>2. \A h, s : Body(h, s) = IF s = {} THEN Base
                            ELSE Turn(How, h[s \ {Primitive!Max(s)}],
                                      seq[Primitive!Max(s)])
  <2> TAKE h, s
  <2> HIDE DEF given
  <2> QED BY <1>0 DEF Turn
<1>3. \A h : TurnsOf(How, Base, seq, h, n) <=> \A s \in S : h[s] = Body(h, s)
  <2> HIDE DEF Body, How, Base, S, given
  <2> QED BY Zenon, <1>0, <1>2 DEF TurnsOf
<1>4. P(f)
  <2>1. \A s \in S : f[s] = Body(f, s)
    <3> HIDE DEF Body, How, Base, S
    <3> QED BY Zenon, <1>1, <1>3
  <2>2. [s \in S |-> f[s]] = [s \in S |-> Body(f, s)]
    <3> HIDE DEF Body, S
    <3> QED BY <2>1
  <2> HIDE DEF Body, S
  <2> QED BY Zenon, <1>1, <2>2
<1>5. P(iter)
  <2> HIDE DEF P
  <2> QED BY Zenon, <1>4
<1>6. TurnsOf(How, Base, seq, iter, n)
  <2>1. \A s \in S : iter[s] = Body(iter, s)
    <3> HIDE DEF iter, Body, S
    <3> QED BY <1>5
  <2> HIDE DEF iter, Body, How, Base, S
  <2> QED BY Zenon, <1>3, <2>1
<1>7. Default!Overrides(options) = iter[DOMAIN given]
  BY Zenon DEF Default!Overrides, Default!FoldLeft, Default!MapThenFoldSet,
                     Default!Max, Primitive!Max
<1>8. \E g : InTurn(How, Base, seq, g, n) /\ g[n] = iter[1..n]
  <2> HIDE DEF iter, How, Base
  <2> HIDE DEF S, Body, P, given
  <2> QED BY <1>6, OneAfterTheOther
<1> HIDE DEF iter, given, S
<1> QED BY Zenon, <1>0, <1>7, <1>8

HowParts(types, overrides, name, build) ==
    [of |-> "parts", types |-> types, overrides |-> overrides, name |-> name, build |-> build]
PartsFolded(types, overrides, name, build, begun, seq, n) ==
    \E g : /\ InTurn(HowParts(types, overrides, name, build), begun, seq, g, n)
          /\ Default!WalkParts(types, overrides, name, build, begun) = g[n]

LEMMA PartsInTurn ==
    ASSUME NEW types, NEW overrides, NEW name, NEW build, NEW begun, NEW seq, NEW n \in Nat,
           seq = Default!Entered(types, name), DOMAIN seq = 1..n
    PROVE  PartsFolded(types, overrides, name, build, begun, seq, n)
<1> DEFINE given == Default!Entered(types, name)
           S == SUBSET DOMAIN given
           How == HowParts(types, overrides, name, build)
           Base == begun
           Body(f, s) == IF s = {} THEN Base
                         ELSE Default!Walk(types, overrides, name, build,
                                f[s \ {Primitive!Max(s)}], given[Primitive!Max(s)])
           P(f) == f = [s \in S |-> Body(f, s)]
           iter == CHOOSE f : P(f)
<1>0. given = seq /\ S = SUBSET (1..n)
  OBVIOUS
<1>1. PICK f : f = [s \in S |-> f[s]] /\ TurnsOf(How, Base, seq, f, n)
  <2> HIDE DEF How, Base, S, given
  <2> QED BY Zenon, <1>0, TurnsExist
<1>2. \A h, s : Body(h, s) = IF s = {} THEN Base
                            ELSE Turn(How, h[s \ {Primitive!Max(s)}],
                                      seq[Primitive!Max(s)])
  <2> TAKE h, s
  <2> HIDE DEF given
  <2> QED BY <1>0 DEF Turn, HowParts
<1>3. \A h : TurnsOf(How, Base, seq, h, n) <=> \A s \in S : h[s] = Body(h, s)
  <2> HIDE DEF Body, How, Base, S, given
  <2> QED BY Zenon, <1>0, <1>2 DEF TurnsOf
<1>4. P(f)
  <2>1. \A s \in S : f[s] = Body(f, s)
    <3> HIDE DEF Body, How, Base, S
    <3> QED BY Zenon, <1>1, <1>3
  <2>2. [s \in S |-> f[s]] = [s \in S |-> Body(f, s)]
    <3> HIDE DEF Body, S
    <3> QED BY <2>1
  <2> HIDE DEF Body, S
  <2> QED BY Zenon, <1>1, <2>2
<1>5. P(iter)
  <2> HIDE DEF P
  <2> QED BY Zenon, <1>4
<1>6. TurnsOf(How, Base, seq, iter, n)
  <2>1. \A s \in S : iter[s] = Body(iter, s)
    <3> HIDE DEF iter, Body, S
    <3> QED BY <1>5
  <2> HIDE DEF iter, Body, How, Base, S
  <2> QED BY Zenon, <1>3, <2>1
<1>7. Default!WalkParts(types, overrides, name, build, begun) = iter[DOMAIN given]
  BY Zenon DEF Default!WalkParts, Default!FoldLeft, Default!MapThenFoldSet,
                     Default!Max, Primitive!Max
<1>8. \E g : InTurn(How, Base, seq, g, n) /\ g[n] = iter[1..n]
  <2> HIDE DEF iter, How, Base
  <2> HIDE DEF S, Body, P, given
  <2> QED BY <1>6, OneAfterTheOther
<1> HIDE DEF iter, given, S
<1> QED BY Zenon, <1>0, <1>7, <1>8 DEF PartsFolded

-----------------------------------------------------------------------------
(* What Default constructs.  The types that are reached are the least set   *)
(* that is closed under what a type needs (Closure).                        *)

LEMMA DefaultCardinalityIs == \A S : Default!Cardinality(S) = Cardinality(S)
  BY DEF Default!Cardinality, Cardinality, Default!IsFiniteSet, IsFiniteSet

(* What is reached from some types in so many steps, by paths.              *)
Reaching(D, N, from, n, p) ==
    /\ p \in [0..n -> D] /\ p[0] \in from
    /\ \A i \in 0..n - 1 : p[i + 1] = p[i] \/ p[i + 1] \in N[p[i]]
Spreads(D, N, from, f) ==
    /\ f \in [Nat -> SUBSET D] /\ f[0] = from
    /\ \A n \in Nat : f[n + 1] = f[n] \cup UNION {N[m] : m \in f[n]}

LEMMA SpreadingExists ==
    ASSUME NEW D, NEW N \in [D -> SUBSET D], NEW from \in SUBSET D
    PROVE  \E f : Spreads(D, N, from, f)
<1> DEFINE f == [n \in Nat |-> {x \in D : \E p : Reaching(D, N, from, n, p) /\ p[n] = x}]
<1>1. \A n \in Nat : \A x : x \in f[n] <=>
        x \in D /\ \E p : Reaching(D, N, from, n, p) /\ p[n] = x
  OBVIOUS
<1>2. f \in [Nat -> SUBSET D]
  OBVIOUS
<1> HIDE DEF f
<1>3. f[0] = from
  <2>1. ASSUME NEW x \in f[0] PROVE x \in from
    <3>1. PICK p : Reaching(D, N, from, 0, p) /\ p[0] = x
      BY <1>1, <2>1
    <3> QED BY <3>1 DEF Reaching
  <2>2. ASSUME NEW x \in from PROVE x \in f[0]
    <3> DEFINE p == [i \in 0..0 |-> x]
    <3>1. p \in [0..0 -> D] /\ p[0] = x
      OBVIOUS
    <3> HIDE DEF p
    <3>2. Reaching(D, N, from, 0, p)
      BY <3>1 DEF Reaching
    <3> QED BY <1>1, <3>1, <3>2
  <2> QED BY <2>1, <2>2
<1>4. ASSUME NEW n \in Nat PROVE f[n + 1] = f[n] \cup UNION {N[m] : m \in f[n]}
  <2>0. n + 1 \in Nat /\ n \in 0..n + 1 /\ n + 1 \in 0..n + 1 /\ n \in 0..(n + 1) - 1
    OBVIOUS
  <2>1. ASSUME NEW x \in f[n + 1]
        PROVE  x \in f[n] \/ \E m \in f[n] : x \in N[m]
    <3>1. PICK p : Reaching(D, N, from, n + 1, p) /\ p[n + 1] = x
      BY <1>1, <2>0, <2>1
    <3>2. /\ p \in [0..n + 1 -> D] /\ p[0] \in from
          /\ \A i \in 0..(n + 1) - 1 : p[i + 1] = p[i] \/ p[i + 1] \in N[p[i]]
      BY <3>1 DEF Reaching
    <3> DEFINE q == [i \in 0..n |-> p[i]]
    <3>3. q \in [0..n -> D] /\ \A i \in 0..n : q[i] = p[i]
      BY <3>2
    <3> HIDE DEF q
    <3>4. Reaching(D, N, from, n, q)
      <4>1. 0 \in 0..n
        OBVIOUS
      <4>2. ASSUME NEW i \in 0..n - 1 PROVE q[i + 1] = q[i] \/ q[i + 1] \in N[q[i]]
        <5>1. i \in 0..n /\ i + 1 \in 0..n /\ i \in 0..(n + 1) - 1
          OBVIOUS
        <5> QED BY <3>2, <3>3, <5>1
      <4> QED BY <3>2, <3>3, <4>1, <4>2 DEF Reaching
    <3>5. n \in 0..n
      OBVIOUS
    <3>6. p[n] \in f[n]
      BY <1>1, <2>0, <3>2, <3>3, <3>4, <3>5
    <3>7. p[n + 1] = p[n] \/ p[n + 1] \in N[p[n]]
      BY <2>0, <3>2
    <3> QED BY <3>1, <3>6, <3>7
  <2>2. ASSUME NEW x, NEW y \in f[n], x = y \/ x \in N[y] PROVE x \in f[n + 1]
    <3>1. PICK p : Reaching(D, N, from, n, p) /\ p[n] = y
      BY <1>1, <2>2
    <3>2. y \in D /\ x \in D
      BY <1>1, <2>2
    <3> DEFINE q == [i \in 0..n + 1 |-> IF i = n + 1 THEN x ELSE p[i]]
    <3>3. /\ p \in [0..n -> D] /\ p[0] \in from
          /\ \A i \in 0..n - 1 : p[i + 1] = p[i] \/ p[i + 1] \in N[p[i]]
      BY <3>1 DEF Reaching
    <3>4. /\ q[n + 1] = x /\ \A i \in 0..n : q[i] = p[i]
          /\ q \in [0..n + 1 -> D]
      <4>1. \A i \in 0..n + 1 : i # n + 1 => i \in 0..n
        OBVIOUS
      <4>2. \A i \in 0..n : i \in 0..n + 1 /\ i # n + 1
        OBVIOUS
      <4> QED BY <2>0, <3>2, <3>3, <4>1, <4>2
    <3> HIDE DEF q
    <3>5. Reaching(D, N, from, n + 1, q)
      <4>1. 0 \in 0..n
        OBVIOUS
      <4>2. ASSUME NEW i \in 0..(n + 1) - 1 PROVE q[i + 1] = q[i] \/ q[i + 1] \in N[q[i]]
        <5>1. CASE i = n
          <6>1. n \in 0..n
            OBVIOUS
          <6> QED BY <2>2, <3>1, <3>4, <5>1, <6>1
        <5>2. CASE i # n
          <6>1. i \in 0..n - 1 /\ i \in 0..n /\ i + 1 \in 0..n
            BY <5>2
          <6> QED BY <3>3, <3>4, <6>1
        <5> QED BY <5>1, <5>2
      <4> QED BY <3>3, <3>4, <4>1, <4>2 DEF Reaching
    <3> QED BY <1>1, <2>0, <3>2, <3>4, <3>5
  <2> QED BY <2>1, <2>2
<1> QED BY <1>2, <1>3, <1>4 DEF Spreads

(* The least set that holds some types and, with each, what N says.         *)
Closure(D, N, from, R) ==
    /\ from \subseteq R /\ R \subseteq D
    /\ \A m \in R : N[m] \subseteq R
    /\ \A C : from \subseteq C /\ (\A m \in C \cap D : N[m] \subseteq C) => R \subseteq C

(* After as many steps as there are types nothing is added.                 *)
LEMMA SpreadingEnds ==
    ASSUME NEW D, IsFiniteSet(D), NEW N \in [D -> SUBSET D], NEW from \in SUBSET D,
           NEW f, Spreads(D, N, from, f),
           NEW R, R = f[Cardinality(D)]
    PROVE  Closure(D, N, from, R)
<1>1. PICK d \in Nat : d = Cardinality(D)
  BY FS_CardinalityType
<1>2. /\ f \in [Nat -> SUBSET D] /\ f[0] = from
      /\ \A n \in Nat : f[n + 1] = f[n] \cup UNION {N[m] : m \in f[n]}
  BY DEF Spreads
<1>3. \A n \in Nat : f[n] \subseteq f[n + 1] /\ f[n] \subseteq D
  BY <1>2
<1>4. \A k \in Nat : \A j \in 0..k : f[j] \subseteq f[k]
  <2> TAKE k \in Nat
  <2> DEFINE T == {i \in 0..k : \A j \in 0..i : f[j] \subseteq f[i]}
  <2>1. 0 \in T
    OBVIOUS
  <2>2. ASSUME NEW i \in 0..k - 1, i \in T PROVE i + 1 \in T
    <3>1. i \in Nat /\ i + 1 \in 0..k /\ \A j \in 0..i + 1 : j \in 0..i \/ j = i + 1
      OBVIOUS
    <3>2. f[i] \subseteq f[i + 1]
      BY <1>3, <3>1
    <3> QED BY <2>2, <3>1, <3>2
  <2>3. k \in T
    <3> HIDE DEF T
    <3>1. \A i \in 0..k : i \in T
      BY <2>1, <2>2, OneByOne
    <3> QED BY <3>1
  <2> QED BY <2>3
<1>5. ASSUME NEW C, from \subseteq C, \A m \in C \cap D : N[m] \subseteq C, NEW k \in Nat
      PROVE  f[k] \subseteq C
  <2> DEFINE T == {i \in 0..k : f[i] \subseteq C}
  <2>1. 0 \in T
    BY <1>2, <1>5
  <2>2. ASSUME NEW i \in 0..k - 1, i \in T PROVE i + 1 \in T
    <3>1. i \in Nat /\ i + 1 \in 0..k
      OBVIOUS
    <3>2. f[i + 1] = f[i] \cup UNION {N[m] : m \in f[i]} /\ f[i] \subseteq D /\ f[i] \subseteq C
      BY <1>2, <1>3, <2>2, <3>1
    <3>3. f[i + 1] \subseteq C
      BY <1>5, <3>2
    <3> QED BY <3>1, <3>3
  <2>3. k \in T
    <3> HIDE DEF T
    <3>1. \A i \in 0..k : i \in T
      BY <2>1, <2>2, OneByOne
    <3> QED BY <3>1
  <2> QED BY <2>3
<1>6. \E m \in 0..d : f[m + 1] = f[m]
  <2> SUFFICES ASSUME \A m \in 0..d : f[m + 1] # f[m] PROVE FALSE
    OBVIOUS
  <2>0. \A n \in Nat : IsFiniteSet(f[n]) /\ Cardinality(f[n]) \in Nat
    BY <1>3, FS_Subset, FS_CardinalityType
  <2> DEFINE T == {i \in 0..d + 1 : Cardinality(f[i]) >= i}
  <2>1. 0 \in T
    BY <1>1, <2>0
  <2>2. ASSUME NEW i \in 0..(d + 1) - 1, i \in T PROVE i + 1 \in T
    <3>1. i \in Nat /\ i + 1 \in Nat /\ i + 1 \in 0..d + 1 /\ i \in 0..d
      OBVIOUS
    <3>2. f[i] \subseteq f[i + 1] /\ f[i] # f[i + 1]
      BY <1>3, <3>1
    <3>3. Cardinality(f[i]) < Cardinality(f[i + 1])
      BY <2>0, <3>1, <3>2, FS_Subset
    <3>4. Cardinality(f[i]) >= i
      BY <2>2
    <3>5. Cardinality(f[i + 1]) >= i + 1
      BY <2>0, <3>1, <3>3, <3>4
    <3> QED BY <3>1, <3>5
  <2>3. d + 1 \in T
    <3> HIDE DEF T
    <3>1. d + 1 \in Nat /\ d + 1 \in 0..d + 1
      OBVIOUS
    <3>2. \A i \in 0..d + 1 : i \in T
      BY <2>1, <2>2, <3>1, OneByOne
    <3> QED BY <3>1, <3>2
  <2>4. Cardinality(f[d + 1]) <= d
    BY <1>1, <1>3, FS_Subset
  <2>5. Cardinality(f[d + 1]) >= d + 1 /\ Cardinality(f[d + 1]) \in Nat
    BY <2>0, <2>3
  <2> QED BY <2>4, <2>5
<1>7. PICK m \in 0..d : f[m + 1] = f[m]
  BY <1>6
<1>8. m \in Nat /\ f[m] \subseteq D /\ \A x \in f[m] : N[x] \subseteq f[m]
  BY <1>2, <1>3, <1>7
<1>9. f[0] \subseteq f[m]
  BY <1>4, <1>8
<1>10. f[d] \subseteq f[m]
  BY <1>2, <1>5, <1>8, <1>9
<1>11. f[d] = f[m]
  BY <1>4, <1>7, <1>10
<1>12. R = f[m]
  BY <1>1, <1>11
<1>13. from \subseteq R /\ R \subseteq D /\ \A x \in R : N[x] \subseteq R
  BY <1>2, <1>8, <1>9, <1>12
<1>14. \A C : from \subseteq C /\ (\A x \in C \cap D : N[x] \subseteq C) => R \subseteq C
  BY <1>5, <1>8, <1>12
<1> QED BY <1>13, <1>14 DEF Closure

Program(types) ==
    /\ IsFiniteSet(DOMAIN types)
    /\ \A name \in DOMAIN types :
        types[name].parts \in Seq([type : DOMAIN types, exported : BOOLEAN])

LEMMA NeedsTyped ==
    ASSUME NEW types, NEW options, Program(types), NEW name \in DOMAIN types
    PROVE  Default!Needs(types, options, name) \subseteq DOMAIN types
<1> DEFINE D == DOMAIN types
           Record == [type : D, exported : BOOLEAN]
<1>1. types[name].parts \in Seq(Record)
  BY DEF Program
<1>2. \A i \in DOMAIN types[name].parts : types[name].parts[i] \in Record
  <2> HIDE DEF Record
  <2> QED BY <1>1
<1>3. \A i \in DOMAIN types[name].parts : types[name].parts[i].type \in D
  BY <1>2
<1> HIDE DEF D
<1> QED BY <1>3 DEF Default!Needs, D

(* The types that are reached hold those they are reached from, and those   *)
(* that they need; there are no others.                                     *)
LEMMA ReachedIs ==
    ASSUME NEW types, NEW options, Program(types), NEW from \in SUBSET DOMAIN types,
           NEW R, R = Default!Reached(types, options, from)
    PROVE  /\ from \subseteq R /\ R \subseteq DOMAIN types
           /\ \A m \in R : Default!Needs(types, options, m) \subseteq R
           /\ \A C : /\ from \subseteq C
                     /\ \A m \in C \cap DOMAIN types : Default!Needs(types, options, m) \subseteq C
                     => R \subseteq C
<1> DEFINE D == DOMAIN types
           N == [m \in D |-> Default!Needs(types, options, m)]
           Body(f, n) == IF n = 0 THEN from
                         ELSE f[n - 1] \cup UNION {Default!Needs(types, options, m) : m \in f[n - 1]}
           P(f) == f = [n \in Nat |-> Body(f, n)]
           iter == CHOOSE f : P(f)
<1>1. N \in [D -> SUBSET D] /\ \A m \in D : N[m] = Default!Needs(types, options, m)
  <2>1. \A m \in D : Default!Needs(types, options, m) \in SUBSET D
    BY NeedsTyped
  <2> QED BY <2>1
<1> HIDE DEF N
<1>2. PICK f : Spreads(D, N, from, f)
  BY <1>1, SpreadingExists
<1>3. ASSUME NEW h, h \in [Nat -> SUBSET D],
             h[0] = from,
             \A n \in Nat : h[n + 1] = h[n] \cup UNION {N[m] : m \in h[n]}
      PROVE  \A n \in Nat : h[n] = Body(h, n)
  <2> TAKE n \in Nat
  <2>1. CASE n = 0
    BY <1>3, <2>1
  <2>2. CASE n # 0
    <3>1. n - 1 \in Nat /\ (n - 1) + 1 = n
      BY <2>2
    <3>2. h[n] = h[n - 1] \cup UNION {N[m] : m \in h[n - 1]}
      BY <1>3, <3>1
    <3>3. \A m \in h[n - 1] : N[m] = Default!Needs(types, options, m)
      BY <1>1, <1>3, <3>1
    <3>4. UNION {N[m] : m \in h[n - 1]}
            = UNION {Default!Needs(types, options, m) : m \in h[n - 1]}
      BY <3>3
    <3> QED BY <2>2, <3>2, <3>4
  <2> QED BY <2>1, <2>2
<1>4. P(f)
  <2>1. f \in [Nat -> SUBSET D]
    BY <1>2 DEF Spreads
  <2>2. \A n \in Nat : f[n] = Body(f, n)
    <3> HIDE DEF Body
    <3> QED BY <1>2, <1>3 DEF Spreads
  <2> HIDE DEF Body, D
  <2> QED BY <2>1, <2>2
<1>5. P(iter)
  <2> HIDE DEF P
  <2> QED BY Zenon, <1>4
<1>6. iter = [n \in Nat |-> iter[n]] /\ \A n \in Nat : iter[n] = Body(iter, n)
  <2> HIDE DEF iter, Body
  <2> QED BY <1>5
<1> HIDE DEF iter, P
<1>7. iter[0] = from
  BY <1>6
<1>8. \A n \in Nat : iter[n + 1] =
          iter[n] \cup UNION {Default!Needs(types, options, m) : m \in iter[n]}
  <2> TAKE n \in Nat
  <2>1. n + 1 \in Nat /\ n + 1 # 0 /\ (n + 1) - 1 = n
    OBVIOUS
  <2>2. iter[n + 1] = Body(iter, n + 1)
    <3> HIDE DEF Body
    <3> QED BY <1>6, <2>1
  <2> QED BY <2>1, <2>2
<1>9. \A n \in Nat : iter[n] \in SUBSET D
  <2> TAKE n \in Nat
  <2> DEFINE T == {k \in 0..n : iter[k] \in SUBSET D}
  <2>1. 0 \in T
    BY <1>7
  <2>2. ASSUME NEW k \in 0..n - 1, k \in T PROVE k + 1 \in T
    <3>1. k \in Nat /\ k + 1 \in 0..n /\ iter[k] \subseteq D
      BY <2>2
    <3>2. \A m \in iter[k] : Default!Needs(types, options, m) \subseteq D
      BY <1>1, <3>1
    <3>3. iter[k + 1] \subseteq D
      BY <1>8, <3>1, <3>2
    <3> QED BY <3>1, <3>3
  <2>3. n \in 0..n
    OBVIOUS
  <2>4. n \in T
    <3> HIDE DEF T
    <3> QED BY <2>1, <2>2, <2>3, OneByOne
  <2> QED BY <2>4
<1>10. Spreads(D, N, from, iter)
  <2>1. iter \in [Nat -> SUBSET D]
    <3> HIDE DEF D
    <3> QED BY <1>6, <1>9
  <2>2. \A n \in Nat : iter[n + 1] = iter[n] \cup UNION {N[m] : m \in iter[n]}
    <3> TAKE n \in Nat
    <3>1. \A m \in iter[n] : N[m] = Default!Needs(types, options, m)
      BY <1>1, <1>9
    <3>2. UNION {N[m] : m \in iter[n]}
            = UNION {Default!Needs(types, options, m) : m \in iter[n]}
      BY <3>1
    <3> QED BY <1>8, <3>2
  <2> QED BY <1>7, <2>1, <2>2 DEF Spreads
<1>11. R = iter[Cardinality(D)]
  <2>1. R = iter[Default!Cardinality(D)]
    BY Zenon DEF Default!Reached, iter, P
  <2> HIDE DEF D
  <2> QED BY <2>1, DefaultCardinalityIs
<1>12. IsFiniteSet(D)
  BY DEF Program
<1>13. PICK all : all = iter
  OBVIOUS
<1>14. Spreads(D, N, from, all) /\ R = all[Cardinality(D)]
  <2> HIDE DEF D, Body
  <2> QED BY Zenon, <1>10, <1>11, <1>13
<1>15. Closure(D, N, from, R)
  <2>1. from \in SUBSET D
    OBVIOUS
  <2> HIDE DEF D, Body
  <2> QED BY Zenon, <1>1, <1>12, <1>14, <2>1, SpreadingEnds
<1> QED BY <1>1, <1>15 DEF Closure

-----------------------------------------------------------------------------
(* The overrides.                                                           *)

LEMMA SameMax == \A s : Default!Max(s) = Primitive!Max(s)
BY Zenon DEF Default!Max, Primitive!Max

(* The map of the overrides among the first k options.                      *)
Holds(m, options, k) ==
    /\ DOMAIN m = {options[j] : j \in 1..k}
    /\ \A key \in DOMAIN m :
        /\ m[key] \in 1..k /\ options[m[key]] = key
        /\ \A j \in 1..k : options[j] = key => j <= m[key]

LEMMA KeptHolds ==
    ASSUME NEW m, NEW options, NEW k \in Nat, Holds(m, options, k)
    PROVE  Holds(Default!Kept(options, m, k + 1), options, k + 1)
<1> DEFINE next == Default!Kept(options, m, k + 1)
<1>1. /\ DOMAIN next = DOMAIN m \cup {options[k + 1]}
      /\ \A key \in DOMAIN next :
            next[key] = IF key = options[k + 1] THEN k + 1 ELSE m[key]
  BY DEF Default!Kept
<1> HIDE DEF next
<1>2. /\ k + 1 \in 1..k + 1
      /\ \A j \in 1..k : j \in 1..k + 1 /\ j <= k + 1
      /\ \A j \in 1..k + 1 : j \in 1..k \/ j = k + 1
  OBVIOUS
<1>3. DOMAIN next = {options[j] : j \in 1..k + 1}
  BY <1>1, <1>2 DEF Holds
<1>4. ASSUME NEW key \in DOMAIN next
      PROVE  /\ next[key] \in 1..k + 1 /\ options[next[key]] = key
             /\ \A j \in 1..k + 1 : options[j] = key => j <= next[key]
  <2>1. CASE key = options[k + 1]
    <3>1. next[key] = k + 1
      BY <1>1, <2>1
    <3> QED BY <2>1, <3>1
  <2>2. CASE key # options[k + 1]
    <3>1. next[key] = m[key] /\ key \in DOMAIN m
      BY <1>1, <2>2
    <3> QED BY <1>2, <2>2, <3>1 DEF Holds
  <2> QED BY <2>1, <2>2
<1>5. Holds(next, options, k + 1)
  BY <1>3, <1>4 DEF Holds
<1> QED BY <1>5 DEF next

LEMMA OverridesHold ==
    ASSUME NEW options, NEW n \in Nat, DOMAIN options = 1..n
    PROVE  Holds(Default!Overrides(options), options, n)
<1>1. PICK seq : seq = Default!Positions(options)
  OBVIOUS
<1>2. DOMAIN seq = 1..n /\ \A i \in 1..n : seq[i] = i
  BY <1>1 DEF Default!Positions
<1> DEFINE How == [of |-> "overrides", options |-> options]
<1>3. PICK g : /\ InTurn(How, [k \in {} |-> 0], seq, g, n)
               /\ Default!Overrides(options) = g[n]
  BY Zenon, <1>1, <1>2, OverridesInTurn
<1> DEFINE T == {k \in 0..n : Holds(g[k], options, k)}
<1>4. 0 \in T
  <2>1. g[0] = [k \in {} |-> 0]
    BY <1>3 DEF InTurn
  <2>2. DOMAIN g[0] = {} /\ 1..0 = {}
    BY <2>1
  <2>3. Holds(g[0], options, 0)
    BY <2>2 DEF Holds
  <2> QED BY <2>3
<1>5. ASSUME NEW k \in 0..n - 1, k \in T PROVE k + 1 \in T
  <2>1. k \in Nat /\ k + 1 \in 0..n /\ k + 1 \in 1..n
    OBVIOUS
  <2>2. g[k + 1] = Turn(How, g[k], seq[k + 1])
    BY <1>3 DEF InTurn
  <2>3. g[k + 1] = Default!Kept(options, g[k], k + 1)
    BY <1>2, <2>1, <2>2 DEF Turn
  <2>4. Holds(g[k + 1], options, k + 1)
    BY <1>5, <2>1, <2>3, KeptHolds
  <2> QED BY <2>1, <2>4
<1>6. n \in 0..n
  OBVIOUS
<1>7. n \in T
  <2> HIDE DEF T
  <2> QED BY <1>4, <1>5, <1>6, OneByOne
<1> QED BY <1>3, <1>7

(* The last option for a key is the one that counts.                        *)
LEMMA LastOptionKept ==
    ASSUME NEW options, NEW n \in Nat, DOMAIN options = 1..n, NEW key,
           NEW kept, kept = Default!Overrides(options)
    PROVE  /\ key \in DOMAIN kept <=> Default!LastOption(options, key) # Default!Itself
           /\ key \in DOMAIN kept => Default!LastOption(options, key) = kept[key]
<1> DEFINE given == {i \in DOMAIN options : options[i] = key}
<1>1. Holds(kept, options, n)
  BY OverridesHold
<1>2. key \in DOMAIN kept <=> given # {}
  BY <1>1 DEF Holds
<1>3. Default!LastOption(options, key)
        = IF given = {} THEN Default!Itself ELSE Primitive!Max(given)
  BY SameMax DEF Default!LastOption
<1>4. ASSUME given # {} PROVE Primitive!Max(given) \in given /\ \A i \in given : i <= Primitive!Max(given)
  <2>1. given \in SUBSET (1..n)
    OBVIOUS
  <2> HIDE DEF given
  <2> QED BY <1>4, <2>1, GreatestOf
<1>5. ASSUME given # {} PROVE kept[key] = Primitive!Max(given)
  <2>1. PICK m : m = Primitive!Max(given)
    OBVIOUS
  <2>2. m \in 1..n /\ options[m] = key /\ \A i \in given : i <= m
    BY <1>4, <1>5, <2>1
  <2>3. PICK c : c = kept[key]
    OBVIOUS
  <2>4. c \in 1..n /\ options[c] = key /\ \A j \in 1..n : options[j] = key => j <= c
    BY <1>1, <1>2, <1>5, <2>3 DEF Holds
  <2>5. m <= c /\ c <= m
    BY <2>2, <2>4
  <2>6. m = c
    BY <2>2, <2>4, <2>5
  <2> QED BY <2>1, <2>3, <2>6
<1>6. given # {} => Primitive!Max(given) # Default!Itself
  <2>1. 0 \notin 1..n
    OBVIOUS
  <2> QED BY <1>4, <2>1 DEF Default!Itself
<1> HIDE DEF given
<1> QED BY <1>2, <1>3, <1>5, <1>6

LEMMA TypeOverrides ==
    ASSUME NEW options, NEW n \in Nat, DOMAIN options = 1..n, NEW name,
           NEW kept, kept = Default!Overrides(options)
    PROVE  /\ Default!ForType(kept, name)
                <=> Default!LastOption(options, Default!Override(name, 0)) # Default!Itself
           /\ Default!SourceOf(kept, name)
                = Default!LastOption(options, Default!Override(name, 0))
<1>1. PICK key : key = Default!Override(name, 0)
  OBVIOUS
<1>2. /\ key \in DOMAIN kept <=> Default!LastOption(options, key) # Default!Itself
      /\ key \in DOMAIN kept => Default!LastOption(options, key) = kept[key]
  BY LastOptionKept
<1> QED BY <1>1, <1>2 DEF Default!ForType, Default!SourceOf

LEMMA FieldOverrides ==
    ASSUME NEW options, NEW n \in Nat, DOMAIN options = 1..n,
           NEW types, NEW name, NEW i,
           NEW kept, kept = Default!Overrides(options)
    PROVE  /\ Default!ForField(types, kept, name, i)
                <=> ~(\/ Default!Wanted(types, options, name, i) = Default!Itself
                      \/ Default!LastOption(options,
                            Default!Override(types[name].parts[i].type, 0)) # Default!Itself)
           /\ Default!PartSource(types, kept, name, i)
                = Default!Wanted(types, options, name, i)
<1>1. PICK key : key = Default!Override(name, i)
  OBVIOUS
<1>2. PICK type : type = types[name].parts[i].type
  OBVIOUS
<1>3. /\ key \in DOMAIN kept <=> Default!LastOption(options, key) # Default!Itself
      /\ key \in DOMAIN kept => Default!LastOption(options, key) = kept[key]
  BY LastOptionKept
<1>4. PICK last : last = Default!LastOption(options, Default!Override(type, 0))
  OBVIOUS
<1>5. /\ Default!ForType(kept, type) <=> last # Default!Itself
      /\ Default!SourceOf(kept, type) = last
  BY <1>4, TypeOverrides
<1>6. Default!ForField(types, kept, name, i)
        <=> /\ types[name].kind = "struct"
            /\ Default!LastOption(options, key) # Default!Itself
            /\ last = Default!Itself
  BY <1>1, <1>2, <1>3, <1>5 DEF Default!ForField
<1>7. Default!Wanted(types, options, name, i)
        = IF last # Default!Itself \/ types[name].kind # "struct" THEN last
          ELSE Default!LastOption(options, key)
  BY <1>1, <1>2, <1>4 DEF Default!Wanted
<1>8. Default!PartSource(types, kept, name, i)
        = IF Default!ForField(types, kept, name, i) THEN kept[key] ELSE last
  BY <1>1, <1>2, <1>5 DEF Default!PartSource
<1>9. Default!ForField(types, kept, name, i)
        <=> ~(Default!Wanted(types, options, name, i) = Default!Itself \/ last # Default!Itself)
  BY <1>6, <1>7
<1>10. Default!PartSource(types, kept, name, i) = Default!Wanted(types, options, name, i)
  BY <1>3, <1>6, <1>7, <1>8
<1> QED BY <1>2, <1>4, <1>9, <1>10

-----------------------------------------------------------------------------
(* buildDefault.  A visit looks only at the results of calls for which one  *)
(* more type is active, so that there is a function that is Visit on all    *)
(* calls (BuildsAll).                                                       *)

(* The calls of buildDefault, and what holds of the result of any of them.  *)
Visits(types) ==
    [name : DOMAIN types, nodes : SUBSET DOMAIN types, active : SUBSET DOMAIN types]
Typed(types, call, r) ==
    /\ r.ok \in BOOLEAN
    /\ r.nodes \in SUBSET DOMAIN types
    /\ r.active = call.active
Deeper(types, call, c) ==
    c \in Visits(types) /\ c.active = call.active \cup {call.name}
WalkTyped(types, call, before) ==
    /\ before.ok \in BOOLEAN
    /\ before.nodes \in SUBSET DOMAIN types
    /\ before.active = call.active \cup {call.name}

DeeperTyped(types, call, build) ==
    \A c : Deeper(types, call, c) => Typed(types, c, build[c])

LEMMA PartTyped ==
    ASSUME NEW types, Program(types), NEW name \in DOMAIN types,
           NEW i \in DOMAIN types[name].parts
    PROVE  /\ types[name].parts[i].type \in DOMAIN types
           /\ types[name].parts[i].exported \in BOOLEAN
<1> DEFINE D == DOMAIN types
           Record == [type : D, exported : BOOLEAN]
<1>1. types[name].parts \in Seq(Record)
  BY DEF Program
<1>2. types[name].parts[i] \in Record
  <2> HIDE DEF Record
  <2> QED BY <1>1
<1> QED BY <1>2

(* The call of a part.                                                      *)
Inner(types, call, before, i) ==
    Default!Call(types[call.name].parts[i].type, before.nodes, before.active)

LEMMA WalkIs ==
    ASSUME NEW types, NEW overrides, NEW build, NEW call, NEW before, NEW i,
           before.ok \in BOOLEAN, types[call.name].parts[i].exported \in BOOLEAN,
           NEW after, after = Default!Walk(types, overrides, call.name, build, before, i)
    PROVE  /\ ~before.ok => after = before
           /\ before.ok /\ ~types[call.name].parts[i].exported
                => after = Default!Failed(before.active)
           /\ before.ok /\ types[call.name].parts[i].exported =>
                /\ Default!ForField(types, overrides, call.name, i) => after = before
                /\ ~Default!ForField(types, overrides, call.name, i)
                    => after = build[Inner(types, call, before, i)]
BY DEF Default!Walk, Inner

LEMMA InnerIs ==
    ASSUME NEW types, Program(types), NEW call \in Visits(types), NEW before,
           WalkTyped(types, call, before), NEW i \in DOMAIN types[call.name].parts,
           NEW inner, inner = Inner(types, call, before, i)
    PROVE  /\ Deeper(types, call, inner) /\ inner \in Visits(types)
           /\ inner.name = types[call.name].parts[i].type
           /\ inner.nodes = before.nodes /\ inner.active = call.active \cup {call.name}
<1>1. call.name \in DOMAIN types /\ call.active \in SUBSET DOMAIN types
  BY DEF Visits
<1>2. types[call.name].parts[i].type \in DOMAIN types
  BY <1>1, PartTyped
<1> QED BY <1>1, <1>2 DEF Inner, Default!Call, Visits, Deeper, WalkTyped

LEMMA WalkKeepsTyped ==
    ASSUME NEW types, Program(types), NEW overrides, NEW call \in Visits(types), NEW build,
           DeeperTyped(types, call, build),
           NEW before, WalkTyped(types, call, before),
           NEW i \in DOMAIN types[call.name].parts
    PROVE  WalkTyped(types, call,
                     Default!Walk(types, overrides, call.name, build, before, i))
<1>1. PICK after : after = Default!Walk(types, overrides, call.name, build, before, i)
  OBVIOUS
<1>2. PICK inner : inner = Inner(types, call, before, i)
  OBVIOUS
<1>3. call.name \in DOMAIN types
  BY DEF Visits
<1>4. before.ok \in BOOLEAN /\ types[call.name].parts[i].exported \in BOOLEAN
  BY <1>3, PartTyped DEF WalkTyped
<1>5. Deeper(types, call, inner) /\ inner.active = call.active \cup {call.name}
  BY <1>2, InnerIs
<1>6. Typed(types, inner, build[inner])
  BY <1>5 DEF DeeperTyped
<1>7. WalkTyped(types, call, build[inner])
  BY <1>5, <1>6 DEF Typed, WalkTyped
<1>8. WalkTyped(types, call, Default!Failed(before.active))
  BY DEF WalkTyped, Default!Failed
<1>9. after \in {before, Default!Failed(before.active), build[inner]}
  BY <1>1, <1>2, <1>4, WalkIs
<1>10. WalkTyped(types, call, after)
  BY <1>7, <1>8, <1>9
<1> QED BY <1>1, <1>10

(* What buildDefault does with a type it has not begun: the walk over its   *)
(* parts.                                                                   *)
Started(call) == [ok |-> TRUE, nodes |-> call.nodes, active |-> call.active \cup {call.name}]

EnteredAs(types, name, seq, n) ==
    /\ DOMAIN seq = 1..n /\ \A i \in 1..n : seq[i] = i /\ i \in DOMAIN types[name].parts
    /\ types[name].kind \in {"primitive", "empty array"} => n = 0
    /\ types[name].kind \notin {"primitive", "empty array"} => DOMAIN types[name].parts = 1..n

LEMMA EnteredIs ==
    ASSUME NEW types, Program(types), NEW name \in DOMAIN types,
           NEW seq, seq = Default!Entered(types, name)
    PROVE  \E n \in Nat : EnteredAs(types, name, seq, n)
<1>1. CASE types[name].kind \in {"primitive", "empty array"}
  <2>1. seq = <<>>
    BY <1>1 DEF Default!Entered
  <2>2. DOMAIN seq = 1..0
    BY <2>1
  <2>3. \A i \in 1..0 : FALSE
    OBVIOUS
  <2>4. EnteredAs(types, name, seq, 0)
    BY <1>1, <2>2, <2>3 DEF EnteredAs
  <2> QED BY <2>4
<1>2. CASE types[name].kind \notin {"primitive", "empty array"}
  <2> DEFINE Record == [type : DOMAIN types, exported : BOOLEAN]
  <2>1. types[name].parts \in Seq(Record)
    BY DEF Program
  <2>2. PICK n \in Nat : DOMAIN types[name].parts = 1..n
    <3> HIDE DEF Record
    <3> QED BY <2>1
  <2>3. seq = Default!Positions(types[name].parts)
    BY <1>2 DEF Default!Entered
  <2>4. DOMAIN seq = 1..n /\ \A i \in 1..n : seq[i] = i
    BY <2>2, <2>3 DEF Default!Positions
  <2>5. EnteredAs(types, name, seq, n)
    BY <1>2, <2>2, <2>4 DEF EnteredAs
  <2> QED BY <2>5
<1> QED BY <1>1, <1>2

(* The walk as one part after the other.                                    *)
Walking(types, overrides, call, build, n, g) ==
    /\ g[0] = Started(call)
    /\ \A k \in 0..n - 1 :
        g[k + 1] = Default!Walk(types, overrides, call.name, build, g[k], k + 1)

WalkOf(types, overrides, call, build, walked, n, g) ==
    /\ Walking(types, overrides, call, build, n, g) /\ walked = g[n]
    /\ \A i \in 1..n : i \in DOMAIN types[call.name].parts
    /\ types[call.name].kind \in {"primitive", "empty array"} => n = 0
    /\ types[call.name].kind \notin {"primitive", "empty array"} =>
            DOMAIN types[call.name].parts = 1..n

LEMMA WalkExists ==
    ASSUME NEW types, Program(types), NEW overrides, NEW call \in Visits(types), NEW build,
           NEW walked,
           walked = Default!WalkParts(types, overrides, call.name, build, Started(call))
    PROVE  \E n \in Nat : \E g : WalkOf(types, overrides, call, build, walked, n, g)
<1>1. PICK name : name = call.name
  OBVIOUS
<1>2. name \in DOMAIN types
  BY <1>1 DEF Visits
<1>3. PICK seq : seq = Default!Entered(types, name)
  OBVIOUS
<1>4. PICK n \in Nat : EnteredAs(types, name, seq, n)
  BY Zenon, <1>2, <1>3, EnteredIs
<1>5. PICK begun : begun = Started(call)
  OBVIOUS
<1>6. PartsFolded(types, overrides, name, build, begun, seq, n)
  <2>1. DOMAIN seq = 1..n
    BY <1>4 DEF EnteredAs
  <2> QED BY Zenon, <1>3, <2>1, PartsInTurn
<1>7. PICK g :
        /\ InTurn(HowParts(types, overrides, name, build), begun, seq, g, n)
        /\ Default!WalkParts(types, overrides, name, build, begun) = g[n]
  BY Zenon, <1>6 DEF PartsFolded
<1>8. \A k \in 0..n - 1 : g[k + 1] = Default!Walk(types, overrides, name, build, g[k], k + 1)
  <2> TAKE k \in 0..n - 1
  <2>1. k + 1 \in 1..n
    OBVIOUS
  <2>2. g[k + 1] = Turn(HowParts(types, overrides, name, build), g[k], k + 1)
    BY <1>4, <1>7, <2>1 DEF InTurn, EnteredAs
  <2> QED BY <2>2 DEF Turn, HowParts
<1>9. g[0] = begun
  BY <1>7 DEF InTurn
<1>10. Walking(types, overrides, call, build, n, g)
  BY <1>1, <1>5, <1>8, <1>9 DEF Walking
<1>11. WalkOf(types, overrides, call, build, walked, n, g)
  BY <1>1, <1>4, <1>5, <1>7, <1>10 DEF EnteredAs, WalkOf
<1> QED BY Zenon, <1>11

EachTyped(types, call, n, g) == \A k \in 0..n : WalkTyped(types, call, g[k])

LEMMA WalkingTyped ==
    ASSUME NEW types, Program(types), NEW overrides, NEW call \in Visits(types), NEW build,
           DeeperTyped(types, call, build),
           NEW walked, NEW n \in Nat, NEW g,
           WalkOf(types, overrides, call, build, walked, n, g)
    PROVE  EachTyped(types, call, n, g)
<1>0. /\ Walking(types, overrides, call, build, n, g)
      /\ \A i \in 1..n : i \in DOMAIN types[call.name].parts
  BY DEF WalkOf
<1> DEFINE T == {k \in 0..n : WalkTyped(types, call, g[k])}
<1>1. 0 \in T
  <2>1. g[0] = Started(call)
    BY <1>0 DEF Walking
  <2>2. call.name \in DOMAIN types /\ call.nodes \in SUBSET DOMAIN types
    BY DEF Visits
  <2>3. WalkTyped(types, call, g[0])
    BY <2>1, <2>2 DEF WalkTyped, Started
  <2> QED BY <2>3
<1>2. ASSUME NEW k \in 0..n - 1, k \in T PROVE k + 1 \in T
  <2>1. k \in Nat /\ k + 1 \in 0..n /\ k + 1 \in 1..n
    OBVIOUS
  <2>2. g[k + 1] = Default!Walk(types, overrides, call.name, build, g[k], k + 1)
    BY <1>0 DEF Walking
  <2>3. WalkTyped(types, call, g[k])
    BY <1>2
  <2>4. PICK was : was = g[k]
    OBVIOUS
  <2>5. PICK i : i = k + 1
    OBVIOUS
  <2>6. WalkTyped(types, call, Default!Walk(types, overrides, call.name, build, was, i))
    BY <1>0, <2>1, <2>3, <2>4, <2>5, WalkKeepsTyped
  <2> QED BY <2>1, <2>2, <2>4, <2>5, <2>6
<1> HIDE DEF T
<1>3. \A k \in 0..n : k \in T
  BY <1>1, <1>2, OneByOne
<1> QED BY <1>3 DEF T, EachTyped

VisitOf(types, overrides, build, call) ==
    Default!Visit(types, overrides, call.name, build, call.nodes, call.active)
Done(call) ==
    [ok |-> TRUE, nodes |-> call.nodes \cup {call.name}, active |-> call.active]
Ended(call, walked) ==
    [ok |-> walked.ok, active |-> walked.active \ {call.name},
     nodes |-> walked.nodes \cup (IF walked.ok THEN {call.name} ELSE {})]
(* The types whose structure a visit goes into.                             *)
Open(types, overrides, call) ==
    /\ call.name \notin call.active /\ call.name \notin call.nodes
    /\ ~Default!ForType(overrides, call.name) /\ types[call.name].kind # "known"

LEMMA VisitIs ==
    ASSUME NEW types, NEW overrides, NEW build, NEW call,
           NEW visit, visit = VisitOf(types, overrides, build, call)
    PROVE  /\ call.name \in call.active => visit = Default!Failed(call.active)
           /\ call.name \notin call.active /\ ~Open(types, overrides, call) => visit = Done(call)
           /\ Open(types, overrides, call) /\ types[call.name].kind = "unsupported"
                => visit = Default!Failed(call.active)
           /\ Open(types, overrides, call) /\ types[call.name].kind # "unsupported"
                => visit = Ended(call, Default!WalkParts(types, overrides, call.name, build,
                                                         Started(call)))
<1>1. PICK walked : walked = Default!WalkParts(types, overrides, call.name, build, Started(call))
  OBVIOUS
<1>2. call.name \in call.active => visit = Default!Failed(call.active)
  BY DEF VisitOf, Default!Visit
<1>3. ASSUME call.name \notin call.active, ~Open(types, overrides, call)
      PROVE  visit = Done(call)
  BY <1>3 DEF VisitOf, Default!Visit, Open, Done
<1>4. ASSUME Open(types, overrides, call), types[call.name].kind = "unsupported"
      PROVE  visit = Default!Failed(call.active)
  <2>1. (call.active \cup {call.name}) \ {call.name} = call.active
    BY <1>4 DEF Open
  <2> QED BY <1>4, <2>1 DEF VisitOf, Default!Visit, Open, Default!Left
<1>5. ASSUME Open(types, overrides, call), types[call.name].kind # "unsupported"
      PROVE  visit = Ended(call, walked)
  BY <1>1, <1>5 DEF VisitOf, Default!Visit, Open, Default!Left, Ended, Started
<1> QED BY <1>1, <1>2, <1>3, <1>4, <1>5

LEMMA VisitTyped ==
    ASSUME NEW types, Program(types), NEW overrides, NEW call \in Visits(types), NEW build,
           call.name \notin call.active => DeeperTyped(types, call, build)
    PROVE  Typed(types, call, VisitOf(types, overrides, build, call))
<1>1. PICK visit : visit = VisitOf(types, overrides, build, call)
  OBVIOUS
<1>2. /\ call.name \in DOMAIN types /\ call.nodes \in SUBSET DOMAIN types
      /\ call.active \in SUBSET DOMAIN types
  BY DEF Visits
<1>3. PICK walked : walked = Default!WalkParts(types, overrides, call.name, build, Started(call))
  OBVIOUS
<1>4. \/ visit = Default!Failed(call.active) \/ visit = Done(call)
      \/ Open(types, overrides, call) /\ visit = Ended(call, walked)
  BY <1>1, <1>3, VisitIs
<1>5. CASE visit = Default!Failed(call.active)
  <2>1. Typed(types, call, visit)
    BY <1>2, <1>5 DEF Default!Failed, Typed
  <2> QED BY <1>1, <2>1
<1>6. CASE visit = Done(call)
  <2>1. Typed(types, call, visit)
    BY <1>2, <1>6 DEF Done, Typed
  <2> QED BY <1>1, <2>1
<1>7. CASE Open(types, overrides, call) /\ visit = Ended(call, walked)
  <2>1. call.name \notin call.active
    BY <1>7 DEF Open
  <2>20. PICK n \in Nat : \E g : WalkOf(types, overrides, call, build, walked, n, g)
    BY Zenon, <1>3, WalkExists
  <2>2. PICK g : WalkOf(types, overrides, call, build, walked, n, g)
    BY Zenon, <2>20
  <2>3. EachTyped(types, call, n, g)
    BY Zenon, <1>7, <2>1, <2>2, WalkingTyped
  <2>4. n \in 0..n
    OBVIOUS
  <2>5. WalkTyped(types, call, walked)
    BY <2>2, <2>3, <2>4 DEF WalkOf, EachTyped
  <2>6. (call.active \cup {call.name}) \ {call.name} = call.active
    BY <2>1
  <2>7. Typed(types, call, visit)
    BY <1>2, <1>7, <2>5, <2>6 DEF WalkTyped, Ended, Typed
  <2> QED BY <1>1, <2>7
<1> QED BY <1>4, <1>5, <1>6, <1>7

(* A visit looks only at the deeper calls.                                  *)
SameDeeper(types, call, f, h) ==
    \A c : Deeper(types, call, c) => Typed(types, c, f[c]) /\ f[c] = h[c]

LEMMA VisitLooksDeeper ==
    ASSUME NEW types, Program(types), NEW overrides, NEW call \in Visits(types),
           NEW f, NEW h, call.name \notin call.active => SameDeeper(types, call, f, h)
    PROVE  VisitOf(types, overrides, f, call) = VisitOf(types, overrides, h, call)
<1>1. PICK a : a = VisitOf(types, overrides, f, call)
  OBVIOUS
<1>2. PICK b : b = VisitOf(types, overrides, h, call)
  OBVIOUS
<1>3. PICK v : v = Default!WalkParts(types, overrides, call.name, f, Started(call))
  OBVIOUS
<1>4. PICK w : w = Default!WalkParts(types, overrides, call.name, h, Started(call))
  OBVIOUS
<1>5. a = b \/ (Open(types, overrides, call) /\ a = Ended(call, v) /\ b = Ended(call, w))
  <2>1. /\ call.name \in call.active => a = Default!Failed(call.active)
        /\ call.name \notin call.active /\ ~Open(types, overrides, call) => a = Done(call)
        /\ Open(types, overrides, call) /\ types[call.name].kind = "unsupported"
            => a = Default!Failed(call.active)
        /\ Open(types, overrides, call) /\ types[call.name].kind # "unsupported"
            => a = Ended(call, v)
    BY <1>1, <1>3, VisitIs
  <2>2. /\ call.name \in call.active => b = Default!Failed(call.active)
        /\ call.name \notin call.active /\ ~Open(types, overrides, call) => b = Done(call)
        /\ Open(types, overrides, call) /\ types[call.name].kind = "unsupported"
            => b = Default!Failed(call.active)
        /\ Open(types, overrides, call) /\ types[call.name].kind # "unsupported"
            => b = Ended(call, w)
    BY <1>2, <1>4, VisitIs
  <2>3. Open(types, overrides, call) => call.name \notin call.active
    BY DEF Open
  <2> QED BY <2>1, <2>2, <2>3
<1>6. ASSUME Open(types, overrides, call) PROVE v = w
  <2>1. SameDeeper(types, call, f, h)
    BY <1>6 DEF Open
  <2>2. DeeperTyped(types, call, f)
    BY <2>1 DEF SameDeeper, DeeperTyped
  <2>30. PICK n \in Nat : \E g : WalkOf(types, overrides, call, f, v, n, g)
    BY Zenon, <1>3, WalkExists
  <2>3. PICK g : WalkOf(types, overrides, call, f, v, n, g)
    BY Zenon, <2>30
  <2>40. PICK m \in Nat : \E e : WalkOf(types, overrides, call, h, w, m, e)
    BY Zenon, <1>4, WalkExists
  <2>4. PICK e : WalkOf(types, overrides, call, h, w, m, e)
    BY Zenon, <2>40
  <2>5. m = n
    <3>1. ASSUME 1..m = 1..n PROVE m = n
      <4>1. m # 0 => m \in 1..m
        OBVIOUS
      <4>2. n # 0 => n \in 1..n
        OBVIOUS
      <4> QED BY <3>1, <4>1, <4>2
    <3> QED BY <2>3, <2>4, <3>1 DEF WalkOf
  <2>6. EachTyped(types, call, n, g)
    BY Zenon, <2>2, <2>3, WalkingTyped
  <2> DEFINE T == {k \in 0..n : g[k] = e[k]}
  <2>7. 0 \in T
    <3>1. g[0] = Started(call)
      BY <2>3 DEF WalkOf, Walking
    <3>2. e[0] = Started(call)
      BY <2>4 DEF WalkOf, Walking
    <3> QED BY <3>1, <3>2
  <2>8. ASSUME NEW k \in 0..n - 1, k \in T PROVE k + 1 \in T
    <3>1. k \in 0..n /\ k + 1 \in 0..n /\ k + 1 \in 1..n
      OBVIOUS
    <3>2. PICK i : i = k + 1
      OBVIOUS
    <3>3. PICK before : before = g[k]
      OBVIOUS
    <3>4. before = e[k] /\ WalkTyped(types, call, before) /\ i \in DOMAIN types[call.name].parts
      BY <2>3, <2>6, <2>8, <3>1, <3>2, <3>3 DEF WalkOf, EachTyped
    <3>5. PICK inner : inner = Inner(types, call, before, i)
      OBVIOUS
    <3>6. f[inner] = h[inner]
      BY <2>1, <3>4, <3>5, InnerIs DEF SameDeeper
    <3>7. g[k + 1] = Default!Walk(types, overrides, call.name, f, before, i)
      BY <2>3, <3>2, <3>3 DEF WalkOf, Walking
    <3>8. e[k + 1] = Default!Walk(types, overrides, call.name, h, before, i)
      BY <2>4, <2>5, <3>2, <3>4 DEF WalkOf, Walking
    <3>9. Default!Walk(types, overrides, call.name, f, before, i)
            = Default!Walk(types, overrides, call.name, h, before, i)
      <4>1. f[Default!Call(types[call.name].parts[i].type, before.nodes, before.active)]
              = h[Default!Call(types[call.name].parts[i].type, before.nodes, before.active)]
        BY <3>5, <3>6 DEF Inner
      <4> QED BY Zenon, <4>1 DEF Default!Walk
    <3> QED BY <3>1, <3>7, <3>8, <3>9
  <2>9. n \in 0..n
    OBVIOUS
  <2>10. n \in T
    <3> HIDE DEF T
    <3> QED BY <2>7, <2>8, <2>9, OneByOne
  <2> QED BY <2>3, <2>4, <2>5, <2>10 DEF WalkOf
<1> QED BY <1>1, <1>2, <1>5, <1>6

(* How many types a visit can still begin.                                  *)
Left(types, call) == Cardinality(DOMAIN types \ call.active)

LEMMA DeeperLeft ==
    ASSUME NEW types, Program(types), NEW call \in Visits(types), call.name \notin call.active,
           NEW c, Deeper(types, call, c)
    PROVE  Left(types, c) < Left(types, call) /\ Left(types, c) \in Nat /\ Left(types, call) \in Nat
<1>1. PICK S : S = DOMAIN types \ call.active
  OBVIOUS
<1>2. call.name \in S
  BY <1>1 DEF Visits
<1>3. DOMAIN types \ c.active = S \ {call.name}
  BY <1>1 DEF Deeper
<1>4. IsFiniteSet(S)
  BY <1>1, FS_Subset DEF Program
<1>5. Cardinality(S \ {call.name}) = Cardinality(S) - 1 /\ Cardinality(S) \in Nat
      /\ Cardinality(S \ {call.name}) \in Nat
  <2>1. IsFiniteSet(S \ {call.name})
    BY <1>4, FS_RemoveElement
  <2> QED BY <1>2, <1>4, <2>1, FS_RemoveElement, FS_CardinalityType
<1>6. PICK a : a = Cardinality(S)
  OBVIOUS
<1>7. PICK b : b = Cardinality(S \ {call.name})
  OBVIOUS
<1>8. b < a /\ a \in Nat /\ b \in Nat
  BY <1>5, <1>6, <1>7
<1>9. Left(types, call) = a /\ Left(types, c) = b
  BY <1>1, <1>3, <1>6, <1>7 DEF Left
<1> QED BY <1>8, <1>9

LEMMA LeftIs ==
    ASSUME NEW types, Program(types), NEW call \in Visits(types)
    PROVE  Left(types, call) \in Nat /\ Left(types, call) <= Cardinality(DOMAIN types)
<1>1. IsFiniteSet(DOMAIN types) /\ DOMAIN types \ call.active \subseteq DOMAIN types
  BY DEF Program
<1> QED BY <1>1, FS_Subset, FS_CardinalityType DEF Left

(* A function that is Visit on the calls with fewer than k types left.      *)
Builds(types, overrides, f, k) ==
    \A c \in Visits(types) : Left(types, c) < k =>
        f[c] = VisitOf(types, overrides, f, c) /\ Typed(types, c, f[c])

LEMMA BuildsDeeper ==
    ASSUME NEW types, Program(types), NEW overrides, NEW f, NEW k \in Nat,
           Builds(types, overrides, f, k), NEW call \in Visits(types),
           call.name \notin call.active, Left(types, call) <= k
    PROVE  DeeperTyped(types, call, f)
<1> SUFFICES ASSUME NEW c, Deeper(types, call, c) PROVE Typed(types, c, f[c])
  BY DEF DeeperTyped
<1>1. Left(types, c) < k
  <2>1. PICK a : a = Left(types, c)
    OBVIOUS
  <2>2. PICK b : b = Left(types, call)
    OBVIOUS
  <2>3. a < b /\ a \in Nat /\ b \in Nat
    BY <2>1, <2>2, DeeperLeft
  <2>4. b <= k
    BY <2>2
  <2> QED BY <2>1, <2>3, <2>4
<1>2. c \in Visits(types)
  BY DEF Deeper
<1> QED BY <1>1, <1>2 DEF Builds

LEMMA BuildsNext ==
    ASSUME NEW types, Program(types), NEW overrides, NEW f, NEW k \in Nat,
           Builds(types, overrides, f, k)
    PROVE  \E h : Builds(types, overrides, h, k + 1)
<1> DEFINE h == [c \in Visits(types) |->
                   IF Left(types, c) < k THEN f[c] ELSE VisitOf(types, overrides, f, c)]
<1>1. \A c \in Visits(types) :
        h[c] = IF Left(types, c) < k THEN f[c] ELSE VisitOf(types, overrides, f, c)
  OBVIOUS
<1> HIDE DEF h
<1>2. ASSUME NEW call \in Visits(types), Left(types, call) < k + 1
      PROVE  /\ h[call] = VisitOf(types, overrides, f, call)
             /\ Typed(types, call, VisitOf(types, overrides, f, call))
             /\ VisitOf(types, overrides, f, call) = VisitOf(types, overrides, h, call)
  <2>1. PICK b : b = Left(types, call)
    OBVIOUS
  <2>2. b \in Nat /\ b <= k
    <3>1. b \in Nat
      BY <2>1, LeftIs
    <3> QED BY <1>2, <2>1, <3>1
  <2>3. call.name \notin call.active => DeeperTyped(types, call, f)
    BY <2>1, <2>2, BuildsDeeper
  <2>4. Typed(types, call, VisitOf(types, overrides, f, call))
    BY <2>3, VisitTyped
  <2>5. h[call] = VisitOf(types, overrides, f, call)
    BY <1>1 DEF Builds
  <2>6. ASSUME call.name \notin call.active PROVE SameDeeper(types, call, f, h)
    <3> SUFFICES ASSUME NEW c, Deeper(types, call, c) PROVE Typed(types, c, f[c]) /\ f[c] = h[c]
      BY DEF SameDeeper
    <3>1. Typed(types, c, f[c])
      BY <2>3, <2>6 DEF DeeperTyped
    <3>2. c \in Visits(types)
      BY DEF Deeper
    <3>3. PICK a : a = Left(types, c)
      OBVIOUS
    <3>4. a < b /\ a \in Nat
      BY <2>1, <2>6, <3>3, DeeperLeft
    <3>5. a < k
      BY <2>2, <3>4
    <3>6. h[c] = f[c]
      BY <1>1, <3>2, <3>3, <3>5
    <3> QED BY <3>1, <3>6
  <2>7. VisitOf(types, overrides, f, call) = VisitOf(types, overrides, h, call)
    BY <2>6, VisitLooksDeeper
  <2> QED BY <2>4, <2>5, <2>7
<1>3. Builds(types, overrides, h, k + 1)
  BY <1>2 DEF Builds
<1> QED BY <1>3

LEMMA BuildsAll ==
    ASSUME NEW types, Program(types), NEW overrides
    PROVE  \E f : \A c \in Visits(types) : f[c] = VisitOf(types, overrides, f, c)
                                           /\ Typed(types, c, f[c])
<1>1. PICK d \in Nat : d = Cardinality(DOMAIN types)
  BY FS_CardinalityType DEF Program
<1> DEFINE T == {k \in 0..d + 1 : \E f : Builds(types, overrides, f, k)}
<1>2. 0 \in T
  <2>1. \A c \in Visits(types) : ~(Left(types, c) < 0)
    <3> TAKE c \in Visits(types)
    <3>1. PICK a \in Nat : a = Left(types, c)
      BY LeftIs
    <3> QED BY <3>1
  <2>2. Builds(types, overrides, [c \in {} |-> 0], 0)
    BY <2>1 DEF Builds
  <2>3. 0 \in 0..d + 1
    OBVIOUS
  <2> QED BY <2>2, <2>3
<1>3. ASSUME NEW k \in 0..(d + 1) - 1, k \in T PROVE k + 1 \in T
  <2>1. k \in Nat /\ k + 1 \in 0..d + 1
    OBVIOUS
  <2>2. PICK f : Builds(types, overrides, f, k)
    BY <1>3
  <2>3. PICK h : Builds(types, overrides, h, k + 1)
    BY <2>1, <2>2, BuildsNext
  <2> QED BY <2>1, <2>3
<1>4. d + 1 \in T
  <2>1. d + 1 \in Nat /\ d + 1 \in 0..d + 1
    OBVIOUS
  <2> HIDE DEF T
  <2> QED BY <1>2, <1>3, <2>1, OneByOne
<1>5. PICK f : Builds(types, overrides, f, d + 1)
  BY <1>4
<1>6. \A c \in Visits(types) : Left(types, c) < d + 1
  <2> TAKE c \in Visits(types)
  <2>1. PICK a : a = Left(types, c)
    OBVIOUS
  <2>2. a \in Nat /\ a <= d
    BY <1>1, <2>1, LeftIs
  <2> QED BY <2>1, <2>2
<1> QED BY <1>5, <1>6 DEF Builds

(* buildDefault is some such function on all calls.                         *)
IsBuild(types, overrides, f) ==
    \A c \in Visits(types) : f[c] = VisitOf(types, overrides, f, c)
BuiltBy(types, overrides, root, built, f) ==
    IsBuild(types, overrides, f) /\ built = f[Default!Call(root, {}, {})]

LEMMA BuildDefaultIs ==
    ASSUME NEW types, Program(types), NEW overrides, NEW root,
           NEW built, built = Default!BuildDefault(types, overrides, root)
    PROVE  \E f : BuiltBy(types, overrides, root, built, f)
<1> DEFINE S == Visits(types)
           Body(f, c) == Default!Visit(types, overrides, c.name, f, c.nodes, c.active)
           P(f) == f = [c \in S |-> Body(f, c)]
           build == CHOOSE f : P(f)
<1>1. \A f, c : VisitOf(types, overrides, f, c) = Body(f, c)
  BY Zenon DEF VisitOf
<1>2. PICK f : \A c \in S : f[c] = VisitOf(types, overrides, f, c) /\ Typed(types, c, f[c])
  BY BuildsAll
<1> DEFINE h == [c \in S |-> f[c]]
<1>3. \A c \in S : h[c] = f[c]
  <2> HIDE DEF S
  <2> QED OBVIOUS
<1>4. h = [c \in S |-> h[c]]
  <2> HIDE DEF S
  <2> QED OBVIOUS
<1> HIDE DEF h
<1>5. ASSUME NEW c \in S PROVE h[c] = VisitOf(types, overrides, h, c)
  <2>1. c \in Visits(types)
    OBVIOUS
  <2>2. SameDeeper(types, c, f, h)
    <3> SUFFICES ASSUME NEW e, Deeper(types, c, e) PROVE Typed(types, e, f[e]) /\ f[e] = h[e]
      BY DEF SameDeeper
    <3>1. e \in S
      BY DEF Deeper
    <3> HIDE DEF S
    <3> QED BY <1>2, <1>3, <3>1
  <2>3. VisitOf(types, overrides, f, c) = VisitOf(types, overrides, h, c)
    <3> HIDE DEF S
    <3> QED BY <2>1, <2>2, VisitLooksDeeper
  <2> HIDE DEF S
  <2> QED BY <1>2, <1>3, <2>3
<1>6. P(h)
  <2>1. \A c \in S : h[c] = Body(h, c)
    <3> HIDE DEF S, Body
    <3> QED BY <1>1, <1>5
  <2>2. [c \in S |-> h[c]] = [c \in S |-> Body(h, c)]
    <3> HIDE DEF S, Body
    <3> QED BY <2>1
  <2> HIDE DEF S, Body
  <2> QED BY Zenon, <1>4, <2>2
<1>7. P(build)
  <2> HIDE DEF P
  <2> QED BY Zenon, <1>6
<1>8. \A c \in S : build[c] = VisitOf(types, overrides, build, c)
  <2>1. \A c \in S : build[c] = Body(build, c)
    <3> HIDE DEF build, Body, S
    <3> QED BY <1>7
  <2> HIDE DEF build, Body, S
  <2> QED BY <1>1, <2>1
<1>9. built = build[Default!Call(root, {}, {})]
  BY Zenon DEF Default!BuildDefault, Visits
<1> HIDE DEF build, P, Body
<1> QED BY Zenon, <1>8, <1>9 DEF BuiltBy, IsBuild

-----------------------------------------------------------------------------
(* It reaches what it should: in the calls it makes (Sane), what is done    *)
(* can be built and a type whose walk has begun needs the one that is       *)
(* called for; the result is what is reached from there, or there is        *)
(* something that cannot be built (Correct).  The induction is on the       *)
(* number of types whose walk has not begun.                                *)

Asked(types, options) == Program(types) /\ \E n \in Nat : DOMAIN options = 1..n
Reach(types, options, name) == Default!Reached(types, options, {name})
Under(types, options, name) ==
    Default!Reached(types, options, Default!Needs(types, options, name))
Holding(types, options, C) ==
    \A m \in C \cap DOMAIN types : Default!Needs(types, options, m) \subseteq C

LEMMA ReachIs ==
    ASSUME NEW types, NEW options, Asked(types, options), NEW name \in DOMAIN types,
           NEW R, R = Reach(types, options, name)
    PROVE  /\ name \in R /\ R \subseteq DOMAIN types /\ Holding(types, options, R)
           /\ \A C : name \in C /\ Holding(types, options, C) => R \subseteq C
<1>1. PICK from : from = {name}
  OBVIOUS
<1>2. from \in SUBSET DOMAIN types /\ R = Default!Reached(types, options, from)
  BY <1>1 DEF Reach
<1>3. Program(types)
  BY DEF Asked
<1>4. /\ from \subseteq R /\ R \subseteq DOMAIN types
      /\ \A m \in R : Default!Needs(types, options, m) \subseteq R
      /\ \A C : /\ from \subseteq C
                /\ \A m \in C \cap DOMAIN types : Default!Needs(types, options, m) \subseteq C
                => R \subseteq C
  BY <1>2, <1>3, ReachedIs
<1> QED BY <1>1, <1>4 DEF Holding

LEMMA UnderIs ==
    ASSUME NEW types, NEW options, Asked(types, options), NEW name \in DOMAIN types,
           NEW U, U = Under(types, options, name)
    PROVE  /\ Default!Needs(types, options, name) \subseteq U /\ U \subseteq DOMAIN types
           /\ Holding(types, options, U)
           /\ \A C : Default!Needs(types, options, name) \subseteq C /\ Holding(types, options, C)
                        => U \subseteq C
<1>1. PICK from : from = Default!Needs(types, options, name)
  OBVIOUS
<1>2. Program(types)
  BY DEF Asked
<1>3. from \in SUBSET DOMAIN types /\ U = Default!Reached(types, options, from)
  BY <1>1, <1>2, NeedsTyped DEF Under
<1>4. /\ from \subseteq U /\ U \subseteq DOMAIN types
      /\ \A m \in U : Default!Needs(types, options, m) \subseteq U
      /\ \A C : /\ from \subseteq C
                /\ \A m \in C \cap DOMAIN types : Default!Needs(types, options, m) \subseteq C
                => U \subseteq C
  BY <1>2, <1>3, ReachedIs
<1> QED BY <1>1, <1>4 DEF Holding

(* What a type reaches it reaches through what it needs.                    *)
LEMMA ReachFacts ==
    ASSUME NEW types, NEW options, Asked(types, options), NEW name \in DOMAIN types
    PROVE  /\ Under(types, options, name) \subseteq Reach(types, options, name)
           /\ \A m \in Under(types, options, name) :
                Reach(types, options, m) \subseteq Under(types, options, name)
           /\ \A m \in Reach(types, options, name) :
                Reach(types, options, m) \subseteq Reach(types, options, name)
<1>1. PICK R : R = Reach(types, options, name)
  OBVIOUS
<1>2. PICK U : U = Under(types, options, name)
  OBVIOUS
<1>3. name \in R /\ R \subseteq DOMAIN types /\ Holding(types, options, R)
  BY <1>1, ReachIs
<1>4. /\ U \subseteq DOMAIN types /\ Holding(types, options, U)
      /\ \A C : Default!Needs(types, options, name) \subseteq C /\ Holding(types, options, C)
                    => U \subseteq C
  BY <1>2, UnderIs
<1>5. Default!Needs(types, options, name) \subseteq R
  BY <1>3 DEF Holding
<1>6. U \subseteq R
  BY <1>3, <1>4, <1>5
<1>7. ASSUME NEW C, C \subseteq DOMAIN types, Holding(types, options, C), NEW m \in C
      PROVE  Reach(types, options, m) \subseteq C
  <2>1. PICK S : S = Reach(types, options, m)
    OBVIOUS
  <2>2. \A X : m \in X /\ Holding(types, options, X) => S \subseteq X
    BY <1>7, <2>1, ReachIs
  <2> QED BY <1>7, <2>1, <2>2
<1> QED BY <1>1, <1>2, <1>3, <1>4, <1>6, <1>7

LEMMA InsideIs ==
    ASSUME NEW types, NEW options, Asked(types, options), NEW name
    PROVE  Default!Inside(types, options, name) <=>
            \/ types[name].kind \in {"known", "primitive", "empty array"}
            \/ Default!ForType(Default!Overrides(options), name)
<1>1. PICK n \in Nat : DOMAIN options = 1..n
  BY DEF Asked
<1>2. PICK kept : kept = Default!Overrides(options)
  OBVIOUS
<1>3. Default!ForType(kept, name)
        <=> Default!LastOption(options, Default!Override(name, 0)) # Default!Itself
  BY <1>1, <1>2, TypeOverrides
<1> QED BY <1>2, <1>3 DEF Default!Inside

LEMMA NeedsAre ==
    ASSUME NEW types, NEW options, Asked(types, options), NEW name,
           ~Default!Inside(types, options, name)
    PROVE  Default!Needs(types, options, name) =
            {types[name].parts[i].type :
                i \in {j \in DOMAIN types[name].parts :
                        ~Default!ForField(types, Default!Overrides(options), name, j)}}
<1>1. PICK n \in Nat : DOMAIN options = 1..n
  BY DEF Asked
<1>2. PICK kept : kept = Default!Overrides(options)
  OBVIOUS
<1>3. \A i : Default!ForField(types, kept, name, i)
              <=> ~(\/ Default!Wanted(types, options, name, i) = Default!Itself
                    \/ Default!LastOption(options,
                          Default!Override(types[name].parts[i].type, 0)) # Default!Itself)
  BY <1>1, <1>2, FieldOverrides
<1>4. {j \in DOMAIN types[name].parts : ~Default!ForField(types, kept, name, j)}
        = {j \in DOMAIN types[name].parts :
             \/ Default!Wanted(types, options, name, j) = Default!Itself
             \/ Default!LastOption(options,
                    Default!Override(types[name].parts[j].type, 0)) # Default!Itself}
  BY <1>3
<1> QED BY <1>2, <1>4 DEF Default!Needs

(* Types that can be built, and all they need: what is done stays so.       *)
Buildable(types, options, nodes) ==
    \A m \in nodes : ~Default!Unbuildable(types, options, m)
                     /\ Default!Needs(types, options, m) \subseteq nodes
Unbuilt(types, options, name) ==
    \E m \in Reach(types, options, name) : Default!Unbuildable(types, options, m)

(* The calls that a walk makes: what is done can be built, and each type    *)
(* whose walk has begun needs the one that is called for.                   *)
Sane(types, options, call) ==
    /\ Buildable(types, options, call.nodes)
    /\ call.nodes \cap call.active = {}
    /\ \A a \in call.active :
        ~Default!Inside(types, options, a) /\ call.name \in Under(types, options, a)

(* The types that are done are those that are reached.                      *)
Correct(types, options, call, r) ==
    /\ r.ok =>
        /\ Buildable(types, options, r.nodes)
        /\ call.nodes \cup {call.name} \subseteq r.nodes
        /\ r.nodes \subseteq call.nodes \cup Reach(types, options, call.name)
        /\ r.nodes \cap call.active = {}
    /\ ~r.ok => Unbuilt(types, options, call.name)
DeeperCorrect(types, options, call, build) ==
    \A c : Deeper(types, call, c) /\ Sane(types, options, c) => Correct(types, options, c, build[c])

Walked(types, options, call, nodes, k) ==
    /\ Buildable(types, options, nodes)
    /\ call.nodes \subseteq nodes
    /\ nodes \subseteq call.nodes \cup Under(types, options, call.name)
    /\ nodes \cap (call.active \cup {call.name}) = {}
    /\ \A j \in 1..k :
        /\ types[call.name].parts[j].exported
        /\ Default!ForField(types, Default!Overrides(options), call.name, j)
            \/ types[call.name].parts[j].type \in nodes
WalkCorrect(types, options, call, before, k) ==
    /\ before.ok => Walked(types, options, call, before.nodes, k)
    /\ ~before.ok => Unbuilt(types, options, call.name)

LEMMA InnerSane ==
    ASSUME NEW types, NEW options, Asked(types, options), NEW call \in Visits(types),
           Sane(types, options, call), ~Default!Inside(types, options, call.name),
           NEW before, WalkTyped(types, call, before), NEW k,
           Walked(types, options, call, before.nodes, k),
           NEW i \in DOMAIN types[call.name].parts,
           ~Default!ForField(types, Default!Overrides(options), call.name, i),
           NEW inner, inner = Inner(types, call, before, i)
    PROVE  /\ Sane(types, options, inner)
           /\ inner.name \in Under(types, options, call.name)
           /\ inner.name \in Reach(types, options, call.name)
<1>1. /\ inner.name = types[call.name].parts[i].type
      /\ inner.nodes = before.nodes /\ inner.active = call.active \cup {call.name}
  BY InnerIs DEF Asked
<1>2. call.name \in DOMAIN types /\ call.active \subseteq DOMAIN types
  BY DEF Visits
<1>3. inner.name \in Default!Needs(types, options, call.name)
  BY <1>1, NeedsAre
<1>4. inner.name \in Under(types, options, call.name)
  BY <1>2, <1>3, UnderIs
<1>5. inner.name \in Reach(types, options, call.name)
  BY <1>2, <1>4, ReachFacts
<1>6. ASSUME NEW a \in call.active PROVE inner.name \in Under(types, options, a)
  <2>1. call.name \in Under(types, options, a)
    BY DEF Sane
  <2>2. Holding(types, options, Under(types, options, a))
    BY <1>2, UnderIs
  <2> QED BY <1>2, <1>3, <2>1, <2>2 DEF Holding
<1>7. \A a \in call.active : ~Default!Inside(types, options, a)
  BY DEF Sane
<1>8. Buildable(types, options, inner.nodes) /\ inner.nodes \cap inner.active = {}
  BY <1>1 DEF Walked
<1>9. Sane(types, options, inner)
  BY <1>1, <1>4, <1>6, <1>7, <1>8 DEF Sane
<1> QED BY <1>4, <1>5, <1>9

LEMMA WalkKeepsCorrect ==
    ASSUME NEW types, NEW options, Asked(types, options),
           NEW overrides, overrides = Default!Overrides(options), NEW call \in Visits(types),
           Sane(types, options, call), ~Default!Inside(types, options, call.name),
           NEW build, DeeperCorrect(types, options, call, build),
           NEW before, WalkTyped(types, call, before), NEW k \in Nat,
           WalkCorrect(types, options, call, before, k),
           k + 1 \in DOMAIN types[call.name].parts
    PROVE  WalkCorrect(types, options, call,
                Default!Walk(types, overrides, call.name, build, before, k + 1), k + 1)
<1>1. PICK i : i = k + 1
  OBVIOUS
<1>2. PICK after : after = Default!Walk(types, overrides, call.name, build, before, i)
  OBVIOUS
<1>3. PICK inner : inner = Inner(types, call, before, i)
  OBVIOUS
<1>4. call.name \in DOMAIN types /\ Program(types) /\ i \in DOMAIN types[call.name].parts
  BY <1>1 DEF Visits, Asked
<1>5. PICK part : part = types[call.name].parts[i]
  OBVIOUS
<1>6. before.ok \in BOOLEAN /\ part.exported \in BOOLEAN
  BY <1>4, <1>5, PartTyped DEF WalkTyped
<1>7. /\ ~before.ok => after = before
      /\ before.ok /\ ~part.exported => after = Default!Failed(before.active)
      /\ before.ok /\ part.exported =>
            /\ Default!ForField(types, overrides, call.name, i) => after = before
            /\ ~Default!ForField(types, overrides, call.name, i) => after = build[inner]
  <2>1. types[call.name].parts[i].exported \in BOOLEAN
    BY <1>5, <1>6
  <2>2. /\ ~before.ok => after = before
        /\ before.ok /\ ~types[call.name].parts[i].exported
             => after = Default!Failed(before.active)
        /\ before.ok /\ types[call.name].parts[i].exported =>
             /\ Default!ForField(types, overrides, call.name, i) => after = before
             /\ ~Default!ForField(types, overrides, call.name, i)
                 => after = build[Inner(types, call, before, i)]
    BY <1>2, <1>6, <2>1, WalkIs
  <2> QED BY <1>3, <1>5, <2>2
<1>8. \A j \in 1..i : j \in 1..k \/ j = i
  BY <1>1
<1>9. WalkCorrect(types, options, call, after, i)
  <2>1. CASE ~before.ok
    BY <1>7, <2>1 DEF WalkCorrect
  <2>2. CASE before.ok /\ ~part.exported
    <3>1. Default!Unbuildable(types, options, call.name)
      BY <1>4, <1>5, <2>2 DEF Default!Unbuildable
    <3>2. call.name \in Reach(types, options, call.name)
      BY <1>4, ReachIs
    <3>3. ~after.ok
      BY <1>7, <2>2 DEF Default!Failed
    <3> QED BY <3>1, <3>2, <3>3 DEF WalkCorrect, Unbuilt
  <2>3. CASE before.ok /\ part.exported /\ Default!ForField(types, overrides, call.name, i)
    <3>1. after = before /\ Walked(types, options, call, before.nodes, k)
      BY <1>7, <2>3 DEF WalkCorrect
    <3>2. Walked(types, options, call, after.nodes, i)
      BY <1>5, <1>8, <2>3, <3>1 DEF Walked
    <3> QED BY <2>3, <3>1, <3>2 DEF WalkCorrect
  <2>4. CASE before.ok /\ part.exported /\ ~Default!ForField(types, overrides, call.name, i)
    <3>1. after = build[inner] /\ Walked(types, options, call, before.nodes, k)
      BY <1>7, <2>4 DEF WalkCorrect
    <3>2. /\ Deeper(types, call, inner) /\ inner.name = part.type
          /\ inner.nodes = before.nodes /\ inner.active = call.active \cup {call.name}
      BY <1>3, <1>4, <1>5, InnerIs
    <3>3. /\ Sane(types, options, inner)
          /\ inner.name \in Under(types, options, call.name)
          /\ inner.name \in Reach(types, options, call.name)
      BY <1>3, <1>4, <2>4, <3>1, InnerSane
    <3>4. Correct(types, options, inner, after)
      BY <3>1, <3>2, <3>3 DEF DeeperCorrect
    <3>5. ASSUME ~after.ok PROVE Unbuilt(types, options, call.name)
      <4>1. PICK m \in Reach(types, options, inner.name) : Default!Unbuildable(types, options, m)
        BY <3>4, <3>5 DEF Correct, Unbuilt
      <4>2. Reach(types, options, inner.name) \subseteq Reach(types, options, call.name)
        BY <1>4, <3>3, ReachFacts
      <4> QED BY <4>1, <4>2 DEF Unbuilt
    <3>6. ASSUME after.ok PROVE Walked(types, options, call, after.nodes, i)
      <4>1. /\ Buildable(types, options, after.nodes)
            /\ before.nodes \cup {part.type} \subseteq after.nodes
            /\ after.nodes \subseteq before.nodes \cup Reach(types, options, inner.name)
            /\ after.nodes \cap (call.active \cup {call.name}) = {}
        BY <3>2, <3>4, <3>6 DEF Correct
      <4>2. Reach(types, options, inner.name) \subseteq Under(types, options, call.name)
        BY <1>4, <3>3, ReachFacts
      <4>3. /\ call.nodes \subseteq after.nodes
            /\ after.nodes \subseteq call.nodes \cup Under(types, options, call.name)
        BY <3>1, <4>1, <4>2 DEF Walked
      <4>4. \A j \in 1..i :
              /\ types[call.name].parts[j].exported
              /\ Default!ForField(types, Default!Overrides(options), call.name, j)
                  \/ types[call.name].parts[j].type \in after.nodes
        BY <1>5, <1>8, <2>4, <3>1, <4>1 DEF Walked
      <4> QED BY <4>1, <4>3, <4>4 DEF Walked
    <3> QED BY <3>5, <3>6 DEF WalkCorrect
  <2> QED BY <1>6, <2>1, <2>2, <2>3, <2>4
<1> QED BY <1>1, <1>2, <1>9

LEMMA InsideNeedsNothing ==
    ASSUME NEW types, NEW options, NEW name, Default!Inside(types, options, name)
    PROVE  Default!Needs(types, options, name) = {} /\ ~Default!Unbuildable(types, options, name)
BY DEF Default!Needs, Default!Unbuildable

LEMMA UnbuildableIs ==
    ASSUME NEW types, NEW options, NEW name, ~Default!Inside(types, options, name)
    PROVE  Default!Unbuildable(types, options, name) <=>
            \/ types[name].kind = "unsupported"
            \/ \E i \in DOMAIN types[name].parts : ~types[name].parts[i].exported
            \/ name \in Under(types, options, name)
BY DEF Default!Unbuildable, Under

(* A type that is done is done.                                             *)
LEMMA DoneCorrect ==
    ASSUME NEW types, NEW options, Asked(types, options), NEW call \in Visits(types),
           Sane(types, options, call), call.name \notin call.active,
           call.name \in call.nodes \/ Default!Inside(types, options, call.name)
    PROVE  Correct(types, options, call, Done(call))
<1>1. call.name \in DOMAIN types
  BY DEF Visits
<1>2. call.name \in Reach(types, options, call.name)
  BY <1>1, ReachIs
<1>3. Buildable(types, options, call.nodes) /\ call.nodes \cap call.active = {}
  BY DEF Sane
<1>4. PICK nodes : nodes = call.nodes \cup {call.name}
  OBVIOUS
<1>5. Buildable(types, options, nodes)
  <2>1. CASE call.name \in call.nodes
    <3>1. nodes = call.nodes
      BY <1>4, <2>1
    <3> QED BY <1>3, <3>1
  <2>2. CASE Default!Inside(types, options, call.name)
    <3>1. /\ Default!Needs(types, options, call.name) = {}
          /\ ~Default!Unbuildable(types, options, call.name)
      BY <2>2, InsideNeedsNothing
    <3> QED BY <1>3, <1>4, <3>1 DEF Buildable
  <2> QED BY <2>1, <2>2
<1> QED BY <1>2, <1>3, <1>4, <1>5 DEF Correct, Done

LEMMA WalkedCorrect ==
    ASSUME NEW types, NEW options, Asked(types, options), NEW call \in Visits(types),
           Sane(types, options, call), ~Default!Inside(types, options, call.name),
           call.name \notin call.active, types[call.name].kind # "unsupported",
           NEW walked, walked.ok \in BOOLEAN, NEW n \in Nat,
           DOMAIN types[call.name].parts = 1..n,
           WalkCorrect(types, options, call, walked, n)
    PROVE  Correct(types, options, call, Ended(call, walked))
<1>1. call.name \in DOMAIN types
  BY DEF Visits
<1>2. PICK ended : ended = Ended(call, walked)
  OBVIOUS
<1>3. CASE ~walked.ok
  <2>1. ~ended.ok
    BY <1>2, <1>3 DEF Ended
  <2>2. Unbuilt(types, options, call.name)
    BY <1>3 DEF WalkCorrect
  <2> QED BY <1>2, <2>1, <2>2 DEF Correct
<1>4. CASE walked.ok
  <2>1. Walked(types, options, call, walked.nodes, n)
    BY <1>4 DEF WalkCorrect
  <2>2. PICK nodes : nodes = walked.nodes
    OBVIOUS
  <2>3. ended.ok /\ ended.nodes = nodes \cup {call.name}
    BY <1>2, <1>4, <2>2 DEF Ended
  <2>4. /\ Buildable(types, options, nodes) /\ call.nodes \subseteq nodes
        /\ nodes \subseteq call.nodes \cup Under(types, options, call.name)
        /\ nodes \cap (call.active \cup {call.name}) = {}
    BY <2>1, <2>2 DEF Walked
  <2>5. \A j \in DOMAIN types[call.name].parts :
          /\ types[call.name].parts[j].exported
          /\ Default!ForField(types, Default!Overrides(options), call.name, j)
                \/ types[call.name].parts[j].type \in nodes
    BY <2>1, <2>2 DEF Walked
  <2>6. Default!Needs(types, options, call.name) \subseteq nodes
    BY <2>5, NeedsAre
  <2>7. Under(types, options, call.name) \subseteq nodes
    <3>1. Holding(types, options, nodes)
      BY <2>4 DEF Buildable, Holding
    <3> QED BY <1>1, <2>6, <3>1, UnderIs
  <2>8. ~Default!Unbuildable(types, options, call.name)
    <3>1. call.name \notin Under(types, options, call.name)
      BY <2>4, <2>7
    <3> QED BY <2>5, <3>1, UnbuildableIs
  <2>9. Buildable(types, options, ended.nodes)
    BY <2>3, <2>4, <2>6, <2>8 DEF Buildable
  <2>10. /\ call.name \in Reach(types, options, call.name)
         /\ Under(types, options, call.name) \subseteq Reach(types, options, call.name)
    <3>1. call.name \in Reach(types, options, call.name)
      BY <1>1, ReachIs
    <3> QED BY <1>1, <3>1, ReachFacts
  <2>11. ended.nodes \subseteq call.nodes \cup Reach(types, options, call.name)
    BY <2>3, <2>4, <2>10
  <2>12. /\ call.nodes \cup {call.name} \subseteq ended.nodes
         /\ ended.nodes \cap call.active = {}
    BY <2>3, <2>4
  <2>13. Correct(types, options, call, ended)
    BY <2>3, <2>9, <2>11, <2>12 DEF Correct
  <2> QED BY <1>2, <2>13
<1> QED BY <1>3, <1>4

LEMMA VisitCorrect ==
    ASSUME NEW types, NEW options, Asked(types, options),
           NEW overrides, overrides = Default!Overrides(options), NEW call \in Visits(types),
           NEW build, call.name \notin call.active =>
             DeeperTyped(types, call, build) /\ DeeperCorrect(types, options, call, build),
           Sane(types, options, call)
    PROVE  Correct(types, options, call, VisitOf(types, overrides, build, call))
<1>1. PICK visit : visit = VisitOf(types, overrides, build, call)
  OBVIOUS
<1>2. PICK walked : walked = Default!WalkParts(types, overrides, call.name, build, Started(call))
  OBVIOUS
<1>3. /\ call.name \in call.active => visit = Default!Failed(call.active)
      /\ call.name \notin call.active /\ ~Open(types, overrides, call) => visit = Done(call)
      /\ Open(types, overrides, call) /\ types[call.name].kind = "unsupported"
          => visit = Default!Failed(call.active)
      /\ Open(types, overrides, call) /\ types[call.name].kind # "unsupported"
          => visit = Ended(call, walked)
  BY <1>1, <1>2, VisitIs
<1>4. call.name \in DOMAIN types /\ Program(types)
  BY DEF Visits, Asked
<1>5. call.name \in Reach(types, options, call.name)
  BY <1>4, ReachIs
<1>6. Default!Inside(types, options, call.name) <=>
        \/ types[call.name].kind \in {"known", "primitive", "empty array"}
        \/ Default!ForType(overrides, call.name)
  BY InsideIs
<1>7. ASSUME Default!Unbuildable(types, options, call.name), visit = Default!Failed(call.active)
      PROVE  Correct(types, options, call, visit)
  <2>1. Unbuilt(types, options, call.name)
    BY <1>5, <1>7 DEF Unbuilt
  <2> QED BY <1>7, <2>1 DEF Default!Failed, Correct
<1>8. CASE call.name \in call.active
  <2>1. ~Default!Inside(types, options, call.name) /\ call.name \in Under(types, options, call.name)
    BY <1>8 DEF Sane
  <2>2. Default!Unbuildable(types, options, call.name)
    BY <2>1, UnbuildableIs
  <2> QED BY <1>1, <1>3, <1>7, <1>8, <2>2
<1>9. CASE call.name \notin call.active /\ ~Open(types, overrides, call)
  <2>1. call.name \in call.nodes \/ Default!Inside(types, options, call.name)
    BY <1>6, <1>9 DEF Open
  <2>2. Correct(types, options, call, Done(call))
    BY <1>9, <2>1, DoneCorrect
  <2> QED BY <1>1, <1>3, <1>9, <2>2
<1>10. CASE Open(types, overrides, call) /\ types[call.name].kind = "unsupported"
  <2>1. ~Default!Inside(types, options, call.name)
    BY <1>6, <1>10 DEF Open
  <2>2. Default!Unbuildable(types, options, call.name)
    BY <1>10, <2>1, UnbuildableIs
  <2> QED BY <1>1, <1>3, <1>7, <1>10, <2>2
<1>11. CASE Open(types, overrides, call) /\ types[call.name].kind # "unsupported"
  <2>1. /\ call.name \notin call.active /\ call.name \notin call.nodes
        /\ visit = Ended(call, walked)
    BY <1>3, <1>11 DEF Open
  <2>20. PICK n \in Nat : \E g : WalkOf(types, overrides, call, build, walked, n, g)
    BY Zenon, <1>2, <1>4, WalkExists
  <2>2. PICK g : WalkOf(types, overrides, call, build, walked, n, g)
    BY Zenon, <2>20
  <2>3. EachTyped(types, call, n, g)
    BY Zenon, <1>4, <2>1, <2>2, WalkingTyped
  <2>4. n \in 0..n /\ 0 \in 0..n
    OBVIOUS
  <2>5. WalkTyped(types, call, walked)
    BY <2>2, <2>3, <2>4 DEF WalkOf, EachTyped
  <2>6. walked.ok \in BOOLEAN
    BY <2>5 DEF WalkTyped
  <2>7. g[0] = Started(call)
    BY <2>2 DEF WalkOf, Walking
  <2>8. CASE Default!Inside(types, options, call.name)
    <3>1. n = 0
      BY <1>6, <1>11, <2>2, <2>8 DEF Open, WalkOf
    <3>2. walked = Started(call)
      BY <2>2, <2>7, <3>1 DEF WalkOf
    <3>3. (call.active \cup {call.name}) \ {call.name} = call.active
      BY <2>1
    <3>4. Ended(call, walked) = Done(call)
      BY <3>2, <3>3 DEF Ended, Started, Done
    <3>5. Correct(types, options, call, Done(call))
      BY <2>1, <2>8, DoneCorrect
    <3> QED BY <1>1, <2>1, <3>4, <3>5
  <2>9. CASE ~Default!Inside(types, options, call.name)
    <3>1. DOMAIN types[call.name].parts = 1..n
      BY <1>6, <2>2, <2>9 DEF WalkOf
    <3> DEFINE T == {k \in 0..n : WalkCorrect(types, options, call, g[k], k)}
    <3>2. 0 \in T
      <4>1. Walked(types, options, call, call.nodes, 0)
        <5>1. \A j \in 1..0 : FALSE
          OBVIOUS
        <5>2. call.nodes \cap (call.active \cup {call.name}) = {}
          BY <2>1 DEF Sane
        <5> QED BY <5>1, <5>2 DEF Walked, Sane
      <4>2. WalkCorrect(types, options, call, Started(call), 0)
        BY <4>1 DEF WalkCorrect, Started
      <4> QED BY <2>4, <2>7, <4>2
    <3>3. ASSUME NEW k \in 0..n - 1, k \in T PROVE k + 1 \in T
      <4>1. k \in Nat /\ k \in 0..n /\ k + 1 \in 0..n /\ k + 1 \in 1..n
        OBVIOUS
      <4>2. PICK before : before = g[k]
        OBVIOUS
      <4>3. WalkCorrect(types, options, call, before, k)
        BY <3>3, <4>2
      <4>4. WalkTyped(types, call, before)
        BY <2>3, <4>1, <4>2 DEF EachTyped
      <4>5. g[k + 1] = Default!Walk(types, overrides, call.name, build, before, k + 1)
        BY <2>2, <4>2 DEF WalkOf, Walking
      <4>6. WalkCorrect(types, options, call,
                Default!Walk(types, overrides, call.name, build, before, k + 1), k + 1)
        BY Zenon, <2>1, <2>9, <3>1, <4>1, <4>3, <4>4, WalkKeepsCorrect
      <4> QED BY <4>1, <4>5, <4>6
    <3>4. n \in T
      <4> HIDE DEF T
      <4> QED BY <2>4, <3>2, <3>3, OneByOne
    <3>5. WalkCorrect(types, options, call, walked, n)
      BY <2>2, <3>4 DEF WalkOf
    <3>6. Correct(types, options, call, Ended(call, walked))
      BY <1>11, <2>1, <2>6, <2>9, <3>1, <3>5, WalkedCorrect
    <3> QED BY <1>1, <2>1, <3>6
  <2> QED BY <2>8, <2>9
<1>12. Open(types, overrides, call) => call.name \notin call.active
  BY DEF Open
<1> QED BY <1>8, <1>9, <1>10, <1>11, <1>12

RightBelow(types, options, f, k) ==
    \A c \in Visits(types) : Left(types, c) < k =>
        Typed(types, c, f[c]) /\ (Sane(types, options, c) => Correct(types, options, c, f[c]))

LEMMA RightNext ==
    ASSUME NEW types, NEW options, Asked(types, options),
           NEW overrides, overrides = Default!Overrides(options),
           NEW f, IsBuild(types, overrides, f),
           NEW k \in Nat, RightBelow(types, options, f, k)
    PROVE  RightBelow(types, options, f, k + 1)
<1> SUFFICES ASSUME NEW call \in Visits(types), Left(types, call) < k + 1
             PROVE  /\ Typed(types, call, f[call])
                    /\ Sane(types, options, call) => Correct(types, options, call, f[call])
  BY DEF RightBelow
<1>1. Program(types)
  BY DEF Asked
<1>2. PICK b : b = Left(types, call)
  OBVIOUS
<1>3. b \in Nat /\ b <= k
  <2>1. b \in Nat
    BY <1>1, <1>2, LeftIs
  <2> QED BY <1>2, <2>1
<1>4. ASSUME call.name \notin call.active, NEW c, Deeper(types, call, c)
      PROVE  /\ Typed(types, c, f[c])
             /\ Sane(types, options, c) => Correct(types, options, c, f[c])
  <2>1. PICK a : a = Left(types, c)
    OBVIOUS
  <2>2. a < b /\ a \in Nat
    BY <1>1, <1>2, <1>4, <2>1, DeeperLeft
  <2>3. a < k
    BY <1>3, <2>2
  <2>4. c \in Visits(types)
    BY <1>4 DEF Deeper
  <2> QED BY <2>1, <2>3, <2>4 DEF RightBelow
<1>5. call.name \notin call.active =>
        DeeperTyped(types, call, f) /\ DeeperCorrect(types, options, call, f)
  BY <1>4 DEF DeeperTyped, DeeperCorrect
<1>6. PICK visit : visit = VisitOf(types, overrides, f, call)
  OBVIOUS
<1>7. f[call] = visit
  BY <1>6 DEF IsBuild
<1>8. Typed(types, call, visit)
  BY <1>1, <1>5, <1>6, VisitTyped
<1>9. Sane(types, options, call) => Correct(types, options, call, visit)
  BY <1>5, <1>6, VisitCorrect
<1> QED BY <1>7, <1>8, <1>9

LEMMA RightAll ==
    ASSUME NEW types, NEW options, Asked(types, options),
           NEW overrides, overrides = Default!Overrides(options),
           NEW f, IsBuild(types, overrides, f),
           NEW call \in Visits(types)
    PROVE  /\ Typed(types, call, f[call])
           /\ Sane(types, options, call) => Correct(types, options, call, f[call])
<1>1. Program(types)
  BY DEF Asked
<1>2. PICK b : b = Left(types, call)
  OBVIOUS
<1>3. b \in Nat /\ b + 1 \in Nat /\ b < b + 1 /\ b + 1 \in 0..b + 1 /\ 0 \in 0..b + 1
  <2>1. b \in Nat
    BY <1>1, <1>2, LeftIs
  <2> QED BY <2>1
<1> DEFINE T == {k \in 0..b + 1 : RightBelow(types, options, f, k)}
<1>4. 0 \in T
  <2>1. \A c \in Visits(types) : ~(Left(types, c) < 0)
    <3> TAKE c \in Visits(types)
    <3>1. PICK a \in Nat : a = Left(types, c)
      BY <1>1, LeftIs
    <3> QED BY <3>1
  <2>2. RightBelow(types, options, f, 0)
    BY <2>1 DEF RightBelow
  <2> QED BY <1>3, <2>2
<1>5. ASSUME NEW k \in 0..(b + 1) - 1, k \in T PROVE k + 1 \in T
  <2>1. k \in Nat /\ k + 1 \in 0..b + 1
    BY <1>3
  <2>2. RightBelow(types, options, f, k)
    BY <1>5
  <2>3. RightBelow(types, options, f, k + 1)
    BY <2>1, <2>2, RightNext
  <2> QED BY <2>1, <2>3
<1>6. b + 1 \in T
  <2> HIDE DEF T
  <2> QED BY <1>3, <1>4, <1>5, OneByOne
<1>7. RightBelow(types, options, f, b + 1)
  BY <1>6
<1> QED BY <1>2, <1>3, <1>7 DEF RightBelow

(* buildDefault reaches what it should, or tells that it cannot.            *)
LEMMA BuildsReached ==
    ASSUME NEW types, NEW options, Asked(types, options),
           NEW root \in DOMAIN types,
           NEW built, built = Default!BuildDefault(types, Default!Overrides(options), root)
    PROVE  /\ built.ok \in BOOLEAN
           /\ built.ok <=> Default!Constructible(types, options, root)
           /\ built.ok => built.nodes = Reach(types, options, root)
<1>1. Program(types)
  BY DEF Asked
<1>2. PICK overrides : overrides = Default!Overrides(options)
  OBVIOUS
<1>3. built = Default!BuildDefault(types, overrides, root)
  BY <1>2
<1>4. PICK f : BuiltBy(types, overrides, root, built, f)
  BY Zenon, <1>1, <1>3, BuildDefaultIs
<1>5. PICK call : call = Default!Call(root, {}, {})
  OBVIOUS
<1>6. /\ call \in Visits(types) /\ call.name = root /\ call.nodes = {} /\ call.active = {}
  BY <1>5 DEF Visits, Default!Call
<1>7. Sane(types, options, call)
  BY <1>6 DEF Sane, Buildable
<1>8. Typed(types, call, built) /\ Correct(types, options, call, built)
  <2>1. IsBuild(types, overrides, f) /\ built = f[call]
    BY <1>4, <1>5 DEF BuiltBy
  <2> QED BY <1>2, <1>6, <1>7, <2>1, RightAll
<1>9. PICK R : R = Reach(types, options, root)
  OBVIOUS
<1>10. root \in R /\ R \subseteq DOMAIN types
       /\ \A C : root \in C /\ Holding(types, options, C) => R \subseteq C
  BY <1>9, ReachIs
<1>11. Default!Constructible(types, options, root)
        <=> \A name \in R : ~Default!Unbuildable(types, options, name)
  BY <1>9 DEF Default!Constructible, Reach
<1>12. ASSUME built.ok PROVE built.nodes = R /\ Default!Constructible(types, options, root)
  <2>1. Buildable(types, options, built.nodes) /\ root \in built.nodes /\ built.nodes \subseteq R
    BY <1>6, <1>8, <1>9, <1>12 DEF Correct
  <2>2. Holding(types, options, built.nodes)
    BY <2>1 DEF Buildable, Holding
  <2>3. built.nodes = R
    BY <1>10, <2>1, <2>2
  <2> QED BY <1>11, <2>1, <2>3 DEF Buildable
<1>13. ASSUME ~built.ok PROVE ~Default!Constructible(types, options, root)
  <2>1. Unbuilt(types, options, root)
    BY <1>6, <1>8, <1>13 DEF Correct
  <2> QED BY <1>9, <1>11, <2>1 DEF Unbuilt
<1>14. built.ok \in BOOLEAN
  BY <1>8 DEF Typed
<1> QED BY <1>9, <1>12, <1>13, <1>14

Parted(types, kept, name) ==
    {[type |-> name, part |-> i, source |-> Default!PartSource(types, kept, name, i)] :
        i \in Default!Range(Default!Entered(types, name))}
PartedAsked(types, options, name) ==
    {[type |-> name, part |-> i, source |-> Default!Wanted(types, options, name, i)] :
        i \in DOMAIN types[name].parts}

LEMMA SamePartsAsked ==
    ASSUME NEW types, NEW options, Asked(types, options), NEW kept,
           kept = Default!Overrides(options), NEW name
    PROVE  /\ ~Default!Inside(types, options, name) => Default!Structural(types, kept, name)
           /\ ~Default!Inside(types, options, name)
                => Parted(types, kept, name) = PartedAsked(types, options, name)
           /\ Default!Inside(types, options, name) /\ Default!Structural(types, kept, name)
                => Parted(types, kept, name) = {}
<1>1. Default!Inside(types, options, name) <=>
        \/ types[name].kind \in {"known", "primitive", "empty array"}
        \/ Default!ForType(kept, name)
  BY InsideIs
<1>2. Default!Structural(types, kept, name)
        <=> ~Default!ForType(kept, name) /\ types[name].kind # "known"
  BY DEF Default!Structural
<1>3. PICK seq : seq = Default!Entered(types, name)
  OBVIOUS
<1>4. ASSUME ~Default!Inside(types, options, name)
      PROVE  Parted(types, kept, name) = PartedAsked(types, options, name)
  <2>1. seq = Default!Positions(types[name].parts)
    BY <1>1, <1>3, <1>4 DEF Default!Entered
  <2>2. DOMAIN seq = DOMAIN types[name].parts /\ \A i \in DOMAIN seq : seq[i] = i
    BY <2>1 DEF Default!Positions
  <2>3. Default!Range(seq) = DOMAIN types[name].parts
    BY <2>2 DEF Default!Range
  <2>4. PICK n \in Nat : DOMAIN options = 1..n
    BY DEF Asked
  <2>5. \A i : Default!PartSource(types, kept, name, i) = Default!Wanted(types, options, name, i)
    BY <2>4, FieldOverrides
  <2> QED BY <1>3, <2>3, <2>5 DEF Parted, PartedAsked
<1>5. ASSUME Default!Inside(types, options, name), Default!Structural(types, kept, name)
      PROVE  Parted(types, kept, name) = {}
  <2>1. seq = <<>>
    BY <1>1, <1>2, <1>3, <1>5 DEF Default!Entered
  <2>2. Default!Range(seq) = {}
    BY <2>1 DEF Default!Range
  <2> QED BY <1>3, <2>2 DEF Parted
<1> QED BY <1>1, <1>2, <1>4, <1>5

LEMMA GeneratorConforms ==
    ASSUME NEW types, NEW options, Asked(types, options), NEW root \in DOMAIN types,
           NEW generator, generator = Default!NewDefaultGenerator(types, options, root)
    PROVE  Default!Conforms(types, options, root, generator)
<1> DEFINE kept == Default!Overrides(options)
           built == Default!BuildDefault(types, kept, root)
<1>1. generator =
        IF ~built.ok THEN [ok |-> FALSE, sources |-> {}]
        ELSE [ok |-> TRUE, sources |->
                {[type |-> root, part |-> 0, source |-> Default!SourceOf(kept, root)]}
                \cup UNION {Parted(types, kept, name) :
                        name \in {n \in built.nodes : Default!Structural(types, kept, n)}}]
  BY Zenon DEF Default!NewDefaultGenerator, Parted
<1>2. kept = Default!Overrides(options)
  OBVIOUS
<1>3. built = Default!BuildDefault(types, kept, root)
  OBVIOUS
<1> HIDE DEF kept, built
<1>4. /\ built.ok \in BOOLEAN
      /\ built.ok <=> Default!Constructible(types, options, root)
      /\ built.ok => built.nodes = Reach(types, options, root)
  BY <1>2, <1>3, BuildsReached
<1>5. generator.ok = Default!Constructible(types, options, root)
  <2>1. PICK sources : sources =
          {[type |-> root, part |-> 0, source |-> Default!SourceOf(kept, root)]}
          \cup UNION {Parted(types, kept, name) :
                  name \in {n \in built.nodes : Default!Structural(types, kept, n)}}
    OBVIOUS
  <2>2. generator = IF ~built.ok THEN [ok |-> FALSE, sources |-> {}]
                    ELSE [ok |-> TRUE, sources |-> sources]
    BY Zenon, <1>1, <2>1
  <2>3. CASE built.ok
    <3>1. generator.ok = TRUE
      BY ONLY <2>2, <2>3
    <3>2. Default!Constructible(types, options, root)
      BY <1>4, <2>3
    <3> QED BY Zenon, <3>1, <3>2 DEF Default!Constructible
  <2>4. CASE ~built.ok
    <3>1. generator.ok = FALSE
      BY ONLY <2>2, <2>4
    <3>2. ~Default!Constructible(types, options, root)
      BY <1>4, <2>4
    <3> QED BY Zenon, <3>1, <3>2 DEF Default!Constructible
  <2> QED BY <2>3, <2>4
<1>6. ASSUME generator.ok
      PROVE  generator.sources =
        {[type |-> root, part |-> 0,
          source |-> Default!LastOption(options, Default!Override(root, 0))]}
        \cup UNION {PartedAsked(types, options, name) :
                name \in {n \in Reach(types, options, root) : ~Default!Inside(types, options, n)}}
  <2>1. built.ok
    BY <1>4, <1>5, <1>6
  <2>2. PICK R : R = Reach(types, options, root)
    OBVIOUS
  <2> DEFINE One == UNION {Parted(types, kept, name) :
                        name \in {n \in R : Default!Structural(types, kept, n)}}
             Two == UNION {PartedAsked(types, options, name) :
                        name \in {n \in R : ~Default!Inside(types, options, n)}}
  <2>3. generator.sources =
          {[type |-> root, part |-> 0, source |-> Default!SourceOf(kept, root)]} \cup One
    BY <1>4, <1>1, <2>1, <2>2
  <2>4. Default!SourceOf(kept, root)
          = Default!LastOption(options, Default!Override(root, 0))
    <3>1. PICK n \in Nat : DOMAIN options = 1..n
      BY DEF Asked
    <3> QED BY <1>2, <3>1, TypeOverrides
  <2>5. \A name : /\ ~Default!Inside(types, options, name)
                       => Default!Structural(types, kept, name)
                  /\ ~Default!Inside(types, options, name)
                       => Parted(types, kept, name) = PartedAsked(types, options, name)
                  /\ Default!Inside(types, options, name)
                     /\ Default!Structural(types, kept, name)
                       => Parted(types, kept, name) = {}
    BY <1>2, SamePartsAsked
  <2>6. One = Two
    BY <2>5
  <2> HIDE DEF One
  <2> QED BY <2>2, <2>3, <2>4, <2>6
<1> QED BY Zenon, <1>5, <1>6 DEF Default!Conforms, PartedAsked, Reach

-----------------------------------------------------------------------------
(* Default.                                                                 *)

LEMMA LookingAt ==
    ASSUME NEW place, NEW other, NEW l \in Looking(place)
    PROVE  l.at = place /\ (place # other => l \notin Looking(other))
BY DEF Looking

(* A goroutine's place in Default changes, and with it what it holds.       *)
LEMMA LookupMoves ==
    ASSUME DefaultInv, NEW g \in Goroutines, NEW l, lookup' = [lookup EXCEPT ![g] = l],
           Lookup(l)
    PROVE  /\ PerGoroutine(lookup) /\ PerGoroutine(lookup')
           /\ \A h \in Goroutines : Lookup(lookup'[h])
           /\ Rechecking' = IF l \in Looking("recheck")
                            THEN Rechecking \cup {g} ELSE Rechecking \ {g}
<1>1. PerGoroutine(lookup) /\ \A h \in Goroutines : Lookup(lookup[h])
  BY DEF DefaultInv
<1>2. /\ PerGoroutine(lookup') /\ lookup'[g] = l
      /\ \A h \in Goroutines : h # g => lookup'[h] = lookup[h]
  BY <1>1 DEF PerGoroutine
<1>3. \A h \in Goroutines : Lookup(lookup'[h])
  BY ONLY <1>1, <1>2, Lookup(l), g \in Goroutines
<1>4. \A h : h \in Rechecking' <=> h \in Goroutines /\ lookup'[h] \in Looking("recheck")
  BY DEF Rechecking, Looking
<1>5. \A h : h \in Rechecking <=> h \in Goroutines /\ lookup[h] \in Looking("recheck")
  BY DEF Rechecking
<1>6. Rechecking' = IF l \in Looking("recheck")
                    THEN Rechecking \cup {g} ELSE Rechecking \ {g}
  BY ONLY <1>2, <1>4, <1>5, g \in Goroutines
<1> QED BY ONLY <1>1, <1>2, <1>3, <1>6

(* The lock is taken and given back.                                        *)
LEMMA LocksKept ==
    ASSUME NEW readers, NEW writers, NEW holders, Exclusive(readers, writers, holders),
           NEW g \in Goroutines
    PROVE  /\ g \notin holders =>
                /\ Exclusive(readers, writers, holders \ {g})
                /\ Exclusive(readers \ {g}, writers, holders \ {g})
                /\ writers = {} =>
                     Exclusive(readers \cup {g}, writers, holders \ {g})
           /\ readers = {} /\ writers = {} => Exclusive(readers, {g}, holders \cup {g})
           /\ g \in holders => Exclusive(readers, {}, holders \ {g})
BY DEF Exclusive

(* Where a step leaves a goroutine is a place of Default.                   *)
LEMMA PlacesLooked ==
    ASSUME NEW place \in Default!Places, NEW t \in Types
    PROVE  /\ Lookup([at |-> place, type |-> t])
           /\ [at |-> place, type |-> t] \in Looking(place)
           /\ place = "recheck" =>
                [at |-> place, type |-> t] \in Looking("recheck")
           /\ place # "recheck" =>
                [at |-> place, type |-> t] \notin Looking("recheck")
<1>1. [at |-> place, type |-> t] \in Looking(place)
  BY DEF Looking
<1>2. [at |-> place, type |-> t] \in [at : Default!Places, type : Types]
  OBVIOUS
<1> QED BY <1>1, <1>2, LookingAt DEF Lookup

LEMMA NoLookupLooked ==
    Lookup(Default!NoLookup) /\ Default!NoLookup \notin Looking("recheck")
<1>1. Default!NoLookup.at = "idle"
  BY DEF Default!NoLookup
<1> QED BY <1>1, LookingAt DEF Lookup

LEMMA DefaultStarts == ASSUME Default!Init, MaxMade \in Nat PROVE DefaultInv
<1>1. \A g \in Goroutines : lookup[g] = Default!NoLookup
  BY DEF Default!Init
<1>2. Rechecking = {}
  BY <1>1, NoLookupLooked DEF Rechecking
<1>3. Exclusive(typeReaders, typeWriters, Rechecking)
  BY <1>2 DEF Exclusive, Default!Init
<1>4. PerGoroutine(lookup)
  BY DEF Default!Init, PerGoroutine
<1>5. \A g \in Goroutines : Lookup(lookup[g])
  BY <1>1, NoLookupLooked
<1> QED BY <1>3, <1>4, <1>5 DEF DefaultInv, Default!Init

(* A step of a goroutine keeps the invariant when it keeps the locks and    *)
(* what is cached.                                                          *)
Cached ==
    /\ byType \in [Types -> 0..MaxMade]
    /\ made \in 0..MaxMade
    /\ handedOut \in [Types -> SUBSET (1..MaxMade)]
    /\ \A t \in Types : handedOut[t] \subseteq {byType[t]}

LEMMA DefaultMoves ==
    ASSUME DefaultInv, NEW g \in Goroutines, NEW l, lookup' = [lookup EXCEPT ![g] = l],
           Lookup(l), Cached',
           l \in Looking("recheck") =>
               Exclusive(typeReaders', typeWriters', Rechecking \cup {g}),
           l \notin Looking("recheck") =>
               Exclusive(typeReaders', typeWriters', Rechecking \ {g})
    PROVE  DefaultInv'
<1>1. /\ PerGoroutine(lookup') /\ \A h \in Goroutines : Lookup(lookup'[h])
      /\ Rechecking' = IF l \in Looking("recheck")
                       THEN Rechecking \cup {g} ELSE Rechecking \ {g}
  BY LookupMoves
<1>2. Exclusive(typeReaders', typeWriters', Rechecking')
  BY <1>1
<1> QED BY <1>1, <1>2 DEF DefaultInv, Cached, PerGoroutine

LEMMA DefaultCached == ASSUME DefaultInv PROVE Cached
BY DEF DefaultInv, Cached

LEMMA CachedStays ==
    ASSUME Cached, UNCHANGED <<byType, made, handedOut>> PROVE Cached'
BY DEF Cached

(* Nobody but a goroutine at the second lookup has the write lock.          *)
LEMMA DefaultLocks ==
    ASSUME DefaultInv, NEW g \in Goroutines
    PROVE  /\ Exclusive(typeReaders, typeWriters, Rechecking)
           /\ g \notin Rechecking =>
                /\ Exclusive(typeReaders, typeWriters, Rechecking \ {g})
                /\ Exclusive(typeReaders \ {g}, typeWriters, Rechecking \ {g})
                /\ typeWriters = {} =>
                     Exclusive(typeReaders \cup {g}, typeWriters, Rechecking \ {g})
           /\ typeReaders = {} /\ typeWriters = {} =>
                Exclusive(typeReaders, {g}, Rechecking \cup {g})
           /\ g \in Rechecking => Exclusive(typeReaders, {}, Rechecking \ {g})
BY LocksKept DEF DefaultInv

LEMMA RecheckingAt ==
    ASSUME NEW g \in Goroutines, NEW t \in Types, NEW place \in Default!Places,
           Default!At(g, place, t)
    PROVE  (g \in Rechecking <=> place = "recheck")
BY PlacesLooked DEF Rechecking, Default!At

LEMMA AskKeeps ==
    ASSUME DefaultInv, NEW g \in Goroutines, NEW t \in Types, Default!Ask(g, t)
    PROVE  DefaultInv'
<1> DEFINE l == [at |-> "call", type |-> t]
<1>1. Lookup(l) /\ l \notin Looking("recheck")
  BY PlacesLooked DEF Default!Places
<1>2. g \notin Rechecking
  BY NoLookupLooked DEF Default!Ask, Rechecking
<1>3. /\ lookup' = [lookup EXCEPT ![g] = l]
      /\ UNCHANGED <<byType, typeReaders, typeWriters, made, handedOut>>
  BY DEF Default!Ask, Default!Goto
<1> HIDE DEF l
<1>4. Exclusive(typeReaders', typeWriters', Rechecking \ {g})
  BY <1>2, <1>3, DefaultLocks
<1>5. Cached'
  BY <1>3, DefaultCached, CachedStays
<1> QED BY <1>1, <1>3, <1>4, <1>5, DefaultMoves

LEMMA BuildOwnKeeps ==
    ASSUME DefaultInv, NEW g \in Goroutines, Default!BuildOwn(g)
    PROVE  DefaultInv'
<1>1. PICK types \in Programs, options \in OptionLists :
        lookup' = [lookup EXCEPT ![g] =
            [at |-> "built", types |-> types, options |-> options,
             generator |-> Default!NewDefaultGenerator(types, options, Root)]]
  BY DEF Default!BuildOwn
<1> DEFINE l == [at |-> "built", types |-> types, options |-> options,
                 generator |-> Default!NewDefaultGenerator(types, options, Root)]
<1>2. l.at = "built" /\ l.options \in OptionLists
  OBVIOUS
<1>8. Default!Conforms(l.types, l.options, Root, l.generator)
  <2>1. Asked(types, options) /\ Root \in DOMAIN types
    <3>1. Program(types) /\ Root \in DOMAIN types
      BY ProgramsAssumption DEF Program
    <3>2. options \in Seq([type : STRING, field : Nat])
      BY ProgramsAssumption
    <3>3. PICK Record : Record = [type : STRING, field : Nat]
      OBVIOUS
    <3>4. \E n \in Nat : DOMAIN options = 1..n
      BY <3>2, <3>3
    <3> QED BY <3>1, <3>4 DEF Asked
  <2>2. PICK generator : generator = Default!NewDefaultGenerator(types, options, Root)
    OBVIOUS
  <2>3. Default!Conforms(types, options, Root, generator)
    BY Zenon, <2>1, <2>2, GeneratorConforms
  <2>4. l.types = types /\ l.options = options /\ l.generator = generator
    BY <2>2
  <2> QED BY <2>3, <2>4
<1>3. lookup' = [lookup EXCEPT ![g] = l]
  BY <1>1
<1> HIDE DEF l
<1>4. Lookup(l) /\ l \notin Looking("recheck")
  BY <1>2, <1>8, LookingAt DEF Lookup
<1>5. g \notin Rechecking
  BY NoLookupLooked DEF Default!BuildOwn, Rechecking
<1>6. Exclusive(typeReaders', typeWriters', Rechecking \ {g})
  BY <1>5, DefaultLocks DEF Default!BuildOwn
<1>7. Cached'
  BY DefaultCached, CachedStays DEF Default!BuildOwn
<1> QED BY <1>3, <1>4, <1>6, <1>7, DefaultMoves

LEMMA DropKeeps ==
    ASSUME DefaultInv, NEW g \in Goroutines, lookup[g].at = "built", Default!Drop(g)
    PROVE  DefaultInv'
<1>1. g \notin Rechecking
  BY LookingAt DEF Rechecking
<1>2. Exclusive(typeReaders', typeWriters', Rechecking \ {g})
  BY <1>1, DefaultLocks DEF Default!Drop
<1>3. Cached'
  BY DefaultCached, CachedStays DEF Default!Drop
<1> QED BY <1>2, <1>3, NoLookupLooked, DefaultMoves DEF Default!Drop

LEMMA ReadLockKeeps ==
    ASSUME DefaultInv, NEW g \in Goroutines, NEW t \in Types, Default!ReadLock(g, t)
    PROVE  DefaultInv'
<1> DEFINE l == [at |-> "read", type |-> t]
<1>1. Lookup(l) /\ l \notin Looking("recheck")
  BY PlacesLooked DEF Default!Places
<1>2. g \notin Rechecking
  BY RecheckingAt DEF Default!ReadLock, Default!Places
<1>3. lookup' = [lookup EXCEPT ![g] = l]
  BY DEF Default!ReadLock, Default!Goto
<1> HIDE DEF l
<1>4. Exclusive(typeReaders', typeWriters', Rechecking \ {g})
  BY <1>2, DefaultLocks DEF Default!ReadLock
<1>5. Cached'
  BY DefaultCached, CachedStays DEF Default!ReadLock
<1> QED BY <1>1, <1>3, <1>4, <1>5, DefaultMoves

LEMMA HandsOut ==
    ASSUME Cached, NEW t \in Types, byType[t] # 0,
           UNCHANGED <<byType, made>>, Default!HandOut(t, byType[t])
    PROVE  Cached'
<1>1. byType[t] \in 1..MaxMade
  BY DEF Cached
<1>2. handedOut' \in [Types -> SUBSET (1..MaxMade)]
  BY <1>1 DEF Cached, Default!HandOut
<1>3. \A u \in Types : handedOut'[u] \subseteq {byType[u]}
  BY DEF Cached, Default!HandOut
<1> QED BY <1>2, <1>3 DEF Cached

LEMMA ReadKeeps ==
    ASSUME DefaultInv, NEW g \in Goroutines, NEW t \in Types, Default!Read(g, t)
    PROVE  DefaultInv'
<1>1. g \notin Rechecking
  BY RecheckingAt DEF Default!Read, Default!Places
<1>2. Exclusive(typeReaders', typeWriters', Rechecking \ {g})
  BY <1>1, DefaultLocks DEF Default!Read
<1>3. CASE byType[t] # 0
  <2>1. Cached'
    BY <1>3, DefaultCached, HandsOut DEF Default!Read
  <2>2. lookup' = [lookup EXCEPT ![g] = [at |-> "return", type |-> t]]
    BY <1>3 DEF Default!Read, Default!Goto
  <2> QED BY <1>2, <2>1, <2>2, PlacesLooked, DefaultMoves DEF Default!Places
<1>4. CASE byType[t] = 0
  <2>1. Cached'
    BY <1>4, DefaultCached, CachedStays DEF Default!Read
  <2>2. lookup' = [lookup EXCEPT ![g] = [at |-> "missed", type |-> t]]
    BY <1>4 DEF Default!Read, Default!Goto
  <2> QED BY <1>2, <2>1, <2>2, PlacesLooked, DefaultMoves DEF Default!Places
<1> QED BY <1>3, <1>4

LEMMA WriteLockKeeps ==
    ASSUME DefaultInv, NEW g \in Goroutines, NEW t \in Types, Default!WriteLock(g, t)
    PROVE  DefaultInv'
<1>1. Exclusive(typeReaders', typeWriters', Rechecking \cup {g})
  BY DefaultLocks DEF Default!WriteLock
<1>2. Cached'
  BY DefaultCached, CachedStays DEF Default!WriteLock
<1>3. lookup' = [lookup EXCEPT ![g] = [at |-> "recheck", type |-> t]]
  BY DEF Default!WriteLock, Default!Goto
<1> QED BY <1>1, <1>2, <1>3, PlacesLooked, DefaultMoves DEF Default!Places

(* The entry is written before anybody got another one: nobody got any      *)
(* while there was none.                                                    *)
LEMMA ConstructKeeps ==
    ASSUME DefaultInv, NEW g \in Goroutines, NEW t \in Types, Default!Construct(g, t),
           MaxMade \in Nat
    PROVE  DefaultInv'
<1>1. g \in Rechecking
  BY RecheckingAt DEF Default!Construct, Default!Places
<1>2. /\ typeWriters' = {} /\ typeReaders' = typeReaders
  BY DEF Default!Construct, Default!AfterPanic
<1>3. Exclusive(typeReaders', typeWriters', Rechecking \ {g})
  BY <1>1, <1>2, DefaultLocks
<1>4. \E place \in {"return", "panic"} :
        lookup' = [lookup EXCEPT ![g] = [at |-> place, type |-> t]]
  BY DEF Default!Construct, Default!Goto
<1>5. Cached
  BY DefaultCached
<1>6. Cached'
  <2>1. CASE byType[t] # 0
    BY <1>5, <2>1, HandsOut DEF Default!Construct, Default!Missing
  <2>2. CASE byType[t] = 0 /\ UNCHANGED <<byType, made, handedOut>>
    BY <1>5, <2>2, CachedStays
  <2>3. CASE /\ byType[t] = 0 /\ made < MaxMade /\ made' = made + 1
             /\ byType' = [byType EXCEPT ![t] = made + 1]
             /\ Default!HandOut(t, made + 1)
    <3>1. made + 1 \in 1..MaxMade
      BY <1>5, <2>3 DEF Cached
    <3>2. byType' \in [Types -> 0..MaxMade]
      BY <1>5, <2>3, <3>1 DEF Cached
    <3>3. handedOut' \in [Types -> SUBSET (1..MaxMade)]
      BY <1>5, <2>3, <3>1 DEF Cached, Default!HandOut
    <3>4. handedOut[t] = {}
      BY <1>5, <2>3 DEF Cached
    <3>5. \A u \in Types : handedOut'[u] \subseteq {byType'[u]}
      BY <1>5, <2>3, <3>4 DEF Cached, Default!HandOut
    <3> QED BY <2>3, <3>1, <3>2, <3>3, <3>5 DEF Cached
  <2> QED BY <2>1, <2>2, <2>3 DEF Default!Construct, Default!Missing
<1> QED BY <1>3, <1>4, <1>6, PlacesLooked, DefaultMoves DEF Default!Places

-----------------------------------------------------------------------------
(* What follows from it.                                                    *)

(* A set without two different elements.                                    *)
LEMMA AtMostOne ==
    ASSUME NEW S, \A a, b \in S : a = b PROVE Cardinality(S) <= 1
<1>1. CASE S = {}
  BY <1>1, FS_EmptySet
<1>2. CASE S # {}
  <2>1. PICK a \in S : TRUE
    BY <1>2
  <2>2. S = {a}
    BY <2>1
  <2> QED BY <2>2, FS_Singleton
<1> QED BY <1>1, <1>2

LEMMA DefaultTyped == ASSUME DefaultInv PROVE Default!TypeOK
<1>1. Exclusive(typeReaders, typeWriters, Rechecking) /\ Cached
  BY DefaultCached DEF DefaultInv
<1>2. Default!Cardinality(typeWriters) <= 1
  BY <1>1, AtMostOne, DefaultCardinalityIs DEF Exclusive
<1>3. \A g \in typeWriters : \E t \in Types : Default!At(g, "recheck", t)
  BY <1>1 DEF Exclusive, Rechecking, Looking, Default!At
<1>4. \A g \in Goroutines : Lookup(lookup[g])
  BY DEF DefaultInv
<1>5. typeWriters \subseteq Goroutines
  BY <1>1 DEF Exclusive, Rechecking
<1> QED
  BY <1>1, <1>2, <1>3, <1>4, <1>5
  DEF Default!TypeOK, Cached, Exclusive, Lookup

LEMMA DefaultFollows == ASSUME DefaultInv PROVE Default!DefaultsFollowTypes
<1> SUFFICES ASSUME NEW g \in Goroutines, lookup[g].at = "built"
             PROVE  Default!Conforms(lookup[g].types, lookup[g].options, Root,
                                     lookup[g].generator)
  BY DEF Default!DefaultsFollowTypes
<1>1. Lookup(lookup[g])
  BY DEF DefaultInv
<1>2. ASSUME lookup[g] \in {Default!NoLookup} \cup [at : Default!Places, type : Types]
      PROVE  FALSE
  BY <1>2 DEF Default!NoLookup, Default!Places
<1> QED BY <1>1, <1>2 DEF Lookup

LEMMA DefaultSame == ASSUME DefaultInv PROVE Default!SameGenerator
<1>1. \A t \in Types : Cardinality(handedOut[t]) <= 1
  BY AtMostOne DEF DefaultInv
<1> QED BY <1>1, DefaultCardinalityIs DEF Default!SameGenerator

-----------------------------------------------------------------------------
(* The cache of statements.                                                 *)

Reporting(place) == {[at |-> place, line |-> l] : l \in Lines}
Extracting == {g \in Goroutines : report[g] \in Reporting("extract")}

(* Until the file is read there is no statement, and then all are of the    *)
(* version that was read.                                                   *)
OneVersion ==
    /\ disk \in Versions \cup {"unparsable"}
    /\ file \in Versions \cup {"unparsable", "missing"}
    /\ statements \in [Lines -> Versions \cup {"missing"}]
    /\ reads \in Nat
    /\ file = "missing" => reads = 0 /\ \A l \in Lines : statements[l] = "missing"
    /\ file # "missing" => reads = 1 /\ \A l \in Lines : statements[l] \in {"missing", file}

SourceInv ==
    /\ report \in [Goroutines ->
            {Source!NoReport} \cup [at : Source!Places, line : Lines]]
    /\ Exclusive(lineReaders, lineWriters, Extracting)
    /\ edits \in 0..MaxEdits
    /\ OneVersion

LEMMA ReportingAt ==
    /\ \A place \in Source!Places, l \in Lines :
         /\ [at |-> place, line |-> l] \in [at : Source!Places, line : Lines]
         /\ [at |-> place, line |-> l] \in Reporting("extract") <=> place = "extract"
    /\ Source!NoReport \notin Reporting("extract")
<1>1. \A place \in Source!Places, l \in Lines :
        /\ [at |-> place, line |-> l] \in [at : Source!Places, line : Lines]
        /\ [at |-> place, line |-> l].at = place
  OBVIOUS
<1>2. \A r \in Reporting("extract") : r.at = "extract"
  BY DEF Reporting
<1>3. \A l \in Lines : [at |-> "extract", line |-> l] \in Reporting("extract")
  BY DEF Reporting
<1>4. Source!NoReport.at = "idle"
  BY DEF Source!NoReport
<1> QED BY <1>1, <1>2, <1>3, <1>4

LEMMA SourceLocks ==
    ASSUME SourceInv, NEW g \in Goroutines
    PROVE  /\ g \notin Extracting =>
                /\ Exclusive(lineReaders, lineWriters, Extracting \ {g})
                /\ Exclusive(lineReaders \ {g}, lineWriters, Extracting \ {g})
                /\ lineWriters = {} =>
                     Exclusive(lineReaders \cup {g}, lineWriters, Extracting \ {g})
           /\ lineReaders = {} /\ lineWriters = {} =>
                Exclusive(lineReaders, {g}, Extracting \cup {g})
           /\ g \in Extracting => Exclusive(lineReaders, {}, Extracting \ {g})
BY LocksKept DEF SourceInv

LEMMA ExtractingAt ==
    ASSUME NEW g \in Goroutines, NEW l \in Lines, NEW place \in Source!Places,
           Source!At(g, place, l)
    PROVE  g \in Extracting <=> place = "extract"
BY ReportingAt DEF Extracting, Source!At

(* A step of a goroutine keeps the invariant when it keeps the locks and    *)
(* what is cached.                                                          *)
LEMMA SourceMoves ==
    ASSUME SourceInv, NEW g \in Goroutines, NEW l \in Lines, NEW place \in Source!Places,
           Source!Goto(g, place, l), OneVersion', edits' = edits,
           place = "extract" => Exclusive(lineReaders', lineWriters', Extracting \cup {g}),
           place # "extract" => Exclusive(lineReaders', lineWriters', Extracting \ {g})
    PROVE  SourceInv'
<1> DEFINE r == [at |-> place, line |-> l]
<1>1. /\ r \in [at : Source!Places, line : Lines]
      /\ r \in Reporting("extract") <=> place = "extract"
  BY ReportingAt
<1>2. /\ report' = [report EXCEPT ![g] = r]
      /\ report \in [Goroutines ->
              {Source!NoReport} \cup [at : Source!Places, line : Lines]]
  BY DEF Source!Goto, SourceInv
<1> HIDE DEF r
<1>3. report' \in [Goroutines ->
          {Source!NoReport} \cup [at : Source!Places, line : Lines]]
  BY ONLY <1>1, <1>2, g \in Goroutines
<1>4. \A h \in Goroutines : report'[h] = IF h = g THEN r ELSE report[h]
  BY ONLY <1>2, g \in Goroutines
<1>5. Extracting' = IF place = "extract" THEN Extracting \cup {g} ELSE Extracting \ {g}
  BY <1>1, <1>4 DEF Extracting, Reporting
<1>6. Exclusive(lineReaders', lineWriters', Extracting')
  BY <1>5
<1> QED BY <1>3, <1>6 DEF SourceInv

LEMMA OneVersionStays ==
    ASSUME OneVersion, UNCHANGED <<disk, file, statements, reads>> PROVE OneVersion'
BY DEF OneVersion

LEMMA SourceStarts ==
    ASSUME Source!Init, MaxEdits \in Nat PROVE SourceInv
<1>1. report \in [Goroutines ->
          {Source!NoReport} \cup [at : Source!Places, line : Lines]]
  BY DEF Source!Init
<1>2. Extracting = {}
  BY ReportingAt DEF Extracting, Source!Init
<1>3. Exclusive(lineReaders, lineWriters, Extracting)
  BY <1>2 DEF Exclusive, Source!Init
<1>4. OneVersion
  BY DEF OneVersion, Source!Init, Source!Missing, Source!Unparsable
<1> QED BY <1>1, <1>3, <1>4 DEF SourceInv, Source!Init

LEMMA EditKeeps ==
    ASSUME SourceInv, Source!Edit, MaxEdits \in Nat PROVE SourceInv'
<1>1. OneVersion'
  BY DEF SourceInv, OneVersion, Source!Edit, Source!Unparsable
<1>2. edits' \in 0..MaxEdits
  BY DEF SourceInv, Source!Edit
<1>3. UNCHANGED <<lineReaders, lineWriters, report, Extracting>>
  BY DEF Source!Edit, Extracting, Reporting
<1> QED BY <1>1, <1>2, <1>3 DEF SourceInv, Exclusive

LEMMA AskSourceKeeps ==
    ASSUME SourceInv, NEW g \in Goroutines, NEW l \in Lines, Source!Ask(g, l)
    PROVE  SourceInv'
<1>1. g \notin Extracting
  BY ReportingAt DEF Source!Ask, Extracting
<1>2. Exclusive(lineReaders', lineWriters', Extracting \ {g})
  BY <1>1, SourceLocks DEF Source!Ask
<1>3. OneVersion' /\ edits' = edits /\ Source!Goto(g, "call", l)
  BY OneVersionStays DEF Source!Ask, SourceInv
<1> QED BY <1>2, <1>3, SourceMoves DEF Source!Places

LEMMA ReadLockSourceKeeps ==
    ASSUME SourceInv, NEW g \in Goroutines, NEW l \in Lines, Source!ReadLock(g, l)
    PROVE  SourceInv'
<1>1. g \notin Extracting
  BY ExtractingAt DEF Source!ReadLock, Source!Places
<1>2. Exclusive(lineReaders', lineWriters', Extracting \ {g})
  BY <1>1, SourceLocks DEF Source!ReadLock
<1>3. OneVersion' /\ edits' = edits /\ Source!Goto(g, "read", l)
  BY OneVersionStays DEF Source!ReadLock, SourceInv
<1> QED BY <1>2, <1>3, SourceMoves DEF Source!Places

LEMMA ReadSourceKeeps ==
    ASSUME SourceInv, NEW g \in Goroutines, NEW l \in Lines, Source!Read(g, l)
    PROVE  SourceInv'
<1>1. g \notin Extracting
  BY ExtractingAt DEF Source!Read, Source!Places
<1>2. Exclusive(lineReaders', lineWriters', Extracting \ {g})
  BY <1>1, SourceLocks DEF Source!Read
<1>3. OneVersion' /\ edits' = edits
  BY OneVersionStays DEF Source!Read, SourceInv
<1>4. \E place \in {"return", "missed"} : Source!Goto(g, place, l)
  BY DEF Source!Read
<1> QED BY <1>2, <1>3, <1>4, SourceMoves DEF Source!Places

LEMMA WriteLockSourceKeeps ==
    ASSUME SourceInv, NEW g \in Goroutines, NEW l \in Lines, Source!WriteLock(g, l)
    PROVE  SourceInv'
<1>1. Exclusive(lineReaders', lineWriters', Extracting \cup {g})
  BY SourceLocks DEF Source!WriteLock
<1>2. OneVersion' /\ edits' = edits /\ Source!Goto(g, "extract", l)
  BY OneVersionStays DEF Source!WriteLock, SourceInv
<1> QED BY <1>1, <1>2, SourceMoves DEF Source!Places

(* The file is read by the first goroutine that needs it and what was read  *)
(* is kept whatever it was, so no later one reads it again.                 *)
LEMMA ExtractKeeps ==
    ASSUME SourceInv, NEW g \in Goroutines, NEW l \in Lines, Source!Extract(g, l),
           {"missing", "unparsable"} \cap Versions = {}
    PROVE  SourceInv'
<1>1. g \in Extracting
  BY ExtractingAt DEF Source!Extract, Source!Places
<1>2. Exclusive(lineReaders', lineWriters', Extracting \ {g})
  BY <1>1, SourceLocks DEF Source!Extract
<1>3. OneVersion
  BY DEF SourceInv
<1>4. OneVersion'
  <2>1. CASE statements[l] # "missing"
    BY <1>3, <2>1, OneVersionStays DEF Source!Extract, Source!Missing
  <2>2. CASE statements[l] = "missing" /\ file = "missing"
    <3>1. file' = disk /\ reads' = reads + 1
      BY <2>2 DEF Source!Extract, Source!Load, Source!Kept, Source!Missing
    <3>2. statements' = IF disk = "unparsable" THEN statements
                        ELSE [statements EXCEPT ![l] = disk]
      BY <2>2
      DEF Source!Extract, Source!Loaded, Source!Missing, Source!Unparsable
    <3>3. disk' = disk
      BY DEF Source!Extract
    <3> QED BY <1>3, <2>2, <3>1, <3>2, <3>3 DEF OneVersion
  <2>3. CASE statements[l] = "missing" /\ file # "missing"
    <3>1. UNCHANGED <<disk, file, reads>>
      BY <2>3 DEF Source!Extract, Source!Load, Source!Missing
    <3>2. statements' = IF file = "unparsable" THEN statements
                        ELSE [statements EXCEPT ![l] = file]
      BY <2>3
      DEF Source!Extract, Source!Loaded, Source!Missing, Source!Unparsable
    <3> QED BY <1>3, <2>3, <3>1, <3>2 DEF OneVersion
  <2> QED BY <2>1, <2>2, <2>3
<1>5. edits' = edits /\ Source!Goto(g, "return", l)
  BY DEF Source!Extract
<1> QED BY <1>2, <1>4, <1>5, SourceMoves DEF Source!Places

LEMMA SourceCardinalityIs == \A S : Source!Cardinality(S) = Cardinality(S)
BY DEF Source!Cardinality, Cardinality

LEMMA SourceTyped == ASSUME SourceInv PROVE Source!TypeOK
<1>1. Exclusive(lineReaders, lineWriters, Extracting)
  BY DEF SourceInv
<1>2. Source!Cardinality(lineWriters) <= 1
  BY <1>1, AtMostOne, SourceCardinalityIs DEF Exclusive
<1>3. /\ lineReaders \subseteq Goroutines /\ lineWriters \subseteq Goroutines
      /\ lineWriters # {} => lineReaders = {}
  BY <1>1 DEF Exclusive, Extracting
<1> QED
  BY <1>2, <1>3
  DEF SourceInv, OneVersion, Source!TypeOK, Source!Missing, Source!Unparsable

LEMMA SourceReadOnce == ASSUME SourceInv PROVE Source!ReadOnce
BY DEF SourceInv, OneVersion, Source!ReadOnce, Source!Missing

-----------------------------------------------------------------------------
(* Collections: what is true of a goroutine's draw d, pending key p, engine *)
(* collection c, result r and error f.                                      *)

DrawType ==
    [at : Drawn!Places \cup {"idle"}, kind : {"list", "unique", "map"},
     min : Sizes \cup {0}, max : Sizes \cup {0}, hasMax : BOOLEAN]
CollType ==
    [min : 0..Drawn!NoMaximum, max : 0..Drawn!NoMaximum, count : 0..MaxLength,
     over : BOOLEAN]

DrawTyped(d, p, c, r, f) ==
    /\ d \in DrawType
    /\ p \in Keys \cup {Drawn!NoKey}
    /\ c \in CollType
    /\ r \in Seq(Keys)
    /\ f \in BOOLEAN

Bounded(d, c) ==
    /\ c.min = d.min
    /\ c.max = IF d.hasMax THEN d.max ELSE Drawn!NoMaximum
    /\ c.count <= c.max

RepeatedIn(r, k) == \E i \in 1..Len(r) : Drawn!SameKey(r[i], k)
Distinct(r) == \A i, j \in 1..Len(r) : Drawn!SameKey(r[i], r[j]) => i = j

(* The engine has counted the elements of the result and the one being      *)
(* drawn.  After an error nothing is known of the count, and no result      *)
(* returned.                                                                *)
Agreeing(d, p, c, r, f) ==
    /\ d.at \in {"idle", "call"} => c = Drawn!NoColl /\ r = <<>> /\ ~f
    /\ d.at \in {"more", "element", "value", "after", "return"} =>
         Bounded(d, c) /\ (d.kind # "list" => Distinct(r))
    /\ d.at \in {"more", "after"} /\ ~f => c.count = Len(r)
    /\ d.at \in {"element", "value"} => ~f /\ c.count = Len(r) + 1
    /\ d.at = "value" => p \in Keys /\ ~RepeatedIn(r, p)
    /\ d.at = "after" /\ ~f => c.over /\ c.count >= c.min
    /\ d.at = "return" => c.over /\ c.count >= c.min /\ c.count = Len(r)

DrawFits(d, p, c, r, f) == DrawTyped(d, p, c, r, f) /\ Agreeing(d, p, c, r, f)

CollectionsInv ==
    /\ PerGoroutine(draw) /\ PerGoroutine(pending) /\ PerGoroutine(coll)
    /\ PerGoroutine(result) /\ PerGoroutine(failed)
    /\ \A g \in Goroutines : DrawFits(draw[g], pending[g], coll[g], result[g], failed[g])

LEMMA Powers ==
    ASSUME NEW n \in Nat \ {0}
    PROVE  2^(n - 1) \in Nat /\ 2^n \in Nat /\ 2^(n - 1) < 2^n
<1> DEFINE S == 1..(n - 1)
           T == 1..n
<1>1. /\ IsFiniteSet(S) /\ Cardinality(S) = n - 1
      /\ IsFiniteSet(T) /\ Cardinality(T) = n
  BY FS_Interval
<1>2. S \subseteq T /\ n \in T /\ n \notin S
  OBVIOUS
<1> HIDE DEF S, T
<1>3. /\ IsFiniteSet(SUBSET S) /\ Cardinality(SUBSET S) = 2^(n - 1)
      /\ IsFiniteSet(SUBSET T) /\ Cardinality(SUBSET T) = 2^n
  BY <1>1, FS_SUBSET
<1>4. (SUBSET S) \subseteq (SUBSET T) /\ (SUBSET S) # (SUBSET T)
  BY <1>2
<1>5. Cardinality(SUBSET S) < Cardinality(SUBSET T)
  <2> DEFINE A == SUBSET S
             B == SUBSET T
  <2>1. A \subseteq B /\ A # B /\ IsFiniteSet(A) /\ IsFiniteSet(B)
    BY <1>3, <1>4
  <2> HIDE DEF A, B
  <2>2. /\ Cardinality(A) <= Cardinality(B) /\ Cardinality(A) # Cardinality(B)
        /\ Cardinality(A) \in Nat /\ Cardinality(B) \in Nat
    BY <2>1, FS_Subset, FS_CardinalityType
  <2>3. Cardinality(A) < Cardinality(B)
    BY <2>2
  <2> QED BY <2>3 DEF A, B
<1>6. Cardinality(SUBSET S) \in Nat /\ Cardinality(SUBSET T) \in Nat
  BY <1>3, FS_CardinalityType
<1> QED BY <1>3, <1>5, <1>6

(* A legal size travels as itself, and none is the number that stands for   *)
(* no maximum or beyond it.                                                 *)
LEMMA SizesTravel ==
    ASSUME NEW n \in Sizes \cup {0}, n >= 0, DrawsAssumption
    PROVE  Drawn!Unsigned(n) = n /\ n \in 0..Drawn!NoMaximum
<1>1. Bits \in Nat \ {0} /\ Sizes \subseteq Int
  BY DEF DrawsAssumption
<1>2. 2^(Bits - 1) \in Nat /\ 2^Bits \in Nat /\ 2^(Bits - 1) < 2^Bits
  BY <1>1, Powers
<1>3. n \in Int /\ (n = 0 \/ n < 2^(Bits - 1))
  BY <1>1 DEF DrawsAssumption
<1>4. PICK m \in Nat : m = 2^Bits
  BY <1>2
<1>5. n < m /\ n \in Nat /\ 0 < m
  BY <1>2, <1>3, <1>4
<1>6. n % m = n
  BY <1>5
<1>7. n \in 0..(m - 1)
  BY <1>5
<1> QED BY <1>4, <1>6, <1>7 DEF Drawn!Unsigned, Drawn!NoMaximum

LEMMA PlaceChanges ==
    ASSUME NEW d \in DrawType, NEW place \in Drawn!Places
    PROVE  LET e == [d EXCEPT !.at = place]
           IN  /\ e \in DrawType /\ e.at = place /\ e.kind = d.kind
               /\ e.min = d.min /\ e.max = d.max /\ e.hasMax = d.hasMax
BY DEF DrawType

LEMMA CountChanges ==
    ASSUME NEW c \in CollType, NEW n \in 0..MaxLength
    PROVE  LET e == [c EXCEPT !.count = n]
           IN  e \in CollType /\ e.count = n /\ e.min = c.min /\ e.max = c.max /\ e.over = c.over
BY DEF CollType

LEMMA OverChanges ==
    ASSUME NEW c \in CollType
    PROVE  LET e == [c EXCEPT !.over = TRUE]
           IN  e \in CollType /\ e.over = TRUE /\ e.min = c.min /\ e.max = c.max
               /\ e.count = c.count
BY DEF CollType

LEMMA CollTyped ==
    ASSUME NEW c \in CollType, MaxLength \in Nat, DrawsAssumption
    PROVE  /\ c.count \in 0..MaxLength /\ c.count \in Int
           /\ c.max \in Int /\ c.min \in Int /\ Drawn!NoMaximum \in Int
<1>1. 0 \in 0..Drawn!NoMaximum /\ Bits \in Nat \ {0}
  BY SizesTravel DEF DrawsAssumption
<1>2. Drawn!NoMaximum \in Int
  BY <1>1, Powers DEF Drawn!NoMaximum
<1> QED BY <1>2 DEF CollType

LEMMA NothingDrawn ==
    ASSUME DrawsAssumption
    PROVE  DrawFits(Drawn!NoDraw, Drawn!NoKey, Drawn!NoColl, <<>>, FALSE)
<1>1. Drawn!NoDraw \in DrawType /\ Drawn!NoDraw.at = "idle"
  BY DEF Drawn!NoDraw, DrawType
<1>2. 0 \in 0..Drawn!NoMaximum /\ MaxLength \in Nat
  BY SizesTravel DEF DrawsAssumption
<1>3. Drawn!NoColl \in CollType
  BY <1>2 DEF Drawn!NoColl, CollType
<1>4. DrawTyped(Drawn!NoDraw, Drawn!NoKey, Drawn!NoColl, <<>>, FALSE)
  BY <1>1, <1>3 DEF DrawTyped
<1>5. Agreeing(Drawn!NoDraw, Drawn!NoKey, Drawn!NoColl, <<>>, FALSE)
  BY <1>1 DEF Agreeing
<1> QED BY <1>4, <1>5 DEF DrawFits

LEMMA StartFits ==
    ASSUME NEW d, NEW p, NEW c, NEW r, NEW f, DrawFits(d, p, c, r, f),
           d.at = "idle", NEW e \in DrawType, e.at = "call"
    PROVE  DrawFits(e, p, c, r, f)
<1>1. DrawTyped(e, p, c, r, f)
  BY DEF DrawFits, DrawTyped
<1>2. Agreeing(e, p, c, r, f)
  BY DEF DrawFits, Agreeing
<1> QED BY <1>1, <1>2 DEF DrawFits

LEMMA ErrorFits ==
    ASSUME NEW d, NEW p, NEW c, NEW r, NEW f, DrawFits(d, p, c, r, f)
    PROVE  DrawFits([d EXCEPT !.at = "error"], p, c, r, f)
<1> DEFINE e == [d EXCEPT !.at = "error"]
<1>1. e \in DrawType /\ e.at = "error"
  BY PlaceChanges DEF DrawFits, DrawTyped, Drawn!Places
<1> HIDE DEF e
<1>2. DrawTyped(e, p, c, r, f)
  BY <1>1 DEF DrawFits, DrawTyped
<1>3. Agreeing(e, p, c, r, f)
  BY <1>1 DEF Agreeing
<1>4. DrawFits(e, p, c, r, f)
  BY <1>2, <1>3 DEF DrawFits
<1> QED BY <1>4 DEF e

LEMMA CollOpened ==
    ASSUME NEW low, NEW high
    PROVE  [Drawn!NoColl EXCEPT !.min = low, !.max = high] =
               [min |-> low, max |-> high, count |-> 0, over |-> FALSE]
<1> DEFINE none == Drawn!NoColl
           opened == [none EXCEPT !.min = low, !.max = high]
<1>1. /\ DOMAIN none = {"min", "max", "count", "over"}
      /\ none.min = 0 /\ none.max = 0 /\ none.count = 0 /\ none.over = FALSE
      /\ none = [x \in DOMAIN none |-> none[x]]
  BY DEF Drawn!NoColl
<1> HIDE DEF none
<1>2. /\ DOMAIN opened = DOMAIN none
      /\ opened = [x \in DOMAIN none |-> opened[x]]
      /\ opened.min = low /\ opened.max = high /\ opened.count = none.count
      /\ opened.over = none.over
  BY <1>1
<1> HIDE DEF opened
<1>3. opened = [min |-> low, max |-> high, count |-> 0, over |-> FALSE]
  BY <1>1, <1>2
<1> QED BY <1>3 DEF opened, none

LEMMA OpenFits ==
    ASSUME NEW d, NEW p, NEW c, NEW r, NEW f, DrawFits(d, p, c, r, f),
           d.at = "call", Drawn!Valid(d), DrawsAssumption
    PROVE  DrawFits([d EXCEPT !.at = "more"], p,
                    [Drawn!NoColl EXCEPT !.min = Drawn!Unsigned(d.min),
                        !.max = IF d.hasMax THEN Drawn!Unsigned(d.max)
                                ELSE Drawn!NoMaximum], r, f)
<1> DEFINE e == [d EXCEPT !.at = "more"]
           b == [Drawn!NoColl EXCEPT !.min = Drawn!Unsigned(d.min),
                    !.max = IF d.hasMax THEN Drawn!Unsigned(d.max)
                            ELSE Drawn!NoMaximum]
           high == IF d.hasMax THEN Drawn!Unsigned(d.max) ELSE Drawn!NoMaximum
<1>1. /\ d \in DrawType /\ e \in DrawType /\ e.at = "more" /\ e.kind = d.kind
      /\ e.min = d.min /\ e.max = d.max /\ e.hasMax = d.hasMax
  BY PlaceChanges DEF DrawFits, DrawTyped, Drawn!Places
<1>2. /\ d.min \in Sizes \cup {0} /\ d.max \in Sizes \cup {0} /\ d.hasMax \in BOOLEAN
  BY <1>1 DEF DrawType
<1>3. d.min >= 0 /\ (d.hasMax => d.max >= 0)
  BY DEF Drawn!Valid
<1>4. Drawn!Unsigned(d.min) = d.min /\ d.min \in 0..Drawn!NoMaximum
  BY <1>2, <1>3, SizesTravel
<1>5. d.hasMax => Drawn!Unsigned(d.max) = d.max /\ d.max \in 0..Drawn!NoMaximum
  BY <1>2, <1>3, SizesTravel
<1>6. Drawn!NoMaximum \in 0..Drawn!NoMaximum /\ MaxLength \in Nat
  <2>1. 0 \in 0..Drawn!NoMaximum /\ Bits \in Nat \ {0} /\ MaxLength \in Nat
    BY SizesTravel DEF DrawsAssumption
  <2>2. 2^Bits - 1 \in Int
    BY <2>1, Powers
  <2> QED BY <2>1, <2>2 DEF Drawn!NoMaximum
<1>7. high \in 0..Drawn!NoMaximum /\ high = IF d.hasMax THEN d.max ELSE Drawn!NoMaximum
  BY <1>5, <1>6
<1>8. b = [min |-> Drawn!Unsigned(d.min), max |-> high, count |-> 0, over |-> FALSE]
  BY CollOpened
<1> HIDE DEF b, high, e
<1>9. b \in CollType /\ b.min = d.min /\ b.max = high /\ b.count = 0
  BY <1>4, <1>6, <1>7, <1>8 DEF CollType
<1>10. /\ r = <<>> /\ r \in Seq(Keys) /\ p \in Keys \cup {Drawn!NoKey} /\ f \in BOOLEAN
  BY DEF DrawFits, DrawTyped, Agreeing
<1>11. DrawTyped(e, p, b, r, f)
  BY <1>1, <1>9, <1>10 DEF DrawTyped
<1>12. Bounded(e, b)
  BY <1>1, <1>7, <1>9 DEF Bounded
<1>13. Len(r) = 0 /\ Distinct(r)
  BY <1>10 DEF Distinct
<1>14. Agreeing(e, p, b, r, f)
  BY <1>1, <1>9, <1>12, <1>13 DEF Agreeing
<1>15. DrawFits(e, p, b, r, f)
  BY <1>11, <1>14 DEF DrawFits
<1> QED BY <1>15 DEF e, b

(* The parts of what is true of a draw whose loop has begun.                *)
Begun == {"more", "element", "value", "after", "return"}

LEMMA LoopFits ==
    ASSUME NEW d, NEW p, NEW c, NEW r, NEW f, DrawFits(d, p, c, r, f), d.at \in Begun,
           DrawsAssumption
    PROVE  /\ d \in DrawType /\ p \in Keys \cup {Drawn!NoKey} /\ c \in CollType
           /\ r \in Seq(Keys) /\ f \in BOOLEAN
           /\ Len(r) \in Nat /\ c.count \in 0..MaxLength /\ c.count \in Int
           /\ c.max \in Int /\ c.min \in Int /\ MaxLength \in Nat
           /\ Bounded(d, c) /\ c.count <= c.max
           /\ d.kind # "list" => Distinct(r)
<1>1. /\ d \in DrawType /\ p \in Keys \cup {Drawn!NoKey} /\ c \in CollType
      /\ r \in Seq(Keys) /\ f \in BOOLEAN
  BY DEF DrawFits, DrawTyped
<1>2. Bounded(d, c) /\ (d.kind # "list" => Distinct(r))
  BY DEF DrawFits, Agreeing, Begun
<1>3. c.count <= c.max
  BY <1>2 DEF Bounded
<1>4. Len(r) \in Nat
  BY <1>1
<1>5. MaxLength \in Nat
  BY DEF DrawsAssumption
<1> QED BY <1>1, <1>2, <1>3, <1>4, <1>5, CollTyped

(* A step within the loop that leaves the engine's bounds alone.            *)
LEMMA BoundedStays ==
    ASSUME NEW d, NEW c, Bounded(d, c), NEW e, NEW b,
           e.min = d.min, e.max = d.max, e.hasMax = d.hasMax,
           b.min = c.min, b.max = c.max, b.count <= c.max
    PROVE  Bounded(e, b)
BY DEF Bounded

(* More or Reject fails, or has failed before.                              *)
LEMMA FailingFits ==
    ASSUME NEW d, NEW p, NEW c, NEW r, NEW f, DrawFits(d, p, c, r, f),
           d.at \in {"more", "element"}, NEW place \in {"more", "after"}, DrawsAssumption
    PROVE  DrawFits([d EXCEPT !.at = place], p, c, r, TRUE)
<1> DEFINE e == [d EXCEPT !.at = place]
<1>1. /\ d \in DrawType /\ Bounded(d, c) /\ c.count <= c.max
      /\ d.kind # "list" => Distinct(r)
  BY LoopFits DEF Begun
<1>2. place \in Drawn!Places
  BY DEF Drawn!Places
<1>3. /\ e \in DrawType /\ e.at = place /\ e.kind = d.kind
      /\ e.min = d.min /\ e.max = d.max /\ e.hasMax = d.hasMax
  BY <1>1, <1>2, PlaceChanges
<1> HIDE DEF e
<1>4. DrawTyped(e, p, c, r, TRUE)
  BY <1>3 DEF DrawFits, DrawTyped
<1>5. Bounded(e, c)
  BY <1>1, <1>3, BoundedStays
<1>6. Agreeing(e, p, c, r, TRUE)
  BY <1>1, <1>3, <1>5 DEF Agreeing
<1>7. DrawFits(e, p, c, r, TRUE)
  BY <1>4, <1>6 DEF DrawFits
<1> QED BY <1>7 DEF e

LEMMA AskedFits ==
    ASSUME NEW d, NEW p, NEW c, NEW r, NEW f, DrawFits(d, p, c, r, f),
           d.at = "more", ~f, Drawn!EngineAsks(c), DrawsAssumption
    PROVE  DrawFits([d EXCEPT !.at = "element"], p, [c EXCEPT !.count = @ + 1], r, f)
<1> DEFINE e == [d EXCEPT !.at = "element"]
           b == [c EXCEPT !.count = c.count + 1]
<1>1. /\ d \in DrawType /\ p \in Keys \cup {Drawn!NoKey} /\ c \in CollType
      /\ r \in Seq(Keys) /\ f \in BOOLEAN
      /\ Len(r) \in Nat /\ c.count \in 0..MaxLength /\ c.count \in Int
      /\ c.max \in Int /\ MaxLength \in Nat
      /\ Bounded(d, c) /\ (d.kind # "list" => Distinct(r))
  BY LoopFits DEF Begun
<1>2. /\ e \in DrawType /\ e.at = "element" /\ e.kind = d.kind
      /\ e.min = d.min /\ e.max = d.max /\ e.hasMax = d.hasMax
  BY <1>1, PlaceChanges DEF Drawn!Places
<1>3. c.count + 1 \in 0..MaxLength /\ c.count + 1 <= c.max
  BY <1>1 DEF Drawn!EngineAsks
<1>4. b \in CollType /\ b.count = c.count + 1 /\ b.min = c.min /\ b.max = c.max
  BY <1>1, <1>3, CountChanges
<1>5. c.count = Len(r)
  BY DEF DrawFits, Agreeing
<1> HIDE DEF e, b
<1>6. DrawTyped(e, p, b, r, f)
  BY <1>1, <1>2, <1>4 DEF DrawTyped
<1>7. Bounded(e, b)
  BY <1>1, <1>2, <1>3, <1>4, BoundedStays
<1>8. Agreeing(e, p, b, r, f)
  BY <1>1, <1>2, <1>4, <1>5, <1>7 DEF Agreeing
<1>9. DrawFits(e, p, b, r, f)
  BY <1>6, <1>8 DEF DrawFits
<1> QED BY <1>9 DEF e, b

LEMMA OverFits ==
    ASSUME NEW d, NEW p, NEW c, NEW r, NEW f, DrawFits(d, p, c, r, f),
           d.at = "more", ~f, Drawn!EngineStops(c), DrawsAssumption
    PROVE  DrawFits([d EXCEPT !.at = "after"], p, [c EXCEPT !.over = TRUE], r, f)
<1> DEFINE e == [d EXCEPT !.at = "after"]
           b == [c EXCEPT !.over = TRUE]
<1>1. /\ d \in DrawType /\ p \in Keys \cup {Drawn!NoKey} /\ c \in CollType
      /\ r \in Seq(Keys) /\ f \in BOOLEAN
      /\ Bounded(d, c) /\ c.count <= c.max /\ (d.kind # "list" => Distinct(r))
  BY LoopFits DEF Begun
<1>2. /\ e \in DrawType /\ e.at = "after" /\ e.kind = d.kind
      /\ e.min = d.min /\ e.max = d.max /\ e.hasMax = d.hasMax
  BY <1>1, PlaceChanges DEF Drawn!Places
<1>3. /\ b \in CollType /\ b.count = c.count /\ b.min = c.min /\ b.max = c.max
      /\ b.over = TRUE
  BY <1>1, OverChanges
<1>4. c.count = Len(r) /\ c.count >= c.min
  BY DEF DrawFits, Agreeing, Drawn!EngineStops
<1> HIDE DEF e, b
<1>5. DrawTyped(e, p, b, r, f)
  BY <1>1, <1>2, <1>3 DEF DrawTyped
<1>6. Bounded(e, b)
  BY <1>1, <1>2, <1>3, BoundedStays
<1>7. Agreeing(e, p, b, r, f)
  BY <1>1, <1>2, <1>3, <1>4, <1>6 DEF Agreeing
<1>8. DrawFits(e, p, b, r, f)
  BY <1>5, <1>7 DEF DrawFits
<1> QED BY <1>8 DEF e, b

(* An element that no other repeats.                                        *)
LEMMA AppendDistinct ==
    ASSUME NEW r \in Seq(Keys), NEW k \in Keys
    PROVE  /\ Append(r, k) \in Seq(Keys) /\ Len(Append(r, k)) = Len(r) + 1
           /\ Distinct(r) /\ ~RepeatedIn(r, k) => Distinct(Append(r, k))
<1>1. /\ Append(r, k) \in Seq(Keys) /\ Len(Append(r, k)) = Len(r) + 1
      /\ Append(r, k)[Len(r) + 1] = k /\ Len(r) \in Nat
      /\ \A i \in 1..Len(r) : Append(r, k)[i] = r[i]
  OBVIOUS
<1>2. ASSUME Distinct(r), ~RepeatedIn(r, k) PROVE Distinct(Append(r, k))
  <2> SUFFICES ASSUME NEW i \in 1..(Len(r) + 1), NEW j \in 1..(Len(r) + 1),
                      Drawn!SameKey(Append(r, k)[i], Append(r, k)[j])
               PROVE  i = j
    BY <1>1 DEF Distinct
  <2>1. CASE i \in 1..Len(r) /\ j \in 1..Len(r)
    BY <1>1, <1>2, <2>1 DEF Distinct
  <2>2. CASE i \in 1..Len(r) /\ j = Len(r) + 1
    BY <1>1, <1>2, <2>2 DEF RepeatedIn
  <2>3. CASE i = Len(r) + 1 /\ j \in 1..Len(r)
    <3>1. Drawn!SameKey(r[j], k)
      BY <1>1, <2>3 DEF Drawn!SameKey
    <3> QED BY <1>2, <2>3, <3>1 DEF RepeatedIn
  <2>4. CASE i = Len(r) + 1 /\ j = Len(r) + 1
    BY <2>4
  <2> QED BY <1>1, <2>1, <2>2, <2>3, <2>4
<1> QED BY <1>1, <1>2

LEMMA AcceptFits ==
    ASSUME NEW d, NEW p, NEW c, NEW r, NEW f, DrawFits(d, p, c, r, f),
           d.at \in {"element", "value"}, NEW k \in Keys,
           d.kind # "list" => ~RepeatedIn(r, k), DrawsAssumption
    PROVE  DrawFits([d EXCEPT !.at = "more"], p, c, Append(r, k), f)
<1> DEFINE e == [d EXCEPT !.at = "more"]
           s == Append(r, k)
<1>1. /\ d \in DrawType /\ p \in Keys \cup {Drawn!NoKey} /\ c \in CollType
      /\ r \in Seq(Keys) /\ f \in BOOLEAN
      /\ Bounded(d, c) /\ c.count <= c.max /\ (d.kind # "list" => Distinct(r))
  BY LoopFits DEF Begun
<1>2. /\ e \in DrawType /\ e.at = "more" /\ e.kind = d.kind
      /\ e.min = d.min /\ e.max = d.max /\ e.hasMax = d.hasMax
  BY <1>1, PlaceChanges DEF Drawn!Places
<1>3. /\ s \in Seq(Keys) /\ Len(s) = Len(r) + 1
      /\ d.kind # "list" => Distinct(s)
  BY <1>1, AppendDistinct
<1>4. c.count = Len(r) + 1
  BY DEF DrawFits, Agreeing
<1> HIDE DEF e, s
<1>5. DrawTyped(e, p, c, s, f)
  BY <1>1, <1>2, <1>3 DEF DrawTyped
<1>6. Bounded(e, c)
  BY <1>1, <1>2, BoundedStays
<1>7. Agreeing(e, p, c, s, f)
  BY <1>1, <1>2, <1>3, <1>4, <1>6 DEF Agreeing
<1>8. DrawFits(e, p, c, s, f)
  BY <1>5, <1>7 DEF DrawFits
<1> QED BY <1>8 DEF e, s

LEMMA GivenBackFits ==
    ASSUME NEW d, NEW p, NEW c, NEW r, NEW f, DrawFits(d, p, c, r, f),
           d.at = "element", DrawsAssumption
    PROVE  DrawFits([d EXCEPT !.at = "more"], p, Drawn!GivenBack(c), r, f)
<1> DEFINE e == [d EXCEPT !.at = "more"]
           b == [c EXCEPT !.count = c.count - 1]
<1>1. /\ d \in DrawType /\ p \in Keys \cup {Drawn!NoKey} /\ c \in CollType
      /\ r \in Seq(Keys) /\ f \in BOOLEAN
      /\ Len(r) \in Nat /\ c.count \in 0..MaxLength /\ c.count \in Int
      /\ c.max \in Int /\ MaxLength \in Nat
      /\ Bounded(d, c) /\ c.count <= c.max /\ (d.kind # "list" => Distinct(r))
  BY LoopFits DEF Begun
<1>2. /\ e \in DrawType /\ e.at = "more" /\ e.kind = d.kind
      /\ e.min = d.min /\ e.max = d.max /\ e.hasMax = d.hasMax
  BY <1>1, PlaceChanges DEF Drawn!Places
<1>3. c.count = Len(r) + 1
  BY DEF DrawFits, Agreeing
<1>4. c.count - 1 \in 0..MaxLength /\ c.count - 1 <= c.max
  BY <1>1, <1>3
<1>5. b \in CollType /\ b.count = c.count - 1 /\ b.min = c.min /\ b.max = c.max
  BY <1>1, <1>4, CountChanges
<1>6. Drawn!GivenBack(c) = b
  BY DEF Drawn!GivenBack
<1> HIDE DEF e, b
<1>7. DrawTyped(e, p, b, r, f)
  BY <1>1, <1>2, <1>5 DEF DrawTyped
<1>8. Bounded(e, b)
  BY <1>1, <1>2, <1>4, <1>5, BoundedStays
<1>9. b.count = Len(r)
  BY <1>1, <1>3, <1>5
<1>10. Agreeing(e, p, b, r, f)
  BY <1>1, <1>2, <1>5, <1>8, <1>9 DEF Agreeing
<1>11. DrawFits(e, p, b, r, f)
  BY <1>7, <1>10 DEF DrawFits
<1> QED BY <1>6, <1>11 DEF e

LEMMA PendingFits ==
    ASSUME NEW d, NEW p, NEW c, NEW r, NEW f, DrawFits(d, p, c, r, f),
           d.at = "element", NEW k \in Keys, ~RepeatedIn(r, k), DrawsAssumption
    PROVE  DrawFits([d EXCEPT !.at = "value"], k, c, r, f)
<1> DEFINE e == [d EXCEPT !.at = "value"]
<1>1. /\ d \in DrawType /\ Bounded(d, c) /\ c.count <= c.max
      /\ d.kind # "list" => Distinct(r)
  BY LoopFits DEF Begun
<1>2. /\ e \in DrawType /\ e.at = "value" /\ e.kind = d.kind
      /\ e.min = d.min /\ e.max = d.max /\ e.hasMax = d.hasMax
  BY <1>1, PlaceChanges DEF Drawn!Places
<1>3. ~f /\ c.count = Len(r) + 1
  BY DEF DrawFits, Agreeing
<1> HIDE DEF e
<1>4. DrawTyped(e, k, c, r, f)
  BY <1>2 DEF DrawFits, DrawTyped
<1>5. Bounded(e, c)
  BY <1>1, <1>2, BoundedStays
<1>6. Agreeing(e, k, c, r, f)
  BY <1>1, <1>2, <1>3, <1>5 DEF Agreeing
<1>7. DrawFits(e, k, c, r, f)
  BY <1>4, <1>6 DEF DrawFits
<1> QED BY <1>7 DEF e

LEMMA ReturnFits ==
    ASSUME NEW d, NEW p, NEW c, NEW r, NEW f, DrawFits(d, p, c, r, f),
           d.at = "after", ~f, DrawsAssumption
    PROVE  DrawFits([d EXCEPT !.at = "return"], p, c, r, f)
<1> DEFINE e == [d EXCEPT !.at = "return"]
<1>1. /\ d \in DrawType /\ Bounded(d, c) /\ c.count <= c.max
      /\ d.kind # "list" => Distinct(r)
  BY LoopFits DEF Begun
<1>2. /\ e \in DrawType /\ e.at = "return" /\ e.kind = d.kind
      /\ e.min = d.min /\ e.max = d.max /\ e.hasMax = d.hasMax
  BY <1>1, PlaceChanges DEF Drawn!Places
<1>3. c.count = Len(r) /\ c.over /\ c.count >= c.min
  BY DEF DrawFits, Agreeing
<1> HIDE DEF e
<1>4. DrawTyped(e, p, c, r, f)
  BY <1>2 DEF DrawFits, DrawTyped
<1>5. Bounded(e, c)
  BY <1>1, <1>2, BoundedStays
<1>6. Agreeing(e, p, c, r, f)
  BY <1>1, <1>2, <1>3, <1>5 DEF Agreeing
<1>7. DrawFits(e, p, c, r, f)
  BY <1>4, <1>6 DEF DrawFits
<1> QED BY <1>7 DEF e

-----------------------------------------------------------------------------
(* The steps of Collections.                                                *)

Becomes(old, new, g, v) ==
    /\ PerGoroutine(new) /\ new[g] = v
    /\ \A h \in Goroutines \ {g} : new[h] = old[h]

LEMMA Becoming ==
    ASSUME NEW old, NEW new, PerGoroutine(old), NEW g \in Goroutines
    PROVE  /\ new = old => Becomes(old, new, g, old[g])
           /\ \A v : new = [old EXCEPT ![g] = v] => Becomes(old, new, g, v)
BY DEF PerGoroutine, Becomes

LEMMA DrawMoves ==
    ASSUME CollectionsInv, NEW g \in Goroutines, NEW d, NEW p, NEW c, NEW r, NEW f,
           DrawFits(d, p, c, r, f),
           Becomes(draw, draw', g, d), Becomes(pending, pending', g, p),
           Becomes(coll, coll', g, c), Becomes(result, result', g, r),
           Becomes(failed, failed', g, f)
    PROVE  CollectionsInv'
<1>1. /\ PerGoroutine(draw') /\ PerGoroutine(pending') /\ PerGoroutine(coll')
      /\ PerGoroutine(result') /\ PerGoroutine(failed')
  BY DEF Becomes
<1>2. \A h \in Goroutines : DrawFits(draw'[h], pending'[h], coll'[h], result'[h], failed'[h])
  <2> SUFFICES ASSUME NEW h \in Goroutines
               PROVE  DrawFits(draw'[h], pending'[h], coll'[h], result'[h], failed'[h])
    OBVIOUS
  <2>1. CASE h = g
    BY <2>1 DEF Becomes
  <2>2. CASE h # g
    <3>1. /\ draw'[h] = draw[h] /\ pending'[h] = pending[h] /\ coll'[h] = coll[h]
          /\ result'[h] = result[h] /\ failed'[h] = failed[h]
      BY <2>2 DEF Becomes
    <3>2. DrawFits(draw[h], pending[h], coll[h], result[h], failed[h])
      BY DEF CollectionsInv
    <3> QED BY <3>1, <3>2
  <2> QED BY <2>1, <2>2
<1> QED BY <1>1, <1>2 DEF CollectionsInv, PerGoroutine

(* A goroutine's draw before a step.                                        *)
LEMMA DrawBefore ==
    ASSUME CollectionsInv, NEW g \in Goroutines
    PROVE  /\ DrawFits(draw[g], pending[g], coll[g], result[g], failed[g])
           /\ PerGoroutine(draw) /\ PerGoroutine(pending) /\ PerGoroutine(coll)
           /\ PerGoroutine(result) /\ PerGoroutine(failed)
           /\ failed[g] \in BOOLEAN
BY DEF CollectionsInv, DrawFits, DrawTyped

LEMMA GoesTo ==
    ASSUME CollectionsInv, NEW g \in Goroutines, NEW place, Drawn!Goto(g, place)
    PROVE  Becomes(draw, draw', g, [draw[g] EXCEPT !.at = place])
<1>1. draw' = [draw EXCEPT ![g] = [draw[g] EXCEPT !.at = place]]
  BY DEF Drawn!Goto
<1> QED BY <1>1, DrawBefore, Becoming

LEMMA CollectionsStart ==
    ASSUME Drawn!Init, DrawsAssumption PROVE CollectionsInv
<1>1. /\ PerGoroutine(draw) /\ PerGoroutine(pending) /\ PerGoroutine(coll)
      /\ PerGoroutine(result) /\ PerGoroutine(failed)
  BY DEF Drawn!Init, PerGoroutine
<1>2. \A g \in Goroutines : DrawFits(draw[g], pending[g], coll[g], result[g], failed[g])
  BY NothingDrawn DEF Drawn!Init
<1> QED BY <1>1, <1>2 DEF CollectionsInv

LEMMA ForgetKeeps ==
    ASSUME CollectionsInv, NEW g \in Goroutines, Drawn!Forget(g), DrawsAssumption
    PROVE  CollectionsInv'
<1>1. /\ Becomes(draw, draw', g, Drawn!NoDraw)
      /\ Becomes(pending, pending', g, Drawn!NoKey)
      /\ Becomes(coll, coll', g, Drawn!NoColl)
      /\ Becomes(result, result', g, <<>>)
      /\ Becomes(failed, failed', g, FALSE)
  BY DrawBefore, Becoming DEF Drawn!Forget
<1> QED BY <1>1, NothingDrawn, DrawMoves

LEMMA StartKeeps ==
    ASSUME CollectionsInv, NEW g \in Goroutines, Drawn!Start(g)
    PROVE  CollectionsInv'
<1>1. PICK c \in Drawn!Config :
        draw' = [draw EXCEPT ![g] = [at |-> "call", kind |-> c.kind,
            min |-> c.min, max |-> IF c.hasMax THEN c.max ELSE c.min,
            hasMax |-> c.hasMax]]
  BY DEF Drawn!Start
<1> DEFINE most == IF c.hasMax THEN c.max ELSE c.min
           e == [at |-> "call", kind |-> c.kind, min |-> c.min, max |-> most,
                 hasMax |-> c.hasMax]
<1>2. /\ c.kind \in {"list", "unique", "map"} /\ c.min \in Sizes
      /\ most \in Sizes /\ c.hasMax \in BOOLEAN
  BY DEF Drawn!Config
<1>3. draw' = [draw EXCEPT ![g] = e]
  BY <1>1
<1> HIDE DEF most
<1>4. e \in DrawType /\ e.at = "call"
  BY <1>2 DEF DrawType, Drawn!Places
<1> HIDE DEF e
<1>5. draw[g].at = "idle"
  BY DEF Drawn!Start, Drawn!NoDraw
<1>6. DrawFits(e, pending[g], coll[g], result[g], failed[g])
  BY <1>4, <1>5, DrawBefore, StartFits
<1>7. /\ Becomes(draw, draw', g, e) /\ Becomes(pending, pending', g, pending[g])
      /\ Becomes(coll, coll', g, coll[g]) /\ Becomes(result, result', g, result[g])
      /\ Becomes(failed, failed', g, failed[g])
  BY <1>3, DrawBefore, Becoming DEF Drawn!Start
<1> QED BY <1>6, <1>7, DrawMoves

LEMMA OpenKeeps ==
    ASSUME CollectionsInv, NEW g \in Goroutines, Drawn!Open(g), DrawsAssumption
    PROVE  CollectionsInv'
<1>1. /\ Becomes(pending, pending', g, pending[g])
      /\ Becomes(result, result', g, result[g])
      /\ Becomes(failed, failed', g, failed[g])
  BY DrawBefore, Becoming DEF Drawn!Open
<1> DEFINE b == [Drawn!NoColl EXCEPT !.min = Drawn!Unsigned(draw[g].min),
                    !.max = IF draw[g].hasMax THEN Drawn!Unsigned(draw[g].max)
                            ELSE Drawn!NoMaximum]
<1>2. CASE /\ Drawn!Valid(draw[g]) /\ coll' = [coll EXCEPT ![g] = b]
           /\ Drawn!Goto(g, "more")
  <2>1. DrawFits([draw[g] EXCEPT !.at = "more"], pending[g], b, result[g], failed[g])
    BY <1>2, DrawBefore, OpenFits DEF Drawn!Open, Drawn!At
  <2>2. Becomes(draw, draw', g, [draw[g] EXCEPT !.at = "more"])
    BY <1>2, GoesTo
  <2> HIDE DEF b
  <2>3. Becomes(coll, coll', g, b)
    BY <1>2, DrawBefore, Becoming
  <2> QED BY <1>1, <2>1, <2>2, <2>3, DrawMoves
<1>3. CASE Drawn!Goto(g, "error") /\ UNCHANGED coll
  <2>1. DrawFits([draw[g] EXCEPT !.at = "error"], pending[g], coll[g], result[g], failed[g])
    BY DrawBefore, ErrorFits
  <2>2. Becomes(draw, draw', g, [draw[g] EXCEPT !.at = "error"])
    BY <1>3, GoesTo
  <2>3. Becomes(coll, coll', g, coll[g])
    BY <1>3, DrawBefore, Becoming
  <2> QED BY <1>1, <2>1, <2>2, <2>3, DrawMoves
<1> QED BY <1>2, <1>3 DEF Drawn!Open

LEMMA MoreKeeps ==
    ASSUME CollectionsInv, NEW g \in Goroutines, Drawn!More(g), DrawsAssumption
    PROVE  CollectionsInv'
<1>1. /\ Becomes(pending, pending', g, pending[g])
      /\ Becomes(result, result', g, result[g])
      /\ draw[g].at = "more"
  BY DrawBefore, Becoming DEF Drawn!More, Drawn!At
<1>2. CASE failed[g] /\ Drawn!Goto(g, "after") /\ UNCHANGED <<coll, failed>>
  <2>1. failed[g] = TRUE
    BY <1>2, DrawBefore
  <2>2. DrawFits([draw[g] EXCEPT !.at = "after"], pending[g], coll[g], result[g], TRUE)
    BY <1>1, DrawBefore, FailingFits
  <2>3. Becomes(draw, draw', g, [draw[g] EXCEPT !.at = "after"])
    BY <1>2, GoesTo
  <2>4. Becomes(coll, coll', g, coll[g]) /\ Becomes(failed, failed', g, TRUE)
    BY <1>2, <2>1, DrawBefore, Becoming
  <2> QED BY <1>1, <2>2, <2>3, <2>4, DrawMoves
<1>3. CASE /\ ~failed[g] /\ Drawn!EngineAsks(coll[g])
           /\ coll' = [coll EXCEPT ![g].count = @ + 1]
           /\ Drawn!Goto(g, "element") /\ UNCHANGED failed
  <2>1. DrawFits([draw[g] EXCEPT !.at = "element"], pending[g],
                 [coll[g] EXCEPT !.count = @ + 1], result[g], failed[g])
    BY <1>1, <1>3, DrawBefore, AskedFits
  <2>2. Becomes(draw, draw', g, [draw[g] EXCEPT !.at = "element"])
    BY <1>3, GoesTo
  <2>3. coll' = [coll EXCEPT ![g] = [coll[g] EXCEPT !.count = @ + 1]]
    BY <1>3
  <2>4. /\ Becomes(coll, coll', g, [coll[g] EXCEPT !.count = @ + 1])
        /\ Becomes(failed, failed', g, failed[g])
    BY <1>3, <2>3, DrawBefore, Becoming
  <2> QED BY <1>1, <2>1, <2>2, <2>4, DrawMoves
<1>4. CASE /\ ~failed[g] /\ Drawn!EngineStops(coll[g])
           /\ coll' = [coll EXCEPT ![g].over = TRUE]
           /\ Drawn!Goto(g, "after") /\ UNCHANGED failed
  <2>1. DrawFits([draw[g] EXCEPT !.at = "after"], pending[g],
                 [coll[g] EXCEPT !.over = TRUE], result[g], failed[g])
    BY <1>1, <1>4, DrawBefore, OverFits
  <2>2. Becomes(draw, draw', g, [draw[g] EXCEPT !.at = "after"])
    BY <1>4, GoesTo
  <2>3. coll' = [coll EXCEPT ![g] = [coll[g] EXCEPT !.over = TRUE]]
    BY <1>4
  <2>4. /\ Becomes(coll, coll', g, [coll[g] EXCEPT !.over = TRUE])
        /\ Becomes(failed, failed', g, failed[g])
    BY <1>4, <2>3, DrawBefore, Becoming
  <2> QED BY <1>1, <2>1, <2>2, <2>4, DrawMoves
<1>5. CASE /\ failed' = [failed EXCEPT ![g] = TRUE]
           /\ Drawn!Goto(g, "after") /\ UNCHANGED coll
  <2>1. DrawFits([draw[g] EXCEPT !.at = "after"], pending[g], coll[g], result[g], TRUE)
    BY <1>1, DrawBefore, FailingFits
  <2>2. Becomes(draw, draw', g, [draw[g] EXCEPT !.at = "after"])
    BY <1>5, GoesTo
  <2>3. Becomes(coll, coll', g, coll[g]) /\ Becomes(failed, failed', g, TRUE)
    BY <1>5, DrawBefore, Becoming
  <2> QED BY <1>1, <2>1, <2>2, <2>3, DrawMoves
<1> QED BY <1>2, <1>3, <1>4, <1>5 DEF Drawn!More

LEMMA RepeatsIn ==
    ASSUME NEW g \in Goroutines, NEW k
    PROVE  Drawn!Repeats(g, k) <=> RepeatedIn(result[g], k)
BY DEF Drawn!Repeats, RepeatedIn

LEMMA AcceptsKey ==
    ASSUME CollectionsInv, NEW g \in Goroutines, NEW k \in Keys,
           draw[g].at \in {"element", "value"},
           draw[g].kind # "list" => ~RepeatedIn(result[g], k),
           Drawn!Accept(g, k), Drawn!Goto(g, "more"),
           UNCHANGED <<pending, coll, failed>>, DrawsAssumption
    PROVE  CollectionsInv'
<1>1. DrawFits([draw[g] EXCEPT !.at = "more"], pending[g], coll[g],
               Append(result[g], k), failed[g])
  BY DrawBefore, AcceptFits
<1>2. Becomes(draw, draw', g, [draw[g] EXCEPT !.at = "more"])
  BY GoesTo
<1>3. Becomes(result, result', g, Append(result[g], k))
  BY DrawBefore, Becoming DEF Drawn!Accept
<1>4. /\ Becomes(pending, pending', g, pending[g]) /\ Becomes(coll, coll', g, coll[g])
      /\ Becomes(failed, failed', g, failed[g])
  BY DrawBefore, Becoming
<1> QED BY <1>1, <1>2, <1>3, <1>4, DrawMoves

LEMMA ElementKeeps ==
    ASSUME CollectionsInv, NEW g \in Goroutines, Drawn!Element(g), DrawsAssumption
    PROVE  CollectionsInv'
<1>1. draw[g].at = "element"
  BY DEF Drawn!Element, Drawn!At
<1>2. PICK k \in Keys :
        \/ /\ draw[g].kind = "list"
           /\ Drawn!Accept(g, k)
           /\ Drawn!Goto(g, "more")
           /\ UNCHANGED <<pending, coll, failed>>
        \/ /\ draw[g].kind # "list" /\ Drawn!Repeats(g, k)
           /\ \/ /\ coll' = [coll EXCEPT ![g] = Drawn!GivenBack(@)]
                 /\ UNCHANGED failed
              \/ /\ failed' = [failed EXCEPT ![g] = TRUE]
                 /\ UNCHANGED coll
           /\ Drawn!Goto(g, "more")
           /\ UNCHANGED <<pending, result>>
        \/ /\ draw[g].kind = "unique" /\ ~Drawn!Repeats(g, k)
           /\ Drawn!Accept(g, k)
           /\ Drawn!Goto(g, "more")
           /\ UNCHANGED <<pending, coll, failed>>
        \/ /\ draw[g].kind = "map" /\ ~Drawn!Repeats(g, k)
           /\ pending' = [pending EXCEPT ![g] = k]
           /\ Drawn!Goto(g, "value")
           /\ UNCHANGED <<coll, result, failed>>
  BY Zenon DEF Drawn!Element
<1>3. CASE /\ draw[g].kind = "list"
           /\ Drawn!Accept(g, k)
           /\ Drawn!Goto(g, "more")
           /\ UNCHANGED <<pending, coll, failed>>
  BY <1>1, <1>3, AcceptsKey
<1>4. CASE /\ draw[g].kind # "list" /\ Drawn!Repeats(g, k)
           /\ \/ /\ coll' = [coll EXCEPT ![g] = Drawn!GivenBack(@)]
                 /\ UNCHANGED failed
              \/ /\ failed' = [failed EXCEPT ![g] = TRUE]
                 /\ UNCHANGED coll
           /\ Drawn!Goto(g, "more")
           /\ UNCHANGED <<pending, result>>
  <2>1. /\ Becomes(draw, draw', g, [draw[g] EXCEPT !.at = "more"])
        /\ Becomes(pending, pending', g, pending[g])
        /\ Becomes(result, result', g, result[g])
    BY <1>4, GoesTo, DrawBefore, Becoming
  <2>2. CASE coll' = [coll EXCEPT ![g] = Drawn!GivenBack(coll[g])] /\ UNCHANGED failed
    <3>1. DrawFits([draw[g] EXCEPT !.at = "more"], pending[g], Drawn!GivenBack(coll[g]),
                   result[g], failed[g])
      BY <1>1, DrawBefore, GivenBackFits
    <3>2. /\ Becomes(coll, coll', g, Drawn!GivenBack(coll[g]))
          /\ Becomes(failed, failed', g, failed[g])
      BY <2>2, DrawBefore, Becoming
    <3> QED BY <2>1, <3>1, <3>2, DrawMoves
  <2>3. CASE failed' = [failed EXCEPT ![g] = TRUE] /\ UNCHANGED coll
    <3>1. DrawFits([draw[g] EXCEPT !.at = "more"], pending[g], coll[g], result[g], TRUE)
      BY <1>1, DrawBefore, FailingFits
    <3>2. Becomes(coll, coll', g, coll[g]) /\ Becomes(failed, failed', g, TRUE)
      BY <2>3, DrawBefore, Becoming
    <3> QED BY <2>1, <3>1, <3>2, DrawMoves
  <2> QED BY <1>4, <2>2, <2>3
<1>5. CASE /\ draw[g].kind = "unique" /\ ~Drawn!Repeats(g, k)
           /\ Drawn!Accept(g, k)
           /\ Drawn!Goto(g, "more")
           /\ UNCHANGED <<pending, coll, failed>>
  BY <1>1, <1>5, RepeatsIn, AcceptsKey
<1>6. CASE /\ draw[g].kind = "map" /\ ~Drawn!Repeats(g, k)
           /\ pending' = [pending EXCEPT ![g] = k]
           /\ Drawn!Goto(g, "value")
           /\ UNCHANGED <<coll, result, failed>>
  <2>1. DrawFits([draw[g] EXCEPT !.at = "value"], k, coll[g], result[g], failed[g])
    BY <1>1, <1>6, DrawBefore, RepeatsIn, PendingFits
  <2>2. Becomes(draw, draw', g, [draw[g] EXCEPT !.at = "value"])
    BY <1>6, GoesTo
  <2>3. /\ Becomes(coll, coll', g, coll[g]) /\ Becomes(failed, failed', g, failed[g])
        /\ Becomes(pending, pending', g, k) /\ Becomes(result, result', g, result[g])
    BY <1>6, DrawBefore, Becoming
  <2> QED BY <2>1, <2>2, <2>3, DrawMoves
<1> QED BY <1>2, <1>3, <1>4, <1>5, <1>6, Zenon

LEMMA ValueKeeps ==
    ASSUME CollectionsInv, NEW g \in Goroutines, Drawn!Value(g), DrawsAssumption
    PROVE  CollectionsInv'
<1>1. draw[g].at = "value"
  BY DEF Drawn!Value, Drawn!At
<1>2. pending[g] \in Keys /\ ~RepeatedIn(result[g], pending[g])
  BY <1>1, DrawBefore DEF DrawFits, Agreeing
<1> QED BY <1>1, <1>2, AcceptsKey DEF Drawn!Value

LEMMA ElementErrorKeeps ==
    ASSUME CollectionsInv, NEW g \in Goroutines, Drawn!Goto(g, "error"),
           UNCHANGED <<pending, coll, result, failed>>
    PROVE  CollectionsInv'
<1>1. DrawFits([draw[g] EXCEPT !.at = "error"], pending[g], coll[g], result[g], failed[g])
  BY DrawBefore, ErrorFits
<1>2. Becomes(draw, draw', g, [draw[g] EXCEPT !.at = "error"])
  BY GoesTo
<1>3. /\ Becomes(pending, pending', g, pending[g]) /\ Becomes(coll, coll', g, coll[g])
      /\ Becomes(result, result', g, result[g]) /\ Becomes(failed, failed', g, failed[g])
  BY DrawBefore, Becoming
<1> QED BY <1>1, <1>2, <1>3, DrawMoves

LEMMA FinishKeeps ==
    ASSUME CollectionsInv, NEW g \in Goroutines, Drawn!Finish(g), DrawsAssumption
    PROVE  CollectionsInv'
<1>1. CASE failed[g]
  BY <1>1, ElementErrorKeeps DEF Drawn!Finish
<1>2. CASE ~failed[g]
  <2>1. DrawFits([draw[g] EXCEPT !.at = "return"], pending[g], coll[g], result[g], failed[g])
    BY <1>2, DrawBefore, ReturnFits DEF Drawn!Finish, Drawn!At
  <2>2. Becomes(draw, draw', g, [draw[g] EXCEPT !.at = "return"])
    BY <1>2, GoesTo DEF Drawn!Finish
  <2>3. /\ Becomes(pending, pending', g, pending[g]) /\ Becomes(coll, coll', g, coll[g])
        /\ Becomes(result, result', g, result[g]) /\ Becomes(failed, failed', g, failed[g])
    BY DrawBefore, Becoming DEF Drawn!Finish
  <2> QED BY <2>1, <2>2, <2>3, DrawMoves
<1> QED BY <1>1, <1>2

LEMMA CollectionStepKeeps ==
    ASSUME CollectionsInv, NEW g \in Goroutines, Drawn!Step(g), DrawsAssumption
    PROVE  CollectionsInv'
BY StartKeeps, OpenKeeps, MoreKeeps, ElementKeeps, ValueKeeps, ElementErrorKeeps, FinishKeeps
   DEF Drawn!Step, Drawn!ElementError

LEMMA CollectionsTyped == ASSUME CollectionsInv PROVE Drawn!TypeOK
<1>1. \A g \in Goroutines : DrawTyped(draw[g], pending[g], coll[g], result[g], failed[g])
  BY DEF CollectionsInv, DrawFits
<1>2. /\ PerGoroutine(draw) /\ PerGoroutine(pending) /\ PerGoroutine(coll)
      /\ PerGoroutine(result) /\ PerGoroutine(failed)
  BY DEF CollectionsInv
<1>3. draw \in [Goroutines -> DrawType]
  BY <1>1, <1>2 DEF DrawTyped, PerGoroutine
<1>4. coll \in [Goroutines -> CollType]
  BY <1>1, <1>2 DEF DrawTyped, PerGoroutine
<1>5. pending \in [Goroutines -> Keys \cup {Drawn!NoKey}]
  BY <1>1, <1>2 DEF DrawTyped, PerGoroutine
<1>6. result \in [Goroutines -> Seq(Keys)]
  BY <1>1, <1>2 DEF DrawTyped, PerGoroutine
<1>7. failed \in [Goroutines -> BOOLEAN]
  BY <1>1, <1>2 DEF DrawTyped, PerGoroutine
<1> QED BY <1>3, <1>4, <1>5, <1>6, <1>7 DEF Drawn!TypeOK, DrawType, CollType

LEMMA CollectionsAreSound ==
    ASSUME CollectionsInv, DrawsAssumption PROVE SoundCollections
<1> SUFFICES ASSUME NEW g \in Goroutines PROVE Drawn!BoundsArrive(g) /\ Drawn!Sound(g)
  BY DEF SoundCollections
<1>1. DrawFits(draw[g], pending[g], coll[g], result[g], failed[g])
  BY DEF CollectionsInv
<1>2. Drawn!BoundsArrive(g)
  BY <1>1 DEF DrawFits, Agreeing, Bounded, Drawn!BoundsArrive
<1>3. ASSUME draw[g].at = "return"
      PROVE  /\ coll[g].over /\ coll[g].count = Len(result[g])
             /\ Len(result[g]) >= draw[g].min
             /\ draw[g].hasMax => Len(result[g]) <= draw[g].max
             /\ draw[g].kind # "list" => Distinct(result[g])
  BY <1>1, <1>3 DEF DrawFits, Agreeing, Bounded
<1>4. Drawn!Sound(g)
  BY <1>3 DEF Drawn!Sound, Drawn!At, Distinct
<1> QED BY <1>2, <1>4

-----------------------------------------------------------------------------
(* Integers: powers of two, and numbers in bytes.                           *)

(* A set of n elements has 2^n subsets.                                     *)
LEMMA Subsets ==
    ASSUME NEW S, NEW n \in Nat, IsFiniteSet(S), Cardinality(S) = n
    PROVE  IsFiniteSet(SUBSET S) /\ Cardinality(SUBSET S) = 2^n /\ 2^n \in Nat
<1>1. IsFiniteSet(SUBSET S) /\ Cardinality(SUBSET S) = 2^n
  BY FS_SUBSET
<1> QED BY <1>1, FS_CardinalityType

LEMMA PowerOfSum ==
    ASSUME NEW a \in Nat, NEW b \in Nat
    PROVE  2^a \in Nat /\ 2^b \in Nat /\ 2^(a + b) = 2^a * 2^b
<1> DEFINE A == 1..a
           B == (a + 1)..(a + b)
           C == 1..(a + b)
           f == [p \in (SUBSET A) \X (SUBSET B) |-> p[1] \cup p[2]]
<1>1. /\ IsFiniteSet(A) /\ Cardinality(A) = a
      /\ IsFiniteSet(B) /\ Cardinality(B) = b
      /\ IsFiniteSet(C) /\ Cardinality(C) = a + b
  <2>1. IsFiniteSet(A) /\ Cardinality(A) = a
    BY FS_Interval
  <2>2. IsFiniteSet(B) /\ Cardinality(B) = b
    BY FS_Interval
  <2>3. IsFiniteSet(C) /\ Cardinality(C) = a + b
    <3>1. a + b \in Nat /\ 1 \in Int /\ ~(1 > a + b) => a + b - 1 + 1 = a + b
      OBVIOUS
    <3>2. IsFiniteSet(C) /\ Cardinality(C) = IF 1 > a + b THEN 0 ELSE a + b - 1 + 1
      BY <3>1, FS_Interval
    <3> HIDE DEF C
    <3> QED BY <3>1, <3>2
  <2> QED BY <2>1, <2>2, <2>3
<1>2. C = A \cup B /\ A \cap B = {}
  OBVIOUS
<1> HIDE DEF A, B, C
<1>3. f \in [(SUBSET A) \X (SUBSET B) -> SUBSET C]
  BY <1>2
<1>4. \A p, q \in (SUBSET A) \X (SUBSET B) : f[p] = f[q] => p = q
  <2> SUFFICES ASSUME NEW p \in (SUBSET A) \X (SUBSET B),
                      NEW q \in (SUBSET A) \X (SUBSET B), f[p] = f[q]
               PROVE  p = q
    OBVIOUS
  <2>1. p[1] \cup p[2] = q[1] \cup q[2]
    OBVIOUS
  <2>2. p[1] = q[1]
    BY <2>1, <1>2
  <2>3. p[2] = q[2]
    BY <2>1, <1>2
  <2> QED BY <2>2, <2>3
<1>5. \A t \in SUBSET C : \E p \in (SUBSET A) \X (SUBSET B) : f[p] = t
  <2> TAKE t \in SUBSET C
  <2>1. <<t \cap A, t \cap B>> \in (SUBSET A) \X (SUBSET B)
    OBVIOUS
  <2>2. f[<<t \cap A, t \cap B>>] = t
    BY <1>2, <2>1
  <2> HIDE DEF f
  <2> QED BY <2>1, <2>2
<1>6. ExistsBijection((SUBSET A) \X (SUBSET B), SUBSET C)
  <2> HIDE DEF f
  <2>1. f \in Bijection((SUBSET A) \X (SUBSET B), SUBSET C)
    BY <1>3, <1>4, <1>5, Fun_IsBij
  <2> QED BY <2>1 DEF ExistsBijection
<1> HIDE DEF f
<1>7. /\ IsFiniteSet(SUBSET A) /\ Cardinality(SUBSET A) = 2^a /\ 2^a \in Nat
      /\ IsFiniteSet(SUBSET B) /\ Cardinality(SUBSET B) = 2^b /\ 2^b \in Nat
      /\ IsFiniteSet(SUBSET C) /\ Cardinality(SUBSET C) = 2^(a + b)
  <2>1. a + b \in Nat
    OBVIOUS
  <2> QED BY <1>1, <2>1, Subsets
<1> DEFINE P == SUBSET A
           Q == SUBSET B
<1>8. /\ IsFiniteSet(P \X Q)
      /\ Cardinality(P \X Q) = Cardinality(P) * Cardinality(Q)
  <2>1. IsFiniteSet(P) /\ IsFiniteSet(Q)
    BY <1>7
  <2> HIDE DEF P, Q
  <2> QED BY <2>1, FS_Product
<1>9. Cardinality(SUBSET C) = Cardinality(P \X Q)
  BY <1>6, <1>8, FS_Bijection
<1> QED BY <1>7, <1>8, <1>9

LEMMA SmallPowers == 2^0 = 1 /\ 2^1 = 2
OBVIOUS

LEMMA Doubled ==
    ASSUME NEW n \in Nat
    PROVE  2^n \in Nat /\ 2^n >= 1 /\ 2^(n + 1) = 2 * 2^n
<1>1. 2^n \in Nat /\ 2^1 \in Nat /\ 2^(n + 1) = 2^n * 2^1
  BY PowerOfSum
<1>2. 2^n # 0
  <2>1. IsFiniteSet(1..n) /\ Cardinality(1..n) = n
    BY FS_Interval
  <2>2. IsFiniteSet(SUBSET (1..n)) /\ Cardinality(SUBSET (1..n)) = 2^n
    BY <2>1, Subsets
  <2> DEFINE S == SUBSET (1..n)
  <2>3. S # {} /\ IsFiniteSet(S) /\ Cardinality(S) = 2^n
    BY <2>2
  <2> HIDE DEF S
  <2> QED BY <2>3, FS_EmptySet
<1>3. PICK m \in Nat : m = 2^n
  BY <1>1
<1>4. PICK k \in Nat : k = 2^(n + 1)
  BY <1>1, SmallPowers
<1>5. m >= 1 /\ k = 2 * m
  BY <1>1, <1>2, <1>3, <1>4, SmallPowers
<1> QED BY <1>3, <1>4, <1>5

(* Powers are not bounded.                                                  *)
LEMMA PowerExceeds ==
    ASSUME NEW n \in Nat
    PROVE  n < 2^n
<1> DEFINE Bad == {k \in Nat : ~(k < 2^k)}
<1> SUFFICES Bad = {}
  BY Doubled
<1> SUFFICES ASSUME Bad # {} PROVE FALSE
  OBVIOUS
<1>1. PICK k \in Bad : \A j \in Bad : k <= j
  <2> Bad \subseteq Nat
    OBVIOUS
  <2> HIDE DEF Bad
  <2> QED BY LeastNatural
<1>2. k # 0 /\ k \in Nat
  BY <1>1, Doubled
<1>3. k - 1 \in Nat /\ k - 1 \notin Bad
  BY <1>1, <1>2
<1>4. PICK m \in Nat : m = 2^(k - 1) /\ m >= 1 /\ 2^(k - 1 + 1) = 2 * m
  BY <1>3, Doubled
<1>5. k - 1 < m
  BY <1>3, <1>4
<1>6. k < 2 * m
  BY <1>4, <1>5
<1>7. k - 1 + 1 = k
  OBVIOUS
<1>8. 2^k = 2 * m
  BY <1>4, <1>7
<1> QED BY <1>6, <1>8

LEMMA PowerGrows ==
    ASSUME NEW a \in Nat, NEW b \in Nat, a <= b
    PROVE  2^a \in Nat /\ 2^b \in Nat /\ 2^a <= 2^b
<1>1. PICK c \in Nat : b = a + c
  <2>1. b - a \in Nat /\ b = a + (b - a)
    OBVIOUS
  <2> QED BY <2>1
<1>2. PICK p, q \in Nat : p = 2^a /\ q = 2^c /\ q >= 1 /\ 2^(a + c) = p * q
  BY PowerOfSum, Doubled
<1>3. p <= p * q
  BY <1>2
<1> QED BY <1>1, <1>2, <1>3

LEMMA Divided ==
    ASSUME NEW x \in Int, NEW b \in Nat \ {0}
    PROVE  /\ x \div b \in Int /\ x % b \in 0..b - 1 /\ x = b * (x \div b) + (x % b)
           /\ \A q \in Int, r \in 0..b - 1 : x = b * q + r => x \div b = q /\ x % b = r
           /\ x \in Nat => x \div b \in Nat
OBVIOUS

LEMMA Factors ==
    ASSUME NEW x \in Int, NEW b \in Nat \ {0}, NEW m \in Nat \ {0}
    PROVE  /\ x \div (b * m) = (x \div b) \div m
           /\ x % (b * m) = (x % m) + ((x \div m) % b) * m
<1>0. b * m \in Nat \ {0}
  OBVIOUS
<1>1. PICK q \in Int, r \in 0..b - 1 : x \div b = q /\ x = b * q + r
  BY Divided
<1>2. PICK p \in Int, s \in 0..m - 1 : q \div m = p /\ q = m * p + s
  BY Divided
<1>3. x = (b * m) * p + (b * s + r)
  BY <1>1, <1>2
<1>4. b * s + r \in 0..b * m - 1
  <2>1. b * s <= b * (m - 1) /\ 0 <= b * s
    OBVIOUS
  <2> QED BY <2>1
<1>5. x \div (b * m) = p
  BY <1>0, <1>3, <1>4, Divided
<1>6. PICK u \in Int, v \in 0..m - 1 : x \div m = u /\ x % m = v /\ x = m * u + v
  BY Divided
<1>7. PICK w \in Int, z \in 0..b - 1 : u % b = z /\ u = b * w + z
  <2>1. u \div b \in Int /\ u % b \in 0..b - 1 /\ u = b * (u \div b) + (u % b)
    BY Divided
  <2> QED BY ONLY <2>1
<1>8. x = (b * m) * w + (v + z * m)
  <2>1. \A c, d, e, f \in Int : d * (c * e + f) = (c * d) * e + f * d
    OBVIOUS
  <2>2. m * (b * w + z) = (b * m) * w + z * m
    BY ONLY <2>1, b \in Int, m \in Int, w \in Int, z \in Int
  <2> QED BY ONLY <1>6, <1>7, <2>2, x \in Int, v \in Int, m * (b * w + z) \in Int, z * m \in Int, (b * m) * w \in Int
<1>9. v + z * m \in 0..b * m - 1
  <2>1. z * m <= (b - 1) * m /\ 0 <= z * m
    OBVIOUS
  <2> QED BY <2>1
<1>10. x % (b * m) = v + z * m
  <2>1. \A k \in Int, j \in 0..(b * m) - 1 :
           x = (b * m) * k + j => x \div (b * m) = k /\ x % (b * m) = j
    BY <1>0, Divided
  <2> QED BY ONLY <1>8, <1>9, <2>1, w \in Int
<1>11. x \div (b * m) = (x \div b) \div m
  BY ONLY <1>1, <1>2, <1>5
<1>12. x % (b * m) = (x % m) + ((x \div m) % b) * m
  BY ONLY <1>6, <1>7, <1>10
<1> QED BY ONLY <1>11, <1>12

LEMMA Narrowed ==
    ASSUME NEW x \in Int, NEW b \in Nat \ {0}, NEW h \in Nat
    PROVE  -(b * h) <= x /\ x < b * h <=> -h <= x \div b /\ x \div b < h
<1>1. PICK q \in Int, r \in 0..b - 1 : x \div b = q /\ x = b * q + r
  BY Divided
<1>2. ASSUME q < h PROVE x < b * h
  <2>1. b * q <= b * (h - 1)
    BY <1>2
  <2> QED BY <1>1, <2>1
<1>3. ASSUME -h <= q PROVE -(b * h) <= x
  <2>1. b * (-h) <= b * q
    BY <1>3
  <2> QED BY <1>1, <2>1
<1>4. ASSUME ~(q < h) PROVE ~(x < b * h)
  <2>1. b * h <= b * q
    BY <1>4
  <2> QED BY <1>1, <2>1
<1>5. ASSUME ~(-h <= q) PROVE ~(-(b * h) <= x)
  <2>1. b * q <= b * (-h - 1)
    BY <1>5
  <2> QED BY <1>1, <2>1
<1> QED BY <1>1, <1>2, <1>3, <1>4, <1>5

Fits(x, n) == -(Primitive!Numbers(n) \div 2) <= x /\ x < Primitive!Numbers(n) \div 2

LEMMA SizeOfByte ==
    ASSUME DrawsAssumption
    PROVE  /\ Primitive!Byte \in Nat
           /\ Primitive!Byte \div 2 \in Nat \ {0}
           /\ Primitive!Byte = 2 * (Primitive!Byte \div 2)
<1>1. ByteBits \in Nat /\ ByteBits >= 1
  BY DEF DrawsAssumption
<1>2. ByteBits - 1 \in Nat /\ ByteBits - 1 + 1 = ByteBits
  BY <1>1
<1>3. PICK h \in Nat : h = 2^(ByteBits - 1) /\ h >= 1 /\ 2^(ByteBits - 1 + 1) = 2 * h
  BY <1>2, Doubled
<1>4. Primitive!Byte = 2 * h
  BY <1>2, <1>3 DEF Primitive!Byte
<1>5. (2 * h) \div 2 = h
  OBVIOUS
<1> QED BY <1>3, <1>4, <1>5

LEMMA SizeOfBytes ==
    ASSUME DrawsAssumption, NEW n \in Nat
    PROVE  /\ Primitive!Numbers(n) \in Nat \ {0}
           /\ Primitive!Numbers(n + 1) = Primitive!Byte * Primitive!Numbers(n)
           /\ Primitive!Numbers(n + 1) \div 2 = (Primitive!Byte \div 2) * Primitive!Numbers(n)
           /\ n < Primitive!Numbers(n)
<1>1. ByteBits \in Nat /\ ByteBits >= 1
  BY DEF DrawsAssumption
<1>2. ByteBits * n \in Nat /\ ByteBits * (n + 1) = ByteBits + ByteBits * n /\ ByteBits * n >= n
  BY <1>1
<1>3. PICK k \in Nat : k = ByteBits * n /\ k >= n
  BY <1>2
<1>4. Primitive!Numbers(n) = 2^k /\ Primitive!Numbers(n + 1) = 2^(ByteBits + k)
  BY <1>2, <1>3 DEF Primitive!Numbers
<1>5. 2^k \in Nat /\ 2^k >= 1 /\ k < 2^k
  BY Doubled, PowerExceeds
<1>6. 2^(ByteBits + k) = 2^ByteBits * 2^k
  BY <1>1, PowerOfSum
<1>7. Primitive!Numbers(n + 1) = Primitive!Byte * Primitive!Numbers(n)
  BY <1>4, <1>6 DEF Primitive!Byte
<1>8. PICK h \in Nat : h = Primitive!Byte \div 2 /\ Primitive!Byte = 2 * h
  BY SizeOfByte
<1>9. PICK m \in Nat \ {0} : m = Primitive!Numbers(n) /\ n < m
  BY <1>3, <1>4, <1>5
<1>10. ((2 * h) * m) \div 2 = h * m
  <2>1. h * m \in Nat /\ (2 * h) * m = 2 * (h * m)
    OBVIOUS
  <2>2. \A i \in Nat : (2 * i) \div 2 = i
    OBVIOUS
  <2> QED BY <2>1, <2>2
<1>11. Primitive!Numbers(n + 1) \div 2 = (Primitive!Byte \div 2) * Primitive!Numbers(n)
  BY <1>7, <1>8, <1>9, <1>10
<1> QED BY <1>7, <1>9, <1>11

LEMMA NoBytes ==
    ASSUME DrawsAssumption
    PROVE  /\ Primitive!Numbers(0) = 1
           /\ Primitive!Numbers(1) = Primitive!Byte
<1>1. ByteBits \in Nat /\ ByteBits * 0 = 0 /\ ByteBits * 1 = ByteBits
  BY DEF DrawsAssumption
<1> QED BY <1>1, SmallPowers DEF Primitive!Numbers, Primitive!Byte

LEMMA FitsNext ==
    ASSUME DrawsAssumption, NEW x \in Int, NEW n \in Nat \ {0}
    PROVE  Fits(x, n + 1) <=> Fits(x \div Primitive!Byte, n)
<1>1. PICK k \in Nat : n = k + 1
  <2>1. n - 1 \in Nat /\ n = (n - 1) + 1
    OBVIOUS
  <2> QED BY <2>1
<1>2. PICK h \in Nat \ {0} : h = Primitive!Byte \div 2 /\ Primitive!Byte = 2 * h
  BY SizeOfByte
<1>3. PICK m \in Nat \ {0} :
        /\ m = Primitive!Numbers(k)
        /\ Primitive!Numbers(n) = (2 * h) * m
        /\ Primitive!Numbers(n) \div 2 = h * m
  BY <1>1, <1>2, SizeOfBytes
<1>4. Primitive!Numbers(n + 1) \div 2 = h * ((2 * h) * m)
  BY <1>2, <1>3, SizeOfBytes
<1>5. h * ((2 * h) * m) = (2 * h) * (h * m) /\ h * m \in Nat /\ 2 * h \in Nat \ {0}
  OBVIOUS
<1>6. PICK b \in Nat \ {0} : b = 2 * h /\ b = Primitive!Byte
  BY <1>2, <1>5
<1>7. PICK i \in Nat : i = h * m
  BY <1>5
<1>8. -(b * i) <= x /\ x < b * i <=> -i <= x \div b /\ x \div b < i
  BY Narrowed
<1>9. Primitive!Numbers(n + 1) \div 2 = b * i /\ Primitive!Numbers(n) \div 2 = i
  BY <1>3, <1>4, <1>5, <1>6, <1>7
<1> QED BY <1>6, <1>8, <1>9 DEF Fits

LEMMA FitsOne ==
    ASSUME DrawsAssumption, NEW x \in Int, NEW signed \in BOOLEAN, signed \/ x \in Nat
    PROVE  Fits(x, 1) <=>
             Primitive!LastByte(signed, x \div Primitive!Byte, x % Primitive!Byte)
<1>1. PICK h \in Nat \ {0} : h = Primitive!Byte \div 2 /\ Primitive!Byte = 2 * h
  BY SizeOfByte
<1>2. PICK b \in Nat \ {0} : b = 2 * h /\ b = Primitive!Byte
  BY <1>1
<1>3. PICK q \in Int, r \in 0..b - 1 : x \div b = q /\ x % b = r /\ x = b * q + r
  <2>1. x \div b \in Int /\ x % b \in 0..b - 1 /\ x = b * (x \div b) + (x % b)
    BY Divided
  <2> QED BY ONLY <2>1
<1>4. Fits(x, 1) <=> -h <= x /\ x < h
  BY <1>1, NoBytes DEF Fits
<1>5. x \in Nat => q # -1
  BY <1>2, <1>3
<1>6. -h <= x /\ x < h => q = 0 \/ q = -1
  <2>1. q >= 1 => b * q >= b
    OBVIOUS
  <2>2. q <= -2 => b * q <= b * (-2)
    OBVIOUS
  <2> QED BY <1>2, <1>3, <2>1, <2>2
<1>7. -h <= x /\ x < h <=> (q = 0 /\ r < h) \/ (q = -1 /\ r >= h)
  <2>1. q = 0 => x = r
    BY <1>3
  <2>2. q = -1 => x = r - 2 * h
    BY <1>2, <1>3
  <2> QED BY ONLY <1>2, <1>6, <2>1, <2>2, b \in Nat, h \in Nat \ {0}, x \in Int, q \in Int, r \in 0..b - 1
<1>8. Primitive!LastByte(signed, q, r) <=> (q = 0 /\ r < h) \/ (signed /\ q = -1 /\ r >= h)
  BY <1>1 DEF Primitive!LastByte
<1> QED BY <1>2, <1>3, <1>4, <1>5, <1>7, <1>8

LEMMA SomeFits ==
    ASSUME DrawsAssumption, NEW x \in Int
    PROVE  \E n \in Nat \ {0} : Fits(x, n)
<1>1. PICK k \in Nat : -k <= x /\ x < k
  <2>1. CASE x >= 0
    <3>1. x + 1 \in Nat /\ -(x + 1) <= x /\ x < x + 1
      BY <2>1
    <3> QED BY <3>1
  <2>2. CASE x < 0
    <3>1. -x \in Nat /\ -(-x) <= x /\ x < -x
      BY <2>2
    <3> QED BY <3>1
  <2> QED BY <2>1, <2>2
<1>2. PICK m \in Nat : m = Primitive!Numbers(k) /\ k < m
  BY SizeOfBytes
<1>3. PICK h \in Nat \ {0} : Primitive!Numbers(k + 1) \div 2 = h * m
  BY <1>2, SizeOfByte, SizeOfBytes
<1>4. h * m >= m
  OBVIOUS
<1>5. Fits(x, k + 1)
  BY <1>1, <1>2, <1>3, <1>4 DEF Fits
<1>6. k + 1 \in Nat \ {0}
  OBVIOUS
<1> QED BY <1>5, <1>6

IsLength(x, n) ==
    /\ n \in Nat \ {0} /\ Fits(x, n)
    /\ \A k \in Nat \ {0} : Fits(x, k) => n <= k
Length(x) == CHOOSE n : IsLength(x, n)
Digit(x, i) == (x \div Primitive!Numbers(i - 1)) % Primitive!Byte
Digits(x, n) == [i \in 1..n |-> Digit(x, i)]

LEMMA HasLength ==
    ASSUME DrawsAssumption, NEW x \in Int
    PROVE  IsLength(x, Length(x))
<1> DEFINE S == {n \in Nat \ {0} : Fits(x, n)}
<1>1. S # {} /\ S \subseteq Nat
  BY SomeFits
<1>2. \E n \in S : \A k \in S : n <= k
  <2> HIDE DEF S
  <2> QED BY <1>1, LeastNatural
<1>3. PICK n : IsLength(x, n)
  BY <1>2 DEF IsLength
<1> QED BY <1>3 DEF Length

LEMMA OneLength ==
    ASSUME NEW x, NEW m, NEW n, IsLength(x, m), IsLength(x, n)
    PROVE  m = n
BY DEF IsLength

LEMMA LengthOne ==
    ASSUME DrawsAssumption, NEW x \in Int
    PROVE  Fits(x, 1) <=> Length(x) = 1
<1>1. IsLength(x, Length(x))
  BY HasLength
<1>2. PICK n : n = Length(x) /\ IsLength(x, n)
  BY <1>1
<1>3. n \in Nat \ {0} /\ Fits(x, n) /\ (Fits(x, 1) => n <= 1)
  BY <1>2 DEF IsLength
<1> QED BY <1>2, <1>3

LEMMA LengthNext ==
    ASSUME DrawsAssumption, NEW x \in Int, ~Fits(x, 1)
    PROVE  /\ x \div Primitive!Byte \in Int
           /\ Length(x) = Length(x \div Primitive!Byte) + 1
<1>1. PICK b \in Nat \ {0} : b = Primitive!Byte
  BY SizeOfByte
<1>2. PICK y \in Int : y = x \div Primitive!Byte
  BY <1>1, Divided
<1>3. PICK n : n = Length(y) /\ IsLength(y, n)
  BY HasLength
<1>4. n \in Nat \ {0} /\ Fits(y, n) /\ \A k \in Nat \ {0} : Fits(y, k) => n <= k
  BY <1>3 DEF IsLength
<1>5. Fits(x, n + 1)
  BY <1>2, <1>4, FitsNext
<1>6. ASSUME NEW k \in Nat \ {0}, Fits(x, k) PROVE n + 1 <= k
  <2>1. k - 1 \in Nat \ {0} /\ k - 1 + 1 = k
    BY <1>6
  <2>2. Fits(y, k - 1)
    BY <1>2, <1>6, <2>1, FitsNext
  <2> QED BY <1>4, <2>1, <2>2
<1>7. IsLength(x, n + 1)
  BY <1>4, <1>5, <1>6 DEF IsLength
<1> QED BY <1>2, <1>3, <1>7, HasLength, OneLength

LEMMA FirstDigit ==
    ASSUME DrawsAssumption, NEW x \in Int
    PROVE  /\ Digit(x, 1) = x % Primitive!Byte
           /\ \A i \in Nat \ {0} : Digit(x, i) \in 0..Primitive!Byte - 1
           /\ \A i \in Nat \ {0} : Digit(x, i + 1) = Digit(x \div Primitive!Byte, i)
<1>1. PICK b \in Nat \ {0} : b = Primitive!Byte
  BY SizeOfByte
<1>2. Digit(x, 1) = x % Primitive!Byte
  <2>1. x \div 1 = x /\ 1 - 1 = 0
    OBVIOUS
  <2> QED BY <2>1, NoBytes DEF Digit
<1>3. ASSUME NEW i \in Nat \ {0} PROVE Digit(x, i) \in 0..b - 1
  <2>1. i - 1 \in Nat
    OBVIOUS
  <2>2. PICK m \in Nat \ {0} : m = Primitive!Numbers(i - 1)
    BY <2>1, SizeOfBytes
  <2>3. x \div m \in Int
    BY Divided
  <2>4. (x \div m) % b \in 0..b - 1
    BY <2>3, Divided
  <2> QED BY <1>1, <2>2, <2>4 DEF Digit
<1>4. ASSUME NEW i \in Nat \ {0}
      PROVE  Digit(x, i + 1) = Digit(x \div b, i)
  <2>1. i - 1 \in Nat /\ i - 1 + 1 = i /\ i + 1 - 1 = i
    OBVIOUS
  <2>2. PICK m \in Nat \ {0} : m = Primitive!Numbers(i - 1) /\ Primitive!Numbers(i) = b * m
    BY <1>1, <2>1, SizeOfBytes
  <2>3. x \div (b * m) = (x \div b) \div m
    BY Factors
  <2> QED BY <1>1, <2>1, <2>2, <2>3 DEF Digit
<1> QED BY <1>1, <1>2, <1>3, <1>4

LEMMA DigitsType ==
    ASSUME DrawsAssumption, NEW x \in Int, NEW n \in Nat
    PROVE  Digits(x, n) \in Seq(Int) /\ Len(Digits(x, n)) = n
<1>1. PICK b \in Nat : b = Primitive!Byte
  BY SizeOfByte
<1>2. \A i \in 1..n : Digit(x, i) \in Int
  <2> TAKE i \in 1..n
  <2>1. i \in Nat \ {0}
    OBVIOUS
  <2>2. Digit(x, i) \in 0..b - 1
    BY <1>1, <2>1, FirstDigit
  <2> QED BY <2>2
<1> QED BY <1>2 DEF Digits

LEMMA DigitsNext ==
    ASSUME DrawsAssumption, NEW x \in Int, NEW n \in Nat
    PROVE  <<x % Primitive!Byte>> \o Digits(x \div Primitive!Byte, n) = Digits(x, n + 1)
<1>1. PICK b \in Nat \ {0} : b = Primitive!Byte
  BY SizeOfByte
<1>0. x \div b \in Int /\ x % b \in 0..b - 1
  BY Divided
<1>2. PICK y \in Int : y = x \div b
  BY <1>0
<1>3. PICK r \in Int : r = x % b
  BY <1>0
<1>4. PICK s \in Seq(Int) : s = Digits(y, n) /\ Len(s) = n
  BY <1>2, DigitsType
<1>5. PICK t \in Seq(Int) : t = Digits(x, n + 1) /\ Len(t) = n + 1
  <2>1. n + 1 \in Nat
    OBVIOUS
  <2> QED BY <2>1, DigitsType
<1>6. t[1] = r
  BY <1>1, <1>3, <1>5, FirstDigit DEF Digits
<1>7. ASSUME NEW i \in 1..n PROVE t[i + 1] = s[i]
  <2>1. i \in Nat \ {0} /\ i + 1 \in 1..n + 1
    OBVIOUS
  <2>2. t[i + 1] = Digit(x, i + 1) /\ s[i] = Digit(y, i)
    BY <1>4, <1>5, <2>1 DEF Digits
  <2> QED BY <1>1, <1>2, <2>1, <2>2, FirstDigit
<1>8. <<r>> \o s = t
  <2> DEFINE c == <<r>> \o s
  <2>1. c \in Seq(Int) /\ Len(c) = n + 1
    BY <1>4
  <2>2. \A i \in 1..n + 1 : c[i] = t[i]
    <3> TAKE i \in 1..n + 1
    <3>1. c[1] = r
      BY <1>4
    <3>2. i > 1 => i - 1 \in 1..n /\ c[i] = s[i - 1] /\ i - 1 + 1 = i
      BY <1>4
    <3> HIDE DEF c
    <3> QED BY <1>6, <1>7, <3>1, <3>2
  <2> HIDE DEF c
  <2>3. c = t
    BY <1>5, <2>1, <2>2
  <2> QED BY <2>3 DEF c
<1> QED BY <1>1, <1>2, <1>3, <1>4, <1>5, <1>8

(* The bytes that newBigInt appends one by one are the digits of the number. *)
LEMMA BigIntIsDigits ==
    ASSUME DrawsAssumption, NEW type, type.signed \in BOOLEAN,
           NEW v \in Int, type.signed \/ v \in Nat
    PROVE  Primitive!NewBigInt(type, v) = Digits(v, Length(v))
<1> DEFINE D == IF type.signed THEN Int ELSE Nat
           Rest(f, x) ==
              IF Primitive!LastByte(type.signed, x \div Primitive!Byte, x % Primitive!Byte)
              THEN <<>> ELSE f[x \div Primitive!Byte]
           Body(f, x) == <<x % Primitive!Byte>> \o Rest(f, x)
           E == CHOOSE f : f = [x \in D |-> Body(f, x)]
           c == [x \in D |-> Digits(x, Length(x))]
<1>1. PICK b \in Nat \ {0} : b = Primitive!Byte
  BY SizeOfByte
<1>2. D \subseteq Int /\ v \in D /\ \A x \in D : x \div b \in D /\ (type.signed \/ x \in Nat)
  <2>1. D = Int \/ (~type.signed /\ D = Nat)
    OBVIOUS
  <2>2. \A x \in Int : x \div b \in Int /\ (x \in Nat => x \div b \in Nat)
    BY Divided
  <2>3. v \in D
    OBVIOUS
  <2>4. (type.signed /\ D = Int) \/ D = Nat
    OBVIOUS
  <2> HIDE DEF D
  <2>5. D \subseteq Int
    BY ONLY <2>4
  <2>6. \A x \in D : x \div b \in D /\ (type.signed \/ x \in Nat)
    BY ONLY <2>2, <2>4
  <2> QED BY ONLY <2>3, <2>5, <2>6
<1>3. ASSUME NEW f, NEW x \in D,
             ~Fits(x, 1) => f[x \div b] = Digits(x \div b, Length(x \div b))
      PROVE  Body(f, x) = Digits(x, Length(x))
  <2>1. x \in Int /\ (type.signed \/ x \in Nat)
    BY <1>2
  <2>2. CASE Fits(x, 1)
    <3>1. Rest(f, x) = <<>>
      BY <2>1, <2>2, FitsOne
    <3>2. Length(x) = 1
      BY <2>1, <2>2, LengthOne
    <3>3. <<x % b>> \o <<>> = Digits(x, 1)
      <4>1. Digits(x, 1) = [i \in 1..1 |-> Digit(x, i)]
        BY DEF Digits
      <4>2. PICK r \in Int : r = x % b /\ r = Digit(x, 1)
        <5>1. x % b \in 0..b - 1
          BY <2>1, Divided
        <5>2. Digit(x, 1) = x % b
          BY <1>1, <2>1, FirstDigit
        <5> QED BY <5>1, <5>2
      <4>3. <<r>> \o <<>> = <<r>>
        OBVIOUS
      <4>4. [i \in 1..1 |-> Digit(x, i)] = <<r>>
        BY <4>2
      <4> QED BY <4>1, <4>2, <4>3, <4>4
    <3> QED BY <1>1, <3>1, <3>2, <3>3
  <2>3. CASE ~Fits(x, 1)
    <3>1. Rest(f, x) = f[x \div b]
      BY <1>1, <2>1, <2>3, FitsOne
    <3>2. x \div b \in Int /\ Length(x) = Length(x \div b) + 1
      BY <1>1, <2>1, <2>3, LengthNext
    <3>3. Length(x \div b) \in Nat
      BY <3>2, HasLength DEF IsLength
    <3>4. <<x % b>> \o Digits(x \div b, Length(x \div b)) = Digits(x, Length(x \div b) + 1)
      BY <1>1, <2>1, <3>3, DigitsNext
    <3> QED BY <1>1, <1>3, <2>3, <3>1, <3>2, <3>4
  <2> QED BY <2>2, <2>3
<1>4. c = [x \in D |-> Body(c, x)]
  <2>1. \A x \in D : Body(c, x) = c[x]
    <3> TAKE x \in D
    <3>1. x \div b \in D
      BY <1>2
    <3>2. c[x \div b] = Digits(x \div b, Length(x \div b)) /\ c[x] = Digits(x, Length(x))
      BY <3>1
    <3> HIDE DEF c, Body
    <3> QED BY <1>3, <3>2
  <2>2. c = [x \in D |-> c[x]]
    OBVIOUS
  <2> HIDE DEF c, Body, D
  <2> QED BY <2>1, <2>2
<1>5. E = [x \in D |-> Body(E, x)]
  <2> DEFINE P(f) == f = [x \in D |-> Body(f, x)]
  <2>1. P(c)
    BY <1>4
  <2>2. E = CHOOSE f : P(f)
    OBVIOUS
  <2> HIDE DEF P, E, c
  <2>3. P(E)
    BY <2>1, <2>2
  <2> QED BY <2>3 DEF P
<1>6. \A x \in D : E[x] = Body(E, x)
  <2> HIDE DEF E, Body, D
  <2> QED BY <1>5
<1>7. \A x \in D : E[x] = Digits(x, Length(x))
  <2> DEFINE Bad == {n \in Nat : \E x \in D : Length(x) = n /\ E[x] # Digits(x, Length(x))}
  <2> SUFFICES Bad = {}
    <3> ASSUME NEW x \in D PROVE Length(x) \in Nat
      BY <1>2, HasLength DEF IsLength
    <3> QED OBVIOUS
  <2> SUFFICES ASSUME Bad # {} PROVE FALSE
    OBVIOUS
  <2>1. PICK n \in Bad : \A k \in Bad : n <= k
    <3> Bad \subseteq Nat
      OBVIOUS
    <3> HIDE DEF Bad
    <3> QED BY LeastNatural
  <2>2. PICK x \in D : Length(x) = n /\ E[x] # Digits(x, Length(x))
    BY <2>1
  <2>3. x \div b \in D /\ x \in Int
    BY <1>2
  <2>4. ASSUME ~Fits(x, 1), E[x \div b] # Digits(x \div b, Length(x \div b))
        PROVE FALSE
    <3>1. x \div b \in Int /\ Length(x) = Length(x \div b) + 1
      BY <1>1, <2>3, <2>4, LengthNext
    <3>2. Length(x \div b) \in Nat
      BY <3>1, HasLength DEF IsLength
    <3>3. Length(x \div b) \in Bad
      BY <2>3, <2>4, <3>2
    <3> HIDE DEF Bad, E, D
    <3> QED BY <2>1, <2>2, <3>1, <3>2, <3>3
  <2> HIDE DEF E, Body, D
  <2>5. Body(E, x) = Digits(x, Length(x))
    BY <1>3, <2>4
  <2> QED BY <1>6, <2>2, <2>5
<1>8. Primitive!NewBigInt(type, v) = E[v]
  BY DEF Primitive!NewBigInt
<1> HIDE DEF E, D
<1> QED BY <1>2, <1>7, <1>8

LEMMA Reduced ==
    ASSUME NEW x \in Int, NEW b \in Nat \ {0}
    PROVE  /\ 0 <= x /\ x < b => x \div b = 0 /\ x % b = x
           /\ -b <= x /\ x < 0 => x % b = x + b
<1>1. ASSUME 0 <= x, x < b PROVE x \div b = 0 /\ x % b = x
  <2>1. x = b * 0 + x /\ x \in 0..b - 1
    BY <1>1
  <2>2. \A q \in Int, r \in 0..b - 1 : x = b * q + r => x \div b = q /\ x % b = r
    BY Divided
  <2> QED BY <2>1, <2>2
<1>2. ASSUME -b <= x, x < 0 PROVE x % b = x + b
  <2>1. x = b * (-1) + (x + b) /\ x + b \in 0..b - 1
    BY <1>2
  <2>2. \A q \in Int, r \in 0..b - 1 : x = b * q + r => x \div b = q /\ x % b = r
    BY Divided
  <2> QED BY <2>1, <2>2
<1> QED BY <1>1, <1>2

LEMMA ReducedOnce ==
    ASSUME NEW x \in Int, NEW b \in Nat \ {0}, -b <= x, x < b
    PROVE  x % b = IF x < 0 THEN x + b ELSE x
<1>1. CASE x < 0
  <2>1. x % b = x + b
    BY <1>1, Reduced
  <2> QED BY <1>1, <2>1
<1>2. CASE ~(x < 0)
  <2>1. x % b = x
    BY <1>2, Reduced
  <2> QED BY <1>2, <2>1
<1> QED BY <1>1, <1>2

LEMMA MagnitudeOfDigits ==
    ASSUME DrawsAssumption, NEW v \in Int, NEW k \in Nat
    PROVE  Primitive!Magnitude(Digits(v, k)) = v % Primitive!Numbers(k)
<1> DEFINE D == 0..k
           s == Digits(v, k)
           Body(f, n) == IF n = 0 THEN 0
                         ELSE f[n - 1] + s[n] * Primitive!Numbers(n - 1)
           E == CHOOSE f : f = [n \in D |-> Body(f, n)]
           c == [n \in D |-> v % Primitive!Numbers(n)]
<1>1. PICK b \in Nat \ {0} : b = Primitive!Byte
  BY SizeOfByte
<1>2. ASSUME NEW f, NEW n \in D, n # 0 => f[n - 1] = v % Primitive!Numbers(n - 1)
      PROVE  Body(f, n) = v % Primitive!Numbers(n)
  <2>1. CASE n = 0
    <3>1. v % 1 = 0
      OBVIOUS
    <3> QED BY <2>1, <3>1, NoBytes
  <2>2. CASE n # 0
    <3>1. n - 1 \in Nat /\ n - 1 + 1 = n /\ n \in 1..k
      BY <2>2
    <3>2. PICK m \in Nat \ {0} :
            m = Primitive!Numbers(n - 1) /\ Primitive!Numbers(n) = b * m
      BY <1>1, <3>1, SizeOfBytes
    <3>3. s[n] = (v \div m) % b
      BY <1>1, <3>1, <3>2 DEF Digits, Digit
    <3>4. v % (b * m) = (v % m) + ((v \div m) % b) * m
      BY Factors
    <3>5. Body(f, n) = f[n - 1] + s[n] * Primitive!Numbers(n - 1)
      BY <2>2
    <3> HIDE DEF Body, s
    <3> QED BY <1>2, <2>2, <3>2, <3>3, <3>4, <3>5
  <2> QED BY <2>1, <2>2
<1>3. c = [n \in D |-> Body(c, n)]
  <2>1. \A n \in D : Body(c, n) = c[n]
    <3> TAKE n \in D
    <3>1. n # 0 => n - 1 \in D
      OBVIOUS
    <3>2. (n # 0 => c[n - 1] = v % Primitive!Numbers(n - 1)) /\ c[n] = v % Primitive!Numbers(n)
      BY <3>1
    <3> HIDE DEF c, Body
    <3> QED BY <1>2, <3>2
  <2>2. c = [n \in D |-> c[n]]
    OBVIOUS
  <2> HIDE DEF c, Body, D
  <2> QED BY <2>1, <2>2
<1>4. E = [n \in D |-> Body(E, n)]
  <2> DEFINE P(f) == f = [n \in D |-> Body(f, n)]
  <2>1. P(c)
    BY <1>3
  <2>2. E = CHOOSE f : P(f)
    OBVIOUS
  <2> HIDE DEF P, E, c
  <2>3. P(E)
    BY <2>1, <2>2
  <2> QED BY <2>3 DEF P
<1>5. \A n \in D : E[n] = Body(E, n)
  <2> HIDE DEF E, Body, D
  <2> QED BY <1>4
<1>6. \A n \in D : E[n] = v % Primitive!Numbers(n)
  <2> DEFINE Bad == {n \in D : E[n] # v % Primitive!Numbers(n)}
  <2> SUFFICES ASSUME Bad # {} PROVE FALSE
    OBVIOUS
  <2>1. PICK n \in Bad : \A j \in Bad : n <= j
    <3> Bad \subseteq Nat
      OBVIOUS
    <3> HIDE DEF Bad
    <3> QED BY LeastNatural
  <2>2. n # 0 => n - 1 \in D /\ n - 1 \notin Bad
    BY <2>1
  <2> HIDE DEF E, Body
  <2>3. Body(E, n) = v % Primitive!Numbers(n)
    BY <1>2, <2>1, <2>2
  <2> QED BY <1>5, <2>1, <2>3
<1>7. Len(s) = k /\ k \in D
  BY DigitsType
<1>8. Primitive!Magnitude(s) = E[k]
  <2> HIDE DEF s
  <2>1. Primitive!Magnitude(s) =
          (CHOOSE f : f = [n \in 0..Len(s) |->
              IF n = 0 THEN 0 ELSE f[n - 1] + s[n] * Primitive!Numbers(n - 1)])[Len(s)]
    BY DEF Primitive!Magnitude
  <2> QED BY <1>7, <2>1
<1> HIDE DEF E, D
<1> QED BY <1>6, <1>7, <1>8

LEMMA FitsModulo ==
    ASSUME DrawsAssumption, NEW v \in Int, NEW n \in Nat \ {0}, Fits(v, n)
    PROVE  v % Primitive!Numbers(n) = IF v < 0 THEN v + Primitive!Numbers(n) ELSE v
<1>1. n - 1 \in Nat /\ n - 1 + 1 = n
  OBVIOUS
<1>2. PICK h \in Nat \ {0} : h = Primitive!Byte \div 2 /\ Primitive!Byte = 2 * h
  BY SizeOfByte
<1>3. PICK m \in Nat \ {0} : m = Primitive!Numbers(n - 1)
  BY <1>1, SizeOfBytes
<1>4. Primitive!Numbers(n) = (2 * h) * m /\ Primitive!Numbers(n) \div 2 = h * m
  BY <1>1, <1>2, <1>3, SizeOfBytes
<1>5. PICK i \in Nat \ {0} : i = h * m /\ (2 * h) * m = 2 * i
  <2>1. h * m \in Nat \ {0} /\ (2 * h) * m = 2 * (h * m)
    OBVIOUS
  <2> QED BY <2>1
<1>6. -i <= v /\ v < i
  BY <1>4, <1>5, <1>1 DEF Fits
<1>7. v % (2 * i) = IF v < 0 THEN v + 2 * i ELSE v
  <2>1. PICK j \in Nat \ {0} : j = 2 * i
    OBVIOUS
  <2>2. -j <= v /\ v < j
    BY <1>6, <2>1
  <2>3. v % j = IF v < 0 THEN v + j ELSE v
    BY <2>2, ReducedOnce
  <2> QED BY <2>1, <2>3
<1> QED BY <1>4, <1>5, <1>7

LEMMA LastDigit ==
    ASSUME DrawsAssumption, NEW v \in Int, NEW n \in Nat \ {0}, Fits(v, n)
    PROVE  Digit(v, n) >= Primitive!Byte \div 2 <=> v < 0
<1>1. n - 1 \in Nat /\ n - 1 + 1 = n
  OBVIOUS
<1>2. PICK h \in Nat \ {0} : h = Primitive!Byte \div 2 /\ Primitive!Byte = 2 * h
  BY SizeOfByte
<1>3. PICK m \in Nat \ {0} : m = Primitive!Numbers(n - 1)
  BY <1>1, SizeOfBytes
<1>4. Primitive!Numbers(n) \div 2 = h * m
  BY <1>1, <1>2, <1>3, SizeOfBytes
<1>5. h * m = m * h
  OBVIOUS
<1>6. -(m * h) <= v /\ v < m * h
  BY <1>4, <1>5 DEF Fits
<1>7. -h <= v \div m /\ v \div m < h
  BY <1>6, Narrowed
<1>8. PICK q \in Int, r \in 0..m - 1 : v \div m = q /\ v = m * q + r
  <2>1. v \div m \in Int /\ v % m \in 0..m - 1 /\ v = m * (v \div m) + (v % m)
    BY Divided
  <2> QED BY ONLY <2>1
<1>9. v < 0 <=> q < 0
  <2>1. q <= -1 => m * q <= m * (-1)
    OBVIOUS
  <2>2. q >= 0 => m * q >= 0
    OBVIOUS
  <2> QED BY <1>8, <2>1, <2>2
<1>10. q % (2 * h) = IF q < 0 THEN q + 2 * h ELSE q
  <2>1. PICK j \in Nat \ {0} : j = 2 * h
    OBVIOUS
  <2>2. -j <= q /\ q < j
    BY <1>7, <1>8, <2>1
  <2>3. q % j = IF q < 0 THEN q + j ELSE q
    BY <2>2, ReducedOnce
  <2> QED BY <2>1, <2>3
<1>11. Digit(v, n) = q % (2 * h)
  BY <1>2, <1>3, <1>8 DEF Digit
<1> QED BY <1>2, <1>7, <1>8, <1>9, <1>10, <1>11

(* The engine reads the number that was written.                            *)
LEMMA EngineReadsDigits ==
    ASSUME DrawsAssumption, NEW v \in Int, NEW n \in Nat \ {0}, Fits(v, n)
    PROVE  Primitive!EngineReads(Digits(v, n)) = v
<1> DEFINE s == Digits(v, n)
<1>1. s \in Seq(Int) /\ Len(s) = n
  BY DigitsType
<1>2. s[n] = Digit(v, n)
  BY DEF Digits
<1>3. Primitive!Last(s) = Digit(v, n)
  BY <1>1, <1>2 DEF Primitive!Last
<1>4. Primitive!Magnitude(s) = v % Primitive!Numbers(n)
  BY MagnitudeOfDigits
<1>5. PICK m \in Nat : m = Primitive!Numbers(n)
  BY SizeOfBytes
<1> HIDE DEF s
<1>6. Primitive!EngineReads(s) =
        (v % m) - (IF Digit(v, n) >= Primitive!Byte \div 2 THEN m ELSE 0)
  BY <1>1, <1>3, <1>4, <1>5 DEF Primitive!EngineReads
<1>7. v % m = IF v < 0 THEN v + m ELSE v
  BY <1>5, FitsModulo
<1>8. Digit(v, n) >= Primitive!Byte \div 2 <=> v < 0
  BY LastDigit
<1>9. Primitive!EngineReads(s) = v
  BY <1>6, <1>7, <1>8
<1> QED BY <1>9 DEF s

LEMMA BigIntArrives ==
    ASSUME DrawsAssumption, NEW type, type.signed \in BOOLEAN,
           NEW v \in Int, type.signed \/ v \in Nat
    PROVE  Primitive!EngineReads(Primitive!NewBigInt(type, v)) = v
<1>1. PICK n : n = Length(v) /\ n \in Nat \ {0} /\ Fits(v, n)
  BY HasLength DEF IsLength
<1> QED BY <1>1, BigIntIsDigits, EngineReadsDigits

(* What the engine writes of a number of a word.                            *)
LEMMA EngineWritesDigits ==
    ASSUME DrawsAssumption, NEW v \in Nat, v < Primitive!Numbers(WordBytes)
    PROVE  \E n \in 1..WordBytes + 1 :
              Fits(v, n) /\ Primitive!EngineWrites(v) = Digits(v, n)
<1>1. WordBytes \in Nat \ {0}
  BY DEF DrawsAssumption
<1>2. PICK m \in Nat \ {0} : m = Primitive!Numbers(WordBytes)
  BY <1>1, SizeOfBytes
<1>3. PICK h \in Nat \ {0} : Primitive!Numbers(WordBytes + 1) \div 2 = h * m
  BY <1>1, <1>2, SizeOfByte, SizeOfBytes
<1>4. h * m >= m
  OBVIOUS
<1>5. Fits(v, WordBytes + 1)
  BY <1>2, <1>3, <1>4 DEF Fits
<1> DEFINE S == {n \in 1..WordBytes + 1 : Fits(v, n)}
           length == Primitive!Min(S)
<1>6. S # {} /\ S \subseteq Nat
  <2>1. WordBytes + 1 \in 1..WordBytes + 1
    BY <1>1
  <2> QED BY <1>5, <2>1
<1>7. length \in S
  <2>1. PICK n \in S : \A k \in S : n <= k
    <3> HIDE DEF S
    <3> QED BY <1>6, LeastNatural
  <2> HIDE DEF S
  <2> QED BY <2>1 DEF Primitive!Min
<1>8. Primitive!EngineWrites(v) = Digits(v, length)
  BY DEF Primitive!EngineWrites, Digits, Digit, Fits
<1> HIDE DEF length
<1> QED BY <1>7, <1>8

LEMMA WordsArrive ==
    ASSUME DrawsAssumption, NEW v \in Nat, v < Primitive!Numbers(WordBytes)
    PROVE  /\ ~Primitive!Overflows(Primitive!EngineWrites(v))
           /\ Primitive!Uint64(Primitive!EngineWrites(v)) = v
<1>1. WordBytes \in Nat \ {0}
  BY DEF DrawsAssumption
<1>2. PICK n \in 1..WordBytes + 1 :
        Fits(v, n) /\ Primitive!EngineWrites(v) = Digits(v, n)
  BY EngineWritesDigits
<1> DEFINE s == Digits(v, n)
<1>3. s \in Seq(Int) /\ Len(s) = n /\ n \in Nat \ {0}
  BY <1>2, DigitsType
<1>4. ASSUME NEW i \in Nat, i > WordBytes PROVE Digit(v, i) = 0
  <2>1. PICK k \in Nat : k = ByteBits * WordBytes /\ Primitive!Numbers(WordBytes) = 2^k
    BY <1>1 DEF DrawsAssumption, Primitive!Numbers
  <2>2. PICK j \in Nat : j = ByteBits * (i - 1) /\ Primitive!Numbers(i - 1) = 2^j
    <3>1. i - 1 \in Nat /\ ByteBits \in Nat
      BY <1>1, <1>4 DEF DrawsAssumption
    <3>2. ByteBits * (i - 1) \in Nat
      BY <3>1
    <3> QED BY <3>2 DEF Primitive!Numbers
  <2>3. k <= j
    <3>1. PICK b \in Nat : b = ByteBits
      BY DEF DrawsAssumption
    <3>2. WordBytes <= i - 1
      BY <1>1, <1>4
    <3>3. b * WordBytes <= b * (i - 1)
      BY <1>1, <3>2
    <3> QED BY <2>1, <2>2, <3>1, <3>3
  <2>4. PICK m \in Nat \ {0} : m = Primitive!Numbers(i - 1)
    <3>1. i - 1 \in Nat
      BY <1>1, <1>4
    <3> QED BY <3>1, SizeOfBytes
  <2>5. v < m
    BY <2>1, <2>2, <2>3, <2>4, PowerGrows
  <2>6. v \div m = 0
    BY <2>5, Reduced
  <2>7. 0 % Primitive!Byte = 0
    <3>1. PICK b \in Nat \ {0} : b = Primitive!Byte
      BY SizeOfByte
    <3> QED BY <3>1, Reduced
  <2> QED BY <2>4, <2>6, <2>7 DEF Digit
<1>5. ~Primitive!Overflows(s)
  <2>1. \A i \in 1..n : i > WordBytes => s[i] = 0
    BY <1>4 DEF Digits
  <2>2. DOMAIN s = 1..n
    BY DEF Digits
  <2> HIDE DEF s
  <2> QED BY <2>1, <2>2 DEF Primitive!Overflows
<1> DEFINE S == {WordBytes, n}
           k == Primitive!Min(S)
<1>6. k \in Nat \ {0} /\ k <= n /\ (k = n \/ k = WordBytes)
  <2>1. S # {} /\ S \subseteq Nat
    BY <1>1, <1>3
  <2>2. PICK j \in S : \A i \in S : j <= i
    <3> HIDE DEF S
    <3> QED BY <2>1, LeastNatural
  <2>3. k \in S /\ \A i \in S : k <= i
    <3> HIDE DEF S
    <3> QED BY <2>2 DEF Primitive!Min
  <2> HIDE DEF k
  <2> QED BY <1>1, <1>3, <2>3
<1>7. SubSeq(s, 1, k) = Digits(v, k)
  <2> HIDE DEF k
  <2>1. SubSeq(s, 1, k) = [i \in 1..k |-> s[1 + i - 1]]
    BY <1>3, <1>6
  <2>2. \A i \in 1..k : s[1 + i - 1] = Digit(v, i)
    <3> TAKE i \in 1..k
    <3>1. 1 + i - 1 = i /\ i \in 1..n
      BY <1>3, <1>6
    <3> QED BY <3>1 DEF Digits
  <2> HIDE DEF s
  <2> QED BY <2>1, <2>2 DEF Digits
<1>8. Primitive!Uint64(s) = v % Primitive!Numbers(k)
  <2>1. Primitive!Uint64(s) = Primitive!Magnitude(SubSeq(s, 1, k))
    <3> HIDE DEF s
    <3> QED BY <1>3 DEF Primitive!Uint64
  <2>2. Primitive!Magnitude(Digits(v, k)) = v % Primitive!Numbers(k)
    <3> HIDE DEF k
    <3> QED BY <1>6, MagnitudeOfDigits
  <2> HIDE DEF k, s
  <2> QED BY Zenon, <1>7, <2>1, <2>2
<1>9. v % Primitive!Numbers(k) = v
  <2> HIDE DEF k
  <2>1. CASE k = WordBytes
    <3>1. PICK m \in Nat \ {0} : m = Primitive!Numbers(k)
      BY <1>6, SizeOfBytes
    <3> QED BY <2>1, <3>1, Reduced
  <2>2. CASE k = n
    BY <1>2, <1>6, <2>2, FitsModulo
  <2> QED BY <1>6, <2>1, <2>2
<1> QED BY <1>2, <1>5, <1>8, <1>9

LEMMA ConvertedStays ==
    ASSUME DrawsAssumption, NEW type \in Primitive!IntegerType,
           NEW v \in Primitive!Least(type)..Primitive!Greatest(type)
    PROVE  v \in Int /\ Primitive!Converted(type, v) = v
<1>1. type.signed \in BOOLEAN /\ type.bits \in IntegerBits
  BY DEF Primitive!IntegerType
<1>2. type.bits - 1 \in Nat /\ type.bits - 1 + 1 = type.bits
  BY <1>1 DEF DrawsAssumption
<1>3. PICK m \in Nat \ {0} : m = 2^(type.bits - 1) /\ 2^type.bits = 2 * m
  <2>1. PICK k \in Nat : k = type.bits - 1 /\ k + 1 = type.bits
    BY <1>2
  <2>2. 2^k \in Nat /\ 2^k >= 1 /\ 2^(k + 1) = 2 * 2^k
    BY Doubled
  <2> QED BY <2>1, <2>2
<1>5. CASE type.signed
  <2>1. v \in Int /\ -m <= v /\ v <= m - 1 /\ Primitive!Greatest(type) = m - 1
    BY <1>3, <1>5 DEF Primitive!Least, Primitive!Greatest
  <2>2. v % (2 * m) = IF v < 0 THEN v + 2 * m ELSE v
    <3>1. PICK j \in Nat \ {0} : j = 2 * m
      OBVIOUS
    <3>2. -j <= v /\ v < j
      BY <2>1, <3>1
    <3>3. v % j = IF v < 0 THEN v + j ELSE v
      BY <2>1, <3>2, ReducedOnce
    <3> QED BY <3>1, <3>3
  <2>3. Primitive!Converted(type, v) =
          IF v % (2 * m) > m - 1 THEN (v % (2 * m)) - 2 * m ELSE v % (2 * m)
    BY <1>3, <2>1 DEF Primitive!Converted
  <2> QED BY <2>1, <2>2, <2>3
<1>6. CASE ~type.signed
  <2>1. v \in Int /\ 0 <= v /\ v <= 2 * m - 1 /\ Primitive!Greatest(type) = 2 * m - 1
    BY <1>3, <1>6 DEF Primitive!Least, Primitive!Greatest
  <2>2. v % (2 * m) = v
    <3>1. PICK j \in Nat \ {0} : j = 2 * m
      OBVIOUS
    <3>2. 0 <= v /\ v < j
      BY <2>1, <3>1
    <3>3. v % j = v
      BY <2>1, <3>2, Reduced
    <3> QED BY <3>1, <3>3
  <2>3. Primitive!Converted(type, v) =
          IF v % (2 * m) > 2 * m - 1 THEN (v % (2 * m)) - 2 * m ELSE v % (2 * m)
    BY <1>3, <2>1 DEF Primitive!Converted
  <2> QED BY <2>1, <2>2, <2>3
<1> QED BY <1>5, <1>6

LEMMA TypeRange ==
    ASSUME DrawsAssumption, NEW type \in Primitive!IntegerType
    PROVE  Primitive!Least(type) \in Int /\ Primitive!Greatest(type) \in Int
<1>1. type.bits \in Nat \ {0} /\ type.bits - 1 \in Nat
  BY DEF Primitive!IntegerType, DrawsAssumption
<1>2. PICK p \in Nat : p = 2^type.bits
  BY <1>1, Doubled
<1>3. PICK q \in Nat : q = 2^(type.bits - 1)
  BY <1>1, Doubled
<1>4. /\ Primitive!Least(type) = IF type.signed THEN -q ELSE 0
      /\ Primitive!Greatest(type) = IF type.signed THEN q - 1 ELSE p - 1
  BY <1>2, <1>3 DEF Primitive!Least, Primitive!Greatest
<1> QED BY <1>4

(* What does not fit int64 is unsigned, and fits uint64.                    *)
LEMMA BigFits ==
    ASSUME DrawsAssumption, NEW type \in Primitive!IntegerType, ~type.signed,
           NEW v \in Primitive!Least(type)..Primitive!Greatest(type)
    PROVE  v \in Nat /\ v < Primitive!Numbers(WordBytes)
<1>1. type.bits \in 1..ByteBits * WordBytes
  BY DEF Primitive!IntegerType, DrawsAssumption
<1>2. PICK w \in Nat : w = ByteBits * WordBytes /\ Primitive!Numbers(WordBytes) = 2^w
  <2>1. ByteBits * WordBytes \in Nat
    BY DEF DrawsAssumption
  <2> QED BY <2>1 DEF Primitive!Numbers
<1>3. PICK k \in Nat : k = type.bits /\ k <= w
  BY <1>1, <1>2
<1>4. 2^k \in Nat /\ 2^w \in Nat /\ 2^k <= 2^w
  BY <1>3, PowerGrows
<1>5. 0 <= v /\ v <= 2^k - 1 /\ v \in Int
  BY <1>3 DEF Primitive!Least, Primitive!Greatest
<1> QED BY <1>2, <1>4, <1>5

-----------------------------------------------------------------------------
(* Texts: what the calls of a builder come to.                              *)

Params == {"categories", "excludeCategories", "includeCharacters", "excludeCharacters",
           "minCodepoint", "maxCodepoint"}

CallsTo(calls, method, n) == {i \in 1..n : calls[i].method = method}
Latest(calls, method, otherwise, n) ==
    IF CallsTo(calls, method, n) = {} THEN otherwise
    ELSE calls[Primitive!Max(CallsTo(calls, method, n))].arg

LEMMA LatestNext ==
    ASSUME NEW calls, NEW method, NEW otherwise, NEW n \in Nat
    PROVE  Latest(calls, method, otherwise, n + 1) =
             IF calls[n + 1].method = method THEN calls[n + 1].arg
             ELSE Latest(calls, method, otherwise, n)
<1> DEFINE S == CallsTo(calls, method, n)
           T == CallsTo(calls, method, n + 1)
<1>1. CASE calls[n + 1].method = method
  <2>1. n + 1 \in T /\ T \in SUBSET (1..n + 1) /\ n + 1 \in Nat
    BY <1>1 DEF CallsTo
  <2>2. Primitive!Max(T) \in T /\ n + 1 <= Primitive!Max(T)
    <3> HIDE DEF T
    <3> QED BY <2>1, GreatestOf
  <2>3. Primitive!Max(T) = n + 1
    <3>1. PICK m : m = Primitive!Max(T)
      OBVIOUS
    <3>2. m \in 1..n + 1 /\ n + 1 <= m
      BY <2>1, <2>2, <3>1
    <3>3. m = n + 1
      BY <3>2
    <3> QED BY <3>1, <3>3
  <2>4. T # {}
    BY <2>1
  <2> QED BY Zenon, <1>1, <2>3, <2>4 DEF Latest
<1>2. CASE calls[n + 1].method # method
  <2>1. S = T
    <3>1. 1..n + 1 = (1..n) \cup {n + 1}
      OBVIOUS
    <3> QED BY <1>2, <3>1 DEF CallsTo
  <2> QED BY Zenon, <1>2, <2>1 DEF Latest
<1> QED BY <1>1, <1>2

(* What one call changes.                                                   *)
Shaped(gen) ==
    /\ DOMAIN gen = {"fields", "alphabetCalled", "charParamCalled"}
    /\ DOMAIN gen.fields = Params \cup {"hasCategoriesSet"}
    /\ {gen.alphabetCalled, gen.charParamCalled, gen.fields["hasCategoriesSet"]} \subseteq BOOLEAN

Unset(field) == Primitive!NoFields[field]

LEMMA NothingSet ==
    /\ Shaped(Primitive!NewText)
    /\ Primitive!NewText.fields = Primitive!NoFields
    /\ ~Primitive!NewText.alphabetCalled /\ ~Primitive!NewText.charParamCalled
    /\ DOMAIN Primitive!NoFields = Params \cup {"hasCategoriesSet"}
    /\ Primitive!NoFields["hasCategoriesSet"] = FALSE
    /\ \A f \in {"categories", "excludeCategories", "includeCharacters", "excludeCharacters"} :
          Primitive!NoFields[f] = {}
    /\ Primitive!NoFields["minCodepoint"] = 1
    /\ Primitive!NoFields["maxCodepoint"] = Len(Characters)
<1>1. /\ DOMAIN Primitive!NoFields = Params \cup {"hasCategoriesSet"}
      /\ Primitive!NoFields["hasCategoriesSet"] = FALSE
      /\ Primitive!NoFields["minCodepoint"] = 1
      /\ Primitive!NoFields["maxCodepoint"] = Len(Characters)
  BY DEF Primitive!NoFields, Params
<1>2. \A f \in {"categories", "excludeCategories", "includeCharacters", "excludeCharacters"} :
          Primitive!NoFields[f] = {}
  BY DEF Primitive!NoFields
<1>3. /\ DOMAIN Primitive!NewText = {"fields", "alphabetCalled", "charParamCalled"}
      /\ Primitive!NewText.fields = Primitive!NoFields
      /\ Primitive!NewText.alphabetCalled = FALSE /\ Primitive!NewText.charParamCalled = FALSE
  BY DEF Primitive!NewText
<1> QED BY <1>1, <1>2, <1>3 DEF Shaped

Replaced(gen, chars, next) ==
    /\ Shaped(next)
    /\ next.alphabetCalled
    /\ next.charParamCalled = gen.charParamCalled
    /\ next.fields["hasCategoriesSet"] = TRUE
    /\ next.fields["includeCharacters"] = chars
    /\ \A f \in Params \ {"includeCharacters"} : next.fields[f] = Unset(f)

LEMMA AlphabetSays ==
    ASSUME NEW gen, Shaped(gen), NEW call, call.method = "Alphabet"
    PROVE  Replaced(gen, call.arg, Primitive!Called(gen, call))
<1>0. PICK next : next = Primitive!Called(gen, call)
  OBVIOUS
<1>1. next = [gen EXCEPT !.alphabetCalled = TRUE,
                         !.fields = [Primitive!NoFields EXCEPT !.hasCategoriesSet = TRUE,
                                         !.includeCharacters = call.arg]]
  BY <1>0 DEF Primitive!Called
<1> DEFINE fields == [Primitive!NoFields EXCEPT !.hasCategoriesSet = TRUE,
                                                !.includeCharacters = call.arg]
<1>2. /\ DOMAIN fields = Params \cup {"hasCategoriesSet"}
      /\ fields["hasCategoriesSet"] = TRUE
      /\ fields["includeCharacters"] = call.arg
      /\ \A f \in Params \ {"includeCharacters"} : fields[f] = Unset(f)
  BY NothingSet DEF Unset, Params
<1> HIDE DEF fields
<1>3. /\ DOMAIN next = DOMAIN gen
      /\ next.fields = fields /\ next.alphabetCalled = TRUE
      /\ next.charParamCalled = gen.charParamCalled
  BY <1>1 DEF Shaped, fields
<1>4. Replaced(gen, call.arg, next)
  BY <1>2, <1>3 DEF Shaped, Replaced
<1> QED BY Zenon, <1>0, <1>4

LEMMA ParamSays ==
    ASSUME NEW gen, Shaped(gen), NEW call, call.method \in Params, NEW next,
           next = Primitive!Called(gen, call)
    PROVE  /\ Shaped(next)
           /\ next.alphabetCalled = gen.alphabetCalled
           /\ next.charParamCalled
           /\ next.fields["hasCategoriesSet"] =
                (call.method = "categories" \/ gen.fields["hasCategoriesSet"])
           /\ \A f \in Params :
                next.fields[f] = IF f = call.method THEN call.arg ELSE gen.fields[f]
<1> DEFINE was == IF call.method = "categories"
                  THEN [gen EXCEPT !.fields.hasCategoriesSet = TRUE] ELSE gen
<1>1. next = Primitive!WithParam(was, call.method, call.arg)
  <2>1. CASE call.method = "categories"
    BY <2>1 DEF Primitive!Called
  <2>2. CASE call.method # "categories"
    BY <2>2 DEF Primitive!Called, Params
  <2> QED BY <2>1, <2>2
<1>2. /\ Shaped(was)
      /\ was.alphabetCalled = gen.alphabetCalled
      /\ was.fields["hasCategoriesSet"] =
           (call.method = "categories" \/ gen.fields["hasCategoriesSet"])
      /\ \A f \in Params : was.fields[f] = gen.fields[f]
  BY DEF Shaped, Params
<1> HIDE DEF was
<1>3. /\ DOMAIN next = DOMAIN was
      /\ next.fields = [was.fields EXCEPT ![call.method] = call.arg]
      /\ next.charParamCalled = TRUE
      /\ next.alphabetCalled = was.alphabetCalled
  BY <1>1, <1>2 DEF Shaped, Primitive!WithParam
<1>4. /\ DOMAIN next.fields = DOMAIN was.fields
      /\ next.fields["hasCategoriesSet"] = was.fields["hasCategoriesSet"]
      /\ \A f \in Params :
           next.fields[f] = IF f = call.method THEN call.arg ELSE was.fields[f]
  BY <1>2, <1>3 DEF Shaped, Params
<1> QED BY <1>2, <1>3, <1>4 DEF Shaped

(* What n calls make of a text.                                             *)
Built(gen, calls, n) ==
    /\ Shaped(gen)
    /\ gen.alphabetCalled <=> CallsTo(calls, "Alphabet", n) # {}
    /\ gen.charParamCalled <=> \E i \in 1..n : calls[i].method # "Alphabet"
    /\ ~gen.alphabetCalled =>
        /\ gen.fields["hasCategoriesSet"] <=> CallsTo(calls, "categories", n) # {}
        /\ \A f \in Params : gen.fields[f] = Latest(calls, f, Unset(f), n)
    /\ gen.alphabetCalled /\ ~gen.charParamCalled =>
        /\ gen.fields["hasCategoriesSet"]
        /\ gen.fields["includeCharacters"] = Latest(calls, "Alphabet", {}, n)
        /\ gen.fields["categories"] = {} /\ gen.fields["excludeCharacters"] = {}

LEMMA NothingBuilt == ASSUME NEW calls PROVE Built(Primitive!NewText, calls, 0)
<1>1. \A m : CallsTo(calls, m, 0) = {}
  BY DEF CallsTo
<1>2. \A m, o : Latest(calls, m, o, 0) = o
  BY Zenon, <1>1 DEF Latest
<1>3. ~\E i \in 1..0 : TRUE
  OBVIOUS
<1> QED BY <1>1, <1>2, <1>3, NothingSet DEF Built, Unset

LEMMA BuiltNext ==
    ASSUME NEW calls, NEW n \in Nat, NEW gen, Built(gen, calls, n),
           calls[n + 1].method \in Params \cup {"Alphabet"},
           NEW next, next = Primitive!Called(gen, calls[n + 1])
    PROVE  Built(next, calls, n + 1)
<1>8. ASSUME NEW m, NEW o
      PROVE  Latest(calls, m, o, n + 1) =
               IF calls[n + 1].method = m THEN calls[n + 1].arg ELSE Latest(calls, m, o, n)
  BY ONLY LatestNext, n \in Nat
<1> DEFINE method == calls[n + 1].method
<1>0. 1..n + 1 = (1..n) \cup {n + 1}
  OBVIOUS
<1>1. \A m : CallsTo(calls, m, n + 1) # {} <=> m = method \/ CallsTo(calls, m, n) # {}
  BY <1>0 DEF CallsTo
<1>2. (\E i \in 1..n + 1 : calls[i].method # "Alphabet")
        <=> method # "Alphabet" \/ \E i \in 1..n : calls[i].method # "Alphabet"
  BY <1>0
<1>3. \A m, o : Latest(calls, m, o, n + 1) =
                  IF method = m THEN calls[n + 1].arg ELSE Latest(calls, m, o, n)
  BY Zenon, <1>8
<1>4. Shaped(gen)
  BY DEF Built
<1>7. PICK call : call = calls[n + 1]
  OBVIOUS
<1>5. CASE method = "Alphabet"
  <2>0. call.method = "Alphabet" /\ next = Primitive!Called(gen, call)
    BY Zenon, <1>5, <1>7
  <2>1. /\ Shaped(next) /\ next.alphabetCalled /\ next.charParamCalled = gen.charParamCalled
        /\ next.fields["hasCategoriesSet"] = TRUE
        /\ next.fields["includeCharacters"] = calls[n + 1].arg
        /\ \A f \in Params \ {"includeCharacters"} : next.fields[f] = Unset(f)
    <3>1. Replaced(gen, call.arg, Primitive!Called(gen, call))
      BY Zenon, <1>4, <2>0, AlphabetSays
    <3>2. Replaced(gen, calls[n + 1].arg, next)
      BY Zenon, <1>7, <2>0, <3>1
    <3> QED BY Zenon, <3>2 DEF Replaced
  <2>2. next.fields["categories"] = {} /\ next.fields["excludeCharacters"] = {}
    BY <2>1, NothingSet DEF Params, Unset
  <2>3. next.fields["includeCharacters"] = Latest(calls, "Alphabet", {}, n + 1)
    BY Zenon, <1>3, <1>5, <2>1
  <2>4. gen.charParamCalled <=> \E i \in 1..n : calls[i].method # "Alphabet"
    BY DEF Built
  <2> QED BY <1>1, <1>2, <1>5, <2>1, <2>2, <2>3, <2>4 DEF Built
<1>6. CASE method \in Params
  <2>1. /\ Shaped(next) /\ next.alphabetCalled = gen.alphabetCalled /\ next.charParamCalled
        /\ next.fields["hasCategoriesSet"] =
             (method = "categories" \/ gen.fields["hasCategoriesSet"])
        /\ \A f \in Params :
             next.fields[f] = IF f = method THEN calls[n + 1].arg ELSE gen.fields[f]
    BY <1>4, <1>6, ParamSays
  <2>2. method # "Alphabet"
    BY <1>6 DEF Params
  <2>3. next.alphabetCalled <=> CallsTo(calls, "Alphabet", n + 1) # {}
    BY Zenon, <1>1, <2>1, <2>2 DEF Built
  <2>4. ASSUME ~next.alphabetCalled
        PROVE  /\ next.fields["hasCategoriesSet"] <=> CallsTo(calls, "categories", n + 1) # {}
               /\ \A f \in Params : next.fields[f] = Latest(calls, f, Unset(f), n + 1)
    <3>1. /\ gen.fields["hasCategoriesSet"] <=> CallsTo(calls, "categories", n) # {}
          /\ \A f \in Params : gen.fields[f] = Latest(calls, f, Unset(f), n)
      BY <2>1, <2>4 DEF Built
    <3>2. next.fields["hasCategoriesSet"] <=> CallsTo(calls, "categories", n + 1) # {}
      BY <1>1, <2>1, <3>1
    <3>3. ASSUME NEW f \in Params
          PROVE  next.fields[f] = Latest(calls, f, Unset(f), n + 1)
      <4>1. next.fields[f] = IF f = method THEN calls[n + 1].arg ELSE gen.fields[f]
        BY Zenon, <2>1
      <4>2. gen.fields[f] = Latest(calls, f, Unset(f), n)
        BY Zenon, <3>1
      <4>3. Latest(calls, f, Unset(f), n + 1) =
              IF method = f THEN calls[n + 1].arg ELSE Latest(calls, f, Unset(f), n)
        BY Zenon, <1>3
      <4> HIDE DEF method
      <4> QED BY ONLY <4>1, <4>2, <4>3
    <3> QED BY <3>2, <3>3
  <2>5. next.charParamCalled <=> \E i \in 1..n + 1 : calls[i].method # "Alphabet"
    BY <1>2, <2>1, <2>2
  <2> QED BY <2>1, <2>3, <2>4, <2>5 DEF Built
<1> QED BY <1>5, <1>6

LEMMA TextIsBuilt ==
    ASSUME NEW calls, NEW n \in Nat, DOMAIN calls = 1..n,
           \A i \in 1..n : calls[i].method \in Params \cup {"Alphabet"}
    PROVE  Built(Primitive!FoldLeft(Primitive!Called, Primitive!NewText, calls), calls, n)
<1> DEFINE How == [of |-> "calls"]
<1>0. PICK gen : /\ InTurn(How, Primitive!NewText, calls, gen, n)
                 /\ Primitive!FoldLeft(Primitive!Called, Primitive!NewText, calls) = gen[n]
  BY Zenon, CallsInTurn
<1>1. /\ gen[0] = Primitive!NewText
      /\ \A k \in 0..n - 1 : gen[k + 1] = Primitive!Called(gen[k], calls[k + 1])
      /\ Primitive!FoldLeft(Primitive!Called, Primitive!NewText, calls) = gen[n]
  <2>1. \A was, call : Turn(How, was, call) = Primitive!Called(was, call)
    BY DEF Turn
  <2> HIDE DEF How
  <2> QED BY Zenon, <1>0, <2>1 DEF InTurn
<1> DEFINE Bad == {k \in 0..n : ~Built(gen[k], calls, k)}
<1>2. Bad = {}
  <2> SUFFICES ASSUME Bad # {} PROVE FALSE
    OBVIOUS
  <2>1. PICK k \in Bad : \A j \in Bad : k <= j
    <3> Bad \subseteq Nat
      OBVIOUS
    <3> HIDE DEF Bad
    <3> QED BY LeastNatural
  <2>2. Built(gen[0], calls, 0)
    BY Zenon, <1>1, NothingBuilt
  <2>3. k # 0
    BY <2>1, <2>2
  <2>4. k - 1 \in 0..n - 1 /\ k - 1 \notin Bad /\ k - 1 \in Nat /\ k - 1 + 1 = k /\ k \in 1..n
    BY <2>1, <2>3
  <2>5. PICK j \in 0..n - 1 : j + 1 = k /\ j \in Nat /\ j \notin Bad /\ j \in 0..n
    BY <2>4
  <2>6. Built(gen[j], calls, j)
    BY <2>5
  <2>7. gen[j + 1] = Primitive!Called(gen[j], calls[j + 1])
    BY <1>1
  <2>8. calls[j + 1].method \in Params \cup {"Alphabet"}
    BY <2>4, <2>5
  <2>9. Built(gen[j + 1], calls, j + 1)
    BY <2>5, <2>6, <2>7, <2>8, BuiltNext
  <2> QED BY <2>1, <2>5, <2>9
<1>3. n \notin Bad /\ n \in 0..n
  BY <1>2
<1>4. Built(gen[n], calls, n)
  BY <1>3
<1> QED BY Zenon, <1>1, <1>4

LEMMA EndsOf ==
    ASSUME NEW calls, NEW n \in Nat, DOMAIN calls = 1..n
    PROVE  /\ \A m : Primitive!Has(calls, m) <=> CallsTo(calls, m, n) # {}
           /\ \A m, o : Primitive!LastArg(calls, m, o) = Latest(calls, m, o, n)
<1>1. ASSUME NEW m PROVE Primitive!Has(calls, m) <=> CallsTo(calls, m, n) # {}
  BY DEF Primitive!Has, CallsTo
<1>2. ASSUME NEW m, NEW o PROVE Primitive!LastArg(calls, m, o) = Latest(calls, m, o, n)
  BY DEF Primitive!LastArg, Latest, CallsTo
<1> QED BY Zenon, <1>1, <1>2

LEMMA LatestCall ==
    ASSUME NEW calls, NEW n \in Nat, NEW m, NEW o, CallsTo(calls, m, n) # {}
    PROVE  \E i \in 1..n : calls[i].method = m /\ Latest(calls, m, o, n) = calls[i].arg
<1>1. CallsTo(calls, m, n) \in SUBSET (1..n)
  BY DEF CallsTo
<1>2. Primitive!Max(CallsTo(calls, m, n)) \in CallsTo(calls, m, n)
  BY <1>1, GreatestOf
<1>3. PICK i : i = Primitive!Max(CallsTo(calls, m, n))
  OBVIOUS
<1>4. i \in CallsTo(calls, m, n)
  BY Zenon, <1>2, <1>3
<1>5. Latest(calls, m, o, n) = calls[i].arg
  BY Zenon, <1>3 DEF Latest
<1>6. i \in 1..n /\ calls[i].method = m
  BY <1>4 DEF CallsTo
<1> QED BY <1>5, <1>6

CallFits(call) ==
    /\ call.method \in Params \cup {"Alphabet"}
    /\ call.method \in {"minCodepoint", "maxCodepoint"} => call.arg \in Nat
    /\ call.method \in {"Alphabet", "includeCharacters"} =>
          call.arg \subseteq {c \in DOMAIN Characters : "Cs" \notin Characters[c]}

LEMMA CallsFit ==
    ASSUME DrawsAssumption, NEW calls \in Primitive!BoundedSeq(Calls, MaxCalls)
    PROVE  \E n \in Nat : DOMAIN calls = 1..n /\ \A i \in 1..n : CallFits(calls[i])
<1>1. PICK n \in 0..MaxCalls : calls \in [1..n -> Calls]
  BY DEF Primitive!BoundedSeq, Primitive!SeqOf
<1>2. n \in Nat
  BY DEF DrawsAssumption
<1>3. \A call \in Calls : CallFits(call)
  BY DEF DrawsAssumption, CallFits, Params
<1> QED BY <1>1, <1>2, <1>3

LEMMA Surrogates ==
    ASSUME DrawsAssumption
    PROVE  /\ Primitive!Codepoints = DOMAIN Characters
           /\ Primitive!Codepoints \subseteq Nat \ {0} /\ Len(Characters) \in Nat
           /\ \A c \in Primitive!Codepoints : c <= Len(Characters)
           /\ \A c \in Primitive!Codepoints :
                Primitive!InCategory(c, {"Cs"}) => Characters[c] = {"C", "Cs"}
           /\ \A c : Primitive!InCategory(c, {"Cs"}) <=> "Cs" \in Characters[c]
<1>1. Characters \in Seq(SUBSET STRING)
  BY DEF DrawsAssumption
<1>2. \A c : Primitive!InCategory(c, {"Cs"}) <=> "Cs" \in Characters[c]
  BY DEF Primitive!InCategory
<1>3. Primitive!Codepoints = DOMAIN Characters
  BY DEF Primitive!Codepoints
<1>4. DOMAIN Characters = 1..Len(Characters) /\ Len(Characters) \in Nat
  BY <1>1
<1> QED BY <1>2, <1>3, <1>4 DEF DrawsAssumption

RefusedText(gen) ==
    \/ gen.alphabetCalled /\ gen.charParamCalled
    \/ /\ gen.fields.hasCategoriesSet
       /\ Primitive!NamesSurrogates(gen.fields.categories)

AlphabetOf(gen) == Primitive!EngineAlphabet(Primitive!TextArgs(gen.fields), gen.fields)

LEMMA OnlyAlphabet ==
    ASSUME DrawsAssumption,
           NEW calls, NEW n \in Nat, DOMAIN calls = 1..n, \A i \in 1..n : CallFits(calls[i]),
           NEW gen, Built(gen, calls, n), gen.alphabetCalled, ~gen.charParamCalled
    PROVE  /\ ~RefusedText(gen) /\ ~Primitive!Forbidden(calls)
           /\ AlphabetOf(gen) = Primitive!Documented(calls)
           /\ \A c \in AlphabetOf(gen) : ~Primitive!InCategory(c, {"Cs"})
<1> DEFINE chars == Latest(calls, "Alphabet", {}, n)
<1>1. CallsTo(calls, "Alphabet", n) # {} /\ \A i \in 1..n : calls[i].method = "Alphabet"
  BY DEF Built
<1>2. CallsTo(calls, "categories", n) = {}
  BY <1>1 DEF CallsTo
<1>3. Primitive!Has(calls, "Alphabet") /\ Primitive!LastArg(calls, "Alphabet", {}) = chars
  <2>1. /\ \A m : Primitive!Has(calls, m) <=> CallsTo(calls, m, n) # {}
        /\ \A m, o : Primitive!LastArg(calls, m, o) = Latest(calls, m, o, n)
    BY EndsOf
  <2> QED BY Zenon, <1>1, <2>1
<1>4. Primitive!LastArg(calls, "categories", {}) = {}
  <2>1. \A m, o : Primitive!LastArg(calls, m, o) = Latest(calls, m, o, n)
    BY EndsOf
  <2> QED BY Zenon, <1>2, <2>1 DEF Latest
<1>5. ~Primitive!Forbidden(calls)
  BY <1>1, <1>4 DEF Primitive!Forbidden
<1>6. Primitive!Documented(calls) = chars
  BY Zenon, <1>3 DEF Primitive!Documented
<1>7. PICK i \in 1..n : calls[i].method = "Alphabet" /\ chars = calls[i].arg
  <2>1. \E i \in 1..n : calls[i].method = "Alphabet" /\ chars = calls[i].arg
    BY ONLY <1>1, LatestCall, n \in Nat
  <2> QED BY <2>1
<1>8. chars \subseteq {c \in DOMAIN Characters : "Cs" \notin Characters[c]}
  BY <1>7 DEF CallFits
<1> HIDE DEF chars
<1>9. /\ gen.fields.hasCategoriesSet /\ gen.fields.includeCharacters = chars
      /\ gen.fields.categories = {} /\ gen.fields.excludeCharacters = {}
  BY DEF Built, chars
<1>10. ~RefusedText(gen)
  BY <1>9 DEF RefusedText, Primitive!NamesSurrogates
<1>11. Primitive!TextArgs(gen.fields) = [only |-> TRUE, categories |-> {}]
  BY <1>9 DEF Primitive!TextArgs
<1>12. AlphabetOf(gen) = chars
  <2>1. \A c : ~Primitive!InCategory(c, {})
    BY DEF Primitive!InCategory
  <2>2. AlphabetOf(gen) = Primitive!EngineAlphabet([only |-> TRUE, categories |-> {}], gen.fields)
    BY <1>11 DEF AlphabetOf
  <2> QED BY <1>9, <2>1, <2>2 DEF Primitive!EngineAlphabet
<1>13. \A c \in chars : ~Primitive!InCategory(c, {"Cs"})
  BY <1>8, Surrogates
<1> QED BY <1>5, <1>6, <1>10, <1>12, <1>13

LEMMA OnlyParams ==
    ASSUME DrawsAssumption,
           NEW calls, NEW n \in Nat, DOMAIN calls = 1..n, \A i \in 1..n : CallFits(calls[i]),
           NEW gen, Built(gen, calls, n), ~gen.alphabetCalled
    PROVE  /\ RefusedText(gen) <=> Primitive!Forbidden(calls)
           /\ ~RefusedText(gen) =>
                /\ \A c \in AlphabetOf(gen) : ~Primitive!InCategory(c, {"Cs"})
                /\ \/ Primitive!Has(calls, "categories") /\ Primitive!Has(calls, "excludeCategories")
                   \/ AlphabetOf(gen) = Primitive!Documented(calls)
<1>1. /\ gen.fields.hasCategoriesSet <=> Primitive!Has(calls, "categories")
      /\ ~Primitive!Has(calls, "Alphabet")
  <2>1. gen.fields["hasCategoriesSet"] <=> CallsTo(calls, "categories", n) # {}
    BY DEF Built
  <2>2. CallsTo(calls, "Alphabet", n) = {}
    BY DEF Built
  <2>3. \A m : Primitive!Has(calls, m) <=> CallsTo(calls, m, n) # {}
    BY EndsOf
  <2> QED BY <2>1, <2>2, <2>3
<1>2. \A f \in Params : gen.fields[f] = Primitive!LastArg(calls, f, Unset(f))
  <2>1. \A m, o : Primitive!LastArg(calls, m, o) = Latest(calls, m, o, n)
    BY EndsOf
  <2>2. \A f \in Params : gen.fields[f] = Latest(calls, f, Unset(f), n)
    BY DEF Built
  <2> QED BY Zenon, <2>1, <2>2
<1> DEFINE cats == Primitive!LastArg(calls, "categories", {})
           excl == Primitive!LastArg(calls, "excludeCategories", {})
           least == Primitive!LastArg(calls, "minCodepoint", 1)
           most == Primitive!LastArg(calls, "maxCodepoint", Len(Characters))
           incl == Primitive!LastArg(calls, "includeCharacters", {})
           without == Primitive!LastArg(calls, "excludeCharacters", {})
<1>3. /\ gen.fields.categories = cats /\ gen.fields.excludeCategories = excl
      /\ gen.fields.minCodepoint = least /\ gen.fields.maxCodepoint = most
      /\ gen.fields.includeCharacters = incl /\ gen.fields.excludeCharacters = without
  BY Zenon, <1>2, NothingSet DEF Unset, Params
<1>4. /\ least \in Nat /\ most \in Nat
      /\ incl \subseteq {c \in DOMAIN Characters : "Cs" \notin Characters[c]}
  <2>1. \A m, o : Primitive!LastArg(calls, m, o) = Latest(calls, m, o, n)
    BY EndsOf
  <2>2. ASSUME NEW m, NEW o
        PROVE  \/ Latest(calls, m, o, n) = o
               \/ \E i \in 1..n : calls[i].method = m /\ Latest(calls, m, o, n) = calls[i].arg
    <3>1. CASE CallsTo(calls, m, n) # {}
      <4>1. \E i \in 1..n : calls[i].method = m /\ Latest(calls, m, o, n) = calls[i].arg
        BY ONLY <3>1, LatestCall, n \in Nat
      <4> QED BY <4>1
    <3>2. CASE CallsTo(calls, m, n) = {}
      BY <3>2 DEF Latest
    <3> QED BY <3>1, <3>2
  <2>3. least = 1 \/ least \in Nat
    BY <2>1, <2>2 DEF CallFits
  <2>4. most = Len(Characters) \/ most \in Nat
    BY <2>1, <2>2 DEF CallFits
  <2>5. incl = {} \/ incl \subseteq {c \in DOMAIN Characters : "Cs" \notin Characters[c]}
    BY <2>1, <2>2 DEF CallFits
  <2> HIDE DEF least, most, incl
  <2> QED BY <2>3, <2>4, <2>5, Surrogates
<1>5. Primitive!Forbidden(calls) <=> cats \cap {"Cs", "C"} # {}
  BY ZenonT(60), <1>1 DEF Primitive!Forbidden
<1>6. ~Primitive!Has(calls, "categories") => cats = {}
  BY ZenonT(60) DEF Primitive!Has, Primitive!LastArg
<1>7. ~Primitive!Has(calls, "excludeCategories") => excl = {}
  BY ZenonT(60) DEF Primitive!Has, Primitive!LastArg
<1> HIDE DEF cats, excl, least, most, incl, without
<1>8. RefusedText(gen) <=> Primitive!Forbidden(calls)
  BY <1>1, <1>3, <1>5, <1>6
  DEF RefusedText, Primitive!NamesSurrogates, Primitive!SurrogateCategories
<1>9. Primitive!Documented(calls) =
        ({c \in Primitive!Codepoints :
            /\ Primitive!Has(calls, "categories") => Primitive!InCategory(c, cats)
            /\ ~Primitive!InCategory(c, excl \cup {"Cs"})
            /\ c >= least /\ c <= most} \cup incl) \ without
  BY <1>1 DEF Primitive!Documented, cats, excl, least, most, incl, without
<1>10. \A c \in Primitive!Codepoints : c \in least..most <=> c >= least /\ c <= most
  BY <1>4, Surrogates
<1>11. \A c \in incl : ~Primitive!InCategory(c, {"Cs"})
  BY <1>4, Surrogates
<1> DEFINE args == Primitive!TextArgs(gen.fields)
<1>12. AlphabetOf(gen) =
         ({c \in Primitive!Codepoints :
             /\ Primitive!InCategory(c, args.categories) = args.only
             /\ c >= least /\ c <= most} \cup incl) \ without
  BY <1>3, <1>10 DEF AlphabetOf, Primitive!EngineAlphabet
<1>13. CASE Primitive!Has(calls, "categories") /\ ~RefusedText(gen)
  <2>1. args.only = TRUE /\ args.categories = cats
    BY <1>1, <1>3, <1>13 DEF Primitive!TextArgs
  <2>2. \A c \in Primitive!Codepoints :
           Primitive!InCategory(c, cats) => ~Primitive!InCategory(c, {"Cs"})
    BY <1>5, <1>8, <1>13, Surrogates DEF Primitive!InCategory
  <2> HIDE DEF args
  <2>3. AlphabetOf(gen) =
          ({c \in Primitive!Codepoints :
             Primitive!InCategory(c, cats) /\ c >= least /\ c <= most} \cup incl) \ without
    BY <1>12, <2>1 DEF Primitive!InCategory
  <2>4. \A c \in AlphabetOf(gen) : ~Primitive!InCategory(c, {"Cs"})
    BY <1>11, <2>2, <2>3
  <2>5. excl = {} => AlphabetOf(gen) = Primitive!Documented(calls)
    <3> SUFFICES ASSUME excl = {} PROVE AlphabetOf(gen) = Primitive!Documented(calls)
      OBVIOUS
    <3>1. excl \cup {"Cs"} = {"Cs"}
      OBVIOUS
    <3> QED BY <1>9, <1>13, <2>2, <2>3, <3>1
  <2> QED BY <1>7, <1>8, <1>13, <2>4, <2>5
<1>14. CASE ~Primitive!Has(calls, "categories")
  <2>1. args.only = FALSE /\ args.categories = excl \cup {"Cs"}
    BY <1>1, <1>3, <1>14 DEF Primitive!TextArgs
  <2> HIDE DEF args
  <2>2. AlphabetOf(gen) =
          ({c \in Primitive!Codepoints :
             ~Primitive!InCategory(c, excl \cup {"Cs"}) /\ c >= least /\ c <= most}
           \cup incl) \ without
    BY <1>12, <2>1 DEF Primitive!InCategory
  <2>3. \A c : Primitive!InCategory(c, {"Cs"}) => Primitive!InCategory(c, excl \cup {"Cs"})
    BY DEF Primitive!InCategory
  <2>4. \A c \in AlphabetOf(gen) : ~Primitive!InCategory(c, {"Cs"})
    BY <1>11, <2>2, <2>3
  <2>5. AlphabetOf(gen) = Primitive!Documented(calls)
    BY <1>9, <1>14, <2>2
  <2> QED BY <1>8, <2>4, <2>5
<1> QED BY <1>8, <1>13, <1>14

LEMMA TextFollows ==
    ASSUME DrawsAssumption, NEW calls \in Primitive!BoundedSeq(Calls, MaxCalls),
           NEW gen, gen = Primitive!FoldLeft(Primitive!Called, Primitive!NewText, calls)
    PROVE  /\ RefusedText(gen) <=> Primitive!Forbidden(calls)
           /\ ~RefusedText(gen) =>
                /\ \A c \in AlphabetOf(gen) : ~Primitive!InCategory(c, {"Cs"})
                /\ \/ Primitive!Has(calls, "categories") /\ Primitive!Has(calls, "excludeCategories")
                   \/ AlphabetOf(gen) = Primitive!Documented(calls)
<1>1. PICK n \in Nat : DOMAIN calls = 1..n /\ \A i \in 1..n : CallFits(calls[i])
  BY CallsFit
<1>2. Built(gen, calls, n)
  <2>1. \A i \in 1..n : calls[i].method \in Params \cup {"Alphabet"}
    BY <1>1 DEF CallFits
  <2>2. Built(Primitive!FoldLeft(Primitive!Called, Primitive!NewText, calls), calls, n)
    BY <1>1, <2>1, TextIsBuilt
  <2> QED BY Zenon, <2>2
<1>3. CASE ~gen.alphabetCalled
  BY Zenon, <1>1, <1>2, <1>3, OnlyParams
<1>4. CASE gen.alphabetCalled /\ ~gen.charParamCalled
  BY Zenon, <1>1, <1>2, <1>4, OnlyAlphabet
<1>5. CASE gen.alphabetCalled /\ gen.charParamCalled
  <2>1. CallsTo(calls, "Alphabet", n) # {} /\ \E i \in 1..n : calls[i].method # "Alphabet"
    BY <1>2, <1>5 DEF Built
  <2>2. Primitive!Has(calls, "Alphabet")
    BY Zenon, <1>1, <2>1, EndsOf
  <2>3. Primitive!Forbidden(calls)
    BY <1>1, <2>1, <2>2 DEF Primitive!Forbidden
  <2>4. RefusedText(gen)
    BY <1>5 DEF RefusedText
  <2> QED BY <2>3, <2>4
<1> QED BY <1>3, <1>4, <1>5

-----------------------------------------------------------------------------
(* Primitives, and the specification.                                       *)

PrimitivePlaces == {"idle", "asked", "integer", "error", "text", "refused"}

TextFits(p) ==
    /\ p.at = "refused" => Primitive!Forbidden(p.calls)
    /\ p.at = "text" =>
        /\ ~Primitive!Forbidden(p.calls)
        /\ \A c \in p.alphabet : ~Primitive!InCategory(c, {"Cs"})
        /\ \/ /\ Primitive!Has(p.calls, "categories")
              /\ Primitive!Has(p.calls, "excludeCategories")
           \/ p.alphabet = Primitive!Documented(p.calls)

Within(type) == Primitive!Least(type)..Primitive!Greatest(type)
PrimitiveFits(p) ==
    /\ p.at \in PrimitivePlaces
    /\ p.at = "asked" =>
        /\ p.type \in Primitive!IntegerType
        /\ p.min \in Within(p.type) /\ p.max \in Within(p.type)
        /\ p.low = p.min /\ p.high = p.max
        /\ p.big \in BOOLEAN /\ (p.big => ~p.type.signed)
    /\ p.at = "integer" => p.value = p.drawn
    /\ TextFits(p)

PrimitivesInv ==
    PerGoroutine(prim) /\ \A g \in Goroutines : PrimitiveFits(prim[g])

LEMMA PrimitiveMoves ==
    ASSUME PrimitivesInv, NEW g \in Goroutines, NEW v, prim' = [prim EXCEPT ![g] = v],
           PrimitiveFits(v)
    PROVE  PrimitivesInv'
<1>1. Becomes(prim, prim', g, v)
  BY Becoming DEF PrimitivesInv
<1>2. PerGoroutine(prim')
  BY <1>1 DEF Becomes, PerGoroutine
<1>3. \A h \in Goroutines : prim'[h] = v \/ prim'[h] = prim[h]
  BY <1>1 DEF Becomes
<1>4. \A h \in Goroutines : PrimitiveFits(prim[h])
  BY DEF PrimitivesInv
<1>5. \A h \in Goroutines : PrimitiveFits(prim'[h])
  BY Zenon, <1>3, <1>4
<1> QED BY <1>2, <1>5 DEF PrimitivesInv, PerGoroutine

LEMMA AskingKeeps ==
    ASSUME DrawsAssumption, PrimitivesInv, NEW g \in Goroutines, Primitive!DrawInteger(g)
    PROVE  PrimitivesInv'
<1> DEFINE big(type, min, max) ==
               ~(Primitive!fitsInt64(type, min) /\ Primitive!fitsInt64(type, max))
           asked(type, min, max, v) ==
               IF big(type, min, max)
               THEN Primitive!EngineReads(Primitive!NewBigInt(type, v)) ELSE v
           new(type, min, max) ==
               [at |-> "asked", type |-> type, min |-> min, max |-> max,
                big |-> big(type, min, max), low |-> asked(type, min, max, min),
                high |-> asked(type, min, max, max)]
<1>1. PICK type \in Primitive!IntegerType :
        \E min, max \in Within(type) : prim' = [prim EXCEPT ![g] = new(type, min, max)]
  BY DEF Primitive!DrawInteger, Within
<1>2. PICK min \in Within(type), max \in Within(type) :
        prim' = [prim EXCEPT ![g] = new(type, min, max)]
  BY <1>1
<1>3. big(type, min, max) \in BOOLEAN /\ (big(type, min, max) => ~type.signed)
  BY DEF Primitive!fitsInt64
<1>4. ASSUME NEW v \in Within(type) PROVE asked(type, min, max, v) = v
  <2>1. v \in Int /\ type.signed \in BOOLEAN
    BY ConvertedStays DEF Within, Primitive!IntegerType
  <2>2. CASE big(type, min, max)
    <3>1. v \in Nat
      BY <1>3, <2>2, BigFits DEF Within
    <3>2. Primitive!EngineReads(Primitive!NewBigInt(type, v)) = v
      BY <2>1, <3>1, BigIntArrives
    <3> HIDE DEF big
    <3> QED BY <2>2, <3>2
  <2>3. CASE ~big(type, min, max)
    <3> HIDE DEF big
    <3> QED BY <2>3
  <2> QED BY <2>2, <2>3
<1>5. asked(type, min, max, min) = min /\ asked(type, min, max, max) = max
  BY Zenon, <1>4
<1> HIDE DEF big, asked
<1>6. PrimitiveFits(new(type, min, max))
  BY <1>3, <1>5 DEF PrimitiveFits, PrimitivePlaces, TextFits
<1> HIDE DEF new
<1> QED BY <1>2, <1>6, PrimitiveMoves

LEMMA ReturningKeeps ==
    ASSUME DrawsAssumption, PrimitivesInv, NEW g \in Goroutines, Primitive!ReturnInteger(g)
    PROVE  PrimitivesInv'
<1> DEFINE overflown(v) == Primitive!Overflows(Primitive!EngineWrites(v))
           answer(v) ==
               CASE ~prim[g].big -> v
                 [] prim[g].big /\ ~overflown(v) ->
                      Primitive!Uint64(Primitive!EngineWrites(v))
                 [] prim[g].big /\ overflown(v) -> -1
           new(v) ==
               [at |-> IF prim[g].big /\ overflown(v) THEN "panic" ELSE "integer",
                asked |-> prim[g], drawn |-> v,
                value |-> Primitive!Converted(prim[g].type, answer(v))]
<1>1. /\ prim[g].at = "asked"
      /\ \/ \E v \in prim[g].low..prim[g].high : prim' = [prim EXCEPT ![g] = new(v)]
         \/ prim' = [prim EXCEPT ![g] = [at |-> "error"]]
  BY DEF Primitive!ReturnInteger
<1>2. PICK type : type = prim[g].type
  OBVIOUS
<1>3. /\ type \in Primitive!IntegerType
      /\ prim[g].low \in Within(type) /\ prim[g].high \in Within(type)
      /\ prim[g].big \in BOOLEAN /\ (prim[g].big => ~type.signed)
  BY <1>1, <1>2 DEF PrimitivesInv, PrimitiveFits
<1>4. ASSUME NEW v \in prim[g].low..prim[g].high PROVE PrimitiveFits(new(v))
  <2>1. v \in Within(type)
    <3>1. \A w \in Within(type) : w \in Int
      BY <1>3, ConvertedStays DEF Within
    <3>2. Primitive!Least(type) \in Int /\ Primitive!Greatest(type) \in Int
      BY <1>3, TypeRange
    <3> QED BY <1>3, <3>1, <3>2 DEF Within
  <2>2. v \in Int /\ Primitive!Converted(type, v) = v
    BY <1>3, <2>1, ConvertedStays DEF Within
  <2>3. CASE prim[g].big
    <3>1. v \in Nat /\ v < Primitive!Numbers(WordBytes)
      BY <1>3, <2>1, <2>3, BigFits DEF Within
    <3>2. ~overflown(v) /\ Primitive!Uint64(Primitive!EngineWrites(v)) = v
      BY <3>1, WordsArrive
    <3>3. answer(v) = v
      <4> HIDE DEF overflown
      <4> QED BY <2>3, <3>2
    <3> HIDE DEF overflown, answer
    <3>4. new(v).at = "integer" /\ new(v).value = v /\ new(v).drawn = v
      BY <1>2, <2>2, <3>2, <3>3
    <3> HIDE DEF new
    <3> QED BY <3>4 DEF PrimitiveFits, PrimitivePlaces, TextFits
  <2>4. CASE ~prim[g].big
    <3>1. answer(v) = v
      <4> HIDE DEF overflown
      <4> QED BY <2>4
    <3> HIDE DEF overflown, answer
    <3>2. new(v).at = "integer" /\ new(v).value = v /\ new(v).drawn = v
      BY <1>2, <2>2, <2>4, <3>1
    <3> HIDE DEF new
    <3> QED BY <3>2 DEF PrimitiveFits, PrimitivePlaces, TextFits
  <2> QED BY <1>3, <2>3, <2>4
<1>5. PrimitiveFits([at |-> "error"])
  BY DEF PrimitiveFits, PrimitivePlaces, TextFits
<1> HIDE DEF new
<1> QED BY <1>1, <1>4, <1>5, PrimitiveMoves

LEMMA TextKeeps ==
    ASSUME DrawsAssumption, PrimitivesInv, NEW g \in Goroutines, Primitive!DrawText(g)
    PROVE  PrimitivesInv'
<1> DEFINE gen(calls) == Primitive!FoldLeft(Primitive!Called, Primitive!NewText, calls)
           new(calls) ==
               IF RefusedText(gen(calls)) THEN [at |-> "refused", calls |-> calls]
               ELSE [at |-> "text", calls |-> calls, alphabet |-> AlphabetOf(gen(calls))]
<1>1. PICK calls \in Primitive!BoundedSeq(Calls, MaxCalls) :
        prim' = [prim EXCEPT ![g] = new(calls)]
  BY Zenon DEF Primitive!DrawText, RefusedText, AlphabetOf
<1>2. PICK built : built = gen(calls)
  OBVIOUS
<1> HIDE DEF gen
<1>3. /\ RefusedText(built) <=> Primitive!Forbidden(calls)
      /\ ~RefusedText(built) =>
           /\ \A c \in AlphabetOf(built) : ~Primitive!InCategory(c, {"Cs"})
           /\ \/ Primitive!Has(calls, "categories") /\ Primitive!Has(calls, "excludeCategories")
              \/ AlphabetOf(built) = Primitive!Documented(calls)
  BY <1>2, TextFollows DEF gen
<1>4. PrimitiveFits(new(calls))
  <2>1. CASE RefusedText(built)
    <3>1. new(calls) = [at |-> "refused", calls |-> calls]
      BY Zenon, <1>2, <2>1
    <3>2. new(calls).at = "refused" /\ new(calls).calls = calls
      BY <3>1
    <3> HIDE DEF new
    <3> QED BY <1>3, <2>1, <3>2 DEF PrimitiveFits, PrimitivePlaces, TextFits
  <2>2. CASE ~RefusedText(built)
    <3>1. new(calls) = [at |-> "text", calls |-> calls, alphabet |-> AlphabetOf(built)]
      BY Zenon, <1>2, <2>2
    <3>2. /\ new(calls).at = "text" /\ new(calls).calls = calls
          /\ new(calls).alphabet = AlphabetOf(built)
      BY <3>1
    <3> HIDE DEF new
    <3> QED BY <1>3, <2>2, <3>2 DEF PrimitiveFits, PrimitivePlaces, TextFits
  <2> QED BY <2>1, <2>2
<1> HIDE DEF new
<1> QED BY <1>1, <1>4, PrimitiveMoves

LEMMA PrimitiveStepKeeps ==
    ASSUME DrawsAssumption, PrimitivesInv, NEW g \in Goroutines,
           Primitive!Step(g) \/ Primitive!Forget(g)
    PROVE  PrimitivesInv'
<1>1. CASE Primitive!Forget(g)
  <2>1. PrimitiveFits(Primitive!Idle)
    BY DEF Primitive!Idle, PrimitiveFits, PrimitivePlaces, TextFits
  <2> QED BY <1>1, <2>1, PrimitiveMoves DEF Primitive!Forget
<1> QED BY <1>1, AskingKeeps, ReturningKeeps, TextKeeps DEF Primitive!Step

LEMMA PrimitivesFollow == ASSUME PrimitivesInv PROVE Primitive!PrimitivesArrive
<1>1. \A g \in Goroutines : PrimitiveFits(prim[g])
  BY DEF PrimitivesInv
<1>2. Primitive!IntegersArrive
  BY <1>1 DEF Primitive!IntegersArrive, PrimitiveFits, PrimitivePlaces
<1>3. Primitive!TextsAsBuilt
  BY <1>1 DEF Primitive!TextsAsBuilt, PrimitiveFits, TextFits
<1> QED BY <1>2, <1>3 DEF Primitive!PrimitivesArrive

StageType == [Goroutines -> {"default", "draw", "report", "done"}]

IInv ==
    /\ stage \in StageType
    /\ DefaultInv
    /\ CollectionsInv
    /\ PrimitivesInv
    /\ SourceInv

LEMMA Initially == Init => IInv
<1> SUFFICES ASSUME Init PROVE IInv
  OBVIOUS
<1>1. DefaultInv
  BY DrawsAssumption, DefaultStarts DEF Init, DrawsAssumption
<1>2. CollectionsInv
  BY DrawsAssumption, CollectionsStart DEF Init
<1>3. SourceInv
  BY DrawsAssumption, SourceStarts DEF Init, DrawsAssumption
<1>4. PrimitivesInv
  <2>1. PrimitiveFits(Primitive!Idle)
    BY DEF Primitive!Idle, PrimitiveFits, PrimitivePlaces, TextFits
  <2> QED BY <2>1 DEF Init, Primitive!Init, PrimitivesInv, PerGoroutine
<1>5. stage \in StageType
  BY DEF Init, StageType
<1> QED BY <1>1, <1>2, <1>3, <1>4, <1>5 DEF IInv

LEMMA DefaultStays == ASSUME DefaultInv, UNCHANGED defaultVars PROVE DefaultInv'
<1>1. UNCHANGED <<byType, typeReaders, typeWriters, lookup, made, handedOut>>
  BY DEF defaultVars
<1> QED BY <1>1 DEF DefaultInv, PerGoroutine, Exclusive, Rechecking

LEMMA CollectionsStay == ASSUME CollectionsInv, UNCHANGED collectionVars PROVE CollectionsInv'
<1>1. UNCHANGED <<draw, pending, coll, result, failed>>
  BY DEF collectionVars
<1> QED BY <1>1 DEF CollectionsInv, PerGoroutine

LEMMA PrimitivesStay == ASSUME PrimitivesInv, UNCHANGED prim PROVE PrimitivesInv'
BY DEF PrimitivesInv, PerGoroutine

LEMMA SourceStays == ASSUME SourceInv, UNCHANGED sourceVars PROVE SourceInv'
<1>1. /\ UNCHANGED <<disk, file, statements, reads, edits>>
      /\ UNCHANGED <<lineReaders, lineWriters, report>>
  BY DEF sourceVars
<1>2. OneVersion'
  BY <1>1, OneVersionStays DEF SourceInv
<1>3. Extracting' = Extracting
  BY <1>1 DEF Extracting, Reporting
<1> QED BY <1>1, <1>2, <1>3 DEF SourceInv, Exclusive

LEMMA Entering ==
    ASSUME stage \in StageType, NEW g \in Goroutines,
           NEW next \in {"default", "draw", "report", "done"}, Enter(g, next)
    PROVE  stage' \in StageType
BY DEF StageType, Enter

LEMMA FindGeneratorKeeps ==
    ASSUME IInv, NEW g \in Goroutines, FindGenerator(g) PROVE IInv'
<1>1. CollectionsInv' /\ PrimitivesInv' /\ SourceInv'
  BY CollectionsStay, PrimitivesStay, SourceStays DEF IInv, FindGenerator, drawVars
<1>2. PICK t \in Types :
        \/ Default!Step(g, t) /\ UNCHANGED stage
        \/ Default!BuildOwn(g) /\ UNCHANGED stage
        \/ /\ lookup[g].at = "built" /\ Default!Drop(g)
           /\ \E next \in {"draw", "done"} : Enter(g, next)
        \/ UNCHANGED defaultVars /\ \E next \in {"draw", "done"} : Enter(g, next)
  BY DEF FindGenerator
<1>3. stage' \in StageType
  BY <1>2, Entering DEF IInv
<1>4. DefaultInv
  BY DEF IInv
<1>5. CASE Default!Step(g, t)
  <2>1. MaxMade \in Nat
    BY DrawsAssumption DEF DrawsAssumption
  <2>2. DefaultInv'
    BY <1>4, <1>5, <2>1, AskKeeps, ReadLockKeeps, ReadKeeps, WriteLockKeeps, ConstructKeeps
       DEF Default!Step
  <2> QED BY <1>1, <1>3, <2>2 DEF IInv
<1>6. CASE Default!BuildOwn(g)
  BY <1>1, <1>3, <1>4, <1>6, BuildOwnKeeps DEF IInv
<1>7. CASE lookup[g].at = "built" /\ Default!Drop(g)
  BY <1>1, <1>3, <1>4, <1>7, DropKeeps DEF IInv
<1>8. CASE UNCHANGED defaultVars
  BY <1>1, <1>3, <1>4, <1>8, DefaultStays DEF IInv
<1> QED BY <1>2, <1>5, <1>6, <1>7, <1>8

LEMMA DrawCollectionKeeps ==
    ASSUME IInv, NEW g \in Goroutines, DrawCollection(g) PROVE IInv'
<1>1. DefaultInv' /\ PrimitivesInv' /\ SourceInv'
  BY DefaultStays, PrimitivesStay, SourceStays DEF IInv, DrawCollection
<1>2. \/ Drawn!Step(g) /\ UNCHANGED stage
      \/ Drawn!Forget(g) /\ \E next \in {"report", "done"} : Enter(g, next)
  BY DEF DrawCollection
<1>3. stage' \in StageType
  BY <1>2, Entering DEF IInv
<1>4. CollectionsInv'
  BY <1>2, DrawsAssumption, CollectionStepKeeps, ForgetKeeps DEF IInv
<1> QED BY <1>1, <1>3, <1>4 DEF IInv

LEMMA DrawPrimitiveKeeps ==
    ASSUME IInv, NEW g \in Goroutines, DrawPrimitive(g) PROVE IInv'
<1>1. DefaultInv' /\ CollectionsInv' /\ SourceInv'
  BY DefaultStays, CollectionsStay, SourceStays DEF IInv, DrawPrimitive
<1>2. \/ Primitive!Step(g) /\ UNCHANGED stage
      \/ Primitive!Forget(g) /\ \E next \in {"report", "done"} : Enter(g, next)
  BY DEF DrawPrimitive
<1>3. stage' \in StageType
  BY <1>2, Entering DEF IInv
<1>4. PrimitivesInv'
  BY <1>2, DrawsAssumption, PrimitiveStepKeeps DEF IInv
<1> QED BY <1>1, <1>3, <1>4 DEF IInv

LEMMA ReportDrawKeeps ==
    ASSUME IInv, NEW g \in Goroutines, ReportDraw(g) PROVE IInv'
<1>1. DefaultInv' /\ CollectionsInv' /\ PrimitivesInv'
  BY DefaultStays, CollectionsStay, PrimitivesStay DEF IInv, ReportDraw, drawVars
<1>2. PICK l \in Lines :
        \/ Source!Step(g, l) /\ UNCHANGED stage
        \/ Enter(g, "done") /\ UNCHANGED sourceVars
  BY DEF ReportDraw
<1>3. stage' \in StageType
  BY <1>2, Entering DEF IInv
<1>4. SourceInv /\ {"missing", "unparsable"} \cap Versions = {}
  BY DrawsAssumption DEF IInv, DrawsAssumption
<1>5. SourceInv'
  BY <1>2, <1>4, SourceStays, AskSourceKeeps, ReadLockSourceKeeps, ReadSourceKeeps,
     WriteLockSourceKeeps, ExtractKeeps
  DEF Source!Step
<1> QED BY <1>1, <1>3, <1>5 DEF IInv

LEMMA StepKeeps == IInv /\ [Next]_vars => IInv'
<1> SUFFICES ASSUME IInv, [Next]_vars PROVE IInv'
  OBVIOUS
<1>1. CASE \E g \in Goroutines :
             FindGenerator(g) \/ DrawCollection(g) \/ DrawPrimitive(g) \/ ReportDraw(g)
  BY <1>1, FindGeneratorKeeps, DrawCollectionKeeps, DrawPrimitiveKeeps, ReportDrawKeeps
<1>2. CASE EditSource
  <2>1. DefaultInv' /\ CollectionsInv' /\ PrimitivesInv'
    BY <1>2, DefaultStays, CollectionsStay, PrimitivesStay DEF IInv, EditSource, drawVars
  <2>2. SourceInv'
    BY <1>2, DrawsAssumption, EditKeeps DEF IInv, EditSource, DrawsAssumption
  <2>3. stage' \in StageType
    BY <1>2 DEF IInv, EditSource
  <2> QED BY <2>1, <2>2, <2>3 DEF IInv
<1>3. CASE UNCHANGED vars
  <2>1. UNCHANGED <<stage, defaultVars, collectionVars, prim, sourceVars>>
    BY <1>3 DEF vars, drawVars
  <2> QED BY <2>1, DefaultStays, CollectionsStay, PrimitivesStay, SourceStays DEF IInv
<1> QED BY <1>1, <1>2, <1>3 DEF Next, Finished

LEMMA Invariant == Spec => []IInv
BY Initially, StepKeeps, PTL DEF Spec

-----------------------------------------------------------------------------
(* Every variable has its type; in particular one goroutine at most has a   *)
(* write lock, only between taking and giving it back, and nobody reads     *)
(* meanwhile.                                                               *)
THEOREM TypeCorrect == Spec => []TypeOK
<1>1. IInv => TypeOK
  BY DefaultTyped, CollectionsTyped, SourceTyped
  DEF IInv, TypeOK, StageType, PrimitivesInv, PrimitiveFits, PrimitivePlaces, Primitive!TypeOK
<1> QED BY <1>1, Invariant, PTL

(* "Default returns the same cached generator for each type when no options *)
(* are supplied", however many goroutines ask for how many types at once:   *)
(* what was handed out for a type is the cache's entry, which is written    *)
(* once, under the write lock, while there is none.                         *)
THEOREM OneGenerator == Spec => []SameGenerator
<1>1. IInv => SameGenerator
  BY DefaultSame DEF IInv, SameGenerator
<1> QED BY <1>1, Invariant, PTL

(* buildDefault and compileDefault: whatever a program's types refer to and *)
(* however often, and whatever options are given in whatever order, Default *)
(* constructs a generator exactly when every type it reaches is supported,  *)
(* exported and does not need itself, unless an override replaces it, and   *)
(* each part is drawn from the override that comes first or by its type.    *)
THEOREM DefaultsSound == Spec => []DefaultsFollowTypes
<1>1. IInv => DefaultsFollowTypes
  BY DefaultFollows DEF IInv, DefaultsFollowTypes
<1> QED BY <1>1, Invariant, PTL

(* collections.go and collection.More, Reject and Err of runner.go: the     *)
(* bounds of every list, unique list and map reach the engine as they were  *)
(* given, and one that is returned is complete, as long as the engine says, *)
(* within its bounds and without repeated keys, for every width of an int,  *)
(* all sizes it can represent and whatever the engine or the keys do.       *)
THEOREM CollectionsSound == Spec => []SoundCollections
<1>1. IInv => SoundCollections
  BY DrawsAssumption, CollectionsAreSound DEF IInv
<1> QED BY <1>1, Invariant, PTL

(* "a missing or unparseable file is read at most once per process", and    *)
(* all statements that are quoted are of the version read, however often    *)
(* the file changes and however many goroutines report.                     *)
THEOREM FileReadOnce == Spec => []ReadOnce
<1>1. IInv => ReadOnce
  BY SourceReadOnce DEF IInv, ReadOnce
<1> QED BY <1>1, Invariant, PTL

(* newBigInt, BigInt.Uint64 and the builders of Text and Characters: for    *)
(* every width of a byte, a word and a type, and all bounds of the type,    *)
(* the engine is asked for the bounds that were given and the number drawn  *)
(* is returned, whichever way they travel; and whatever calls are made in   *)
(* whatever order, no text has a surrogate and its alphabet is the          *)
(* documented one.                                                          *)
THEOREM PrimitivesSound == Spec => []PrimitivesArrive
<1>1. IInv => PrimitivesArrive
  BY PrimitivesFollow DEF IInv, PrimitivesArrive
<1> QED BY <1>1, Invariant, PTL
=============================================================================
