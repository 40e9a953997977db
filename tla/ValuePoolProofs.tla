-------------------------- MODULE ValuePoolProofs --------------------------
(***************************************************************************)
(* Proofs about ValuePool, for any workers, values and bounds: type        *)
(* correctness, that the engine's ids and the Go map agree whenever the    *)
(* mutex is free, and that the pool implements AtomicPool.                 *)
(***************************************************************************)
EXTENDS ValuePool, FiniteSetTheorems, TLAPS

(* A worker is inside the pool exactly when it holds the mutex.             *)
HolderInside ==
    \A w \in Workers : pc[w] \in {"engine", "map", "unlock"} <=> mu = w

(* What a call may ask: only Add comes with a value.                        *)
SoundCalls == \A w \in Workers : op[w].kind = "add" <=> op[w].value \in Values

(* The engine never hands out an id that is in use.                         *)
FreshIds == \A i \in Ids : i >= nextId => i \notin engine \cup InMap

(* SidesAgree with the mutex held: the sides differ only between the two    *)
(* halves of Add and of a consuming draw, by the id in hand.                *)
AgreeOutsideMap == (\A w \in Workers : pc[w] # "map") => engine = InMap

AddHalfway(w) ==
    /\ id[w] \in Ids \ InMap
    /\ engine = InMap \cup {id[w]}

DrawHalfway(w) ==
    /\ id[w] \in InMap
    /\ engine = IF op[w].kind = "consume" THEN InMap \ {id[w]} ELSE InMap

AgreeButForId ==
    \A w \in Workers : pc[w] = "map" =>
        /\ op[w].kind = "add" => AddHalfway(w)
        /\ op[w].kind # "add" => DrawHalfway(w)
        /\ op[w].kind # "len"

IInv ==
    /\ TypeOK
    /\ HolderInside
    /\ SoundCalls
    /\ FreshIds
    /\ AgreeOutsideMap
    /\ AgreeButForId

-----------------------------------------------------------------------------
(* Facts about the constants and the helpers.                               *)

(* What the pool can hold is finite, and no more than the engine's ids.     *)
LEMMA InMapSize ==
    /\ InMap \subseteq Ids
    /\ IsFiniteSet(InMap)
    /\ Cardinality(InMap) \in 0..MaxIds
<1> USE PoolAssumption
<1>1. InMap \subseteq Ids
  BY DEF InMap
<1>2. IsFiniteSet(Ids) /\ Cardinality(Ids) = MaxIds
  BY FS_Interval DEF Ids
<1>3. /\ IsFiniteSet(InMap) /\ Cardinality(InMap) <= Cardinality(Ids)
  BY <1>1, <1>2, FS_Subset
<1>4. Cardinality(InMap) \in Nat
  BY <1>3, FS_CardinalityType
<1> QED BY <1>1, <1>2, <1>3, <1>4

(* At most one worker is inside the pool.                                   *)
LEMMA OneInside ==
    ASSUME HolderInside, NEW w \in Workers, pc[w] \in {"engine", "map", "unlock"},
           NEW v \in Workers, pc[v] \in {"engine", "map", "unlock"}
    PROVE  v = w
BY DEF HolderInside

-----------------------------------------------------------------------------
(* Type correctness.                                                        *)

LEMMA TypeInit == Init => TypeOK
BY PoolAssumption DEF Init, TypeOK, Ids, Ops, NoId, Results, Returned

LEMMA TypeNext == TypeOK /\ [Next]_vars => TypeOK'
<1> SUFFICES ASSUME TypeOK, [Next]_vars PROVE TypeOK'
  OBVIOUS
<1> USE PoolAssumption
<1>1. ASSUME NEW w \in Workers, Call(w) PROVE TypeOK'
  <2>1. done' \in [Workers -> 0..MaxOps]
    BY <1>1 DEF Call, TypeOK
  <2>2. op' \in [Workers -> [kind : Ops, value : Values \cup {NoValue}]]
    BY <1>1 DEF Call, TypeOK
  <2> QED BY <1>1, <2>1, <2>2 DEF Call, TypeOK, Goto
<1>2. ASSUME NEW w \in Workers, Lock(w) PROVE TypeOK'
  BY <1>2 DEF Lock, TypeOK, Goto
<1>3. ASSUME NEW w \in Workers, CallEngine(w) PROVE TypeOK'
  <2>1. CASE EngineAdd(w)
    BY <1>3, <2>1 DEF CallEngine, EngineAdd, TypeOK, Goto, Ids
  <2>2. ASSUME NEW r \in Results, ReturnEarly(w, r) PROVE TypeOK'
    BY <1>3, <2>2 DEF CallEngine, ReturnEarly, TypeOK, Goto
  <2>3. Returned("assume") \in Results /\ Returned("engine") \in Results
    BY DEF Results, Returned
  <2>4. CASE EngineGenerate(w)
    <3>1. CASE ReturnEarly(w, Returned("assume"))
      BY <3>1, <2>2, <2>3
    <3>2. ASSUME NEW i \in engine, id' = [id EXCEPT ![w] = i],
                 engine' \in {engine, engine \ {i}},
                 Goto(w, "map"), UNCHANGED <<nextId, result>>
          PROVE  TypeOK'
      BY <1>3, <3>2 DEF CallEngine, TypeOK, Goto
    <3> QED BY <2>4, <3>1, <3>2 DEF EngineGenerate
  <2>5. [kind |-> "len", value |-> Cardinality(InMap)] \in Results
    BY InMapSize DEF Results
  <2> QED BY <1>3, <2>1, <2>2, <2>3, <2>4, <2>5 DEF CallEngine
<1>4. ASSUME NEW w \in Workers, UpdateMap(w) PROVE TypeOK'
  <2>1. id[w] \in InMap => [kind |-> "value", value |-> Drawn(w)] \in Results
    BY DEF InMap, Drawn, Results, TypeOK
  <2>2. result' \in [Workers -> Results]
    BY <1>4, <2>1 DEF UpdateMap, TypeOK, Results, Returned
  <2>3. values' \in [Ids -> Values \cup {NoValue}]
    BY <1>4 DEF UpdateMap, TypeOK, Remaining
  <2> QED BY <1>4, <2>2, <2>3 DEF UpdateMap, TypeOK, Goto
<1>5. ASSUME NEW w \in Workers, Unlock(w) PROVE TypeOK'
  BY <1>5 DEF Unlock, Release, TypeOK, Goto
<1>6. CASE UNCHANGED vars
  BY <1>6 DEF vars, TypeOK
<1> QED BY <1>1, <1>2, <1>3, <1>4, <1>5, <1>6 DEF Next, Step, Finished

(* Every variable keeps its type; what Len answers never exceeds the ids    *)
(* the engine can hand out.                                                 *)
THEOREM TypeCorrect == Spec => []TypeOK
BY TypeInit, TypeNext, PTL DEF Spec

-----------------------------------------------------------------------------
(* The two sides of the pool.                                               *)

LEMMA InvInit == Init => IInv
<1> SUFFICES ASSUME Init PROVE IInv
  OBVIOUS
<1>1. InMap = {}
  BY DEF Init, InMap
<1> QED BY <1>1, TypeInit, PoolAssumption
        DEF Init, IInv, HolderInside, SoundCalls, FreshIds, AgreeOutsideMap,
            AgreeButForId

(* Steps that move a worker without touching either side.                   *)
LEMMA MoveKeepsInv ==
    ASSUME IInv, NEW w \in Workers, NEW label \in {"lock", "engine", "unlock", "idle"},
           TypeOK', Goto(w, label), pc[w] # "map",
           UNCHANGED <<engine, nextId, values, id>>,
           HolderInside', SoundCalls',
           \A v \in Workers : v # w => op'[v] = op[v]
    PROVE  IInv'
<1>1. InMap' = InMap
  BY DEF InMap
<1>2. \A v \in Workers : pc'[v] = (IF v = w THEN label ELSE pc[v])
  BY DEF Goto, IInv, TypeOK
<1>3. FreshIds'
  BY <1>1 DEF IInv, FreshIds
<1>4. AgreeOutsideMap'
  BY <1>1, <1>2 DEF IInv, AgreeOutsideMap
<1>5. AgreeButForId'
  BY <1>1, <1>2 DEF IInv, AgreeButForId, AddHalfway, DrawHalfway
<1> QED BY <1>3, <1>4, <1>5 DEF IInv

LEMMA CallInv ==
    ASSUME IInv, NEW w \in Workers, Call(w), TypeOK'
    PROVE  IInv'
<1>1. Goto(w, "lock") /\ pc[w] = "idle" /\ UNCHANGED <<mu, engine, nextId, values, id>>
  BY DEF Call
<1>2. HolderInside'
  BY <1>1 DEF Goto, IInv, TypeOK, HolderInside
<1>3. \A v \in Workers : v # w => op'[v] = op[v]
  BY DEF Call, IInv, TypeOK
<1>4. op'[w].kind = "add" <=> op'[w].value \in Values
  BY DEF Call, IInv, TypeOK
<1>5. SoundCalls'
  BY <1>3, <1>4 DEF IInv, SoundCalls
<1> QED BY <1>1, <1>2, <1>3, <1>5, MoveKeepsInv

LEMMA LockInv ==
    ASSUME IInv, NEW w \in Workers, Lock(w), TypeOK'
    PROVE  IInv'
<1>1. /\ Goto(w, "engine") /\ pc[w] = "lock" /\ mu' = w /\ mu = NoWorker
      /\ UNCHANGED <<engine, nextId, values, id, op>>
  BY DEF Lock, MayEnter
<1>2. HolderInside'
  BY <1>1, PoolAssumption DEF Goto, IInv, TypeOK, HolderInside
<1>3. SoundCalls'
  BY <1>1 DEF IInv, SoundCalls
<1> QED BY <1>1, <1>2, <1>3, MoveKeepsInv

LEMMA UnlockInv ==
    ASSUME IInv, NEW w \in Workers, Unlock(w), TypeOK'
    PROVE  IInv'
<1>1. /\ Goto(w, "idle") /\ pc[w] = "unlock" /\ mu' = NoWorker
      /\ UNCHANGED <<engine, nextId, values, id, op>>
  BY DEF Unlock, Release
<1>2. HolderInside'
  BY <1>1, PoolAssumption DEF Goto, IInv, TypeOK, HolderInside
<1>3. SoundCalls'
  BY <1>1 DEF IInv, SoundCalls
<1> QED BY <1>1, <1>2, <1>3, MoveKeepsInv

LEMMA CallEngineInv ==
    ASSUME IInv, NEW w \in Workers, CallEngine(w), TypeOK'
    PROVE  IInv'
<1>1. /\ pc[w] = "engine" /\ UNCHANGED <<mu, values, op>> /\ InMap' = InMap
  BY DEF CallEngine, InMap
<1>2. \A v \in Workers : v # w => pc[v] \notin {"engine", "map", "unlock"}
  BY <1>1, OneInside DEF IInv
<1>3. engine = InMap
  BY <1>1, <1>2 DEF IInv, AgreeOutsideMap
<1>4. SoundCalls'
  BY <1>1 DEF IInv, SoundCalls
<1>5. ASSUME NEW r, ReturnEarly(w, r) PROVE IInv'
  <2>1. HolderInside'
    BY <1>1, <1>5 DEF ReturnEarly, Goto, IInv, TypeOK, HolderInside
  <2> QED BY <1>1, <1>4, <1>5, <2>1, MoveKeepsInv DEF ReturnEarly
<1>6. ASSUME Goto(w, "map"),
             op[w].kind # "len", FreshIds',
             op[w].kind = "add" => AddHalfway(w)',
             op[w].kind # "add" => DrawHalfway(w)'
      PROVE  IInv'
  <2>1. \A v \in Workers : pc'[v] = (IF v = w THEN "map" ELSE pc[v])
    BY <1>6 DEF Goto, IInv, TypeOK
  <2>2. HolderInside'
    BY <1>1, <2>1 DEF IInv, HolderInside
  <2>3. AgreeOutsideMap'
    BY <2>1 DEF AgreeOutsideMap
  <2>4. AgreeButForId'
    BY <1>1, <1>2, <1>6, <2>1 DEF AgreeButForId
  <2> QED BY <1>4, <1>6, <2>2, <2>3, <2>4 DEF IInv
<1>7. CASE EngineAdd(w)
  <2>1. nextId \in Ids /\ nextId' = nextId + 1 /\ nextId \notin InMap /\ Ids \subseteq Nat
    BY <1>7 DEF EngineAdd, IInv, FreshIds, Ids
  <2>2. id'[w] = nextId /\ engine' = InMap \cup {nextId}
    BY <1>3, <1>7 DEF EngineAdd, IInv, TypeOK
  <2>3. AddHalfway(w)'
    BY <1>1, <2>1, <2>2 DEF AddHalfway
  <2>4. FreshIds'
    BY <1>1, <2>1, <2>2 DEF IInv, FreshIds
  <2> QED BY <1>6, <1>7, <2>3, <2>4 DEF EngineAdd
<1>8. CASE EngineGenerate(w)
  <2>1. ASSUME NEW i \in engine, id' = [id EXCEPT ![w] = i],
               engine' = IF op[w].kind = "consume" THEN engine \ {i} ELSE engine,
               Goto(w, "map"), UNCHANGED nextId
        PROVE  IInv'
    <3>1. id'[w] = i
      BY <2>1 DEF IInv, TypeOK
    <3>2. DrawHalfway(w)'
      BY <1>1, <1>3, <2>1, <3>1 DEF DrawHalfway
    <3>3. FreshIds'
      BY <1>1, <1>3, <2>1 DEF IInv, FreshIds
    <3> QED BY <1>6, <1>8, <2>1, <3>2, <3>3 DEF EngineGenerate
  <2> QED BY <1>5, <1>8, <2>1 DEF EngineGenerate
<1> QED BY <1>5, <1>7, <1>8 DEF CallEngine

(* UpdateMap finds what the engine promised: an added id is new to the map, *)
(* a drawn one is in it, and afterwards the sides agree.                    *)
LEMMA UpdateMapEffect ==
    ASSUME IInv, NEW w \in Workers, UpdateMap(w)
    PROVE  /\ InMap' = engine
           /\ \/ /\ op[w].value \in Values
                 /\ id[w] \in Ids \ InMap
                 /\ values' = [values EXCEPT ![id[w]] = op[w].value]
                 /\ result' = [result EXCEPT ![w] = Returned("added")]
              \/ /\ id[w] \in InMap
                 /\ values' \in {values, [values EXCEPT ![id[w]] = NoValue]}
                 /\ result' = [result EXCEPT
                        ![w] = [kind |-> "value", value |-> values[id[w]]]]
<1>1. CASE op[w].kind = "add"
  <2>1. AddHalfway(w) /\ op[w].value \in Values
    BY <1>1 DEF UpdateMap, IInv, AgreeButForId, SoundCalls
  <2>2. /\ values' = [values EXCEPT ![id[w]] = op[w].value]
        /\ result' = [result EXCEPT ![w] = Returned("added")]
    BY <1>1, <2>1 DEF UpdateMap, AddHalfway
  <2>3. InMap' = InMap \cup {id[w]}
    BY <2>1, <2>2, PoolAssumption DEF InMap, AddHalfway, IInv, TypeOK
  <2> QED BY <2>1, <2>2, <2>3 DEF AddHalfway
<1>2. CASE op[w].kind # "add"
  <2>1. DrawHalfway(w)
    BY <1>2 DEF UpdateMap, IInv, AgreeButForId
  <2>2. /\ values' = Remaining(w)
        /\ result' = [result EXCEPT ![w] = [kind |-> "value", value |-> values[id[w]]]]
    BY <1>2, <2>1 DEF UpdateMap, DrawHalfway, Drawn
  <2>3. InMap' = IF op[w].kind = "consume" THEN InMap \ {id[w]} ELSE InMap
    BY <2>1, <2>2 DEF InMap, Remaining, DrawHalfway, IInv, TypeOK
  <2> QED BY <2>1, <2>2, <2>3 DEF DrawHalfway, Remaining
<1> QED BY <1>1, <1>2

LEMMA UpdateMapInv ==
    ASSUME IInv, NEW w \in Workers, UpdateMap(w), TypeOK'
    PROVE  IInv'
<1>1. /\ pc[w] = "map" /\ Goto(w, "unlock")
      /\ UNCHANGED <<mu, engine, nextId, op>> /\ InMap' = engine
  BY UpdateMapEffect DEF UpdateMap
<1>2. \A v \in Workers : v # w => pc[v] \notin {"engine", "map", "unlock"}
  BY <1>1, OneInside DEF IInv
<1>3. \A v \in Workers : pc'[v] = (IF v = w THEN "unlock" ELSE pc[v])
  BY <1>1 DEF Goto, IInv, TypeOK
<1>4. HolderInside' /\ SoundCalls' /\ FreshIds' /\ AgreeOutsideMap'
  BY <1>1, <1>3 DEF IInv, HolderInside, SoundCalls, FreshIds, AgreeOutsideMap
<1>5. AgreeButForId'
  BY <1>2, <1>3 DEF AgreeButForId
<1> QED BY <1>4, <1>5 DEF IInv

LEMMA InvNext == IInv /\ [Next]_vars => IInv'
<1> SUFFICES ASSUME IInv, [Next]_vars PROVE IInv'
  OBVIOUS
<1>1. TypeOK'
  BY TypeNext DEF IInv
<1>2. ASSUME NEW w \in Workers, Call(w) \/ Step(w) PROVE IInv'
  BY <1>1, <1>2, CallInv, LockInv, CallEngineInv, UpdateMapInv, UnlockInv DEF Step
<1>3. CASE UNCHANGED vars
  BY <1>3, <1>1 DEF vars, IInv, HolderInside, SoundCalls, FreshIds, AgreeOutsideMap,
     AgreeButForId, AddHalfway, DrawHalfway, InMap
<1> QED BY <1>2, <1>3 DEF Next, Finished

LEMMA Invariance == Spec => []IInv
BY InvInit, InvNext, PTL DEF Spec

(* The mutex of pool.go is enough: whoever takes it finds the engine's ids  *)
(* and the map's keys equal, after any interleaving of adds, draws and      *)
(* aborted operations.                                                      *)
THEOREM SidesSafe == Spec => []SidesAgree
<1>1. ASSUME IInv, mu = NoWorker PROVE engine = InMap
  BY <1>1, PoolAssumption DEF IInv, HolderInside, AgreeOutsideMap
<1> QED BY <1>1, Invariance, PTL DEF SidesAgree

(* The errors pool.go reports for an id the map does not know, or knows     *)
(* already, are never returned.                                             *)
MapKnows == \A w \in Workers : result[w].kind \notin {"duplicate", "unknown"}

THEOREM MapAlwaysKnows == Spec => []MapKnows
<1>1. Init => MapKnows
  BY DEF Init, MapKnows, Returned
<1>2. MapKnows /\ IInv /\ [Next]_vars => MapKnows'
  <2> SUFFICES ASSUME MapKnows, IInv, [Next]_vars PROVE MapKnows'
    OBVIOUS
  <2>1. ASSUME NEW w \in Workers,
               NEW r, r.kind \notin {"duplicate", "unknown"},
               result' = [result EXCEPT ![w] = r]
        PROVE  MapKnows'
    BY <2>1 DEF MapKnows, IInv, TypeOK
  <2>2. ASSUME NEW w \in Workers, CallEngine(w) PROVE MapKnows'
    BY <2>1, <2>2 DEF CallEngine, EngineAdd, EngineGenerate, ReturnEarly, Returned, MapKnows
  <2>3. ASSUME NEW w \in Workers, UpdateMap(w) PROVE MapKnows'
    BY <2>1, <2>3, UpdateMapEffect DEF Returned
  <2>4. CASE UNCHANGED result
    BY <2>4 DEF MapKnows
  <2> QED BY <2>2, <2>3, <2>4 DEF Next, Step, Call, Lock, Unlock, Finished, vars
<1> QED BY <1>1, <1>2, Invariance, PTL DEF Spec

-----------------------------------------------------------------------------
(* The pool is atomic.                                                      *)

LEMMA AtomicInit == Init => Atomic!Init
BY DEF Init, Atomic!Init, Atomic!Outcome, Returned

LEMMA AtomicCallEngine ==
    ASSUME IInv, NEW w \in Workers, CallEngine(w)
    PROVE  Atomic!Next \/ UNCHANGED Atomic!vars
<1>1. InMap = Atomic!Registered
  BY DEF InMap, Atomic!Registered
<1>2. values' = values
  BY DEF CallEngine
<1>3. engine = InMap
  BY OneInside DEF CallEngine, IInv, AgreeOutsideMap
<1>4. CASE ReturnEarly(w, Returned("engine"))
  BY <1>2, <1>4 DEF ReturnEarly, Returned, Atomic!Next, Atomic!Fail,
                    Atomic!Answer, Atomic!Outcome
<1>5. CASE ReturnEarly(w, [kind |-> "len", value |-> Cardinality(InMap)])
  <2>1. Atomic!Cardinality(InMap) = Cardinality(InMap)
    BY DEF Atomic!Cardinality, Cardinality
  <2>2. Atomic!Len(w)
    BY <1>1, <1>2, <1>5, <2>1 DEF ReturnEarly, Atomic!Len, Atomic!Answer, Atomic!Size
  <2> QED BY <2>2 DEF Atomic!Next
<1>6. CASE engine = {} /\ ReturnEarly(w, Returned("assume"))
  BY <1>1, <1>2, <1>3, <1>6 DEF ReturnEarly, Returned, Atomic!Next, Atomic!Reject,
                                Atomic!Answer, Atomic!Outcome
<1>7. CASE UNCHANGED result
  BY <1>2, <1>7 DEF Atomic!vars
<1> QED BY <1>4, <1>5, <1>6, <1>7 DEF CallEngine, EngineAdd, EngineGenerate

LEMMA AtomicUpdateMap ==
    ASSUME IInv, NEW w \in Workers, UpdateMap(w)
    PROVE  Atomic!Next
<1>1. InMap = Atomic!Registered
  BY DEF InMap, Atomic!Registered
<1>2. CASE /\ op[w].value \in Values
           /\ id[w] \in Ids \ InMap
           /\ values' = [values EXCEPT ![id[w]] = op[w].value]
           /\ result' = [result EXCEPT ![w] = Returned("added")]
  <2>1. Atomic!Add(w, op[w].value)
    BY <1>1, <1>2 DEF Returned, Atomic!Add, Atomic!Answer, Atomic!Outcome
  <2> QED BY <1>2, <2>1 DEF Atomic!Next
<1>3. CASE /\ id[w] \in InMap
           /\ values' \in {values, [values EXCEPT ![id[w]] = NoValue]}
           /\ result' = [result EXCEPT
                ![w] = [kind |-> "value", value |-> values[id[w]]]]
  <2>1. Atomic!Draw(w, id[w]) \/ Atomic!Consume(w, id[w])
    BY <1>3 DEF Atomic!Draw, Atomic!Consume, Atomic!Answer, Atomic!Value
  <2> QED BY <1>1, <1>3, <2>1 DEF Atomic!Next
<1> QED BY <1>2, <1>3, UpdateMapEffect

LEMMA AtomicNext == IInv /\ [Next]_vars => [Atomic!Next]_Atomic!vars
<1> SUFFICES ASSUME IInv, [Next]_vars PROVE Atomic!Next \/ UNCHANGED Atomic!vars
  OBVIOUS
<1>1. ASSUME NEW w \in Workers, Call(w) \/ Lock(w) \/ Unlock(w)
      PROVE  UNCHANGED Atomic!vars
  BY <1>1 DEF Call, Lock, Unlock, Atomic!vars
<1>2. CASE UNCHANGED vars
  BY <1>2 DEF vars, Atomic!vars
<1> QED BY <1>1, <1>2, AtomicCallEngine, AtomicUpdateMap DEF Next, Step, Finished

(* Every operation on the pool takes effect at one instant, the update of   *)
(* the map or the early return: concurrent rules see an atomic pool.        *)
THEOREM PoolIsAtomic == Spec => ImplementsAtomicPool
<1>1. Spec => Atomic!Spec
  BY AtomicInit, AtomicNext, Invariance, PTL DEF Spec, Atomic!Spec
<1> QED BY <1>1 DEF ImplementsAtomicPool
=============================================================================
