----------------------------- MODULE ValuePool -----------------------------
(***************************************************************************)
(* Pool of pool.go, shared by the workers of a concurrent state machine.   *)
(*                                                                         *)
(* A pool lives twice: the engine holds a set of value ids and chooses     *)
(* among them, the Go side holds the value of each id in a map.  Every     *)
(* operation locks the pool's mutex, calls the engine, brings the map in   *)
(* line with what the engine did, and unlocks in a deferred call, also     *)
(* when an abort panics out of the operation.                              *)
(***************************************************************************)
EXTENDS Naturals, FiniteSets

CONSTANTS
    Workers,   \* worker goroutines that share the pool
    Values,    \* what rules add
    NoValue,   \* an id that is not in the map
    NoWorker,  \* the mutex is free
    MaxIds,    \* bound on ids the engine hands out
    MaxOps     \* bound on operations per worker

ASSUME PoolAssumption ==
    /\ NoValue \notin Values
    /\ NoWorker \notin Workers
    /\ MaxIds \in Nat
    /\ MaxOps \in Nat

Ids == 1..MaxIds
NoId == 0
Ops == {"add", "draw", "consume", "len"}

VARIABLES
    mu,      \* who holds the mutex
    engine,  \* the ids in the engine's pool
    nextId,  \* the next id the engine hands out
    values,  \* p.values
    pc,      \* where each worker is in its operation
    op,      \* the operation, with the value to add
    id,      \* the id the engine answered with
    result,  \* what the last operation of each worker returned
    done     \* operations each worker has begun

vars == <<mu, engine, nextId, values, pc, op, id, result, done>>

InMap == {i \in Ids : values[i] # NoValue}

Returned(kind) == [kind |-> kind, value |-> NoValue]

Init ==
    /\ mu = NoWorker
    /\ engine = {}
    /\ nextId = 1
    /\ values = [i \in Ids |-> NoValue]
    /\ pc = [w \in Workers |-> "idle"]
    /\ op = [w \in Workers |-> [kind |-> "len", value |-> NoValue]]
    /\ id = [w \in Workers |-> NoId]
    /\ result = [w \in Workers |-> Returned("none")]
    /\ done = [w \in Workers |-> 0]

Goto(w, label) == pc' = [pc EXCEPT ![w] = label]

(* A rule calls Add, Len, or draws from one of the pool's generators.       *)
Call(w) ==
    /\ pc[w] = "idle"
    /\ done[w] < MaxOps
    /\ \E kind \in Ops, v \in Values \cup {NoValue} :
        /\ (kind = "add") = (v \in Values)
        /\ op' = [op EXCEPT ![w] = [kind |-> kind, value |-> v]]
    /\ done' = [done EXCEPT ![w] = @ + 1]
    /\ Goto(w, "lock")
    /\ UNCHANGED <<mu, engine, nextId, values, id, result>>

(* A draw that does not take the mutex: a faulty variant of MayEnter.       *)
MayEnterUnlocked(w) == mu = NoWorker \/ op[w].kind = "draw"

MayEnter(w) == mu = NoWorker

Lock(w) ==
    /\ pc[w] = "lock"
    /\ MayEnter(w)
    /\ mu' = w
    /\ Goto(w, "engine")
    /\ UNCHANGED <<engine, nextId, values, op, id, result, done>>

(* The operation returns without touching the map.                          *)
ReturnEarly(w, r) ==
    /\ result' = [result EXCEPT ![w] = r]
    /\ Goto(w, "unlock")
    /\ UNCHANGED <<engine, nextId, id>>

(* handle.Add: the engine registers a new id.                               *)
EngineAdd(w) ==
    /\ op[w].kind = "add"
    /\ nextId \in Ids
    /\ engine' = engine \cup {nextId}
    /\ id' = [id EXCEPT ![w] = nextId]
    /\ nextId' = nextId + 1
    /\ Goto(w, "map")
    /\ UNCHANGED result

(* handle.Generate: the engine picks an id, and forgets it if it is         *)
(* consumed; it rejects a draw from an empty pool.                          *)
EngineGenerate(w) ==
    /\ op[w].kind \in {"draw", "consume"}
    /\ \/ /\ \E i \in engine :
                /\ id' = [id EXCEPT ![w] = i]
                /\ engine' = IF op[w].kind = "consume" THEN engine \ {i}
                                                       ELSE engine
          /\ Goto(w, "map")
          /\ UNCHANGED <<nextId, result>>
       \/ /\ engine = {}
          /\ ReturnEarly(w, Returned("assume"))

(* The engine call of an operation, which may fail; Len makes none.         *)
CallEngine(w) ==
    /\ pc[w] = "engine"
    /\ \/ EngineAdd(w)
       \/ EngineGenerate(w)
       \/ op[w].kind # "len" /\ ReturnEarly(w, Returned("engine"))
       \/ op[w].kind = "len"
          /\ ReturnEarly(w, [kind |-> "len", value |-> Cardinality(InMap)])
    /\ UNCHANGED <<mu, values, op, done>>

(* Faulty variants of Remaining: nothing deleted, or every draw deleting.   *)
RemainingAll(w) == values
RemainingNever(w) == [values EXCEPT ![id[w]] = NoValue]

(* The map after a draw: `if g.consume { delete(...) }`.                    *)
Remaining(w) ==
    IF op[w].kind = "consume" THEN [values EXCEPT ![id[w]] = NoValue]
                              ELSE values

(* Read after the delete: a faulty variant of Drawn.                        *)
DrawnLate(w) == Remaining(w)[id[w]]

(* The value a draw returns.                                                *)
Drawn(w) == values[id[w]]

(* The map is brought in line.  An id the map does not know, or already     *)
(* knows when it is added, is an error of its own.                          *)
UpdateMap(w) ==
    /\ pc[w] = "map"
    /\ IF op[w].kind = "add"
       THEN IF id[w] \in InMap
            THEN /\ result' = [result EXCEPT ![w] = Returned("duplicate")]
                 /\ UNCHANGED values
            ELSE /\ result' = [result EXCEPT ![w] = Returned("added")]
                 /\ values' = [values EXCEPT ![id[w]] = op[w].value]
       ELSE IF id[w] \in InMap
            THEN /\ result' = [result EXCEPT
                        ![w] = [kind |-> "value", value |-> Drawn(w)]]
                 /\ values' = Remaining(w)
            ELSE /\ result' = [result EXCEPT ![w] = Returned("unknown")]
                 /\ UNCHANGED values
    /\ Goto(w, "unlock")
    /\ UNCHANGED <<mu, engine, nextId, op, id, done>>

(* An abort that keeps the mutex: a faulty variant of Release.              *)
ReleaseOnReturn(w) ==
    mu' = IF result[w].kind \in {"engine", "assume"} THEN mu ELSE NoWorker

Release(w) == mu' = NoWorker

(* The deferred Unlock, on return and on abort alike.                       *)
Unlock(w) ==
    /\ pc[w] = "unlock"
    /\ Release(w)
    /\ Goto(w, "idle")
    /\ UNCHANGED <<engine, nextId, values, op, id, result, done>>

Step(w) == Lock(w) \/ CallEngine(w) \/ UpdateMap(w) \/ Unlock(w)

Quiescent == \A w \in Workers : pc[w] = "idle"
Finished == Quiescent /\ UNCHANGED vars

Next == (\E w \in Workers : Call(w) \/ Step(w)) \/ Finished

(* A goroutine that can run does; a rule need not call again.               *)
Spec == Init /\ [][Next]_vars /\ \A w \in Workers : WF_vars(Step(w))

-----------------------------------------------------------------------------
(* Properties.                                                              *)

Results ==
    [kind : {"none", "added", "assume", "engine", "duplicate", "unknown"},
     value : {NoValue}]
    \cup [kind : {"value"}, value : Values]
    \cup [kind : {"len"}, value : 0..MaxIds]

TypeOK ==
    /\ mu \in Workers \cup {NoWorker}
    /\ engine \subseteq Ids
    /\ nextId \in 1..(MaxIds + 1)
    /\ values \in [Ids -> Values \cup {NoValue}]
    /\ pc \in [Workers -> {"idle", "lock", "engine", "map", "unlock"}]
    /\ op \in [Workers -> [kind : Ops, value : Values \cup {NoValue}]]
    /\ id \in [Workers -> Ids \cup {NoId}]
    /\ result \in [Workers -> Results]
    /\ done \in [Workers -> 0..MaxOps]

(* Whenever nobody is inside the pool, the engine's ids are the map's keys: *)
(* no interleaving, consuming draw or aborted operation leaves an id on one *)
(* side only.                                                               *)
SidesAgree == mu = NoWorker => engine = InMap

(* The pool implements an atomic one.                                       *)
Atomic == INSTANCE AtomicPool WITH contents <- values, answer <- result

ImplementsAtomicPool == Atomic!Spec

(* An operation that was called returns, also when others abort inside the  *)
(* pool.                                                                    *)
CallsReturn == \A w \in Workers : (pc[w] = "lock") ~> (pc[w] = "idle")
=============================================================================
