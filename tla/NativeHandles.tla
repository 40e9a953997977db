--------------------------- MODULE NativeHandles ---------------------------
(***************************************************************************)
(* The life of native objects: pointer, Free and allocate of libhegel.go,  *)
(* the calls that pass a raw handle to the engine, the output callback of  *)
(* callback.go and its registry in internal/cgo.                           *)
(*                                                                         *)
(* A wrapper is a Go object that owns a native one.  Its raw handle is a   *)
(* number the collector cannot see.  Goroutines allocate wrappers, share   *)
(* them, call the engine with them and forget them; the collector finds    *)
(* the wrappers nobody can reach and queues their cleanups, which run in   *)
(* any order.  A wrapper may have an output writer: the engine holds a     *)
(* number for it, and a registry maps the number to the writer.            *)
(***************************************************************************)
EXTENDS Naturals, FiniteSets

CONSTANTS
    Wrappers,     \* the wrappers a program allocates
    Goroutines

ASSUME HandleAssumption ==
    /\ IsFiniteSet(Wrappers)
    /\ IsFiniteSet(Goroutines)

VARIABLES
    native,      \* each native object: "none", "live" or "freed"
    frees,       \* how often each was given to the engine's free function
    raw,         \* whether the wrapper's raw handle is nonzero
    refs,        \* the goroutines with a variable that holds the wrapper
    op,          \* what each goroutine is doing: [kind, w], or Idle
    cleanups,    \* the cleanups attached to each wrapper
    queue,       \* cleanups the collector has queued, as [what, w]
    registry,    \* handles: the numbers of the registry, each with its writer
    handleIdx,   \* the last number given out
    userData,    \* the number the engine holds for each native object
    panicked,    \* Value or Delete met a number that is not in the registry
    misdirected  \* a callback wrote to the writer of another wrapper

vars == <<native, frees, raw, refs, op, cleanups, queue, registry, handleIdx,
          userData, panicked, misdirected>>

Idle == [kind |-> "idle"]
Doing(kind, w) == [kind |-> kind, w |-> w]
Is(g, kind, w) == op[g] = Doing(kind, w)
Now(g, kind, w) == op' = [op EXCEPT ![g] = Doing(kind, w)]
Done(g) == op' = [op EXCEPT ![g] = Idle]

Kinds == {"allocate", "allocated", "failed", "call", "view", "clear", "free"}

Init ==
    /\ native = [w \in Wrappers |-> "none"]
    /\ frees = [w \in Wrappers |-> 0]
    /\ raw = [w \in Wrappers |-> FALSE]
    /\ refs = [w \in Wrappers |-> {}]
    /\ op = [g \in Goroutines |-> Idle]
    /\ cleanups = [w \in Wrappers |-> {}]
    /\ queue = {}
    /\ registry = {}
    /\ handleIdx = 0
    /\ userData = [w \in Wrappers |-> 0]
    /\ panicked = FALSE
    /\ misdirected = FALSE

-----------------------------------------------------------------------------
(* The registry.                                                            *)

NewHandle(w) ==
    /\ handleIdx' = handleIdx + 1
    /\ registry' = registry \cup {[id |-> handleIdx + 1, writer |-> w]}
    /\ userData' = [userData EXCEPT ![w] = handleIdx + 1]

HasWriter(w) == userData[w] # 0

Without(id) == {h \in registry : h.id # id}

(* Value and Delete panic on a number that is not in the registry.          *)
PanicIfMissing(id) ==
    panicked' = (panicked \/ \A h \in registry : h.id # id)

(* outputCallback: the engine prints a line for w.                          *)
Callback(w) ==
    /\ PanicIfMissing(userData[w])
    /\ misdirected' = (misdirected
            \/ \E h \in registry : h.id = userData[w] /\ h.writer # w)

-----------------------------------------------------------------------------
(* Allocation: newOutputFn, the engine's constructor, the cleanups.         *)

(* The goroutines in an operation on w.                                     *)
Using(w) == {g \in Goroutines : op[g] \in [kind : Kinds, w : {w}]}

Fresh(w) == native[w] = "none" /\ userData[w] = 0 /\ Using(w) = {}

Allocate(g, w) ==
    /\ op[g] = Idle
    /\ Fresh(w)
    /\ Now(g, "allocate", w)
    /\ \/ NewHandle(w)
       \/ UNCHANGED <<registry, handleIdx, userData>>  \* no writer
    /\ UNCHANGED <<native, frees, raw, refs, cleanups, queue, panicked, misdirected>>

Construct(g, w) ==
    /\ Is(g, "allocate", w)
    /\ \/ /\ native' = [native EXCEPT ![w] = "live"]
          /\ raw' = [raw EXCEPT ![w] = TRUE]
          /\ Now(g, "allocated", w)
       \/ Now(g, "failed", w) /\ UNCHANGED <<native, raw>>
    /\ UNCHANGED <<frees, refs, cleanups, queue, registry, handleIdx, userData,
                   panicked, misdirected>>

(* allocateInto's cleanup and that of freeOutputFn, while the wrapper is    *)
(* still in the allocating goroutine's variables.                           *)
AttachCleanups(g, w) ==
    /\ Is(g, "allocated", w)
    /\ cleanups' = [cleanups EXCEPT ![w] =
            {"free"} \cup (IF HasWriter(w) THEN {"delete"} ELSE {})]
    /\ refs' = [refs EXCEPT ![w] = {g}]
    /\ Done(g)
    /\ UNCHANGED <<native, frees, raw, queue, registry, handleIdx, userData,
                   panicked, misdirected>>

(* The handle is kept although nothing will delete it: a faulty variant of  *)
(* AfterFailure.                                                            *)
KeptAfterFailure(w) == registry

(* freeOutputFn without an object: nobody will collect it.                  *)
AfterFailure(w) == Without(userData[w])

AllocationFailed(g, w) ==
    /\ Is(g, "failed", w)
    /\ registry' = AfterFailure(w)
    /\ IF HasWriter(w) THEN PanicIfMissing(userData[w]) ELSE UNCHANGED panicked
    /\ Done(g)
    /\ UNCHANGED <<native, frees, raw, refs, cleanups, queue, handleIdx, userData,
                   misdirected>>

-----------------------------------------------------------------------------
(* Use.                                                                     *)

(* The wrapper is handed to another goroutine.                              *)
Share(g, h, w) ==
    /\ g \in refs[w] /\ op[g] = Idle
    /\ h \notin refs[w]
    /\ refs' = [refs EXCEPT ![w] = @ \cup {h}]
    /\ UNCHANGED <<native, frees, raw, op, cleanups, queue, registry, handleIdx,
                   userData, panicked, misdirected>>

Forget(g, w) ==
    /\ g \in refs[w] /\ op[g] = Idle
    /\ refs' = [refs EXCEPT ![w] = @ \ {g}]
    /\ UNCHANGED <<native, frees, raw, op, cleanups, queue, registry, handleIdx,
                   userData, panicked, misdirected>>

(* The goroutine's variable is dead from its last use on, which may be the  *)
(* loading of the raw handle for this call.                                 *)
LastUse(g, w) ==
    \/ UNCHANGED refs
    \/ refs' = [refs EXCEPT ![w] = @ \ {g}]

(* A method loads the raw handle and calls the engine...  A handle that was *)
(* freed is zero, which the engine refuses.                                 *)
Call(g, w) ==
    /\ op[g] = Idle
    /\ g \in refs[w]
    /\ raw[w]
    /\ Now(g, "call", w)
    /\ LastUse(g, w)
    /\ UNCHANGED <<native, frees, raw, cleanups, queue, registry, handleIdx,
                   userData, panicked, misdirected>>

(* ... which may print...                                                   *)
Output(g, w) ==
    /\ \/ Is(g, "call", w)
       \/ Is(g, "free", w)
    /\ HasWriter(w)
    /\ Callback(w)
    /\ UNCHANGED <<native, frees, raw, refs, op, cleanups, queue, registry,
                   handleIdx, userData>>

(* ... and then returns, maybe with a view of a string in the object.  In   *)
(* either case a KeepAlive uses the wrapper afterwards.                     *)
Return(g, w) ==
    /\ Is(g, "call", w)
    /\ Done(g) \/ Now(g, "view", w)
    /\ UNCHANGED <<native, frees, raw, refs, cleanups, queue, registry, handleIdx,
                   userData, panicked, misdirected>>

(* The string is copied, and the second KeepAlive is reached.               *)
CopyView(g, w) ==
    /\ Is(g, "view", w)
    /\ Done(g)
    /\ UNCHANGED <<native, frees, raw, refs, cleanups, queue, registry, handleIdx,
                   userData, panicked, misdirected>>

(* Free by the only goroutine that uses the wrapper: the documentation of   *)
(* libhegel.go makes the caller its owner.                                  *)
Sole(g, w) ==
    refs[w] \cup Using(w) \subseteq {g}

(* The cleanup is not stopped: a faulty variant of Stopped.                 *)
NotStopped(w) == cleanups[w]

(* cleanup.Stop; the cleanup of the output handle is another one.           *)
Stopped(w) == cleanups[w] \ {"free"}

FreeBegin(g, w) ==
    /\ op[g] = Idle
    /\ g \in refs[w] /\ Sole(g, w)
    /\ raw[w]
    /\ cleanups' = [cleanups EXCEPT ![w] = Stopped(w)]
    /\ Now(g, "clear", w)
    /\ LastUse(g, w)
    /\ UNCHANGED <<native, frees, raw, queue, registry, handleIdx, userData,
                   panicked, misdirected>>

(* p.raw stays: a faulty variant of Cleared.                                *)
NotCleared == TRUE
Cleared == FALSE

FreeClear(g, w) ==
    /\ Is(g, "clear", w)
    /\ raw' = [raw EXCEPT ![w] = Cleared]
    /\ Now(g, "free", w)
    /\ UNCHANGED <<native, frees, refs, cleanups, queue, registry, handleIdx,
                   userData, panicked, misdirected>>

(* The engine's free function.                                              *)
NativeFree(w) ==
    /\ native' = [native EXCEPT ![w] = "freed"]
    /\ frees' = [frees EXCEPT ![w] = IF @ < 2 THEN @ + 1 ELSE @]

FreeEnd(g, w) ==
    /\ Is(g, "free", w)
    /\ NativeFree(w)
    /\ Done(g)
    /\ UNCHANGED <<raw, refs, cleanups, queue, registry, handleIdx, userData,
                   panicked, misdirected>>

-----------------------------------------------------------------------------
(* The collector.                                                           *)

(* Only variables keep a wrapper: a faulty variant of Reachable.            *)
ReachableByVariable(w) == refs[w] # {}

(* By a variable, or by a method that has not reached its KeepAlive.        *)
Reachable(w) == refs[w] \cup Using(w) # {}

Collect(w) ==
    /\ cleanups[w] # {}
    /\ ~Reachable(w)
    /\ queue' = queue \cup {[what |-> c, w |-> w] : c \in cleanups[w]}
    /\ cleanups' = [cleanups EXCEPT ![w] = {}]
    /\ UNCHANGED <<native, frees, raw, refs, op, registry, handleIdx, userData,
                   panicked, misdirected>>

(* Handle.Delete, which is only given the number.                           *)
CleanupDelete(w) ==
    /\ [what |-> "delete", w |-> w] \in queue
    /\ queue' = queue \ {[what |-> "delete", w |-> w]}
    /\ registry' = Without(userData[w])
    /\ PanicIfMissing(userData[w])
    /\ UNCHANGED <<native, frees, raw, refs, op, cleanups, handleIdx, userData,
                   misdirected>>

CleanupFree(w) ==
    /\ [what |-> "free", w |-> w] \in queue
    /\ queue' = queue \ {[what |-> "free", w |-> w]}
    /\ NativeFree(w)
    /\ UNCHANGED <<raw, refs, op, cleanups, registry, handleIdx, userData,
                   panicked, misdirected>>

-----------------------------------------------------------------------------
Allocation(g, w) ==
    Construct(g, w) \/ AttachCleanups(g, w) \/ AllocationFailed(g, w)
Freeing(g, w) == FreeClear(g, w) \/ FreeEnd(g, w)
Cleaning(w) == Collect(w) \/ CleanupDelete(w) \/ CleanupFree(w)

(* The program may end, or go on with other wrappers.                       *)
Stutter == UNCHANGED vars

Next ==
    \/ \E g \in Goroutines, w \in Wrappers :
        \/ Allocate(g, w) \/ Allocation(g, w)
        \/ \E h \in Goroutines : Share(g, h, w)
        \/ Forget(g, w)
        \/ Call(g, w) \/ Output(g, w) \/ Return(g, w) \/ CopyView(g, w)
        \/ FreeBegin(g, w) \/ Freeing(g, w)
    \/ \E w \in Wrappers : Cleaning(w)
    \/ Stutter

(* Calls of the engine return, and the collector and its cleanups run.      *)
Fairness ==
    /\ \A g \in Goroutines, w \in Wrappers :
        WF_vars(Allocation(g, w)) /\ WF_vars(Return(g, w)) /\ WF_vars(CopyView(g, w))
        /\ WF_vars(Freeing(g, w))
    /\ \A w \in Wrappers :
        WF_vars(Collect(w)) /\ WF_vars(CleanupDelete(w)) /\ WF_vars(CleanupFree(w))

Spec == Init /\ [][Next]_vars /\ Fairness

-----------------------------------------------------------------------------
(* Properties.                                                              *)

TypeOK ==
    /\ native \in [Wrappers -> {"none", "live", "freed"}]
    /\ frees \in [Wrappers -> 0..2]
    /\ raw \in [Wrappers -> BOOLEAN]
    /\ refs \in [Wrappers -> SUBSET Goroutines]
    /\ op \in [Goroutines -> {Idle} \cup [kind : Kinds, w : Wrappers]]
    /\ cleanups \in [Wrappers -> SUBSET {"free", "delete"}]
    /\ queue \subseteq [what : {"free", "delete"}, w : Wrappers]
    /\ registry \subseteq [id : Nat, writer : Wrappers]
    /\ handleIdx \in Nat
    /\ userData \in [Wrappers -> Nat]
    /\ panicked \in BOOLEAN
    /\ misdirected \in BOOLEAN

(* The engine is never given a raw handle whose object is freed, and Go     *)
(* never reads a string that the engine kept in a freed object, however     *)
(* the collector, Free and calls by other goroutines interleave: the rule   *)
(* that TestNativeCallsKeepHandleOwnersAlive enforces on the source.        *)
NoUseAfterFree ==
    \A g \in Goroutines, w \in Wrappers :
        Is(g, "call", w) \/ Is(g, "view", w) \/ Is(g, "free", w)
            => native[w] = "live"

(* "It is safe to call Free more than once", and Free "cancels its          *)
(* automatic cleanup": by the one or the other, an object is freed once.    *)
FreedOnce == \A w \in Wrappers : frees[w] <= 1

(* A line the engine prints during a call of Go reaches the writer that its *)
(* object was allocated with; no number is looked up or deleted after it    *)
(* was deleted.                                                             *)
OutputReachesWriter == ~panicked /\ ~misdirected

(* Nothing leaks: a wrapper nobody uses any more is freed in the end, and   *)
(* its handle deleted, also when the allocation failed.                     *)
Released(w) ==
    native[w] # "live" /\ \A h \in registry : h.id # userData[w]

NothingLeaks ==
    \A w \in Wrappers :
        (userData[w] # 0 \/ native[w] = "live") /\ ~Reachable(w) ~> Released(w)
=============================================================================
