------------------------ MODULE NativeHandlesProofs ------------------------
(***************************************************************************)
(* Proofs about NativeHandles, for any wrappers and any goroutines: no     *)
(* native object is used after it is freed or freed twice, and what the    *)
(* engine prints reaches the writer of the object that it prints for.      *)
(***************************************************************************)
EXTENDS NativeHandles, TLAPS

Making(g, w) == Is(g, "allocate", w) \/ Is(g, "allocated", w) \/ Is(g, "failed", w)
InCall(g, w) == Is(g, "call", w) \/ Is(g, "view", w)
InFree(g, w) == Is(g, "clear", w) \/ Is(g, "free", w)
Queued(what, w) == [what |-> what, w |-> w] \in queue
Handle(w) == [id |-> userData[w], writer |-> w]

(* Nothing but the goroutine that allocates it knows the wrapper.           *)
Unknown(w) ==
    refs[w] = {} /\ cleanups[w] = {} /\ ~Queued("free", w) /\ ~Queued("delete", w)

(* Where the one free of a wrapper's object can come from, at each stage of *)
(* the wrapper's life.                                                      *)
FreesCounted(w) == frees[w] = IF native[w] = "freed" THEN 1 ELSE 0

NoneIsUnknown(w) ==
    native[w] = "none" =>
        /\ Unknown(w) /\ ~raw[w]
        /\ \A g \in Using(w) : Is(g, "allocate", w) \/ Is(g, "failed", w)

(* Allocation and Free have the wrapper for themselves.                     *)
MakersAlone(w) ==
    \A g \in Goroutines : Making(g, w) =>
        /\ Using(w) = {g} /\ Unknown(w)
        /\ native[w] = IF Is(g, "allocated", w) THEN "live" ELSE "none"

FreersAlone(w) ==
    \A g \in Goroutines : InFree(g, w) =>
        /\ Using(w) = {g} /\ refs[w] \subseteq {g}
        /\ native[w] = "live" /\ (raw[w] <=> Is(g, "clear", w))
        /\ "free" \notin cleanups[w] /\ ~Queued("free", w)

CallsKeepAttached(w) ==
    \A g \in Goroutines : InCall(g, w) => "free" \in cleanups[w]

HandleIsAttached(w) ==
    raw[w] /\ refs[w] # {} =>
        "free" \in cleanups[w] \/ \E g \in Goroutines : Is(g, "clear", w)

CleanedIsLive(w) ==
    "free" \in cleanups[w] \/ Queued("free", w) => native[w] = "live"

QueuedIsUnreachable(w) ==
    Queued("free", w) \/ Queued("delete", w) =>
        refs[w] = {} /\ Using(w) = {} /\ cleanups[w] = {}

(* The number of a wrapper's writer stays in the registry until a cleanup   *)
(* deletes it, which waits until nobody can reach the wrapper.              *)
DeletedOnce(w) ==
    "delete" \in cleanups[w] \/ Queued("delete", w) =>
        HasWriter(w) /\ Handle(w) \in registry

WriterIsKept(w) ==
    HasWriter(w) => \A g \in Goroutines :
        /\ Making(g, w) => Handle(w) \in registry
        /\ g \in refs[w] \/ InCall(g, w) \/ InFree(g, w) => "delete" \in cleanups[w]

Sound(w) ==
    /\ FreesCounted(w)
    /\ NoneIsUnknown(w)
    /\ MakersAlone(w)
    /\ FreersAlone(w)
    /\ CallsKeepAttached(w)
    /\ HandleIsAttached(w)
    /\ CleanedIsLive(w)
    /\ QueuedIsUnreachable(w)
    /\ DeletedOnce(w)
    /\ WriterIsKept(w)

(* Each number was given to one wrapper.                                    *)
NumbersUnique ==
    /\ \A w \in Wrappers : userData[w] <= handleIdx
    /\ \A v, w \in Wrappers : userData[v] = userData[w] /\ userData[v] # 0 => v = w
    /\ \A h \in registry : h.id # 0 /\ h = Handle(h.writer)

IInv ==
    /\ TypeOK
    /\ NumbersUnique
    /\ \A w \in Wrappers : Sound(w)
    /\ OutputReachesWriter

-----------------------------------------------------------------------------
(* What a goroutine does.                                                   *)

LEMMA Operations ==
    ASSUME NEW w
    PROVE  \A r : r \in [kind : Kinds, w : {w}] <=> \E k \in Kinds : r = Doing(k, w)
<1>1. \A r \in [kind : Kinds, w : {w}] : r = Doing(r.kind, w) /\ r.kind \in Kinds
  BY DEF Doing
<1>2. \A k \in Kinds : Doing(k, w) \in [kind : Kinds, w : {w}]
  BY DEF Doing
<1> QED BY <1>1, <1>2

LEMMA NotIdle ==
    \A k \in Kinds : \A w : Doing(k, w) # Idle
<1> SUFFICES ASSUME NEW k \in Kinds, NEW w, Doing(k, w) = Idle
             PROVE  FALSE
  OBVIOUS
<1>1. Doing(k, w).kind = k /\ Idle.kind = "idle"
  BY DEF Doing, Idle
<1> QED BY <1>1 DEF Kinds

LEMMA OneOperation ==
    ASSUME NEW g \in Goroutines, NEW w
    PROVE  /\ \A j, k, v : Is(g, j, v) /\ Is(g, k, w) => j = k /\ v = w
           /\ \A k \in Kinds : Is(g, k, w) => op[g] # Idle
           /\ g \in Using(w) <=> \E k \in Kinds : Is(g, k, w)
<1>1. \A j, k, v : Is(g, j, v) /\ Is(g, k, w) => j = k /\ v = w
  <2>1. \A j, k, v : Doing(j, v) = Doing(k, w) => j = k /\ v = w
    BY DEF Doing
  <2> QED BY <2>1 DEF Is
<1>2. \A k \in Kinds : Is(g, k, w) => op[g] # Idle
  BY NotIdle DEF Is
<1>3. g \in Using(w) <=> \E k \in Kinds : Is(g, k, w)
  BY Operations DEF Using, Is
<1> QED BY <1>1, <1>2, <1>3

-----------------------------------------------------------------------------
(* A step leaves the wrappers alone that it is not about.                   *)
SameOperations(v) ==
    \A h \in Goroutines, k \in Kinds : Is(h, k, v)' <=> Is(h, k, v)

Same(v) ==
    /\ native'[v] = native[v] /\ frees'[v] = frees[v] /\ raw'[v] = raw[v]
    /\ refs'[v] = refs[v] /\ cleanups'[v] = cleanups[v]
    /\ userData'[v] = userData[v]
    /\ \A what \in {"free", "delete"} : Queued(what, v)' <=> Queued(what, v)
    /\ Handle(v) \in registry => Handle(v) \in registry'
    /\ SameOperations(v)

LEMMA UsingIs ==
    ASSUME NEW v
    PROVE  /\ Using(v) = {h \in Goroutines : \E k \in Kinds : Is(h, k, v)}
           /\ Using(v)' = {h \in Goroutines : \E k \in Kinds : Is(h, k, v)'}
BY Operations DEF Using, Is

LEMMA SameUsing ==
    ASSUME NEW v, SameOperations(v)
    PROVE  Using(v)' = Using(v)
BY UsingIs DEF SameOperations

(* An operation on w begins or goes on...                                   *)
LEMMA Goes ==
    ASSUME TypeOK, NEW g \in Goroutines, NEW k \in Kinds, NEW w,
           op[g] = Idle \/ g \in Using(w), Now(g, k, w)
    PROVE  /\ \A h \in Goroutines, j \in Kinds :
                  Is(h, j, w)' <=> IF h = g THEN j = k ELSE Is(h, j, w)
           /\ Using(w)' = Using(w) \cup {g}
           /\ \A v : v # w => SameOperations(v)
<1>1. \A j, v : Doing(j, v) = Doing(k, w) <=> j = k /\ v = w
  BY DEF Doing
<1>2. \A h \in Goroutines : op'[h] = IF h = g THEN Doing(k, w) ELSE op[h]
  BY DEF Now, TypeOK
<1>3. \A h \in Goroutines : \A j, v :
          Is(h, j, v)' <=> IF h = g THEN j = k /\ v = w ELSE Is(h, j, v)
  BY <1>1, <1>2 DEF Is
<1>4. Using(w)' = Using(w) \cup {g}
  BY <1>3, UsingIs
<1>5. ASSUME NEW v, v # w
      PROVE  SameOperations(v)
  <2>1. \A j \in Kinds : ~Is(g, j, v)
    BY <1>5, OneOperation
  <2> QED BY <1>3, <1>5, <2>1 DEF SameOperations
<1> QED BY <1>3, <1>4, <1>5

(* ... or ends.                                                             *)
LEMMA Stops ==
    ASSUME TypeOK, NEW g \in Goroutines, NEW w, g \in Using(w), Done(g)
    PROVE  /\ \A h \in Goroutines, j \in Kinds : Is(h, j, w)' <=> h # g /\ Is(h, j, w)
           /\ Using(w)' = Using(w) \ {g}
           /\ \A v : v # w => SameOperations(v)
<1>1. \A h \in Goroutines : op'[h] = IF h = g THEN Idle ELSE op[h]
  BY DEF Done, TypeOK
<1>2. \A h \in Goroutines, j \in Kinds : \A v : Is(h, j, v)' <=> h # g /\ Is(h, j, v)
  BY <1>1, NotIdle DEF Is
<1>3. Using(w)' = Using(w) \ {g}
  BY <1>2, UsingIs
<1>4. ASSUME NEW v, v # w
      PROVE  SameOperations(v)
  <2>1. \A j \in Kinds : ~Is(g, j, v)
    BY <1>4, OneOperation
  <2> QED BY <1>2, <1>4, <2>1 DEF SameOperations
<1> QED BY <1>2, <1>3, <1>4

LEMMA Elsewhere ==
    ASSUME IInv, NEW v \in Wrappers, Same(v)
    PROVE  Sound(v)'
<1>1. Sound(v) /\ Using(v)' = Using(v)
  BY SameUsing DEF IInv, Same
<1>2. \A h \in Goroutines :
        /\ Making(h, v)' <=> Making(h, v)
        /\ InCall(h, v)' <=> InCall(h, v)
        /\ InFree(h, v)' <=> InFree(h, v)
        /\ \A k \in Kinds : Is(h, k, v)' <=> Is(h, k, v)
  BY DEF Same, SameOperations, Making, InCall, InFree, Kinds
<1>3. Unknown(v)' <=> Unknown(v)
  BY DEF Same, Unknown
<1>4. HasWriter(v)' <=> HasWriter(v)
  BY DEF Same, HasWriter
<1>5. Handle(v)' = Handle(v)
  BY DEF Same, Handle
<1>6. FreesCounted(v)'
  BY <1>1 DEF Same, Sound, FreesCounted
<1>7. NoneIsUnknown(v)'
  BY <1>1, <1>2, <1>3 DEF Same, Sound, NoneIsUnknown, Kinds, Using
<1>8. MakersAlone(v)'
  BY <1>1, <1>2, <1>3 DEF Same, Sound, MakersAlone, Kinds
<1>9. FreersAlone(v)'
  BY <1>1, <1>2, <1>3 DEF Same, Sound, FreersAlone, Kinds
<1>10. CallsKeepAttached(v)'
  BY <1>1, <1>2 DEF Same, Sound, CallsKeepAttached
<1>11. HandleIsAttached(v)'
  BY <1>1, <1>2 DEF Same, Sound, HandleIsAttached, Kinds
<1>12. CleanedIsLive(v)'
  BY <1>1 DEF Same, Sound, CleanedIsLive
<1>13. QueuedIsUnreachable(v)'
  BY <1>1 DEF Same, Sound, QueuedIsUnreachable
<1>14. DeletedOnce(v)'
  BY <1>1, <1>4, <1>5 DEF Same, Sound, DeletedOnce
<1>15. WriterIsKept(v)'
  BY <1>1, <1>2, <1>4, <1>5 DEF Same, Sound, WriterIsKept
<1> QED
  BY <1>6, <1>7, <1>8, <1>9, <1>10, <1>11, <1>12, <1>13, <1>14, <1>15 DEF Sound

-----------------------------------------------------------------------------
(* What an action on one wrapper leaves alone.                              *)
LEMMA TypePreserved ==
    ASSUME TypeOK, [Next]_vars
    PROVE  TypeOK'
<1>1. \A k \in Kinds, w \in Wrappers : Doing(k, w) \in [kind : Kinds, w : Wrappers]
  BY DEF Doing
<1>2. \A g \in Goroutines, k \in Kinds, w \in Wrappers :
          Now(g, k, w) \/ Done(g)
              => op' \in [Goroutines -> {Idle} \cup [kind : Kinds, w : Wrappers]]
  BY <1>1 DEF Now, Done, TypeOK
<1>3. \A w \in Wrappers : NativeFree(w) =>
          native' \in [Wrappers -> {"none", "live", "freed"}] /\ frees' \in [Wrappers -> 0..2]
  <2> SUFFICES ASSUME NEW w \in Wrappers, NativeFree(w)
               PROVE  /\ native' \in [Wrappers -> {"none", "live", "freed"}]
                      /\ frees' \in [Wrappers -> 0..2]
    OBVIOUS
  <2>1. (IF frees[w] < 2 THEN frees[w] + 1 ELSE frees[w]) \in 0..2
    BY DEF TypeOK
  <2> QED BY <2>1 DEF NativeFree, TypeOK
<1> USE DEF TypeOK
<1>4. ASSUME NEW g \in Goroutines, NEW w \in Wrappers, Allocate(g, w)
      PROVE  TypeOK'
  <2>1. "allocate" \in Kinds
    BY DEF Kinds
  <2> QED BY <1>2, <1>4, <2>1 DEF Allocate, NewHandle
<1>5. ASSUME NEW g \in Goroutines, NEW w \in Wrappers, Construct(g, w)
      PROVE  TypeOK'
  <2>1. {"allocated", "failed"} \subseteq Kinds
    BY DEF Kinds
  <2> QED BY <1>2, <1>5, <2>1 DEF Construct
<1>6. ASSUME NEW g \in Goroutines, NEW w \in Wrappers, AttachCleanups(g, w)
      PROVE  TypeOK'
  BY <1>2, <1>6 DEF AttachCleanups, Kinds
<1>7. ASSUME NEW g \in Goroutines, NEW w \in Wrappers, AllocationFailed(g, w)
      PROVE  TypeOK'
  BY <1>2, <1>7 DEF AllocationFailed, AfterFailure, Without, PanicIfMissing, Kinds
<1>8. ASSUME NEW g \in Goroutines, NEW w \in Wrappers,
             \/ \E h \in Goroutines : Share(g, h, w)
             \/ Forget(g, w)
      PROVE  TypeOK'
  BY <1>8 DEF Share, Forget
<1>9. ASSUME NEW g \in Goroutines, NEW w \in Wrappers, Call(g, w)
      PROVE  TypeOK'
  BY <1>2, <1>9 DEF Call, LastUse, Kinds
<1>10. ASSUME NEW g \in Goroutines, NEW w \in Wrappers, Output(g, w)
      PROVE  TypeOK'
  BY <1>10 DEF Output, Callback, PanicIfMissing
<1>11. ASSUME NEW g \in Goroutines, NEW w \in Wrappers, Return(g, w) \/ CopyView(g, w)
       PROVE  TypeOK'
  BY <1>2, <1>11 DEF Return, CopyView, Kinds
<1>12. ASSUME NEW g \in Goroutines, NEW w \in Wrappers, FreeBegin(g, w)
       PROVE  TypeOK'
  BY <1>2, <1>12 DEF FreeBegin, LastUse, Stopped, Kinds
<1>13. ASSUME NEW g \in Goroutines, NEW w \in Wrappers, Freeing(g, w)
       PROVE  TypeOK'
  BY <1>2, <1>3, <1>13 DEF Freeing, FreeClear, FreeEnd, Cleared, Kinds
<1>14. ASSUME NEW w \in Wrappers, Collect(w)
       PROVE  TypeOK'
  BY <1>14 DEF Collect
<1>15. ASSUME NEW w \in Wrappers, CleanupDelete(w) \/ CleanupFree(w)
       PROVE  TypeOK'
  BY <1>3, <1>15 DEF CleanupDelete, CleanupFree, Without, PanicIfMissing
<1>16. CASE UNCHANGED vars
  BY <1>16 DEF vars
<1> QED
  BY <1>4, <1>5, <1>6, <1>7, <1>8, <1>9, <1>10, <1>11, <1>12, <1>13, <1>14, <1>15, <1>16
     DEF Next, Allocation, Cleaning, Stutter

LEMMA NumbersPreserved ==
    ASSUME IInv, TypeOK', [Next]_vars
    PROVE  NumbersUnique'
<1>1. ASSUME registry' \subseteq registry, UNCHANGED <<userData, handleIdx>>
      PROVE  NumbersUnique'
  <2>1. \A w : Handle(w)' = Handle(w)
    BY <1>1 DEF Handle
  <2> QED BY <1>1, <2>1 DEF IInv, NumbersUnique
<1>2. ASSUME NEW w \in Wrappers, Fresh(w), NewHandle(w)
      PROVE  NumbersUnique'
  <2>1. /\ userData[w] = 0 /\ handleIdx \in Nat /\ handleIdx' = handleIdx + 1
        /\ \A v \in Wrappers :
              /\ userData[v] \in Nat /\ userData[v] <= handleIdx
              /\ userData'[v] = IF v = w THEN handleIdx + 1 ELSE userData[v]
    BY <1>2 DEF Fresh, NewHandle, IInv, TypeOK, NumbersUnique
  <2>2. \A v \in Wrappers : userData'[v] <= handleIdx'
    BY <2>1
  <2>3. \A u, v \in Wrappers : userData'[u] = userData'[v] /\ userData'[u] # 0 => u = v
    BY <2>1 DEF IInv, NumbersUnique
  <2>4. ASSUME NEW h \in registry'
        PROVE  h.id # 0 /\ h = Handle(h.writer)'
    <3>1. CASE h \in registry
      <4>1. h.id # 0 /\ h = Handle(h.writer) /\ h.writer \in Wrappers
        BY <3>1 DEF IInv, NumbersUnique, TypeOK
      <4>2. h.writer # w
        BY <2>1, <4>1 DEF Handle
      <4> QED BY <2>1, <4>1, <4>2 DEF Handle
    <3>2. CASE h = [id |-> handleIdx + 1, writer |-> w]
      BY <2>1, <3>2 DEF Handle
    <3> QED BY <1>2, <3>1, <3>2 DEF NewHandle
  <2> QED BY <2>2, <2>3, <2>4 DEF NumbersUnique
<1> USE <1>1, <1>2
<1>3. ASSUME NEW g \in Goroutines, NEW w \in Wrappers,
             Allocate(g, w) \/ AllocationFailed(g, w)
      PROVE  NumbersUnique'
  BY <1>3 DEF Allocate, AllocationFailed, AfterFailure, Without
<1>4. ASSUME NEW g \in Goroutines, NEW w \in Wrappers,
             \/ Construct(g, w) \/ AttachCleanups(g, w)
             \/ \E h \in Goroutines : Share(g, h, w)
             \/ Forget(g, w) \/ Call(g, w) \/ Output(g, w) \/ Return(g, w)
             \/ CopyView(g, w) \/ FreeBegin(g, w) \/ Freeing(g, w)
      PROVE  NumbersUnique'
  BY <1>4 DEF Construct, AttachCleanups, Share, Forget, Call, Output, Return,
              CopyView, FreeBegin, Freeing, FreeClear, FreeEnd
<1>5. ASSUME NEW w \in Wrappers, Cleaning(w)
      PROVE  NumbersUnique'
  BY <1>5 DEF Cleaning, Collect, CleanupDelete, CleanupFree, Without
<1>6. CASE UNCHANGED vars
  BY <1>6 DEF vars
<1> QED BY <1>3, <1>4, <1>5, <1>6 DEF Next, Allocation, Stutter

LEMMA OutputPreserved ==
    ASSUME IInv, [Next]_vars
    PROVE  OutputReachesWriter'
<1> USE DEF OutputReachesWriter
<1>1. ~panicked /\ ~misdirected
  BY DEF IInv
<1>2. ASSUME NEW w \in Wrappers, Handle(w) \in registry, PanicIfMissing(userData[w])
      PROVE  ~panicked'
  BY <1>1, <1>2 DEF PanicIfMissing, Handle
<1>3. ASSUME NEW g \in Goroutines, NEW w \in Wrappers, AllocationFailed(g, w)
      PROVE  OutputReachesWriter'
  <2>1. HasWriter(w) => Handle(w) \in registry
    BY <1>3 DEF AllocationFailed, IInv, Sound, WriterIsKept, Making
  <2> QED BY <1>1, <1>2, <1>3, <2>1 DEF AllocationFailed
<1>4. ASSUME NEW g \in Goroutines, NEW w \in Wrappers, Output(g, w)
      PROVE  OutputReachesWriter'
  <2>1. HasWriter(w) /\ Handle(w) \in registry
    BY <1>4 DEF Output, IInv, Sound, WriterIsKept, DeletedOnce, InCall, InFree
  <2>2. ASSUME NEW h \in registry, h.id = userData[w]
        PROVE  h.writer = w
    BY <2>1, <2>2 DEF IInv, TypeOK, NumbersUnique, HasWriter, Handle
  <2> QED BY <1>1, <1>2, <1>4, <2>1, <2>2 DEF Output, Callback
<1>5. ASSUME NEW w \in Wrappers, CleanupDelete(w)
      PROVE  OutputReachesWriter'
  <2>1. Handle(w) \in registry
    BY <1>5 DEF CleanupDelete, Queued, IInv, Sound, DeletedOnce
  <2> QED BY <1>1, <1>2, <1>5, <2>1 DEF CleanupDelete
<1>6. ASSUME NEW g \in Goroutines, NEW w \in Wrappers,
             \/ Allocate(g, w) \/ Construct(g, w) \/ AttachCleanups(g, w)
             \/ \E h \in Goroutines : Share(g, h, w)
             \/ Forget(g, w) \/ Call(g, w) \/ Return(g, w)
             \/ CopyView(g, w) \/ FreeBegin(g, w) \/ Freeing(g, w)
      PROVE  OutputReachesWriter'
  BY <1>1, <1>6 DEF Allocate, Construct, AttachCleanups, Share, Forget, Call, Return,
              CopyView, FreeBegin, Freeing, FreeClear, FreeEnd
<1>7. ASSUME NEW w \in Wrappers, Collect(w) \/ CleanupFree(w)
      PROVE  OutputReachesWriter'
  BY <1>1, <1>7 DEF Collect, CleanupFree
<1>8. CASE UNCHANGED vars
  BY <1>1, <1>8 DEF vars
<1> QED
  BY <1>3, <1>4, <1>5, <1>6, <1>7, <1>8 DEF Next, Allocation, Cleaning, Stutter

-----------------------------------------------------------------------------
(* Each action preserves the life of its wrapper.                           *)
LEMMA AllocateSound ==
    ASSUME IInv, NEW g \in Goroutines, NEW w \in Wrappers, Allocate(g, w)
    PROVE  \A v \in Wrappers : Sound(v)'
<1>1. /\ \A h \in Goroutines, j \in Kinds :
            Is(h, j, w)' <=> IF h = g THEN j = "allocate" ELSE Is(h, j, w)
      /\ Using(w)' = Using(w) \cup {g}
      /\ \A v : v # w => SameOperations(v)
  BY Goes DEF Allocate, Kinds, IInv
<1>2. ASSUME NEW v \in Wrappers, v # w
      PROVE  Sound(v)'
  <2>1. Same(v)
    BY <1>1, <1>2 DEF Allocate, NewHandle, Same, Queued, Handle, IInv, TypeOK
  <2> QED BY <2>1, Elsewhere
<1>3. Sound(w)'
  <2>1. /\ native[w] = "none" /\ Using(w) = {} /\ Unknown(w) /\ ~raw[w]
        /\ frees[w] = 0
    BY <1>1 DEF Allocate, Fresh, IInv, Sound, NoneIsUnknown, FreesCounted
  <2>2. Unknown(w)'
    BY <2>1 DEF Allocate, Unknown, Queued
  <2>3. Using(w)' = {g} /\ Is(g, "allocate", w)'
    BY <1>1, <2>1 DEF Kinds
  <2>4. \A h \in Goroutines :
          /\ Making(h, w)' <=> h = g
          /\ ~InCall(h, w)' /\ ~InFree(h, w)' /\ ~Is(h, "allocated", w)'
    BY <1>1, <2>1, UsingIs DEF Making, InCall, InFree, Kinds
  <2>5. HasWriter(w)' => Handle(w)' \in registry'
    BY DEF Allocate, NewHandle, HasWriter, Handle, Fresh, IInv, TypeOK
  <2> QED
    BY <2>1, <2>2, <2>3, <2>4, <2>5
       DEF Allocate, Sound, Unknown, FreesCounted, NoneIsUnknown, MakersAlone,
           FreersAlone, CallsKeepAttached, HandleIsAttached, CleanedIsLive,
           QueuedIsUnreachable, DeletedOnce, WriterIsKept
<1> QED BY <1>2, <1>3

LEMMA ConstructSound ==
    ASSUME IInv, NEW g \in Goroutines, NEW w \in Wrappers, Construct(g, w)
    PROVE  \A v \in Wrappers : Sound(v)'
<1>1. Is(g, "allocate", w) /\ Making(g, w) /\ g \in Using(w)
  BY UsingIs DEF Construct, Making, Kinds
<1>2. PICK k \in {"allocated", "failed"} :
        /\ Now(g, k, w)
        /\ k = "allocated" => native' = [native EXCEPT ![w] = "live"]
                              /\ raw' = [raw EXCEPT ![w] = TRUE]
        /\ k = "failed" => UNCHANGED <<native, raw>>
  BY DEF Construct
<1>3. /\ \A h \in Goroutines, j \in Kinds :
            Is(h, j, w)' <=> IF h = g THEN j = k ELSE Is(h, j, w)
      /\ Using(w)' = Using(w) \cup {g}
      /\ \A v : v # w => SameOperations(v)
  BY <1>1, <1>2, Goes DEF Kinds, IInv
<1>4. ASSUME NEW v \in Wrappers, v # w
      PROVE  Sound(v)'
  <2>1. Same(v)
    BY <1>2, <1>3, <1>4 DEF Construct, Same, Queued, Handle, IInv, TypeOK
  <2> QED BY <2>1, Elsewhere
<1>5. Sound(w)'
  <2>1. /\ native[w] = "none" /\ Using(w) = {g} /\ Unknown(w) /\ ~raw[w]
        /\ frees[w] = 0 /\ (HasWriter(w) => Handle(w) \in registry)
    <3>1. ~Is(g, "allocated", w)
      BY <1>1, OneOperation
    <3> QED
      BY <1>1, <3>1
         DEF IInv, Sound, MakersAlone, NoneIsUnknown, FreesCounted, WriterIsKept
  <2>2. Unknown(w)' /\ (HasWriter(w)' => Handle(w)' \in registry')
    BY <2>1 DEF Construct, Unknown, Queued, HasWriter, Handle
  <2>3. Using(w)' = {g}
    BY <1>3, <2>1
  <2>4. \A h \in Goroutines :
          /\ Making(h, w)' <=> h = g
          /\ Is(h, "allocated", w)' <=> h = g /\ k = "allocated"
          /\ Is(h, "failed", w)' <=> h = g /\ k = "failed"
          /\ ~InCall(h, w)' /\ ~InFree(h, w)'
    BY <1>3, <2>1, UsingIs DEF Making, InCall, InFree, Kinds
  <2>5. /\ native'[w] = IF k = "allocated" THEN "live" ELSE "none"
        /\ raw'[w] <=> k = "allocated"
        /\ frees'[w] = 0
    BY <1>2, <2>1 DEF Construct, IInv, TypeOK
  <2> QED
    BY <2>2, <2>3, <2>4, <2>5
       DEF Sound, Unknown, FreesCounted, NoneIsUnknown, MakersAlone,
           FreersAlone, CallsKeepAttached, HandleIsAttached, CleanedIsLive,
           QueuedIsUnreachable, DeletedOnce, WriterIsKept
<1> QED BY <1>4, <1>5

LEMMA AttachSound ==
    ASSUME IInv, NEW g \in Goroutines, NEW w \in Wrappers, AttachCleanups(g, w)
    PROVE  \A v \in Wrappers : Sound(v)'
<1>1. Is(g, "allocated", w) /\ Making(g, w) /\ g \in Using(w)
  BY UsingIs DEF AttachCleanups, Making, Kinds
<1>2. /\ \A h \in Goroutines, j \in Kinds : Is(h, j, w)' <=> h # g /\ Is(h, j, w)
      /\ Using(w)' = Using(w) \ {g}
      /\ \A v : v # w => SameOperations(v)
  BY <1>1, Stops DEF AttachCleanups, IInv
<1>3. ASSUME NEW v \in Wrappers, v # w
      PROVE  Sound(v)'
  <2>1. Same(v)
    BY <1>2, <1>3 DEF AttachCleanups, Same, Queued, Handle, IInv, TypeOK
  <2> QED BY <2>1, Elsewhere
<1>4. Sound(w)'
  <2>1. /\ native[w] = "live" /\ Using(w) = {g} /\ Unknown(w)
        /\ frees[w] = 0 /\ (HasWriter(w) => Handle(w) \in registry)
    BY <1>1 DEF IInv, Sound, MakersAlone, FreesCounted, WriterIsKept
  <2>2. Using(w)' = {} /\ refs'[w] = {g} /\ native'[w] = "live" /\ frees'[w] = 0
    BY <1>2, <2>1 DEF AttachCleanups, IInv, TypeOK
  <2>3. /\ "free" \in cleanups'[w]
        /\ "delete" \in cleanups'[w] <=> HasWriter(w)'
        /\ ~Queued("free", w)' /\ ~Queued("delete", w)'
        /\ HasWriter(w)' => Handle(w)' \in registry'
    BY <2>1 DEF AttachCleanups, Unknown, Queued, HasWriter, Handle, IInv, TypeOK
  <2>4. \A h \in Goroutines : ~Making(h, w)' /\ ~InCall(h, w)' /\ ~InFree(h, w)'
    BY <2>2, UsingIs DEF Making, InCall, InFree, Kinds
  <2> QED
    BY <2>2, <2>3, <2>4
       DEF Sound, FreesCounted, NoneIsUnknown, MakersAlone,
           FreersAlone, CallsKeepAttached, HandleIsAttached, CleanedIsLive,
           QueuedIsUnreachable, DeletedOnce, WriterIsKept
<1> QED BY <1>3, <1>4

LEMMA FailedSound ==
    ASSUME IInv, NEW g \in Goroutines, NEW w \in Wrappers, AllocationFailed(g, w)
    PROVE  \A v \in Wrappers : Sound(v)'
<1>1. Is(g, "failed", w) /\ Making(g, w) /\ g \in Using(w)
  BY UsingIs DEF AllocationFailed, Making, Kinds
<1>2. /\ \A h \in Goroutines, j \in Kinds : Is(h, j, w)' <=> h # g /\ Is(h, j, w)
      /\ Using(w)' = Using(w) \ {g}
      /\ \A v : v # w => SameOperations(v)
  BY <1>1, Stops DEF AllocationFailed, IInv
<1>3. ASSUME NEW v \in Wrappers, v # w
      PROVE  Sound(v)'
  <2>1. Handle(v) \in registry => Handle(v) \in registry'
    BY <1>3 DEF AllocationFailed, AfterFailure, Without, Handle, IInv, TypeOK,
                NumbersUnique
  <2>2. Same(v)
    BY <1>2, <1>3, <2>1 DEF AllocationFailed, Same, Queued, IInv, TypeOK
  <2> QED BY <2>2, Elsewhere
<1>4. Sound(w)'
  <2>1. /\ native[w] = "none" /\ Using(w) = {g} /\ Unknown(w) /\ ~raw[w]
        /\ frees[w] = 0
    <3>1. ~Is(g, "allocated", w)
      BY <1>1, OneOperation
    <3> QED
      BY <1>1, <3>1 DEF IInv, Sound, MakersAlone, NoneIsUnknown, FreesCounted
  <2>2. /\ Using(w)' = {} /\ Unknown(w)'
        /\ native'[w] = "none" /\ ~raw'[w] /\ frees'[w] = 0
    BY <1>2, <2>1 DEF AllocationFailed, Unknown, Queued
  <2>3. \A h \in Goroutines : ~Making(h, w)' /\ ~InCall(h, w)' /\ ~InFree(h, w)'
    BY <2>2, UsingIs DEF Making, InCall, InFree, Kinds
  <2> QED
    BY <2>2, <2>3
       DEF Sound, Unknown, FreesCounted, NoneIsUnknown, MakersAlone,
           FreersAlone, CallsKeepAttached, HandleIsAttached, CleanedIsLive,
           QueuedIsUnreachable, DeletedOnce, WriterIsKept
<1> QED BY <1>3, <1>4

(* A goroutine that has a variable for the wrapper can give it away or lose *)
(* it: somebody else made it, and nobody is freeing it.                     *)
LEMMA ShareSound ==
    ASSUME IInv, NEW g \in Goroutines, NEW w \in Wrappers,
           \/ \E h \in Goroutines : Share(g, h, w)
           \/ Forget(g, w)
    PROVE  \A v \in Wrappers : Sound(v)'
<1>1. \A v : SameOperations(v) /\ Using(v)' = Using(v)
  BY UsingIs DEF Share, Forget, SameOperations, Is
<1>2. ASSUME NEW v \in Wrappers, v # w
      PROVE  Sound(v)'
  <2>1. Same(v)
    BY <1>1, <1>2 DEF Share, Forget, Same, Queued, Handle, IInv, TypeOK
  <2> QED BY <2>1, Elsewhere
<1>3. Sound(w)'
  <2>1. g \in refs[w] /\ op[g] = Idle /\ Sound(w)
    BY DEF Share, Forget, IInv
  <2>2. \A h \in Goroutines : ~Making(h, w) /\ ~InFree(h, w)
    <3>1. \A k \in Kinds : ~Is(g, k, w)
      BY <2>1, OneOperation
    <3>2. \A h \in Goroutines : ~InFree(h, w)
      BY <2>1, <3>1 DEF Sound, FreersAlone, InFree, Kinds
    <3>3. \A h \in Goroutines : ~Making(h, w)
      BY <2>1 DEF Sound, MakersAlone, Unknown
    <3> QED BY <3>2, <3>3
  <2>3. /\ UNCHANGED <<native, frees, raw, cleanups, queue, registry, userData>>
        /\ Using(w)' = Using(w) /\ refs'[w] \subseteq Goroutines
    BY <1>1 DEF Share, Forget, IInv, TypeOK
  <2>4. \A h \in Goroutines :
          /\ ~Making(h, w)' /\ ~InFree(h, w)' /\ ~Is(h, "clear", w)
          /\ InCall(h, w)' <=> InCall(h, w)
    BY <1>1, <2>2 DEF SameOperations, Making, InCall, InFree, Kinds
  <2>5. /\ Queued("free", w)' <=> Queued("free", w)
        /\ Queued("delete", w)' <=> Queued("delete", w)
        /\ Handle(w)' = Handle(w) /\ (HasWriter(w)' <=> HasWriter(w))
    BY <2>3 DEF Queued, Handle, HasWriter
  <2> QED
    BY <2>1, <2>3, <2>4, <2>5
       DEF Sound, Unknown, FreesCounted, NoneIsUnknown, MakersAlone,
           FreersAlone, CallsKeepAttached, HandleIsAttached, CleanedIsLive,
           QueuedIsUnreachable, DeletedOnce, WriterIsKept
<1> QED BY <1>2, <1>3

(* The owner of a live handle, who begins to use it.                        *)
LEMMA HolderOwns ==
    ASSUME IInv, NEW g \in Goroutines, NEW w \in Wrappers,
           op[g] = Idle, g \in refs[w], raw[w]
    PROVE  /\ "free" \in cleanups[w] /\ native[w] = "live" /\ frees[w] = 0
           /\ ~Queued("free", w) /\ ~Queued("delete", w)
           /\ \A h \in Goroutines : ~Making(h, w) /\ ~InFree(h, w)
           /\ HasWriter(w) => "delete" \in cleanups[w] /\ Handle(w) \in registry
<1>1. \A k \in Kinds : ~Is(g, k, w)
  BY OneOperation
<1>2. \A h \in Goroutines : ~InFree(h, w)
  BY <1>1 DEF IInv, Sound, FreersAlone, InFree, Kinds
<1>3. \A h \in Goroutines : ~Making(h, w)
  BY DEF IInv, Sound, MakersAlone, Unknown
<1>4. "free" \in cleanups[w] /\ native[w] = "live"
  BY <1>2 DEF IInv, Sound, HandleIsAttached, CleanedIsLive, InFree
<1> QED
  BY <1>2, <1>3, <1>4
     DEF IInv, Sound, FreesCounted, QueuedIsUnreachable, WriterIsKept, DeletedOnce

LEMMA CallSound ==
    ASSUME IInv, NEW g \in Goroutines, NEW w \in Wrappers, Call(g, w)
    PROVE  \A v \in Wrappers : Sound(v)'
<1>1. /\ \A h \in Goroutines, j \in Kinds :
            Is(h, j, w)' <=> IF h = g THEN j = "call" ELSE Is(h, j, w)
      /\ Using(w)' = Using(w) \cup {g}
      /\ \A v : v # w => SameOperations(v)
  BY Goes DEF Call, Kinds, IInv
<1>2. ASSUME NEW v \in Wrappers, v # w
      PROVE  Sound(v)'
  <2>1. Same(v)
    BY <1>1, <1>2 DEF Call, LastUse, Same, Queued, Handle, IInv, TypeOK
  <2> QED BY <2>1, Elsewhere
<1>3. Sound(w)'
  <2>1. /\ "free" \in cleanups[w] /\ native[w] = "live" /\ frees[w] = 0
        /\ ~Queued("free", w) /\ ~Queued("delete", w)
        /\ \A h \in Goroutines : ~Making(h, w) /\ ~InFree(h, w)
        /\ HasWriter(w) => "delete" \in cleanups[w] /\ Handle(w) \in registry
    BY HolderOwns DEF Call
  <2>2. \A h \in Goroutines : ~Making(h, w)' /\ ~InFree(h, w)'
    BY <1>1, <2>1 DEF Making, InFree, Kinds
  <2>3. /\ "free" \in cleanups'[w] /\ native'[w] = "live" /\ frees'[w] = 0
        /\ ~Queued("free", w)' /\ ~Queued("delete", w)'
        /\ HasWriter(w)' => "delete" \in cleanups'[w] /\ Handle(w)' \in registry'
        /\ "delete" \in cleanups'[w] => HasWriter(w)' /\ Handle(w)' \in registry'
    BY <2>1 DEF Call, Queued, Handle, HasWriter, IInv, Sound, DeletedOnce
  <2> QED
    BY <2>2, <2>3
       DEF Sound, FreesCounted, NoneIsUnknown, MakersAlone,
           FreersAlone, CallsKeepAttached, HandleIsAttached, CleanedIsLive,
           QueuedIsUnreachable, DeletedOnce, WriterIsKept
<1> QED BY <1>2, <1>3

LEMMA ReturnSound ==
    ASSUME IInv, NEW g \in Goroutines, NEW w \in Wrappers, Return(g, w) \/ CopyView(g, w)
    PROVE  \A v \in Wrappers : Sound(v)'
<1>1. InCall(g, w) /\ g \in Using(w)
  BY UsingIs DEF Return, CopyView, InCall, Kinds
<1>2. /\ \A h \in Goroutines :
            /\ InCall(h, w)' => InCall(h, w)
            /\ \A j \in Kinds \ {"call", "view"} : h # g => (Is(h, j, w)' <=> Is(h, j, w))
            /\ \A j \in Kinds \ {"call", "view"} : ~Is(g, j, w)'
      /\ Using(w)' \subseteq Using(w)
      /\ \A v : v # w => SameOperations(v)
  <2>1. CASE Done(g)
    BY <1>1, <2>1, Stops DEF InCall, Kinds, IInv
  <2>2. CASE Now(g, "view", w)
    BY <1>1, <2>2, Goes DEF InCall, Kinds, IInv
  <2> QED BY <2>1, <2>2 DEF Return, CopyView
<1>3. ASSUME NEW v \in Wrappers, v # w
      PROVE  Sound(v)'
  <2>1. Same(v)
    BY <1>2, <1>3 DEF Return, CopyView, Same, Queued, Handle, IInv, TypeOK
  <2> QED BY <2>1, Elsewhere
<1>4. Sound(w)'
  <2>1. Sound(w) /\ "free" \in cleanups[w] /\ native[w] = "live"
    BY <1>1 DEF IInv, Sound, CallsKeepAttached, CleanedIsLive
  <2>2. \A h \in Goroutines : ~Making(h, w) /\ ~InFree(h, w)
    BY <2>1 DEF Sound, MakersAlone, FreersAlone, Unknown
  <2>3. \A h \in Goroutines : ~Making(h, w)' /\ ~InFree(h, w)'
    BY <1>2, <2>2 DEF Making, InFree, Kinds
  <2>4. /\ UNCHANGED <<native, frees, raw, refs, cleanups, queue, registry, userData>>
        /\ Queued("free", w)' <=> Queued("free", w)
        /\ Queued("delete", w)' <=> Queued("delete", w)
        /\ Handle(w)' = Handle(w) /\ (HasWriter(w)' <=> HasWriter(w))
    BY DEF Return, CopyView, Queued, Handle, HasWriter
  <2> QED
    BY <1>2, <2>1, <2>3, <2>4
       DEF Sound, FreesCounted, NoneIsUnknown, MakersAlone,
           FreersAlone, CallsKeepAttached, HandleIsAttached, CleanedIsLive,
           QueuedIsUnreachable, DeletedOnce, WriterIsKept
<1> QED BY <1>3, <1>4

LEMMA FreeBeginSound ==
    ASSUME IInv, NEW g \in Goroutines, NEW w \in Wrappers, FreeBegin(g, w)
    PROVE  \A v \in Wrappers : Sound(v)'
<1>1. /\ \A h \in Goroutines, j \in Kinds :
            Is(h, j, w)' <=> IF h = g THEN j = "clear" ELSE Is(h, j, w)
      /\ Using(w)' = Using(w) \cup {g}
      /\ \A v : v # w => SameOperations(v)
  BY Goes DEF FreeBegin, Kinds, IInv
<1>2. ASSUME NEW v \in Wrappers, v # w
      PROVE  Sound(v)'
  <2>1. Same(v)
    BY <1>1, <1>2 DEF FreeBegin, LastUse, Same, Queued, Handle, IInv, TypeOK
  <2> QED BY <2>1, Elsewhere
<1>3. Sound(w)'
  <2>1. /\ native[w] = "live" /\ frees[w] = 0
        /\ ~Queued("free", w) /\ ~Queued("delete", w)
        /\ HasWriter(w) => "delete" \in cleanups[w] /\ Handle(w) \in registry
    BY HolderOwns DEF FreeBegin
  <2>2. Using(w)' = {g} /\ refs'[w] \subseteq {g} /\ raw'[w]
    BY <1>1 DEF FreeBegin, Sole, LastUse, IInv, TypeOK
  <2>3. \A h \in Goroutines :
          /\ ~Making(h, w)' /\ ~InCall(h, w)'
          /\ InFree(h, w)' <=> h = g
          /\ Is(h, "clear", w)' <=> h = g
    BY <1>1, <2>2, UsingIs DEF Making, InCall, InFree, Kinds
  <2>4. /\ "free" \notin cleanups'[w] /\ native'[w] = "live" /\ frees'[w] = 0
        /\ ~Queued("free", w)' /\ ~Queued("delete", w)'
        /\ HasWriter(w)' => "delete" \in cleanups'[w] /\ Handle(w)' \in registry'
        /\ "delete" \in cleanups'[w] => HasWriter(w)' /\ Handle(w)' \in registry'
    BY <2>1 DEF FreeBegin, Stopped, Queued, Handle, HasWriter, IInv, TypeOK, Sound,
                DeletedOnce
  <2> QED
    BY <2>2, <2>3, <2>4
       DEF Sound, FreesCounted, NoneIsUnknown, MakersAlone,
           FreersAlone, CallsKeepAttached, HandleIsAttached, CleanedIsLive,
           QueuedIsUnreachable, DeletedOnce, WriterIsKept
<1> QED BY <1>2, <1>3

LEMMA FreeClearSound ==
    ASSUME IInv, NEW g \in Goroutines, NEW w \in Wrappers, FreeClear(g, w)
    PROVE  \A v \in Wrappers : Sound(v)'
<1>1. InFree(g, w) /\ g \in Using(w)
  BY UsingIs DEF FreeClear, InFree, Kinds
<1>2. /\ \A h \in Goroutines, j \in Kinds :
            Is(h, j, w)' <=> IF h = g THEN j = "free" ELSE Is(h, j, w)
      /\ Using(w)' = Using(w) \cup {g}
      /\ \A v : v # w => SameOperations(v)
  BY <1>1, Goes DEF FreeClear, Kinds, IInv
<1>3. ASSUME NEW v \in Wrappers, v # w
      PROVE  Sound(v)'
  <2>1. Same(v)
    BY <1>2, <1>3 DEF FreeClear, Same, Queued, Handle, IInv, TypeOK
  <2> QED BY <2>1, Elsewhere
<1>4. Sound(w)'
  <2>1. /\ native[w] = "live" /\ frees[w] = 0 /\ Using(w) = {g} /\ refs[w] \subseteq {g}
        /\ "free" \notin cleanups[w] /\ ~Queued("free", w) /\ ~Queued("delete", w)
        /\ HasWriter(w) => "delete" \in cleanups[w]
        /\ "delete" \in cleanups[w] => HasWriter(w) /\ Handle(w) \in registry
    BY <1>1 DEF IInv, Sound, FreersAlone, FreesCounted, WriterIsKept, DeletedOnce,
                QueuedIsUnreachable
  <2>2. Using(w)' = {g}
    BY <1>2, <2>1
  <2>3. \A h \in Goroutines :
          /\ ~Making(h, w)' /\ ~InCall(h, w)' /\ ~Is(h, "clear", w)'
          /\ InFree(h, w)' <=> h = g
    BY <1>2, <2>2, UsingIs DEF Making, InCall, InFree, Kinds
  <2>4. /\ "free" \notin cleanups'[w] /\ native'[w] = "live" /\ frees'[w] = 0
        /\ refs'[w] \subseteq {g} /\ ~raw'[w]
        /\ ~Queued("free", w)' /\ ~Queued("delete", w)'
        /\ HasWriter(w)' => "delete" \in cleanups'[w]
        /\ "delete" \in cleanups'[w] => HasWriter(w)' /\ Handle(w)' \in registry'
    BY <2>1 DEF FreeClear, Cleared, Queued, Handle, HasWriter, IInv, TypeOK
  <2> QED
    BY <2>2, <2>3, <2>4
       DEF Sound, FreesCounted, NoneIsUnknown, MakersAlone,
           FreersAlone, CallsKeepAttached, HandleIsAttached, CleanedIsLive,
           QueuedIsUnreachable, DeletedOnce, WriterIsKept
<1> QED BY <1>3, <1>4

LEMMA FreeEndSound ==
    ASSUME IInv, NEW g \in Goroutines, NEW w \in Wrappers, FreeEnd(g, w)
    PROVE  \A v \in Wrappers : Sound(v)'
<1>1. InFree(g, w) /\ g \in Using(w) /\ ~Is(g, "clear", w)
  BY UsingIs, OneOperation DEF FreeEnd, InFree, Kinds
<1>2. /\ \A h \in Goroutines, j \in Kinds : Is(h, j, w)' <=> h # g /\ Is(h, j, w)
      /\ Using(w)' = Using(w) \ {g}
      /\ \A v : v # w => SameOperations(v)
  BY <1>1, Stops DEF FreeEnd, IInv
<1>3. ASSUME NEW v \in Wrappers, v # w
      PROVE  Sound(v)'
  <2>1. Same(v)
    BY <1>2, <1>3 DEF FreeEnd, NativeFree, Same, Queued, Handle, IInv, TypeOK
  <2> QED BY <2>1, Elsewhere
<1>4. Sound(w)'
  <2>1. /\ native[w] = "live" /\ frees[w] = 0 /\ Using(w) = {g} /\ ~raw[w]
        /\ "free" \notin cleanups[w] /\ ~Queued("free", w) /\ ~Queued("delete", w)
        /\ HasWriter(w) => "delete" \in cleanups[w]
        /\ "delete" \in cleanups[w] => HasWriter(w) /\ Handle(w) \in registry
    BY <1>1 DEF IInv, Sound, FreersAlone, FreesCounted, WriterIsKept, DeletedOnce,
                QueuedIsUnreachable
  <2>2. Using(w)' = {}
    BY <1>2, <2>1
  <2>3. \A h \in Goroutines : ~Making(h, w)' /\ ~InCall(h, w)' /\ ~InFree(h, w)'
    BY <2>2, UsingIs DEF Making, InCall, InFree, Kinds
  <2>4. native'[w] = "freed" /\ frees'[w] = 1
    BY <2>1 DEF FreeEnd, NativeFree, IInv, TypeOK
  <2>5. /\ "free" \notin cleanups'[w] /\ ~raw'[w]
        /\ ~Queued("free", w)' /\ ~Queued("delete", w)'
        /\ HasWriter(w)' => "delete" \in cleanups'[w]
        /\ "delete" \in cleanups'[w] => HasWriter(w)' /\ Handle(w)' \in registry'
    BY <2>1 DEF FreeEnd, Queued, Handle, HasWriter
  <2> QED
    BY <2>2, <2>3, <2>4, <2>5
       DEF Sound, FreesCounted, NoneIsUnknown, MakersAlone,
           FreersAlone, CallsKeepAttached, HandleIsAttached, CleanedIsLive,
           QueuedIsUnreachable, DeletedOnce, WriterIsKept
<1> QED BY <1>3, <1>4

(* The collector runs between any two steps of a program.                   *)
LEMMA CollectSound ==
    ASSUME IInv, NEW w \in Wrappers, Collect(w)
    PROVE  \A v \in Wrappers : Sound(v)'
<1>1. \A v : SameOperations(v) /\ Using(v)' = Using(v)
  BY UsingIs DEF Collect, SameOperations, Is
<1>2. \A v, what : Queued(what, v)' <=> \/ Queued(what, v)
                                        \/ v = w /\ what \in cleanups[w]
  BY DEF Collect, Queued
<1>3. ASSUME NEW v \in Wrappers, v # w
      PROVE  Sound(v)'
  <2>1. Same(v)
    BY <1>1, <1>2, <1>3 DEF Collect, Same, Handle, IInv, TypeOK
  <2> QED BY <2>1, Elsewhere
<1>4. Sound(w)'
  <2>1. /\ Sound(w) /\ refs[w] = {} /\ Using(w) = {} /\ cleanups[w] # {}
        /\ ~Queued("free", w) /\ ~Queued("delete", w)
    BY DEF Collect, Reachable, IInv, Sound, QueuedIsUnreachable
  <2>2. /\ Using(w)' = {} /\ refs'[w] = {} /\ cleanups'[w] = {}
        /\ UNCHANGED <<native, frees, raw>>
    BY <1>1, <2>1 DEF Collect, IInv, TypeOK
  <2>3. \A h \in Goroutines : ~Making(h, w)' /\ ~InCall(h, w)' /\ ~InFree(h, w)'
    BY <2>2, UsingIs DEF Making, InCall, InFree, Kinds
  <2>4. native[w] # "none"
    BY <2>1 DEF Sound, NoneIsUnknown, Unknown
  <2>5. Queued("free", w)' => native[w] = "live"
    BY <1>2, <2>1 DEF Sound, CleanedIsLive
  <2>6. Queued("delete", w)' => HasWriter(w)' /\ Handle(w)' \in registry'
    BY <1>2, <2>1 DEF Collect, Sound, DeletedOnce, HasWriter, Handle
  <2>7. FreesCounted(w)'
    BY <2>1, <2>2 DEF Sound, FreesCounted
  <2> QED
    BY <2>2, <2>3, <2>4, <2>5, <2>6, <2>7
       DEF Sound, NoneIsUnknown, MakersAlone,
           FreersAlone, CallsKeepAttached, HandleIsAttached, CleanedIsLive,
           QueuedIsUnreachable, DeletedOnce, WriterIsKept
<1> QED BY <1>3, <1>4

LEMMA CleanupSound ==
    ASSUME IInv, NEW w \in Wrappers, CleanupDelete(w) \/ CleanupFree(w)
    PROVE  \A v \in Wrappers : Sound(v)'
<1>1. \A v : SameOperations(v) /\ Using(v)' = Using(v)
  BY UsingIs DEF CleanupDelete, CleanupFree, SameOperations, Is
<1>2. ASSUME NEW v \in Wrappers, v # w
      PROVE  Sound(v)'
  <2>1. Handle(v) \in registry => Handle(v) \in registry'
    BY <1>2 DEF CleanupDelete, CleanupFree, Without, Handle, IInv, TypeOK, NumbersUnique
  <2>2. \A what : Queued(what, v)' <=> Queued(what, v)
    BY <1>2 DEF CleanupDelete, CleanupFree, Queued
  <2>3. Same(v)
    BY <1>1, <1>2, <2>1, <2>2 DEF CleanupDelete, CleanupFree, NativeFree, Same, IInv, TypeOK
  <2> QED BY <2>3, Elsewhere
<1>3. Sound(w)'
  <2>1. /\ Sound(w) /\ refs[w] = {} /\ Using(w) = {} /\ cleanups[w] = {}
        /\ native[w] # "none"
    BY DEF CleanupDelete, CleanupFree, Queued, IInv, Sound, QueuedIsUnreachable,
           NoneIsUnknown, Unknown
  <2>2. Using(w)' = {} /\ refs'[w] = {} /\ cleanups'[w] = {}
    BY <1>1, <2>1 DEF CleanupDelete, CleanupFree
  <2>3. \A h \in Goroutines : ~Making(h, w)' /\ ~InCall(h, w)' /\ ~InFree(h, w)'
    BY <2>2, UsingIs DEF Making, InCall, InFree, Kinds
  <2>4. /\ native'[w] # "none"
        /\ FreesCounted(w)'
        /\ Queued("free", w)' => native'[w] = "live"
    <3>1. CASE CleanupDelete(w)
      BY <2>1, <3>1 DEF CleanupDelete, Queued, Sound, FreesCounted, CleanedIsLive
    <3>2. CASE CleanupFree(w)
      <4>1. native[w] = "live" /\ frees[w] = 0
        BY <2>1, <3>2 DEF CleanupFree, Queued, Sound, FreesCounted, CleanedIsLive
      <4>2. native'[w] = "freed" /\ frees'[w] = 1 /\ ~Queued("free", w)'
        BY <3>2, <4>1 DEF CleanupFree, NativeFree, Queued, IInv, TypeOK
      <4> QED BY <4>2 DEF FreesCounted
    <3> QED BY <3>1, <3>2
  <2>5. Queued("delete", w)' => HasWriter(w)' /\ Handle(w)' \in registry'
    BY <2>1 DEF CleanupDelete, CleanupFree, Queued, Sound, DeletedOnce, HasWriter, Handle
  <2> QED
    BY <2>2, <2>3, <2>4, <2>5
       DEF Sound, NoneIsUnknown, MakersAlone,
           FreersAlone, CallsKeepAttached, HandleIsAttached, CleanedIsLive,
           QueuedIsUnreachable, DeletedOnce, WriterIsKept
<1> QED BY <1>2, <1>3

LEMMA OutputSound ==
    ASSUME IInv,
           \/ UNCHANGED vars
           \/ \E g \in Goroutines, w \in Wrappers : Output(g, w)
    PROVE  \A v \in Wrappers : Sound(v)'
<1> SUFFICES ASSUME NEW v \in Wrappers
             PROVE  Same(v)
  BY Elsewhere
<1> QED BY DEF vars, Output, Same, SameOperations, Is, Queued, Handle

-----------------------------------------------------------------------------
LEMMA Inductive == IInv /\ [Next]_vars => IInv'
<1> SUFFICES ASSUME IInv, [Next]_vars
             PROVE  IInv'
  OBVIOUS
<1>1. TypeOK' /\ NumbersUnique' /\ OutputReachesWriter'
  BY TypePreserved, NumbersPreserved, OutputPreserved DEF IInv
<1>2. \A v \in Wrappers : Sound(v)'
  <2>1. ASSUME NEW g \in Goroutines, NEW w \in Wrappers,
               \/ Allocate(g, w) \/ Allocation(g, w)
               \/ \E h \in Goroutines : Share(g, h, w)
               \/ Forget(g, w)
        PROVE  \A v \in Wrappers : Sound(v)'
    BY <2>1, AllocateSound, ConstructSound, AttachSound, FailedSound, ShareSound
       DEF Allocation
  <2>2. ASSUME NEW g \in Goroutines, NEW w \in Wrappers,
               \/ Call(g, w) \/ Output(g, w) \/ Return(g, w) \/ CopyView(g, w)
               \/ FreeBegin(g, w) \/ Freeing(g, w)
        PROVE  \A v \in Wrappers : Sound(v)'
    BY <2>2, CallSound, OutputSound, ReturnSound, FreeBeginSound, FreeClearSound,
       FreeEndSound
       DEF Freeing
  <2>3. ASSUME NEW w \in Wrappers, Cleaning(w)
        PROVE  \A v \in Wrappers : Sound(v)'
    BY <2>3, CollectSound, CleanupSound DEF Cleaning
  <2>4. CASE UNCHANGED vars
    BY <2>4, OutputSound
  <2> QED BY <2>1, <2>2, <2>3, <2>4 DEF Next, Stutter
<1> QED BY <1>1, <1>2 DEF IInv

LEMMA Initial == Init => IInv
<1> SUFFICES ASSUME Init
             PROVE  IInv
  OBVIOUS
<1>1. TypeOK /\ OutputReachesWriter
  <2>1. op \in [Goroutines -> {Idle} \cup [kind : Kinds, w : Wrappers]]
    BY DEF Init
  <2>2. raw \in [Wrappers -> BOOLEAN] /\ panicked \in BOOLEAN /\ misdirected \in BOOLEAN
    BY DEF Init
  <2>3. refs \in [Wrappers -> SUBSET Goroutines]
    BY DEF Init
  <2>4. cleanups \in [Wrappers -> SUBSET {"free", "delete"}]
    BY DEF Init
  <2> QED BY <2>1, <2>2, <2>3, <2>4 DEF Init, TypeOK, OutputReachesWriter
<1>2. NumbersUnique
  BY DEF Init, NumbersUnique
<1>3. ASSUME NEW w \in Wrappers
      PROVE  Sound(w)
  <2>1. Unknown(w) /\ ~HasWriter(w)
    BY DEF Init, Unknown, Queued, HasWriter
  <2>2. Using(w) = {}
    BY UsingIs, NotIdle DEF Init, Is
  <2>3. \A h \in Goroutines : ~Making(h, w) /\ ~InCall(h, w) /\ ~InFree(h, w)
    BY <2>2, UsingIs DEF Making, InCall, InFree, Kinds
  <2> QED
    BY <2>1, <2>2, <2>3
       DEF Init, Unknown, Sound, FreesCounted, NoneIsUnknown, MakersAlone,
           FreersAlone, CallsKeepAttached, HandleIsAttached, CleanedIsLive,
           QueuedIsUnreachable, DeletedOnce, WriterIsKept
<1> QED BY <1>1, <1>2, <1>3 DEF IInv

LEMMA Invariant == Spec => []IInv
BY Initial, Inductive, PTL DEF Spec

-----------------------------------------------------------------------------
(* The variables have their types.                                          *)
THEOREM TypeCorrect == Spec => []TypeOK
<1>1. IInv => TypeOK
  BY DEF IInv
<1> QED BY Invariant, <1>1, PTL

(* However the collector, Free and calls of other goroutines interleave, a  *)
(* raw handle that the engine is working with is that of a live object.     *)
THEOREM UsedWhileLive == Spec => []NoUseAfterFree
<1>1. IInv => NoUseAfterFree
  BY DEF IInv, Sound, NoUseAfterFree, CallsKeepAttached, CleanedIsLive, FreersAlone,
         InCall, InFree
<1> QED BY Invariant, <1>1, PTL

(* Free and the cleanup never both free an object.                          *)
THEOREM FreedAtMostOnce == Spec => []FreedOnce
<1>1. IInv => FreedOnce
  BY DEF IInv, Sound, FreedOnce, FreesCounted
<1> QED BY Invariant, <1>1, PTL

(* The engine's output for an object reaches that object's writer, and no   *)
(* number is looked up or deleted after it was deleted.                     *)
THEOREM OutputIsRouted == Spec => []OutputReachesWriter
<1>1. IInv => OutputReachesWriter
  BY DEF IInv
<1> QED BY Invariant, <1>1, PTL
=============================================================================
