----------------------- MODULE VendoredLibraryProofs -----------------------
(***************************************************************************)
(* Proofs about VendoredLibrary, for any releases, any number of processes *)
(* and any initial contents of the directories: a process that loads a     *)
(* library loads all of it and the one its build was made for, nobody      *)
(* replaces a library that is mapped, and the script takes the latest      *)
(* release although releases are published while it reads.                 *)
(***************************************************************************)
EXTENDS VendoredLibrary, FiniteSetTheorems, WellFoundedInduction, TLAPS

-----------------------------------------------------------------------------
(* The processes of the build that is followed.                             *)

(* On Windows whoever is between Lock and Unlock holds the lock.            *)
InsideHoldLock ==
    platform = "windows" => \A p \in Processes : pc[p] \in Inside => lock[dir[p]] = p

PartialIs(p, content) == Partials(p) = {[by |-> p, dir |-> dir[p], content |-> content]}

(* Only what was written to the end is renamed.                             *)
PartialsKnown ==
    \A p \in Processes :
        /\ pc[p] = "write" => PartialIs(p, "other")
        /\ pc[p] = "rename" => PartialIs(p, "whole")
        /\ pc[p] \notin {"write", "rename", "remove", "dead"} => Partials(p) = {}

(* A path that was found or made stays good until it is loaded.             *)
PathIsWhole ==
    \A p \in Processes :
        /\ pc[p] \in {"remove", "unlock"} => (ok[p] => dest[dir[p]] = "whole")
        /\ pc[p] = "load" => dest[dir[p]] = "whole"
        /\ pc[p] \in {"check", "create", "write", "rename"} => ~ok[p]
        /\ pc[p] = "loaded" => mapped[p].content = "whole"

SoundDirs ==
    sound /\ outages = 0 =>
        /\ \A d \in Dirs : dest[d] # "other"
        /\ platform = "windows" => \A p \in Processes :
                pc[p] \in {"create", "write", "rename"} => dest[dir[p]] = "absent"

(* What is mapped is still at its path, and is not at the path of one who   *)
(* publishes.                                                               *)
InPlace ==
    /\ \A p \in Processes : pc[p] = "loaded" => dest[mapped[p].dir] = "whole"
    /\ platform = "windows" =>
        \A p \in Processes : pc[p] \in {"create", "write", "rename"} => dest[dir[p]] # "whole"

CacheInv ==
    TypeOK /\ InsideHoldLock /\ PartialsKnown /\ PathIsWhole /\ SoundDirs /\ InPlace

CacheNext ==
    \/ \E p \in Processes : Step(p) \/ LockFails(p) \/ Die(p)
    \/ Outage
    \/ UNCHANGED vars

-----------------------------------------------------------------------------
USE CacheAssumption DEF Dirs, Contents, Nobody, Nothing

LEMMA CachePrepare ==
    ASSUME CacheInv, NEW p \in Processes, Prepare(p)
    PROVE  CacheInv'
<1> USE DEF CacheInv
<1>1. TypeOK'
  BY DEF Prepare, NextDir, Goto, TypeOK, Running, Ended, Inside
<1>2. InsideHoldLock'
  BY DEF Prepare, NextDir, Goto, TypeOK, InsideHoldLock, Inside
<1>3. PartialsKnown'
  BY DEF Prepare, NextDir, Goto, TypeOK, PartialsKnown, PartialIs, Partials
<1>4. PathIsWhole'
  BY DEF Prepare, NextDir, Goto, TypeOK, PathIsWhole
<1>5. SoundDirs'
  BY DEF Prepare, NextDir, Goto, TypeOK, SoundDirs
<1>6. InPlace'
  BY DEF Prepare, NextDir, Goto, TypeOK, InPlace
<1> QED BY <1>1, <1>2, <1>3, <1>4, <1>5, <1>6

LEMMA CacheLock ==
    ASSUME CacheInv, NEW p \in Processes, Lock(p)
    PROVE  CacheInv'
<1> USE DEF CacheInv
<1>1. TypeOK'
  BY DEF Lock, NeedsLock, Goto, TypeOK, Running, Ended, Inside
<1>2. InsideHoldLock'
  BY DEF Lock, NeedsLock, Goto, TypeOK, InsideHoldLock, Inside
<1>3. PartialsKnown'
  BY DEF Lock, Goto, TypeOK, PartialsKnown, PartialIs, Partials
<1>4. PathIsWhole'
  BY DEF Lock, Goto, TypeOK, PathIsWhole
<1>5. SoundDirs'
  BY DEF Lock, Goto, TypeOK, SoundDirs
<1>6. InPlace'
  BY DEF Lock, Goto, TypeOK, InPlace
<1> QED BY <1>1, <1>2, <1>3, <1>4, <1>5, <1>6

LEMMA CacheLockFails ==
    ASSUME CacheInv, NEW p \in Processes, LockFails(p)
    PROVE  CacheInv'
<1> USE DEF CacheInv
<1>1. TypeOK'
  BY DEF LockFails, NextDir, Goto, TypeOK, Running, Ended, Inside
<1>2. InsideHoldLock'
  BY DEF LockFails, NextDir, Goto, TypeOK, InsideHoldLock, Inside
<1>3. PartialsKnown'
  BY DEF LockFails, NextDir, Goto, TypeOK, PartialsKnown, PartialIs, Partials
<1>4. PathIsWhole'
  BY DEF LockFails, NextDir, Goto, TypeOK, PathIsWhole
<1>5. SoundDirs'
  BY DEF LockFails, NextDir, Goto, TypeOK, SoundDirs
<1>6. InPlace'
  BY DEF LockFails, NextDir, Goto, TypeOK, InPlace
<1> QED BY <1>1, <1>2, <1>3, <1>4, <1>5, <1>6

LEMMA CacheCheck ==
    ASSUME CacheInv, NEW p \in Processes, Check(p)
    PROVE  CacheInv'
<1> USE DEF CacheInv
<1>1. TypeOK'
  <2>1. PICK next \in {"unlock", "create"} :
            pc' = [pc EXCEPT ![p] = next]
    BY DEF Check, Goto
  <2>2. pc' \in [Processes -> Running \cup Ended] /\ ok' \in [Processes -> BOOLEAN]
    BY <2>1 DEF Check, TypeOK, Running, Ended, Inside
  <2>3. \A d \in Dirs : lock[d] # Nobody => pc'[lock[d]] \in Inside /\ dir[lock[d]] = d
    BY <2>1 DEF TypeOK, Inside
  <2> QED BY <2>2, <2>3 DEF Check, TypeOK
<1>2. InsideHoldLock'
  BY DEF Check, Goto, TypeOK, InsideHoldLock, Inside
<1>3. PartialsKnown'
  BY DEF Check, Goto, TypeOK, PartialsKnown, PartialIs, Partials
<1>4. PathIsWhole'
  BY DEF Check, Goto, TypeOK, PathIsWhole, Matches
<1>5. SoundDirs'
  BY DEF Check, Goto, TypeOK, SoundDirs, Matches
<1>6. InPlace'
  BY DEF Check, Goto, TypeOK, InPlace, Matches
<1> QED BY <1>1, <1>2, <1>3, <1>4, <1>5, <1>6

LEMMA CacheCreateTemp ==
    ASSUME CacheInv, NEW p \in Processes, CreateTemp(p)
    PROVE  CacheInv'
<1> USE DEF CacheInv
<1>1. TypeOK'
  BY DEF CreateTemp, Goto, TypeOK, Running, Ended, Inside
<1>2. InsideHoldLock'
  BY DEF CreateTemp, Goto, TypeOK, InsideHoldLock, Inside
<1>3. PartialsKnown'
  BY DEF CreateTemp, Goto, TypeOK, PartialsKnown, PartialIs, Partials
<1>4. PathIsWhole'
  BY DEF CreateTemp, Goto, TypeOK, PathIsWhole
<1>5. SoundDirs'
  BY DEF CreateTemp, Goto, TypeOK, SoundDirs
<1>6. InPlace'
  BY DEF CreateTemp, Goto, TypeOK, InPlace
<1> QED BY <1>1, <1>2, <1>3, <1>4, <1>5, <1>6

LEMMA CacheWrite ==
    ASSUME CacheInv, NEW p \in Processes, Write(p)
    PROVE  CacheInv'
<1> USE DEF CacheInv
<1>1. TypeOK'
  BY DEF Write, Goto, TypeOK, Running, Ended, Inside
<1>2. InsideHoldLock'
  BY DEF Write, Goto, TypeOK, InsideHoldLock, Inside
<1>3. PartialsKnown'
  BY DEF Write, Goto, TypeOK, PartialsKnown, PartialIs, Partials
<1>4. PathIsWhole'
  BY DEF Write, Goto, TypeOK, PathIsWhole
<1>5. SoundDirs'
  BY DEF Write, Goto, TypeOK, SoundDirs
<1>6. InPlace'
  BY DEF Write, Goto, TypeOK, InPlace
<1> QED BY <1>1, <1>2, <1>3, <1>4, <1>5, <1>6

LEMMA CacheRename ==
    ASSUME CacheInv, NEW p \in Processes, Rename(p)
    PROVE  CacheInv'
<1> USE DEF CacheInv
<1>1. Content(p) = "whole"
  <2> DEFINE f == [by |-> p, dir |-> dir[p], content |-> "whole"]
  <2>1. Partials(p) = {f} /\ f.dir = dir[p] /\ f.content = "whole"
    BY DEF Rename, PartialsKnown, PartialIs
  <2> HIDE DEF f
  <2> QED BY <2>1 DEF Content
<1>2. TypeOK'
  BY <1>1 DEF Rename, Goto, TypeOK, Running, Ended, Inside
<1>3. InsideHoldLock'
  BY DEF Rename, Goto, TypeOK, InsideHoldLock, Inside
<1>4. PartialsKnown'
  BY DEF Rename, Goto, TypeOK, PartialsKnown, PartialIs, Partials
<1>5. PathIsWhole'
  BY <1>1 DEF Rename, Goto, TypeOK, PathIsWhole
<1>6. SoundDirs'
  BY <1>1 DEF Rename, Goto, TypeOK, SoundDirs, InsideHoldLock, Inside
<1>7. InPlace'
  BY <1>1 DEF Rename, Goto, TypeOK, InPlace, InsideHoldLock, Inside
<1> QED BY <1>2, <1>3, <1>4, <1>5, <1>6, <1>7

LEMMA CacheRenameFails ==
    ASSUME CacheInv, NEW p \in Processes, RenameFails(p)
    PROVE  CacheInv'
<1> USE DEF CacheInv
<1>1. TypeOK'
  BY DEF RenameFails, Goto, TypeOK, Running, Ended, Inside
<1>2. InsideHoldLock'
  BY DEF RenameFails, Goto, TypeOK, InsideHoldLock, Inside
<1>3. PartialsKnown'
  BY DEF RenameFails, Goto, TypeOK, PartialsKnown, PartialIs, Partials
<1>4. PathIsWhole'
  BY DEF RenameFails, Goto, TypeOK, PathIsWhole
<1>5. SoundDirs'
  BY DEF RenameFails, Goto, TypeOK, SoundDirs
<1>6. InPlace'
  BY DEF RenameFails, Goto, TypeOK, InPlace
<1> QED BY <1>1, <1>2, <1>3, <1>4, <1>5, <1>6

LEMMA CacheRemove ==
    ASSUME CacheInv, NEW p \in Processes, Remove(p)
    PROVE  CacheInv'
<1> USE DEF CacheInv
<1>1. TypeOK'
  BY DEF Remove, Goto, TypeOK, Running, Ended, Inside
<1>2. InsideHoldLock'
  BY DEF Remove, Goto, TypeOK, InsideHoldLock, Inside
<1>3. PartialsKnown'
  BY DEF Remove, Goto, TypeOK, PartialsKnown, PartialIs, Partials
<1>4. PathIsWhole'
  BY DEF Remove, Goto, TypeOK, PathIsWhole
<1>5. SoundDirs'
  BY DEF Remove, Goto, TypeOK, SoundDirs
<1>6. InPlace'
  BY DEF Remove, Goto, TypeOK, InPlace
<1> QED BY <1>1, <1>2, <1>3, <1>4, <1>5, <1>6

LEMMA CacheUnlock ==
    ASSUME CacheInv, NEW p \in Processes, Unlock(p)
    PROVE  CacheInv'
<1> USE DEF CacheInv
<1>1. TypeOK'
  <2>1. PICK next \in {"load", "prepare", "failed"} : pc' = [pc EXCEPT ![p] = next]
    BY DEF Unlock, NextDir, Goto
  <2>2. pc' \in [Processes -> Running \cup Ended]
    BY <2>1 DEF TypeOK, Running, Ended
  <2>3. dir' \in [Processes -> Dirs] /\ \A q \in Processes \ {p} : dir'[q] = dir[q]
    BY DEF Unlock, NextDir, TypeOK
  <2>4. /\ lock' \in [Dirs -> Processes \cup {Nobody}]
        /\ \A d \in Dirs : lock'[d] # Nobody => lock'[d] = lock[d] /\ lock[d] # p
    BY DEF Unlock, Unlocked, TypeOK
  <2>5. \A d \in Dirs : lock'[d] # Nobody => pc'[lock'[d]] \in Inside /\ dir'[lock'[d]] = d
    BY <2>1, <2>3, <2>4 DEF TypeOK
  <2> QED BY <2>2, <2>3, <2>4, <2>5 DEF Unlock, TypeOK
<1>2. InsideHoldLock'
  BY DEF Unlock, Unlocked, NextDir, Goto, TypeOK, InsideHoldLock, Inside
<1>3. PartialsKnown'
  BY DEF Unlock, NextDir, Goto, TypeOK, PartialsKnown, PartialIs, Partials
<1>4. PathIsWhole'
  BY DEF Unlock, NextDir, Goto, TypeOK, PathIsWhole
<1>5. SoundDirs'
  BY DEF Unlock, NextDir, Goto, TypeOK, SoundDirs
<1>6. InPlace'
  BY DEF Unlock, NextDir, Goto, TypeOK, InPlace
<1> QED BY <1>1, <1>2, <1>3, <1>4, <1>5, <1>6

LEMMA CacheLoad ==
    ASSUME CacheInv, NEW p \in Processes, Load(p) \/ LoadFails(p)
    PROVE  CacheInv'
<1> USE DEF CacheInv
<1>1. TypeOK'
  <2>1. PICK next \in {"loaded", "failed"} : pc' = [pc EXCEPT ![p] = next]
    BY DEF Load, LoadFails, Goto
  <2>2. pc' \in [Processes -> Running \cup Ended]
    BY <2>1 DEF TypeOK, Ended
  <2>3. mapped' \in [Processes -> [dir : Dirs, content : Contents]]
    BY DEF Load, LoadFails, TypeOK
  <2>4. \A d \in Dirs : lock[d] # Nobody => pc'[lock[d]] \in Inside /\ dir[lock[d]] = d
    BY <2>1 DEF Load, LoadFails, TypeOK, Inside
  <2> QED BY <2>2, <2>3, <2>4 DEF Load, LoadFails, TypeOK
<1>2. InsideHoldLock'
  BY DEF Load, LoadFails, Goto, TypeOK, InsideHoldLock, Inside
<1>3. PartialsKnown'
  BY DEF Load, LoadFails, Goto, TypeOK, PartialsKnown, PartialIs, Partials
<1>4. PathIsWhole'
  BY DEF Load, LoadFails, Goto, TypeOK, PathIsWhole
<1>5. SoundDirs'
  BY DEF Load, LoadFails, Goto, TypeOK, SoundDirs
<1>6. InPlace'
  <2>1. /\ UNCHANGED <<platform, dest, dir>>
        /\ \A q \in Processes \ {p} : pc'[q] = pc[q] /\ mapped'[q] = mapped[q]
        /\ pc'[p] \in {"loaded", "failed"}
    BY DEF Load, LoadFails, Goto, TypeOK
  <2>2. pc'[p] = "loaded" => mapped'[p].dir = dir[p] /\ dest[dir[p]] = "whole"
    BY DEF Load, LoadFails, Goto, TypeOK, PathIsWhole
  <2> QED BY <2>1, <2>2 DEF InPlace
<1> QED BY <1>1, <1>2, <1>3, <1>4, <1>5, <1>6

LEMMA CacheDie ==
    ASSUME CacheInv, NEW p \in Processes, Die(p)
    PROVE  CacheInv'
<1> USE DEF CacheInv
<1>1. TypeOK'
  BY DEF Die, Goto, TypeOK, Running, Ended, Inside
<1>2. InsideHoldLock'
  BY DEF Die, Goto, TypeOK, InsideHoldLock, Inside
<1>3. PartialsKnown'
  BY DEF Die, Goto, TypeOK, PartialsKnown, PartialIs, Partials
<1>4. PathIsWhole'
  BY DEF Die, Goto, TypeOK, PathIsWhole
<1>5. SoundDirs'
  BY DEF Die, Goto, TypeOK, SoundDirs
<1>6. InPlace'
  BY DEF Die, Goto, TypeOK, InPlace
<1> QED BY <1>1, <1>2, <1>3, <1>4, <1>5, <1>6

(* Everybody starts again; what was sound may be so no more.                *)
LEMMA CacheOutage ==
    ASSUME CacheInv, Outage
    PROVE  CacheInv'
<1> USE DEF CacheInv
<1>1. \A p \in Processes : pc'[p] = "prepare"
  BY DEF Outage
<1>2. partial' \subseteq [by : {Nobody}, dir : Dirs, content : {"other", "whole"}]
  <2>1. \A f \in partial :
            [f EXCEPT !.by = Nobody] \in
                [by : {Nobody}, dir : Dirs, content : {"other", "whole"}]
    BY DEF TypeOK
  <2>2. partial' = {[f EXCEPT !.by = Nobody] : f \in partial}
    BY DEF Outage
  <2> QED BY <2>1, <2>2
<1>3. TypeOK'
  <2>1. dest' \in [Dirs -> Contents]
    BY DEF Outage, TypeOK
  <2>2. outages' \in 0..MaxOutages
    BY DEF Outage, TypeOK
  <2>3. pc' \in [Processes -> Running \cup Ended] /\ dir' \in [Processes -> Dirs]
    BY DEF Outage, Running
  <2>4. ok' \in [Processes -> BOOLEAN]
        /\ mapped' \in [Processes -> [dir : Dirs, content : Contents]]
    BY DEF Outage
  <2>5. lock' \in [Dirs -> Processes \cup {Nobody}] /\ \A d \in Dirs : lock'[d] = Nobody
    BY DEF Outage
  <2> QED BY <1>2, <2>1, <2>2, <2>3, <2>4, <2>5 DEF Outage, TypeOK
<1>4. InsideHoldLock' /\ PathIsWhole'
  BY <1>1 DEF InsideHoldLock, PathIsWhole, Inside
<1>5. PartialsKnown'
  BY <1>1, <1>2 DEF PartialsKnown, Partials
<1>6. SoundDirs'
  BY DEF Outage, TypeOK, SoundDirs
<1>7. InPlace'
  BY <1>1 DEF InPlace
<1> QED BY <1>3, <1>4, <1>5, <1>6, <1>7

LEMMA CacheInductive ==
    ASSUME CacheInv, CacheNext
    PROVE  CacheInv'
<1>1. ASSUME NEW p \in Processes, Step(p) \/ LockFails(p) \/ Die(p)
      PROVE  CacheInv'
  BY <1>1, CachePrepare, CacheLock, CacheLockFails, CacheCheck, CacheCreateTemp,
     CacheWrite, CacheRename, CacheRenameFails, CacheRemove, CacheUnlock, CacheLoad,
     CacheDie
     DEF Step
<1>2. CASE UNCHANGED vars
  BY <1>2 DEF vars, CacheInv, TypeOK, InsideHoldLock, PartialsKnown, PartialIs, Partials,
              PathIsWhole, SoundDirs, InPlace
<1> QED BY <1>1, <1>2, CacheOutage DEF CacheNext

-----------------------------------------------------------------------------
(* The script.                                                              *)
Versions == Vendor!Versions
Names == Vendor!Names
Listed == Vendor!Range(published)
Indices == DOMAIN Assets
Files == Versions \cup {"absent"}

ScriptType ==
    \/ script \in [at : {"ended"}, how : {"done", "failed"}]
    \/ script \in [at : {"page"}, page : Nat \ {0}, latest : Versions \cup {"none"},
                   there : SUBSET Versions]
    \/ script \in [at : {"download"}, release : Versions, todo : SUBSET Indices]
    \/ script \in [at : {"remove", "version"}, release : Versions]

VendorTypeOK ==
    /\ published \in Seq(Versions)
    /\ libs \in [Names -> Files]
    /\ version \in Versions \cup {"broken"}
    /\ ScriptType
    /\ vendorings \in 0..MaxVendorings

PublishedOnce == \A i, j \in DOMAIN published : published[i] = published[j] => i = j

(* A release that was there when the script began to read is on a page that *)
(* it has yet to read, or was not published after the latest it has found.  *)
SeenOrAhead ==
    script.at = "page" =>
        /\ script.latest # "none" => script.latest \in Listed
        /\ \A v \in script.there :
            /\ v \in Listed /\ Vendor!Latest(v)
            /\ \/ Vendor!Place(v) > (script.page - 1) * PageSize
               \/ script.latest # "none" /\ Vendor!Date(v) <= Vendor!Date(script.latest)

(* The checkout, while its libraries are replaced.                          *)
LibrariesPlaced ==
    /\ script.at = "download" =>
        \A i \in Indices \ script.todo :
            Assets[i] \in Shipped[script.release] => libs[Assets[i]] = script.release
    /\ script.at \in {"remove", "version"} =>
        \A a \in Shipped[script.release] : libs[a] = script.release
    /\ script.at = "version" =>
        \A a \in Names \ Shipped[script.release] : libs[a] = "absent"
    /\ Vendor!Vendored => version \in Versions /\ libs = Vendor!Checkout(version)

VendorInv ==
    VendorTypeOK /\ PublishedOnce /\ SeenOrAhead /\ LibrariesPlaced

LEMMA Finite == IsFiniteSet(Versions)
<1>1. Created \in [1..Len(Created) -> Versions] /\ Len(Created) \in Nat
  BY LibraryAssumption DEF Versions
<1>2. Versions = {Created[i] : i \in 1..Len(Created)}
  BY <1>1 DEF Versions, Vendor!Versions, Vendor!Range
<1>3. Created \in Surjection(1..Len(Created), Versions)
  BY <1>1, <1>2 DEF Surjection
<1>4. IsFiniteSet(1..Len(Created))
  BY <1>1, FS_Interval
<1> QED BY <1>3, <1>4, FS_Surjection

LEMMA CardinalityIs == \A S : Vendor!Cardinality(S) = Cardinality(S)
BY DEF Vendor!Cardinality, Cardinality

(* A version's date is its place among the published.                       *)
LEMMA DateIs ==
    ASSUME published \in Seq(Versions), PublishedOnce, NEW v \in Listed
    PROVE  /\ Vendor!Date(v) \in DOMAIN published
           /\ published[Vendor!Date(v)] = v
BY DEF Listed, Vendor!Range, Vendor!Date

LEMMA LeastNatural ==
    ASSUME NEW T, T \subseteq Nat, T # {}
    PROVE  \E x \in T : \A y \in T : x <= y
<1> DEFINE Less == OpToRel(<, Nat)
<1>1. IsWellFoundedOn(Less, Nat)
  BY NatLessThanWellFounded
<1>2. PICK x \in T : \A y \in T : ~(<<y, x>> \in Less)
  <2> HIDE DEF Less
  <2> QED BY <1>1, WFMin
<1>3. Less = {ss \in Nat \X Nat : ss[1] < ss[2]}
  BY Zenon DEF OpToRel
<1> HIDE DEF Less
<1>4. \A y \in T : ~(y < x)
  BY <1>2, <1>3
<1>5. \A y \in T : x <= y
  BY <1>4
<1> QED BY <1>5

(* Of several published versions one was published last.                    *)
LEMMA LastOne ==
    ASSUME published \in Seq(Versions), PublishedOnce,
           NEW S, S \subseteq Listed, S # {}
    PROVE  \E v \in S : \A u \in S : Vendor!Date(u) <= Vendor!Date(v)
<1> DEFINE Rest(v) == Len(published) - Vendor!Date(v)
<1>1. \A v \in S : Vendor!Date(v) \in 1..Len(published) /\ Len(published) \in Nat
  BY DateIs
<1>2. {Rest(v) : v \in S} \subseteq Nat /\ {Rest(v) : v \in S} # {}
  BY <1>1
<1>3. PICK v \in S : \A u \in S : Rest(v) <= Rest(u)
  <2> HIDE DEF Rest
  <2>1. PICK x \in {Rest(v) : v \in S} : \A y \in {Rest(v) : v \in S} : x <= y
    BY <1>2, LeastNatural
  <2> QED BY <2>1
<1> QED BY <1>1, <1>3

LEMMA LaterIs ==
    ASSUME published \in Seq(Versions), PublishedOnce, NEW latest, NEW page,
           page \subseteq Listed, latest \in Listed \cup {"none"}
    PROVE  /\ Vendor!Later(latest, page) \in Listed \cup {"none"}
           /\ \A u \in Vendor!Candidates(latest, page) :
                /\ Vendor!Later(latest, page) # "none"
                /\ Vendor!Date(u) <= Vendor!Date(Vendor!Later(latest, page))
<1> DEFINE C == Vendor!Candidates(latest, page)
<1>1. C \subseteq Listed
  BY DEF Vendor!Candidates, Vendor!NoRelease
<1>2. Listed \subseteq Versions /\ "none" \notin Versions
  BY LibraryAssumption DEF Versions, Listed, Vendor!Range
<1>3. CASE C = {}
  BY <1>3 DEF Vendor!Later, Vendor!NoRelease
<1>4. CASE C # {}
  <2>1. Vendor!Later(latest, page) = CHOOSE v \in C : \A u \in C : Vendor!Date(u) <= Vendor!Date(v)
    BY <1>4 DEF Vendor!Later
  <2>2. \E v \in C : \A u \in C : Vendor!Date(u) <= Vendor!Date(v)
    <3> HIDE DEF C
    <3> QED BY <1>1, <1>4, LastOne
  <2> HIDE DEF C
  <2>3. Vendor!Later(latest, page) \in C
    BY <2>1, <2>2
  <2>4. \A u \in C : Vendor!Date(u) <= Vendor!Date(Vendor!Later(latest, page))
    BY <2>1, <2>2
  <2> QED BY <1>1, <1>2, <2>3, <2>4 DEF C
<1> QED BY <1>3, <1>4

(* Whatever is published, a release's date stays and its place moves back.  *)
LEMMA PublishKeeps ==
    ASSUME published \in Seq(Versions), PublishedOnce, NEW v \in Versions \ Listed,
           published' = Append(published, v)
    PROVE  /\ published' \in Seq(Versions) /\ PublishedOnce'
           /\ Listed \subseteq Listed'
           /\ \A u \in Listed : Vendor!Date(u)' = Vendor!Date(u)
           /\ \A u \in Listed : Vendor!Place(u)' >= Vendor!Place(u)
<1>1. /\ published' \in Seq(Versions) /\ Len(published) \in Nat
      /\ DOMAIN published = 1..Len(published)
      /\ DOMAIN published' = 1..(Len(published) + 1)
      /\ \A i \in DOMAIN published : published'[i] = published[i]
      /\ published'[Len(published) + 1] = v
  OBVIOUS
<1>2. Listed = {published[i] : i \in DOMAIN published}
  BY DEF Listed, Vendor!Range
<1>3. Listed' = {published'[i] : i \in DOMAIN published'}
  BY DEF Listed, Vendor!Range
<1>4. Listed \subseteq Listed' /\ Listed' \subseteq Versions
  BY <1>1, <1>2, <1>3
<1>5. PublishedOnce'
  BY <1>1, <1>2 DEF PublishedOnce
<1>6. ASSUME NEW u \in Listed
      PROVE  Vendor!Date(u)' = Vendor!Date(u)
  <2>1. PICK i \in DOMAIN published : published[i] = u
    BY <1>2
  <2>2. Vendor!Date(u) = i
    BY <2>1 DEF Vendor!Date, PublishedOnce
  <2>3. i \in DOMAIN published' /\ published'[i] = u
    BY <1>1, <2>1
  <2>4. Vendor!Date(u)' = i
    BY <1>5, <2>3 DEF Vendor!Date, PublishedOnce
  <2> QED BY <2>2, <2>4
<1>7. ASSUME NEW u \in Listed
      PROVE  Vendor!Place(u)' >= Vendor!Place(u)
  <2> DEFINE UpTo(S) == {w \in S : Vendor!Age(w) <= Vendor!Age(u)}
  <2>1. IsFiniteSet(UpTo(Listed')) /\ UpTo(Listed) \subseteq UpTo(Listed')
    <3>1. UpTo(Listed') \in SUBSET Versions
      BY <1>4
    <3> QED BY <1>4, <3>1, Finite, FS_Subset
  <2>2. Cardinality(UpTo(Listed)) <= Cardinality(UpTo(Listed'))
    BY <2>1, FS_Subset
  <2>3. Vendor!Place(u) = Cardinality(UpTo(Listed))
    BY CardinalityIs DEF Vendor!Place, Listed
  <2>4. Vendor!Place(u)' = Cardinality(UpTo(Listed'))
    BY CardinalityIs DEF Vendor!Place, Listed, Vendor!Age
  <2>5. Cardinality(UpTo(Listed)) \in Nat /\ Cardinality(UpTo(Listed')) \in Nat
    BY <2>1, FS_Subset, FS_CardinalityType
  <2> HIDE DEF UpTo
  <2> QED BY <2>2, <2>3, <2>4, <2>5
<1> QED BY <1>1, <1>4, <1>5, <1>6, <1>7

LEMMA PlaceType ==
    ASSUME published \in Seq(Versions), NEW v
    PROVE  /\ Vendor!Place(v) \in Nat /\ Vendor!Cardinality(Listed) \in Nat
           /\ Vendor!Place(v) <= Vendor!Cardinality(Listed)
<1> DEFINE UpTo == {w \in Listed : Vendor!Age(w) <= Vendor!Age(v)}
<1>1. Listed \in SUBSET Versions
  BY DEF Listed, Vendor!Range
<1>2. IsFiniteSet(Listed)
  BY <1>1, Finite, FS_Subset
<1>3. UpTo \in SUBSET Listed /\ Vendor!Place(v) = Cardinality(UpTo)
  BY CardinalityIs DEF Vendor!Place, Listed
<1> HIDE DEF UpTo
<1> QED BY <1>2, <1>3, FS_Subset, FS_CardinalityType, CardinalityIs

(* A page is read: what was ahead is on the page or still ahead.            *)
LEMMA PageSeen ==
    ASSUME VendorTypeOK, PublishedOnce, SeenOrAhead, script.at = "page",
           NEW v \in script.there,
           NEW latest, latest = Vendor!Later(script.latest, Vendor!Page(script.page))
    PROVE  /\ latest \in Listed \cup {"none"}
           /\ \/ Vendor!Place(v) > script.page * PageSize
              \/ latest # "none" /\ Vendor!Date(v) <= Vendor!Date(latest)
<1> DEFINE page == Vendor!Page(script.page)
           C == Vendor!Candidates(script.latest, page)
<1>1. /\ published \in Seq(Versions) /\ page \subseteq Listed
      /\ script.page \in Nat /\ script.latest \in Versions \cup {"none"}
      /\ script.latest \in Listed \cup {"none"}
  BY DEF VendorTypeOK, ScriptType, SeenOrAhead, Vendor!Page, Listed
<1>2. /\ latest \in Listed \cup {"none"}
      /\ \A u \in C : latest # "none" /\ Vendor!Date(u) <= Vendor!Date(latest)
  <2> HIDE DEF page
  <2> QED BY <1>1, LaterIs DEF page
<1>3. \A u \in Listed : Vendor!Date(u) \in Nat
  BY <1>1, DateIs
<1>4. /\ v \in Listed /\ Vendor!Latest(v)
      /\ \/ Vendor!Place(v) > (script.page - 1) * PageSize
         \/ script.latest # "none" /\ Vendor!Date(v) <= Vendor!Date(script.latest)
  BY DEF SeenOrAhead
<1>5. CASE Vendor!Place(v) > (script.page - 1) * PageSize
  <2>1. Vendor!Place(v) \in Nat /\ (script.page - 1) * PageSize \in Int
        /\ script.page * PageSize \in Int
    BY <1>1, PlaceType, LibraryAssumption
  <2>2. Vendor!Place(v) > script.page * PageSize \/ v \in page
    BY <1>4, <1>5, <2>1 DEF Vendor!Page, Listed
  <2>3. v \in page => v \in C
    BY <1>4 DEF Vendor!Candidates
  <2> QED BY <1>2, <2>2, <2>3
<1>6. CASE script.latest # "none" /\ Vendor!Date(v) <= Vendor!Date(script.latest)
  <2>1. script.latest \in C /\ script.latest \in Listed
    BY <1>1, <1>6 DEF Vendor!Candidates, Vendor!NoRelease
  <2>2. latest # "none" /\ Vendor!Date(script.latest) <= Vendor!Date(latest)
    BY <1>2, <2>1
  <2> HIDE DEF page, C
  <2>3. /\ Vendor!Date(v) \in Nat /\ Vendor!Date(script.latest) \in Nat
        /\ Vendor!Date(latest) \in Nat
    BY <1>2, <1>3, <1>4, <2>1, <2>2
  <2> QED BY <1>2, <1>6, <2>2, <2>3
<1> QED BY <1>2, <1>4, <1>5, <1>6

LEMMA ChosenIs ==
    ASSUME NEW v \in Versions
    PROVE  \/ Vendor!Chosen(v) = [at |-> "ended", how |-> "failed"]
           \/ Vendor!Chosen(v) =
                [at |-> "download", release |-> v,
                 todo |-> {i \in Indices : Assets[i] \in Shipped[v]}]
BY DEF Vendor!Chosen, Vendor!Ended, Indices

(* The last page has been read: the release that is taken is the latest.    *)
LEMMA TakesLatest ==
    ASSUME VendorInv, Vendor!Step
    PROVE  script.at = "page" /\ script'.at = "download" =>
               \A v \in script.there : Vendor!Date(v) <= Vendor!Date(script'.release)
<1> SUFFICES ASSUME script.at = "page", script'.at = "download", NEW v \in script.there
             PROVE  Vendor!Date(v) <= Vendor!Date(script'.release)
  OBVIOUS
<1> DEFINE latest == Vendor!Later(script.latest, Vendor!Page(script.page))
<1>1. Vendor!ReadPage
  BY DEF Vendor!Step, Vendor!Publish, Vendor!Vendor, Vendor!Download, Vendor!RemoveStale,
         Vendor!WriteVersion, Vendor!Stop, Vendor!Ended
<1>2. /\ latest \in Listed \cup {"none"}
      /\ \/ Vendor!Place(v) > script.page * PageSize
         \/ latest # "none" /\ Vendor!Date(v) <= Vendor!Date(latest)
  <2> HIDE DEF latest
  <2> QED BY PageSeen DEF VendorInv, latest
<1>3. ~Vendor!Full(script.page)
  BY <1>1 DEF Vendor!ReadPage, VendorInv, VendorTypeOK, ScriptType
<1>4. /\ script.page * PageSize \in Nat
      /\ Vendor!Place(v) \in Nat /\ Vendor!Cardinality(Listed) \in Nat
      /\ Vendor!Place(v) <= Vendor!Cardinality(Listed)
  BY PlaceType, LibraryAssumption DEF VendorInv, VendorTypeOK, ScriptType
<1>5. latest # "none" /\ Vendor!Date(v) <= Vendor!Date(latest)
  <2> HIDE DEF latest
  <2>1. ~(script.page * PageSize <= Vendor!Cardinality(Listed))
    BY <1>3 DEF Vendor!Full, Listed
  <2> QED BY <1>2, <1>4, <2>1
<1>6. script' = Vendor!Chosen(latest)
  BY <1>1, <1>3, <1>5 DEF Vendor!ReadPage, Vendor!NoRelease, Vendor!Ended
<1>7. script'.release = latest
  <2> HIDE DEF latest
  <2>1. latest \in Versions
    BY <1>2, <1>5 DEF VendorInv, VendorTypeOK, Listed, Vendor!Range
  <2> QED BY <1>6, <2>1, ChosenIs
<1> QED BY <1>5, <1>7

LEMMA ScriptPublish ==
    ASSUME VendorInv, Vendor!Publish
    PROVE  VendorInv'
<1> USE DEF VendorInv
<1>1. PICK v \in Versions \ Listed : published' = Append(published, v)
  BY DEF Vendor!Publish, Versions, Listed
<1>2. /\ published' \in Seq(Versions) /\ PublishedOnce' /\ Listed \subseteq Listed'
      /\ \A u \in Listed : Vendor!Date(u)' = Vendor!Date(u)
      /\ \A u \in Listed : Vendor!Place(u)' >= Vendor!Place(u)
  BY <1>1, PublishKeeps DEF VendorTypeOK
<1>3. UNCHANGED <<libs, version, script, vendorings>>
  BY DEF Vendor!Publish
<1>4. VendorTypeOK'
  BY <1>2, <1>3 DEF VendorTypeOK, ScriptType
<1>5. LibrariesPlaced'
  BY <1>3 DEF LibrariesPlaced, Vendor!Vendored, Vendor!Checkout
<1>6. SeenOrAhead'
  <2> SUFFICES ASSUME script.at = "page"
               PROVE  SeenOrAhead'
    BY <1>3 DEF SeenOrAhead
  <2>1. script.page \in Nat /\ (script.page - 1) * PageSize \in Int
    BY LibraryAssumption DEF VendorTypeOK, ScriptType
  <2>2. PICK last : last = script.latest
    OBVIOUS
  <2>3. Vendor!Date(script.latest)' = Vendor!Date(last)' /\ script'.latest = last
    BY <1>3, <2>2 DEF Vendor!Date
  <2>4. ASSUME NEW u \in script.there
        PROVE  /\ u \in Listed' /\ Vendor!Latest(u)'
               /\ \/ Vendor!Place(u)' > (script.page - 1) * PageSize
                  \/ last # "none" /\ Vendor!Date(u)' <= Vendor!Date(last)'
    <3>1. /\ u \in Listed /\ Vendor!Latest(u)
          /\ \/ Vendor!Place(u) > (script.page - 1) * PageSize
             \/ last # "none" /\ Vendor!Date(u) <= Vendor!Date(last)
          /\ last # "none" => last \in Listed
      BY <2>2 DEF SeenOrAhead
    <3>2. Vendor!Place(u)' \in Nat /\ Vendor!Place(u) \in Nat
      <4>1. Vendor!Place(u) \in Nat
        BY PlaceType DEF VendorTypeOK
      <4>2. Vendor!Place(u)' \in Nat
        <5> DEFINE UpTo == {w \in Listed' : Vendor!Age(w) <= Vendor!Age(u)}
        <5>1. UpTo \in SUBSET Versions
          BY <1>2 DEF Listed, Vendor!Range
        <5>2. Vendor!Place(u)' = Cardinality(UpTo)
          BY CardinalityIs DEF Vendor!Place, Listed, Vendor!Age
        <5> HIDE DEF UpTo
        <5> QED BY <5>1, <5>2, Finite, FS_Subset, FS_CardinalityType
      <4> QED BY <4>1, <4>2
    <3>3. Vendor!Latest(u)' = Vendor!Latest(u)
      BY DEF Vendor!Latest
    <3> QED BY <1>2, <2>1, <3>1, <3>2, <3>3
  <2>5. last # "none" => last \in Listed'
    BY <1>2, <2>2 DEF SeenOrAhead
  <2> QED BY <1>3, <2>2, <2>3, <2>4, <2>5 DEF SeenOrAhead
<1> QED BY <1>2, <1>4, <1>5, <1>6

(* A script that has chosen a release, or has not.                          *)
LEMMA ScriptChooses ==
    ASSUME VendorInv, UNCHANGED <<published, libs, version>>,
           vendorings' \in 0..MaxVendorings,
           \/ \E v \in Versions : script' = Vendor!Chosen(v)
           \/ script' = Vendor!Ended("failed")
    PROVE  VendorInv'
<1>1. \/ script' = [at |-> "ended", how |-> "failed"]
      \/ \E v \in Versions :
            script' = [at |-> "download", release |-> v,
                       todo |-> {i \in Indices : Assets[i] \in Shipped[v]}]
  BY ChosenIs DEF Vendor!Ended
<1>2. VendorTypeOK' /\ PublishedOnce' /\ SeenOrAhead'
  BY <1>1 DEF VendorInv, VendorTypeOK, ScriptType, PublishedOnce, SeenOrAhead
<1>3. LibrariesPlaced'
  BY <1>1 DEF LibrariesPlaced, Vendor!Vendored, Vendor!Ended
<1> QED BY <1>2, <1>3 DEF VendorInv

LEMMA ScriptVendor ==
    ASSUME VendorInv, Vendor!Vendor
    PROVE  VendorInv'
<1>1. vendorings' \in 0..MaxVendorings
  BY LibraryAssumption DEF Vendor!Vendor, VendorInv, VendorTypeOK
<1>2. CASE script' = [at |-> "page", page |-> 1, latest |-> "none",
                      there |-> {v \in Listed : Vendor!Latest(v)}]
  <2>1. Listed \subseteq Versions
    BY DEF VendorInv, VendorTypeOK, Listed, Vendor!Range
  <2>2. VendorTypeOK' /\ PublishedOnce'
    BY <1>1, <1>2, <2>1 DEF Vendor!Vendor, VendorInv, VendorTypeOK, ScriptType, PublishedOnce
  <2>3. LibrariesPlaced'
    BY <1>2 DEF LibrariesPlaced, Vendor!Vendored, Vendor!Ended
  <2>4. SeenOrAhead'
    <3>1. Listed' = Listed /\ \A v : Vendor!Latest(v)' <=> Vendor!Latest(v)
      BY DEF Vendor!Vendor, Listed, Vendor!Latest, Vendor!Range
    <3>2. \A v \in Listed : Vendor!Place(v)' > (script'.page - 1) * PageSize
      <4>1. (script'.page - 1) * PageSize = 0
        BY <1>2, LibraryAssumption
      <4>2. \A v \in Listed : Vendor!Place(v)' = Vendor!Place(v)
        BY DEF Vendor!Vendor, Vendor!Place, Vendor!Age
      <4>3. \A v \in Listed : Vendor!Place(v) > 0
        <5> SUFFICES ASSUME NEW v \in Listed
                     PROVE  Vendor!Place(v) > 0
          OBVIOUS
        <5> DEFINE UpTo == {w \in Listed : Vendor!Age(w) <= Vendor!Age(v)}
        <5>1. UpTo \in SUBSET Versions /\ Vendor!Place(v) = Cardinality(UpTo)
          BY <2>1, CardinalityIs DEF Vendor!Place, Listed
        <5>2. v \in UpTo
          BY LibraryAssumption, <2>1 DEF Versions, Vendor!Versions, Vendor!Range, Vendor!Age
        <5> HIDE DEF UpTo
        <5> QED BY <5>1, <5>2, Finite, FS_Subset, FS_CardinalityType, FS_EmptySet
      <4> QED BY <4>1, <4>2, <4>3
    <3> QED BY <1>2, <3>1, <3>2 DEF SeenOrAhead
  <2> QED BY <2>2, <2>3, <2>4 DEF VendorInv
<1> QED
  BY <1>1, <1>2, ScriptChooses DEF Vendor!Vendor, Vendor!NoRelease, Listed, Versions

LEMMA ScriptReads ==
    ASSUME VendorInv, Vendor!ReadPage
    PROVE  VendorInv'
<1> DEFINE latest == Vendor!Later(script.latest, Vendor!Page(script.page))
<1>1. script.at = "page" /\ script.page \in Nat \ {0} /\ script.there \subseteq Versions
  BY DEF Vendor!ReadPage, VendorInv, VendorTypeOK, ScriptType
<1>2. latest \in Listed \cup {"none"}
  <2>1. /\ published \in Seq(Versions) /\ PublishedOnce
        /\ script.latest \in Listed \cup {"none"}
        /\ Vendor!Page(script.page) \subseteq Listed
    BY <1>1 DEF VendorInv, VendorTypeOK, ScriptType, SeenOrAhead, Vendor!Page, Listed
  <2> QED BY <2>1, LaterIs
<1>3. Listed \subseteq Versions
  BY DEF VendorInv, VendorTypeOK, Listed, Vendor!Range
<1>4. CASE Vendor!Full(script.page)
  <2>1. script' = [at |-> "page", page |-> script.page + 1, latest |-> latest,
                   there |-> script.there]
    <3> HIDE DEF latest
    <3>1. script' = [script EXCEPT !.page = @ + 1, !.latest = latest]
      BY <1>4 DEF Vendor!ReadPage, latest
    <3> QED BY <1>1, <3>1 DEF VendorInv, VendorTypeOK, ScriptType
  <2> HIDE DEF latest
  <2>2. VendorTypeOK' /\ PublishedOnce'
    BY <1>1, <1>2, <1>3, <2>1
       DEF Vendor!ReadPage, VendorInv, VendorTypeOK, ScriptType, PublishedOnce
  <2>3. LibrariesPlaced'
    BY <2>1 DEF LibrariesPlaced, Vendor!Vendored, Vendor!Ended
  <2>4. SeenOrAhead'
    <3>1. \A v \in script.there :
            \/ Vendor!Place(v) > script.page * PageSize
            \/ latest # "none" /\ Vendor!Date(v) <= Vendor!Date(latest)
      BY <1>1, PageSeen DEF VendorInv, latest
    <3>2. (script'.page - 1) * PageSize = script.page * PageSize
      BY <1>1, <2>1
    <3>3. /\ Listed' = Listed
          /\ \A v : /\ Vendor!Latest(v)' <=> Vendor!Latest(v)
                    /\ Vendor!Place(v)' = Vendor!Place(v)
                    /\ Vendor!Date(v)' = Vendor!Date(v)
      BY DEF Vendor!ReadPage, Listed, Vendor!Latest, Vendor!Range, Vendor!Place,
             Vendor!Age, Vendor!Date
    <3>4. \A v \in script.there : v \in Listed /\ Vendor!Latest(v)
      BY <1>1 DEF VendorInv, SeenOrAhead
    <3> QED BY <1>2, <2>1, <3>1, <3>2, <3>3, <3>4 DEF SeenOrAhead
  <2> QED BY <2>2, <2>3, <2>4 DEF VendorInv
<1>5. CASE ~Vendor!Full(script.page)
  <2>1. \/ \E v \in Versions : script' = Vendor!Chosen(v)
        \/ script' = Vendor!Ended("failed")
    <3> HIDE DEF latest
    <3>1. script' = IF latest = "none" THEN Vendor!Ended("failed") ELSE Vendor!Chosen(latest)
      BY <1>5 DEF Vendor!ReadPage, Vendor!NoRelease, latest
    <3> QED BY <1>2, <1>3, <3>1
  <2> QED BY <2>1, ScriptChooses DEF Vendor!ReadPage, VendorInv, VendorTypeOK
<1> QED BY <1>4, <1>5

(* One library comes, or the last has come.                                 *)
LEMMA ScriptDownload ==
    ASSUME VendorInv, Vendor!Download
    PROVE  VendorInv'
<1>1. /\ script \in [at : {"download"}, release : Versions, todo : SUBSET Indices]
      /\ UNCHANGED <<published, version, vendorings>>
  BY DEF Vendor!Download, VendorInv, VendorTypeOK, ScriptType
<1>2. PICK v, todo : script = [at |-> "download", release |-> v, todo |-> todo]
                     /\ v \in Versions /\ todo \in SUBSET Indices
  BY <1>1
<1>3. /\ libs \in [Names -> Files] /\ published \in Seq(Versions) /\ PublishedOnce
      /\ \A i \in Indices \ todo : Assets[i] \in Shipped[v] => libs[Assets[i]] = v
  BY <1>2 DEF VendorInv, VendorTypeOK, LibrariesPlaced
<1>4. Shipped[v] \subseteq Names /\ \A a \in Names : \E i \in Indices : Assets[i] = a
  BY <1>2, LibraryAssumption DEF Versions, Names, Vendor!Names, Vendor!Range, Indices
<1>5. CASE todo = {} /\ script' = [at |-> "remove", release |-> v] /\ UNCHANGED libs
  <2>1. VendorTypeOK' /\ PublishedOnce' /\ SeenOrAhead'
    BY <1>1, <1>2, <1>5 DEF VendorInv, VendorTypeOK, ScriptType, PublishedOnce, SeenOrAhead
  <2>2. \A a \in Shipped[v] : libs[a] = v
    BY <1>3, <1>4, <1>5
  <2>3. LibrariesPlaced'
    BY <1>5, <2>2 DEF LibrariesPlaced, Vendor!Vendored, Vendor!Ended
  <2> QED BY <2>1, <2>3 DEF VendorInv
<1>6. CASE script' = Vendor!Ended("failed") /\ UNCHANGED libs
  BY <1>1, <1>6, ScriptChooses DEF VendorInv, VendorTypeOK
<1>7. ASSUME todo # {}, NEW i, i = Vendor!Min(todo),
             libs' = [libs EXCEPT ![Assets[i]] = v],
             script' = [at |-> "download", release |-> v, todo |-> todo \ {i}]
      PROVE  VendorInv'
  <2>1. i \in todo
    <3>1. todo \subseteq Nat
      BY <1>2, LibraryAssumption DEF Indices
    <3> QED BY <1>7, <3>1, LeastNatural DEF Vendor!Min
  <2>2. Assets[i] \in Names
    BY <1>2, <2>1 DEF Indices, Names, Vendor!Names, Vendor!Range
  <2>3. libs' \in [Names -> Files] /\ \A a \in Names : libs'[a] = IF a = Assets[i] THEN v ELSE libs[a]
    BY <1>2, <1>3, <1>7, <2>2 DEF Files
  <2>4. VendorTypeOK' /\ PublishedOnce' /\ SeenOrAhead'
    BY <1>1, <1>2, <1>7, <2>3
       DEF VendorInv, VendorTypeOK, ScriptType, PublishedOnce, SeenOrAhead
  <2>5. \A j \in Indices \ (todo \ {i}) : Assets[j] \in Shipped[v] => libs'[Assets[j]] = v
    BY <1>3, <1>4, <2>3
  <2>6. LibrariesPlaced'
    BY <1>7, <2>5 DEF LibrariesPlaced, Vendor!Vendored, Vendor!Ended
  <2> QED BY <2>4, <2>6 DEF VendorInv
<1>8. CASE todo # {} /\ libs' = [libs EXCEPT ![Assets[Vendor!Min(todo)]] = v]
           /\ script' = [script EXCEPT !.todo = @ \ {Vendor!Min(@)}]
  <2>1. PICK i : i = Vendor!Min(todo)
    OBVIOUS
  <2>2. script' = [at |-> "download", release |-> v, todo |-> todo \ {i}]
    BY <1>2, <1>8, <2>1
  <2> QED BY <1>7, <1>8, <2>1, <2>2
<1> QED BY <1>2, <1>5, <1>6, <1>8 DEF Vendor!Download, Vendor!Verified

LEMMA ScriptRemoves ==
    ASSUME VendorInv, Vendor!RemoveStale
    PROVE  VendorInv'
<1>1. PICK v : v \in Versions /\ script = [at |-> "remove", release |-> v]
  BY DEF Vendor!RemoveStale, VendorInv, VendorTypeOK, ScriptType
<1>2. /\ libs \in [Names -> Files] /\ published \in Seq(Versions) /\ PublishedOnce
      /\ \A a \in Shipped[v] : libs[a] = v
      /\ UNCHANGED <<published, version, vendorings>>
  BY <1>1 DEF Vendor!RemoveStale, VendorInv, VendorTypeOK, LibrariesPlaced
<1>3. CASE Vendor!Stale = {} /\ script' = [script EXCEPT !.at = "version"] /\ UNCHANGED libs
  <2>1. script' = [at |-> "version", release |-> v]
    BY <1>1, <1>3
  <2>2. VendorTypeOK' /\ PublishedOnce' /\ SeenOrAhead'
    BY <1>1, <1>2, <1>3, <2>1
       DEF VendorInv, VendorTypeOK, ScriptType, PublishedOnce, SeenOrAhead
  <2>3. \A a \in Names \ Shipped[v] : libs[a] = "absent"
    BY <1>1, <1>3 DEF Vendor!Stale, Names
  <2>4. LibrariesPlaced'
    BY <1>2, <1>3, <2>1, <2>3 DEF LibrariesPlaced, Vendor!Vendored, Vendor!Ended
  <2> QED BY <2>2, <2>4 DEF VendorInv
<1>4. ASSUME NEW a \in Vendor!Stale, libs' = [libs EXCEPT ![a] = "absent"], UNCHANGED script
      PROVE  VendorInv'
  <2>1. a \in Names \ Shipped[v]
    BY <1>1 DEF Vendor!Stale, Names
  <2>2. libs' \in [Names -> Files] /\ \A b \in Names \ {a} : libs'[b] = libs[b]
    BY <1>2, <1>4 DEF Files
  <2>3. VendorTypeOK' /\ PublishedOnce' /\ SeenOrAhead'
    BY <1>1, <1>2, <1>4, <2>2
       DEF VendorInv, VendorTypeOK, ScriptType, PublishedOnce, SeenOrAhead
  <2>4. \A b \in Shipped[v] : libs'[b] = v
    <3>1. Shipped[v] \subseteq Names
      BY <1>1, LibraryAssumption DEF Versions, Names
    <3> QED BY <1>2, <2>1, <2>2, <3>1
  <2>5. LibrariesPlaced'
    BY <1>1, <1>4, <2>4 DEF LibrariesPlaced, Vendor!Vendored, Vendor!Ended
  <2> QED BY <2>3, <2>5 DEF VendorInv
<1> QED BY <1>3, <1>4 DEF Vendor!RemoveStale

(* Only a script that has placed and removed everything names its release.  *)
LEMMA ScriptWrites ==
    ASSUME VendorInv, Vendor!WriteVersion
    PROVE  VendorInv'
<1>1. PICK v : v \in Versions /\ script = [at |-> "version", release |-> v]
  BY DEF Vendor!WriteVersion, VendorInv, VendorTypeOK, ScriptType
<1>2. /\ libs \in [Names -> Files] /\ published \in Seq(Versions) /\ PublishedOnce
      /\ \A a \in Shipped[v] : libs[a] = v
      /\ \A a \in Names \ Shipped[v] : libs[a] = "absent"
      /\ UNCHANGED <<published, libs, vendorings>>
  BY <1>1 DEF Vendor!WriteVersion, VendorInv, VendorTypeOK, LibrariesPlaced
<1>3. libs = Vendor!Checkout(v)
  BY <1>2 DEF Vendor!Checkout, Names
<1>4. \/ version' = v /\ script' = [at |-> "ended", how |-> "done"]
      \/ version' = "broken" /\ script' = [at |-> "ended", how |-> "failed"]
  BY <1>1 DEF Vendor!WriteVersion, Vendor!Ended
<1>5. VendorTypeOK' /\ PublishedOnce' /\ SeenOrAhead'
  BY <1>1, <1>2, <1>4
     DEF VendorInv, VendorTypeOK, ScriptType, PublishedOnce, SeenOrAhead
<1>6. version' = v => libs' = Vendor!Checkout(version)'
  BY <1>2, <1>3 DEF Vendor!Checkout
<1>7. LibrariesPlaced'
  BY <1>1, <1>4, <1>6 DEF LibrariesPlaced, Vendor!Vendored, Vendor!Ended
<1> QED BY <1>5, <1>7 DEF VendorInv

LEMMA VendorInductive ==
    ASSUME VendorInv, Vendor!Step
    PROVE  VendorInv'
<1>1. CASE Vendor!Stop
  BY <1>1, ScriptChooses DEF Vendor!Stop, VendorInv, VendorTypeOK
<1> QED
  BY <1>1, ScriptPublish, ScriptVendor, ScriptReads, ScriptDownload, ScriptRemoves,
     ScriptWrites DEF Vendor!Step

LEMMA VendorStutters ==
    ASSUME VendorInv, UNCHANGED checkoutVars
    PROVE  VendorInv'
<1>1. UNCHANGED published /\ UNCHANGED libs /\ UNCHANGED version /\ UNCHANGED script
      /\ UNCHANGED vendorings
  BY DEF checkoutVars
<1>2. VendorTypeOK'
  BY <1>1 DEF VendorInv, VendorTypeOK, ScriptType
<1>3. PublishedOnce' /\ LibrariesPlaced'
  BY <1>1 DEF VendorInv, PublishedOnce, LibrariesPlaced, Vendor!Vendored, Vendor!Checkout
<1>4. SeenOrAhead'
  <2>1. /\ Listed' = Listed
        /\ \A v : /\ Vendor!Latest(v)' <=> Vendor!Latest(v)
                  /\ Vendor!Place(v)' = Vendor!Place(v)
                  /\ Vendor!Date(v)' = Vendor!Date(v)
    BY <1>1 DEF Listed, Vendor!Latest, Vendor!Range, Vendor!Place, Vendor!Age, Vendor!Date
  <2>2. PICK last : last = script.latest
    OBVIOUS
  <2>3. Vendor!Date(script.latest)' = Vendor!Date(last)'
    BY <1>1, <2>2 DEF Vendor!Date
  <2> QED BY <1>1, <2>1, <2>2, <2>3 DEF VendorInv, SeenOrAhead
<1> QED BY <1>2, <1>3, <1>4 DEF VendorInv

-----------------------------------------------------------------------------
(* From the checkout to the processes of a build.                           *)

(* Builds of what the script vendored leave each version's own library in   *)
(* its directory.                                                           *)
Unmixed == ~mixed => \A v \in Versions : cached[v] \in {"absent", v}

(* Nobody runs before the build; a build of what was vendored, after none   *)
(* but such builds, has the library of its version and finds no other.      *)
BuildKnown ==
    \/ /\ built = NotBuilt
       /\ \A p \in Processes : pc[p] = "prepare"
       /\ partial = {} /\ lock = [d \in Dirs |-> Nobody] /\ outages = 0
    \/ /\ built \in [made : {TRUE}, pinned : BOOLEAN, other : BOOLEAN, asVendored : BOOLEAN]
       /\ built.asVendored => built.pinned /\ ~built.other

CachedTypeOK == cached \in [Versions -> Files] /\ mixed \in BOOLEAN

LibraryInv == CacheInv /\ VendorInv /\ CachedTypeOK /\ Unmixed /\ BuildKnown

LEMMA LibraryStarts ==
    ASSUME LibraryInit
    PROVE  LibraryInv
<1>1. TypeOK
  BY DEF LibraryInit, Init, Nowhere, TypeOK, Running
<1>2. InsideHoldLock /\ PathIsWhole /\ SoundDirs /\ InPlace
  BY DEF LibraryInit, Init, Nowhere, InsideHoldLock, PathIsWhole, SoundDirs, InPlace, Inside
<1>3. PartialsKnown
  BY DEF LibraryInit, Init, PartialsKnown, Partials
<1>4. PICK v \in Versions :
            /\ published = <<v>> /\ libs = Vendor!Checkout(v) /\ version = v
            /\ script = [at |-> "ended", how |-> "done"] /\ vendorings = 0
  BY DEF LibraryInit, Vendor!Init, Vendor!Ended, Versions
<1>5. libs \in [Names -> Files]
  BY <1>4 DEF Vendor!Checkout, Names, Files
<1>6. VendorTypeOK /\ PublishedOnce /\ SeenOrAhead
  BY <1>4, <1>5, LibraryAssumption DEF VendorTypeOK, ScriptType, PublishedOnce, SeenOrAhead
<1>7. LibrariesPlaced
  BY <1>4 DEF LibrariesPlaced
<1>8. CachedTypeOK /\ Unmixed /\ BuildKnown
  BY DEF LibraryInit, Init, CachedTypeOK, Unmixed, BuildKnown, Versions, Files
<1> QED BY <1>1, <1>2, <1>3, <1>6, <1>7, <1>8 DEF LibraryInv, CacheInv, VendorInv

(* A build has what it embeds from the checkout.                            *)
LEMMA Embedded ==
    ASSUME LibraryInv, Builds
    PROVE  /\ built = NotBuilt /\ (\A p \in Processes : pc[p] = "prepare")
           /\ partial = {} /\ lock = [d \in Dirs |-> Nobody] /\ outages = 0
           /\ version \in Versions /\ libs[Mine] \in Versions
           /\ cached[version] \in Files
           /\ Vendor!Vendored => libs[Mine] = version
<1>1. /\ built = NotBuilt /\ (\A p \in Processes : pc[p] = "prepare")
      /\ partial = {} /\ lock = [d \in Dirs |-> Nobody] /\ outages = 0
  BY DEF LibraryInv, BuildKnown, Builds
<1>2. version \in Versions /\ libs[Mine] \in Versions
  BY LibraryAssumption DEF LibraryInv, VendorInv, VendorTypeOK, Builds, Files, Names
<1>3. cached[version] \in Files
  BY <1>2 DEF LibraryInv, CachedTypeOK
<1>4. Vendor!Vendored => libs[Mine] = version
  <2>1. Vendor!Vendored => libs = Vendor!Checkout(version)
    BY DEF LibraryInv, VendorInv, LibrariesPlaced
  <2>2. Mine \in Names /\ libs[Mine] # "absent"
    BY LibraryAssumption DEF Builds, Names
  <2> QED BY <2>1, <2>2 DEF Vendor!Checkout, Names
<1> QED BY <1>1, <1>2, <1>3, <1>4

LEMMA LibraryEarlierBuild ==
    ASSUME LibraryInv, EarlierBuild
    PROVE  LibraryInv'
<1>1. /\ cached' = [cached EXCEPT ![version] = libs[Mine]]
      /\ mixed' <=> mixed \/ libs[Mine] # version
      /\ UNCHANGED vars /\ UNCHANGED checkoutVars /\ UNCHANGED built
  BY DEF EarlierBuild
<1>2. version \in Versions /\ libs[Mine] \in Versions
  BY Embedded DEF EarlierBuild
<1>3. CacheInv' /\ VendorInv'
  BY <1>1, CacheInductive, VendorStutters DEF LibraryInv, CacheNext
<1>4. CachedTypeOK'
  BY <1>1, <1>2 DEF EarlierBuild, LibraryInv, CachedTypeOK, Files
<1>5. Unmixed'
  BY <1>1, <1>2 DEF LibraryInv, CachedTypeOK, Unmixed
<1>6. BuildKnown'
  BY <1>1 DEF vars, LibraryInv, BuildKnown
<1> QED BY <1>3, <1>4, <1>5, <1>6 DEF LibraryInv

LEMMA LibraryBuild ==
    ASSUME LibraryInv, Build
    PROVE  LibraryInv'
<1>1. /\ built = NotBuilt /\ (\A p \in Processes : pc[p] = "prepare")
      /\ partial = {} /\ lock = [d \in Dirs |-> Nobody] /\ outages = 0
      /\ version \in Versions /\ libs[Mine] \in Versions
      /\ cached[version] \in Files
      /\ Vendor!Vendored => libs[Mine] = version
  BY Embedded DEF Build
<1>2. UNCHANGED <<platform, partial, lock, pc, dir, ok, mapped, outages>>
  BY DEF Build
<1>3. dest' \in [Dirs -> Contents] /\ sound' = (\A d \in Dirs : dest'[d] # "other")
  <2>1. dest' \in [Dirs -> Before] /\ sound' = (\A d \in Dirs : dest'[d] # "other")
    BY DEF Build
  <2> QED BY <2>1
<1>4. TypeOK'
  BY <1>2, <1>3 DEF LibraryInv, CacheInv, TypeOK
<1>5. InsideHoldLock' /\ PathIsWhole' /\ SoundDirs' /\ InPlace'
  BY <1>1, <1>2, <1>3 DEF InsideHoldLock, PathIsWhole, SoundDirs, InPlace, Inside,
                          LibraryInv, CacheInv
<1>6. PartialsKnown'
  BY <1>1, <1>2 DEF PartialsKnown, Partials
<1>7. /\ published' = <<>> /\ libs' = [a \in Names |-> "absent"]
      /\ version' = "broken" /\ script' = [at |-> "ended", how |-> "failed"]
      /\ vendorings' = 0
      /\ cached' = [v \in Versions |-> "absent"] /\ mixed' = FALSE
  BY DEF Build, Names, Versions, Vendor!Ended
<1>8. VendorTypeOK' /\ PublishedOnce' /\ SeenOrAhead'
  BY <1>7, LibraryAssumption
     DEF VendorTypeOK, ScriptType, PublishedOnce, SeenOrAhead, Files
<1>9. LibrariesPlaced' /\ CachedTypeOK' /\ Unmixed'
  BY <1>7 DEF LibrariesPlaced, Vendor!Vendored, Vendor!Ended, CachedTypeOK, Unmixed, Files
<1>10. BuildKnown'
  <2> DEFINE found == cached[version]
             taken == TakenFor(found, libs[Mine])
  <2>1. built' = [made |-> TRUE, pinned |-> libs[Mine] = version,
                  other |-> taken /\ found # libs[Mine],
                  asVendored |-> Vendor!Vendored /\ ~mixed]
    BY DEF Build
  <2>2. ASSUME Vendor!Vendored, ~mixed
        PROVE  libs[Mine] = version /\ ~(taken /\ found # libs[Mine])
    <3>1. found \in {"absent", version} /\ libs[Mine] = version
      BY <1>1, <2>2 DEF LibraryInv, Unmixed
    <3>2. {"absent", version} \notin SameSize /\ version # "absent"
      BY <1>1, LibraryAssumption DEF Versions
    <3> QED BY <3>1, <3>2 DEF TakenFor
  <2> HIDE DEF found, taken
  <2> QED BY <2>1, <2>2 DEF BuildKnown
<1> QED
  BY <1>4, <1>5, <1>6, <1>8, <1>9, <1>10 DEF LibraryInv, CacheInv, VendorInv

LEMMA LibraryVendors ==
    ASSUME LibraryInv, VendorStep
    PROVE  LibraryInv'
<1>1. Vendor!Step /\ UNCHANGED vars /\ UNCHANGED cached /\ UNCHANGED mixed /\ UNCHANGED built
  BY DEF VendorStep
<1>2. CacheInv' /\ VendorInv'
  BY <1>1, CacheInductive, VendorInductive DEF LibraryInv, CacheNext
<1>3. CachedTypeOK' /\ Unmixed' /\ BuildKnown'
  BY <1>1 DEF LibraryInv, CachedTypeOK, Unmixed, BuildKnown, vars
<1> QED BY <1>2, <1>3 DEF LibraryInv

LEMMA LibraryFollowed ==
    ASSUME LibraryInv, built.made, CacheNext,
           UNCHANGED <<checkoutVars, cached, mixed, built>>
    PROVE  LibraryInv'
<1>1. CacheInv' /\ VendorInv'
  BY CacheInductive, VendorStutters DEF LibraryInv
<1>2. CachedTypeOK' /\ Unmixed'
  BY DEF LibraryInv, CachedTypeOK, Unmixed
<1>3. BuildKnown'
  <2>1. built # NotBuilt
    BY DEF NotBuilt
  <2> QED BY <2>1 DEF LibraryInv, BuildKnown
<1> QED BY <1>1, <1>2, <1>3 DEF LibraryInv

LEMMA LibraryStutters ==
    ASSUME LibraryInv, UNCHANGED allVars
    PROVE  LibraryInv'
<1>1. UNCHANGED vars /\ UNCHANGED checkoutVars /\ UNCHANGED cached /\ UNCHANGED mixed
      /\ UNCHANGED built
  BY DEF allVars
<1>2. CacheInv' /\ VendorInv'
  BY <1>1, CacheInductive, VendorStutters DEF LibraryInv, CacheNext
<1>3. CachedTypeOK' /\ Unmixed' /\ BuildKnown'
  BY <1>1 DEF LibraryInv, CachedTypeOK, Unmixed, BuildKnown, vars
<1> QED BY <1>2, <1>3 DEF LibraryInv

LEMMA LibraryInductive ==
    ASSUME LibraryInv, [LibraryNext]_allVars
    PROVE  LibraryInv'
<1>1. ASSUME NEW p \in Processes, Followed(Step(p) \/ LockFails(p) \/ Die(p))
      PROVE  LibraryInv'
  BY <1>1, LibraryFollowed DEF Followed, CacheNext
<1>2. CASE Followed(Outage)
  BY <1>2, LibraryFollowed DEF Followed, CacheNext
<1>3. CASE Followed(Finished)
  BY <1>3, LibraryFollowed DEF Followed, CacheNext, Finished
<1>4. CASE Abandoned
  BY <1>4, LibraryStutters DEF Abandoned
<1> QED
  BY <1>1, <1>2, <1>3, <1>4, LibraryVendors, LibraryEarlierBuild, LibraryBuild,
     LibraryStutters DEF LibraryNext

LEMMA LibraryInvariant == LibrarySpec => []LibraryInv
BY LibraryStarts, LibraryInductive, PTL DEF LibrarySpec

-----------------------------------------------------------------------------
(* Everything has its type: the cache's processes and files, the checkout   *)
(* and the script.                                                          *)
THEOREM TypeCorrect == LibrarySpec => [](TypeOK /\ VendorTypeOK /\ CachedTypeOK)
<1>1. LibraryInv => TypeOK /\ VendorTypeOK /\ CachedTypeOK
  BY DEF LibraryInv, CacheInv, VendorInv
<1> QED BY <1>1, LibraryInvariant, PTL

(* TestLoadLibVersion's claim, for every build and whatever builds, dead    *)
(* processes and outages came before: a process that loads a library loads  *)
(* all of it, and the one that its build was made for if the script was let *)
(* finish.                                                                  *)
THEOREM WholeLibraryLoaded == LibrarySpec => []LoadedPinned
<1>1. LibraryInv => LoadedPinned
  <2> SUFFICES ASSUME LibraryInv, NEW p \in Processes, pc[p] = "loaded"
               PROVE  /\ mapped[p].content = "whole"
                      /\ built.asVendored => built.pinned /\ ~built.other
    BY DEF LoadedPinned
  <2>1. mapped[p].content = "whole"
    BY DEF LibraryInv, CacheInv, PathIsWhole
  <2>2. built.asVendored => built.pinned /\ ~built.other
    BY DEF LibraryInv, BuildKnown
  <2> QED BY <2>1, <2>2
<1> QED BY <1>1, LibraryInvariant, PTL

(* The comment of writeDynamicLibrary, with the condition it needs, and     *)
(* what the lock is for, without one: on Windows there is nothing at the    *)
(* path of a library that is about to be renamed as long as the directories *)
(* are sound, and never a file that another process has mapped.             *)
THEOREM NobodyReplaces == LibrarySpec => []RenameIsSafe
<1>1. LibraryInv => DestAbsentIfSound
  BY DEF LibraryInv, CacheInv, SoundDirs, DestAbsentIfSound, DestAbsent
<1>2. LibraryInv => MappedNeverReplaced
  BY DEF LibraryInv, CacheInv, InPlace, MappedNeverReplaced
<1>3. LibraryInv => RenameIsSafe
  BY <1>1, <1>2 DEF RenameIsSafe
<1> QED BY <1>3, LibraryInvariant, PTL

(* The loop over the pages: whatever is published while they are read, the  *)
(* script takes no release that was published before one it could have      *)
(* found.                                                                   *)
THEOREM LatestTaken == LibrarySpec => LatestChosen
<1> DEFINE Chosen ==
      script.at = "page" /\ script'.at = "download" =>
          \A v \in script.there : Vendor!Date(v) <= Vendor!Date(script'.release)
<1>1. LibraryInv /\ [LibraryNext]_allVars => [Chosen]_script
  <2> SUFFICES ASSUME LibraryInv, [LibraryNext]_allVars, script' # script
               PROVE  Chosen
    OBVIOUS
  <2>1. CASE VendorStep
    BY <2>1, TakesLatest DEF LibraryInv, VendorStep
  <2>2. CASE Build
    BY <2>2 DEF Build, Vendor!Ended
  <2>3. ~VendorStep /\ ~Build => UNCHANGED script
    BY DEF LibraryNext, EarlierBuild, Followed, Abandoned, checkoutVars, allVars
  <2> QED BY <2>1, <2>2, <2>3
<1> HIDE DEF Chosen
<1>2. LibrarySpec => [][Chosen]_script
  BY <1>1, LibraryInvariant, PTL DEF LibrarySpec
<1> QED BY <1>2 DEF LatestChosen, Vendor!LatestChosen, Chosen
=============================================================================
