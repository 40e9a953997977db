---------------------------- MODULE LibraryCache ----------------------------
(***************************************************************************)
(* How processes come by the shared library: writeDynamicLibrary of        *)
(* embed.go, the locks and checks of embed_posix.go and embed_windows.go,  *)
(* and the dlopen of load.                                                 *)
(*                                                                         *)
(* Every process tries the user's cache directory, then a temporary one.   *)
(* In a directory it takes the lock (on Windows; POSIX has none), looks    *)
(* for a file of the right size and otherwise writes a partial file and    *)
(* renames it.  A file is known by what is in it: "whole" is the library,  *)
(* "other" is any that the check refuses, by its size, kind or owner.      *)
(* System calls may fail, all but the check's stat and the removal of the  *)
(* partial file, and a process may die between two steps; a lock dies with *)
(* its process, a partial file does not.  An outage kills all processes    *)
(* and may cut a file that was renamed and never synced.  A file of the    *)
(* right size is taken to be whole: processes and outages make no others.  *)
(***************************************************************************)
EXTENDS Naturals, FiniteSets

CONSTANTS
    Processes,   \* processes of one user that use one version of hegel-go
    Platforms,   \* "posix", "windows" or both
    Before,      \* what the directories may hold at first
    MaxOutages   \* bound on outages

ASSUME CacheAssumption ==
    /\ IsFiniteSet(Processes) /\ "nobody" \notin Processes
    /\ Platforms \subseteq {"posix", "windows"}
    /\ Before \subseteq {"absent", "other", "whole"}
    /\ MaxOutages \in Nat

Dirs == {"user", "temp"}
Contents == {"absent", "other", "whole"}

VARIABLES
    platform,
    sound,     \* history: the directories held nothing else at first
    dest,      \* what is at the library's path in each directory
    partial,   \* the partial files, as [by, dir, content]
    lock,      \* who holds the lock of each directory
    pc,        \* each process's place in writeDynamicLibrary and load
    dir,       \* the directory it is trying
    ok,        \* whether libraryInDir has a path to return
    mapped,    \* the file each process has opened, as [dir, content]
    outages

vars == <<platform, sound, dest, partial, lock, pc, dir, ok, mapped, outages>>

Nobody == "nobody"
Nothing == [dir |-> "user", content |-> "absent"]

Inside == {"check", "create", "write", "rename", "remove", "unlock"}
Running == {"prepare", "lock", "load"} \cup Inside
Ended == {"loaded", "failed", "dead"}

Init ==
    /\ platform \in Platforms
    /\ dest \in [Dirs -> Before]
    /\ sound = (\A d \in Dirs : dest[d] # "other")
    /\ partial = {}
    /\ lock = [d \in Dirs |-> Nobody]
    /\ pc = [p \in Processes |-> "prepare"]
    /\ dir = [p \in Processes |-> "user"]
    /\ ok = [p \in Processes |-> FALSE]
    /\ mapped = [p \in Processes |-> Nothing]
    /\ outages = 0

Goto(p, step) == pc' = [pc EXCEPT ![p] = step]

Partials(p) == {f \in partial : f.by = p}
Content(p) == (CHOOSE f \in Partials(p) : f.dir = dir[p]).content

-----------------------------------------------------------------------------
(* One directory.                                                           *)

(* An error in the user's directory sends the process to the temporary one. *)
NextDir(p) ==
    IF dir[p] = "user"
    THEN /\ dir' = [dir EXCEPT ![p] = "temp"]
         /\ Goto(p, "prepare")
    ELSE /\ UNCHANGED dir
         /\ Goto(p, "failed")

(* MkdirAll and chmod of the user's directory, or tempLibhegelCacheDir.     *)
Prepare(p) ==
    /\ pc[p] = "prepare"
    /\ \/ Goto(p, "lock") /\ UNCHANGED dir
       \/ NextDir(p)
    /\ UNCHANGED <<platform, sound, dest, partial, lock, ok, mapped, outages>>

(* No lock on any platform: a faulty variant of NeedsLock.                  *)
NeverLocks == FALSE

NeedsLock == platform = "windows"

Lock(p) ==
    /\ pc[p] = "lock"
    /\ IF NeedsLock
       THEN lock[dir[p]] = Nobody /\ lock' = [lock EXCEPT ![dir[p]] = p]
       ELSE UNCHANGED lock
    /\ Goto(p, "check")
    /\ ok' = [ok EXCEPT ![p] = FALSE]
    /\ UNCHANGED <<platform, sound, dest, partial, dir, mapped, outages>>

LockFails(p) ==
    /\ pc[p] = "lock"
    /\ NeedsLock
    /\ NextDir(p)
    /\ UNCHANGED <<platform, sound, dest, partial, lock, ok, mapped, outages>>

Matches(content) == content = "whole"

(* cachedLibraryMatches, while the lock is held.                            *)
Check(p) ==
    /\ pc[p] = "check"
    /\ IF Matches(dest[dir[p]])
       THEN Goto(p, "unlock") /\ ok' = [ok EXCEPT ![p] = TRUE]
       ELSE Goto(p, "create") /\ UNCHANGED ok
    /\ UNCHANGED <<platform, sound, dest, partial, lock, dir, mapped, outages>>

CreateTemp(p) ==
    /\ pc[p] = "create"
    /\ \/ /\ partial' = partial \cup {[by |-> p, dir |-> dir[p], content |-> "other"]}
          /\ Goto(p, "write")
       \/ UNCHANGED partial /\ Goto(p, "unlock")
    /\ UNCHANGED <<platform, sound, dest, lock, dir, ok, mapped, outages>>

(* Write, Close and Chmod of the partial file, or an error in one of them.  *)
Write(p) ==
    /\ pc[p] = "write"
    /\ \/ /\ partial' = (partial \ Partials(p))
                \cup {[by |-> p, dir |-> dir[p], content |-> "whole"]}
          /\ Goto(p, "rename")
       \/ UNCHANGED partial /\ Goto(p, "remove")
    /\ UNCHANGED <<platform, sound, dest, lock, dir, ok, mapped, outages>>

(* Windows refuses to replace a file that a process has mapped.             *)
Replaceable(d) ==
    platform = "windows" => \A q \in Processes : pc[q] = "loaded" => mapped[q].dir # d

Rename(p) ==
    /\ pc[p] = "rename"
    /\ Replaceable(dir[p])
    /\ dest' = [dest EXCEPT ![dir[p]] = Content(p)]
    /\ partial' = partial \ {f \in Partials(p) : f.dir = dir[p]}
    /\ ok' = [ok EXCEPT ![p] = TRUE]
    /\ Goto(p, "remove")
    /\ UNCHANGED <<platform, sound, lock, dir, mapped, outages>>

RenameFails(p) ==
    /\ pc[p] = "rename"
    /\ Goto(p, "remove")
    /\ UNCHANGED <<platform, sound, dest, partial, lock, dir, ok, mapped, outages>>

(* The deferred removal of the partial file, if it is still there.          *)
Remove(p) ==
    /\ pc[p] = "remove"
    /\ partial' = partial \ Partials(p)
    /\ Goto(p, "unlock")
    /\ UNCHANGED <<platform, sound, dest, lock, dir, ok, mapped, outages>>

(* The lock is only given back by those who have a path: a faulty variant   *)
(* of Unlocked.                                                             *)
UnlockedWithPath(p) ==
    IF ok[p] /\ lock[dir[p]] = p THEN [lock EXCEPT ![dir[p]] = Nobody] ELSE lock

Unlocked(p) == IF lock[dir[p]] = p THEN [lock EXCEPT ![dir[p]] = Nobody] ELSE lock

(* The deferred unlock, which runs last.  When it fails the file is closed  *)
(* all the same, which gives the lock back, and the path is not returned.   *)
Unlock(p) ==
    /\ pc[p] = "unlock"
    /\ lock' = Unlocked(p)
    /\ \/ ok[p] /\ Goto(p, "load") /\ UNCHANGED dir
       \/ ~ok[p] /\ NextDir(p)
       \/ NeedsLock /\ NextDir(p)
    /\ UNCHANGED <<platform, sound, dest, partial, ok, mapped, outages>>

(* dlopen of the path, some time after the lock was given back.             *)
Load(p) ==
    /\ pc[p] = "load"
    /\ mapped' = [mapped EXCEPT ![p] = [dir |-> dir[p], content |-> dest[dir[p]]]]
    /\ Goto(p, "loaded")
    /\ UNCHANGED <<platform, sound, dest, partial, lock, dir, ok, outages>>

LoadFails(p) ==
    /\ pc[p] = "load"
    /\ Goto(p, "failed")
    /\ UNCHANGED <<platform, sound, dest, partial, lock, dir, ok, mapped, outages>>

-----------------------------------------------------------------------------
(* A process dies, or ends; the system gives back its lock.                 *)
Die(p) ==
    /\ pc[p] # "dead"
    /\ lock' = [d \in Dirs |-> IF lock[d] = p THEN Nobody ELSE lock[d]]
    /\ Goto(p, "dead")
    /\ UNCHANGED <<platform, sound, dest, partial, dir, ok, mapped, outages>>

(* The system stops and starts again with the same processes.               *)
Outage ==
    /\ outages < MaxOutages
    /\ outages' = outages + 1
    /\ \E cut \in SUBSET {d \in Dirs : dest[d] # "absent"} :
        dest' = [d \in Dirs |-> IF d \in cut THEN "other" ELSE dest[d]]
    /\ partial' = {[f EXCEPT !.by = Nobody] : f \in partial}
    /\ lock' = [d \in Dirs |-> Nobody]
    /\ pc' = [p \in Processes |-> "prepare"]
    /\ dir' = [p \in Processes |-> "user"]
    /\ ok' = [p \in Processes |-> FALSE]
    /\ mapped' = [p \in Processes |-> Nothing]
    /\ UNCHANGED <<platform, sound>>

Step(p) ==
    \/ Prepare(p) \/ Lock(p) \/ Check(p) \/ CreateTemp(p) \/ Write(p)
    \/ Rename(p) \/ RenameFails(p) \/ Remove(p) \/ Unlock(p)
    \/ Load(p) \/ LoadFails(p)

Finished == (\A p \in Processes : pc[p] \in Ended) /\ UNCHANGED vars

-----------------------------------------------------------------------------
(* Properties.                                                              *)

TypeOK ==
    /\ platform \in Platforms
    /\ dest \in [Dirs -> Contents]
    /\ partial \subseteq [by : Processes \cup {Nobody}, dir : Dirs,
                          content : {"other", "whole"}]
    /\ lock \in [Dirs -> Processes \cup {Nobody}]
    /\ pc \in [Processes -> Running \cup Ended]
    /\ dir \in [Processes -> Dirs]
    /\ ok \in [Processes -> BOOLEAN]
    /\ mapped \in [Processes -> [dir : Dirs, content : Contents]]
    /\ outages \in 0..MaxOutages
    /\ sound \in BOOLEAN
    /\ \A d \in Dirs : lock[d] # Nobody => pc[lock[d]] \in Inside /\ dir[lock[d]] = d

(* "On Windows the publication lock guarantees dest does not exist":        *)
(* when a process is about to rename, there is nothing at the path.         *)
DestAbsent ==
    platform = "windows" =>
        \A p \in Processes : pc[p] = "rename" => dest[dir[p]] = "absent"

(* So it is as long as nothing but whole libraries was ever there: with the *)
(* lock and the check under it, no process replaces a library that another  *)
(* has put there.                                                           *)
DestAbsentIfSound == sound /\ outages = 0 => DestAbsent

(* The purpose of the lock, "avoiding the unsupported operation of          *)
(* replacing a DLL mapped by another process", is kept in any case: a file  *)
(* that is there at the rename was refused by the check, and so by          *)
(* everybody who could have mapped it.                                      *)
MappedNeverReplaced ==
    platform = "windows" =>
        \A p, q \in Processes :
            pc[p] = "rename" /\ pc[q] = "loaded" => mapped[q].dir # dir[p]

(* Both: a rename on Windows meets no file that a process has mapped, and   *)
(* none at all in sound directories.                                        *)
RenameIsSafe == DestAbsentIfSound /\ MappedNeverReplaced
=============================================================================
