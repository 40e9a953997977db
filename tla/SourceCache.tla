---------------------------- MODULE SourceCache ----------------------------
(***************************************************************************)
(* sourceCache of draw_report.go: the statement at a line of a source      *)
(* file, for the report of a draw.  Two maps and a file set are shared by  *)
(* the goroutines that report, behind a read-write lock: statements by     *)
(* line, and files as they were parsed, or failed to be, the first time.   *)
(*                                                                         *)
(* A file on disk has a version, or none if it cannot be parsed; it may    *)
(* change while the tests run.  A statement is the version it was cut from.*)
(***************************************************************************)
EXTENDS Naturals, FiniteSets

CONSTANTS
    Goroutines,
    Lines,       \* the lines that are reported, all of one file
    Versions,    \* versions of the file on disk, by name
    MaxEdits     \* bound on changes of the file

Unparsable == "unparsable"
Missing == "missing"

VARIABLES
    disk,        \* the file as it is on disk
    edits,       \* how often it was changed
    file,        \* files: what parsing it gave, or Missing
    statements,  \* statements, each Missing or a version
    readers,     \* who holds the read lock
    writers,     \* who holds the write lock
    report,      \* each goroutine's place in statementAt and its line
    reads        \* history: how often the file was read

vars == <<disk, edits, file, statements, readers, writers, report, reads>>

NoReport == [at |-> "idle"]
At(g, place, line) == report[g] = [at |-> place, line |-> line]
Goto(g, place, line) ==
    report' = [report EXCEPT ![g] = [at |-> place, line |-> line]]
Places == {"call", "read", "missed", "extract", "return"}

Init ==
    /\ disk \in Versions \cup {Unparsable}
    /\ edits = 0
    /\ file = Missing
    /\ statements = [l \in Lines |-> Missing]
    /\ readers = {}
    /\ writers = {}
    /\ report = [g \in Goroutines |-> NoReport]
    /\ reads = 0

(* The file is edited or removed.                                           *)
Edit ==
    /\ edits < MaxEdits
    /\ edits' = edits + 1
    /\ disk' \in (Versions \cup {Unparsable}) \ {disk}
    /\ UNCHANGED <<file, statements, readers, writers, report, reads>>

Ask(g, line) ==
    /\ report[g] = NoReport
    /\ Goto(g, "call", line)
    /\ UNCHANGED <<disk, edits, file, statements, readers, writers, reads>>

ReadLock(g, line) ==
    /\ At(g, "call", line)
    /\ writers = {}
    /\ readers' = readers \cup {g}
    /\ Goto(g, "read", line)
    /\ UNCHANGED <<disk, edits, file, statements, writers, reads>>

Read(g, line) ==
    /\ At(g, "read", line)
    /\ readers' = readers \ {g}
    /\ Goto(g, IF statements[line] # Missing THEN "return" ELSE "missed", line)
    /\ UNCHANGED <<disk, edits, file, statements, writers, reads>>

WriteLock(g, line) ==
    /\ At(g, "missed", line)
    /\ readers = {} /\ writers = {}
    /\ writers' = {g}
    /\ Goto(g, "extract", line)
    /\ UNCHANGED <<disk, edits, file, statements, readers, reads>>

(* Only a file that could be parsed is kept: a faulty variant of Kept.      *)
KeptIfParsed(version) == IF version = Unparsable THEN Missing ELSE version

Kept(version) == version

(* loadLocked.                                                              *)
Load ==
    IF file = Missing
    THEN file' = Kept(disk) /\ reads' = reads + 1
    ELSE UNCHANGED <<file, reads>>

Loaded == IF file = Missing THEN disk ELSE file

(* extractLocked and the deferred unlock.  A line of a file that cannot be  *)
(* parsed gets no entry; a line without a statement gets an empty one.      *)
Extract(g, line) ==
    /\ At(g, "extract", line)
    /\ IF statements[line] # Missing
       THEN UNCHANGED <<file, statements, reads>>
       ELSE /\ Load
            /\ statements' = IF Loaded = Unparsable THEN statements
                             ELSE [statements EXCEPT ![line] = Loaded]
    /\ writers' = {}
    /\ Goto(g, "return", line)
    /\ UNCHANGED <<disk, edits, readers>>

Step(g, line) ==
    Ask(g, line) \/ ReadLock(g, line) \/ Read(g, line) \/ WriteLock(g, line)
    \/ Extract(g, line)

Finished(g) == \E l \in Lines : At(g, "return", l)

-----------------------------------------------------------------------------
TypeOK ==
    /\ disk \in Versions \cup {Unparsable}
    /\ edits \in 0..MaxEdits
    /\ file \in Versions \cup {Unparsable, Missing}
    /\ statements \in [Lines -> Versions \cup {Missing}]
    /\ readers \subseteq Goroutines
    /\ writers \subseteq Goroutines
    /\ Cardinality(writers) <= 1
    /\ writers # {} => readers = {}
    /\ report \in [Goroutines -> {NoReport} \cup [at : Places, line : Lines]]
    /\ reads \in Nat

(* "a missing or unparseable file is read at most once per process", so all *)
(* reports of a run quote one version of the file, also when it is edited   *)
(* while the tests run and several goroutines report at once.               *)
ReadOnce ==
    /\ reads <= 1
    /\ \A l, m \in Lines :
        statements[l] # Missing /\ statements[m] # Missing
            => statements[l] = statements[m]
=============================================================================
