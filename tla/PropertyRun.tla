---------------------------- MODULE PropertyRun ----------------------------
(***************************************************************************)
(* One property test: runWithContext, testCase.run, replayFailures and     *)
(* replayFailure of runner.go.                                             *)
(*                                                                         *)
(* The engine hands out test cases one at a time; the runner executes the  *)
(* test body on each, marks it complete with the status its outcome maps   *)
(* to, and keeps the output of the failures the engine asked to capture.   *)
(* When the engine has no more cases its result decides: the property      *)
(* passed, the run itself failed, or each distinct failure is reported,    *)
(* from its captured output or by replaying its reproduction blob.         *)
(*                                                                         *)
(* The engine and the test body are external.  What invoke can return for  *)
(* a body is the verdict of Invocation.tla; while a failure is replayed    *)
(* user panics propagate, from the body itself ("panic") or from the       *)
(* goroutine of a state-machine worker ("workerpanic").  Writes to the     *)
(* user's writer are taken to succeed.                                     *)
(***************************************************************************)
EXTENDS Integers, Sequences, FiniteSets

CONSTANTS
    Origins,    \* where a body can fail: findCallerInPCs of the failure
    NoOrigin,   \* the empty failureOrigin
    MaxCases    \* the engine's bound on test cases

ASSUME RunAssumption ==
    /\ Origins # {}
    /\ NoOrigin \notin Origins
    /\ MaxCases \in Nat \ {0}

Outcomes == {"none", "assume", "overrun", "control", "failure"}
ReplayOutcomes == Outcomes \cup {"panic", "workerpanic"}
Statuses == {"valid", "invalid", "overrun", "interesting"}

VARIABLES
    hasOutput,  \* opts.output is not nil
    printBlob,  \* WithReproductionBlob
    phase,      \* where runWithContext is
    ret,        \* how it ended
    cases,      \* history: the cases handed out, as [outcome, origin, capture]
    marked,     \* the engine's record: the statuses a case was completed with
    captured,   \* capturedOutput: the case whose buffer each origin has
    failures,   \* the failures of the engine's result
    replayed,   \* how many of them replayFailures is done with
    origins,    \* the origins replayFailures collected
    output      \* what has been written to opts.output

config == <<hasOutput, printBlob>>
engineVars == <<cases, marked>>
reportVars == <<failures, replayed, origins, output>>
vars == <<config, phase, ret, engineVars, captured, reportVars>>

Init ==
    /\ hasOutput = FALSE
    /\ printBlob = FALSE
    /\ phase = "start"
    /\ ret = "none"
    /\ cases = <<>>
    /\ marked = <<>>
    /\ captured = [o \in Origins \cup {NoOrigin} |-> 0]
    /\ failures = <<>>
    /\ replayed = 0
    /\ origins = <<>>
    /\ output = {}

End(how) == phase' = "ended" /\ ret' = how

-----------------------------------------------------------------------------
(* The exploration loop.                                                    *)

(* buildSettings, with the outcomes that Options.tla details, and RunStart. *)
Start ==
    /\ phase = "start"
    /\ hasOutput' \in BOOLEAN
    /\ printBlob' \in BOOLEAN
    /\ \/ phase' = "next" /\ UNCHANGED ret
       \/ End("error")
    /\ UNCHANGED <<engineVars, captured, reportVars>>

(* NextTestCase, ShouldCapture and newTestCase, any of which may fail.      *)
NextTestCase ==
    /\ phase = "next"
    /\ \/ /\ Len(cases) < MaxCases
          /\ \E capture \in BOOLEAN :
                cases' = Append(cases, [outcome |-> "none", origin |-> NoOrigin,
                                        capture |-> capture])
          /\ marked' = Append(marked, <<>>)
          /\ \/ phase' = "case" /\ UNCHANGED ret
             \/ End("error")
       \/ /\ phase' = "result"
          /\ UNCHANGED <<ret, engineVars>>
       \/ /\ End("error")
          /\ UNCHANGED engineVars
    /\ UNCHANGED <<config, captured, reportVars>>

(* Faulty variants of StatusOf and Completes: an overrun counted as valid,  *)
(* and rejected cases left open.                                            *)
StatusOfPassing(outcome) ==
    CASE outcome = "none" -> "valid"
      [] outcome = "assume" -> "invalid"
      [] outcome = "overrun" -> "overrun"
      [] outcome = "failure" -> "valid"
CompletesResults(outcome) == outcome \in {"none", "failure"}

(* testCase.run: the status an outcome of the body is completed with...     *)
StatusOf(outcome) ==
    CASE outcome = "none" -> "valid"
      [] outcome = "assume" -> "invalid"
      [] outcome = "overrun" -> "overrun"
      [] outcome = "failure" -> "interesting"

(* ... unless it is none of the sentinels and no invocationError.           *)
Completes(outcome) == outcome # "control"

(* "Rejected and overrun cases are probes, not results": their documents    *)
(* are not flushed.                                                         *)
Flushes(outcome) == outcome \notin {"assume", "overrun"}

(* Failures of one origin hidden by those of another: a faulty variant.     *)
KeepForAll(origin, n) == [o \in DOMAIN captured |-> n]

Keep(origin, n) == [captured EXCEPT ![origin] = n]

(* The body of the current case ends in `outcome`: testCase.run and the     *)
(* rest of the loop's iteration.  MarkComplete or the flush may fail, which *)
(* ends the run.                                                            *)
RunCase ==
    /\ phase = "case"
    /\ LET n == Len(cases) IN
       \E outcome \in Outcomes, origin \in Origins \cup {NoOrigin} :
        /\ (origin \in Origins) = (outcome = "failure")
        /\ cases' = [cases EXCEPT ![n].outcome = outcome, ![n].origin = origin]
        /\ marked' = IF Completes(outcome)
                     THEN [marked EXCEPT ![n] = Append(@, StatusOf(outcome))]
                     ELSE marked
        /\ \/ /\ outcome # "control"
              /\ phase' = "next"
              /\ captured' = IF outcome # "none" /\ cases[n].capture
                             THEN Keep(origin, n) ELSE captured
              /\ UNCHANGED ret
           \/ End("error") /\ UNCHANGED captured
    /\ UNCHANGED <<config, reportVars>>

(* What the engine may say of the run.  It reports failures only for the    *)
(* origins of cases that were completed as interesting, at least one of     *)
(* them, each with a reproduction blob or a caveat or both.                 *)
InterestingOrigins ==
    {cases[n].origin : n \in {m \in DOMAIN cases : marked[m] = <<"interesting">>}}

Reports(origin) ==
    [origin : {origin}, blob : BOOLEAN, caveat : BOOLEAN]

RunResult ==
    /\ phase = "result"
    /\ \/ End("error") /\ UNCHANGED failures
       \/ End("runerror") /\ UNCHANGED failures
       \/ /\ InterestingOrigins = {}
          /\ End("passed")
          /\ UNCHANGED failures
       \/ \E o \in InterestingOrigins : \E f \in Reports(o) :
            /\ failures' \in {<<f>>} \cup
                    {<<f, g>> : g \in UNION {Reports(p) :
                                    p \in InterestingOrigins \ {o}}}
            /\ phase' = "report"
            /\ UNCHANGED ret
    /\ UNCHANGED <<config, engineVars, captured, replayed, origins, output>>

-----------------------------------------------------------------------------
(* replayFailures.                                                          *)

Current == replayed + 1
Line(kind, n) == [failure |-> Current, kind |-> kind, case |-> n]
Write(lines) == output' = IF hasOutput THEN output \cup lines ELSE output

Deterministic(f) == f.blob /\ ~f.caveat

(* Faulty variants of Advance: a `continue` before the origin is collected, *)
(* and an index moved twice.                                                *)
AdvanceUncollected == replayed' = Current /\ UNCHANGED <<origins, phase, ret>>
AdvanceTwice ==
    /\ replayed' = Current + 1
    /\ origins' = Append(origins, failures[Current].origin)
    /\ UNCHANGED <<phase, ret>>

(* The loop goes on with the next failure.                                  *)
Advance ==
    /\ replayed' = Current
    /\ origins' = Append(origins, failures[Current].origin)
    /\ UNCHANGED <<phase, ret>>

Leave(how) == End(how) /\ UNCHANGED <<replayed, origins>>

(* reportCapturedFailure.                                                   *)
ReportCaptured ==
    /\ phase = "report"
    /\ replayed < Len(failures)
    /\ LET f == failures[Current] IN
        /\ ~Deterministic(f)
        /\ Write({Line("document", captured[f.origin])}
                 \cup (IF f.caveat THEN {Line("caveat", 0)} ELSE {})
                 \cup (IF f.blob /\ printBlob THEN {Line("blob", 0)} ELSE {}))
        /\ Advance
    /\ UNCHANGED <<config, engineVars, captured, failures>>

(* result.Failure, GetPrintBlob, TestCaseFromBlob or newTestCase fails.     *)
NotReportable ==
    /\ phase = "report"
    /\ replayed < Len(failures)
    /\ Leave("error")
    /\ UNCHANGED <<config, engineVars, captured, failures, output>>

(* Without the deferred function: a faulty variant of Blob.                 *)
BlobAfterRun(outcome) ==
    IF printBlob /\ outcome # "panic" THEN {Line("blob", 0)} ELSE {}

(* The deferred function of replayFailure.                                  *)
Blob(outcome) == IF printBlob THEN {Line("blob", 0)} ELSE {}

Transcript(outcome) ==
    IF Flushes(outcome) THEN {Line("document", 0)} ELSE {}

(* replayFailure: the body runs again on the blob's choices.  A verdict is  *)
(* not looked at; an error of MarkComplete or of the flush, or one that is  *)
(* no verdict, is returned.  A panic of the body unwinds through the        *)
(* deferred functions; one on a worker's goroutine ends the process.        *)
Replay ==
    /\ phase = "report"
    /\ replayed < Len(failures)
    /\ Deterministic(failures[Current])
    /\ \E outcome \in ReplayOutcomes :
        \/ /\ outcome \in Outcomes \ {"control"}
           /\ Write(Transcript(outcome) \cup Blob(outcome))
           /\ Advance
        \/ /\ outcome \in Outcomes
           /\ Write(Blob(outcome))
           /\ Leave("error")
        \/ /\ outcome = "panic"
           /\ Write(Transcript(outcome) \cup Blob(outcome))
           /\ Leave("panicked")
        \/ /\ outcome = "workerpanic"
           /\ Leave("crashed")
           /\ UNCHANGED output
    /\ UNCHANGED <<config, engineVars, captured, failures>>

(* errPropTestFailed with the number of failures and their origins.         *)
ReportDone ==
    /\ phase = "report"
    /\ replayed = Len(failures)
    /\ End("failed")
    /\ UNCHANGED <<config, engineVars, captured, reportVars>>

Finished == phase = "ended" /\ UNCHANGED vars

Next ==
    \/ Start \/ NextTestCase \/ RunCase \/ RunResult
    \/ ReportCaptured \/ NotReportable \/ Replay \/ ReportDone
    \/ Finished

Spec == Init /\ [][Next]_vars

-----------------------------------------------------------------------------
(* Properties.                                                              *)

LineType == [failure : Nat, kind : {"document", "caveat", "blob"}, case : 0..MaxCases]

TypeOK ==
    /\ hasOutput \in BOOLEAN
    /\ printBlob \in BOOLEAN
    /\ phase \in {"start", "next", "case", "result", "report", "ended"}
    /\ ret \in {"none", "error", "runerror", "passed", "failed", "panicked",
               "crashed"}
    /\ (ret = "none") = (phase # "ended")
    /\ cases \in Seq([outcome : Outcomes, origin : Origins \cup {NoOrigin},
                      capture : BOOLEAN])
    /\ Len(cases) <= MaxCases
    /\ marked \in Seq(Seq(Statuses))
    /\ Len(marked) = Len(cases)
    /\ captured \in [Origins \cup {NoOrigin} -> 0..MaxCases]
    /\ failures \in Seq([origin : Origins, blob : BOOLEAN, caveat : BOOLEAN])
    /\ replayed \in 0..Len(failures)
    /\ origins \in Seq(Origins)
    /\ output \subseteq LineType

(* The engine sees every case it handed out completed, once, before it is   *)
(* asked for the next one or for the result.                                *)
CompletedBeforeNext ==
    phase \in {"next", "result", "report"} =>
        \A n \in DOMAIN marked : Len(marked[n]) = 1

(* A body that failed, or whose test case broke, is never reported as a     *)
(* property that passed.                                                    *)
NoFailurePasses ==
    ret = "passed" =>
        \A n \in DOMAIN cases : cases[n].outcome \in {"none", "assume", "overrun"}

(* "Keep stamped failures by origin for nondeterministic reports": what is  *)
(* shown for a failure that is not replayed is the latest captured          *)
(* execution that failed at its origin, if there was one.                   *)
CapturedByOrigin ==
    \A line \in output :
        line.kind = "document" /\ ~Deterministic(failures[line.failure]) =>
            LET stamped == {n \in DOMAIN cases :
                    cases[n].origin = failures[line.failure].origin
                    /\ cases[n].capture}
            IN IF stamped = {} THEN line.case = 0
               ELSE line.case \in stamped /\ \A n \in stamped : n <= line.case

(* The failures of the result are reported, each once and under its own     *)
(* origin, whatever their replays did.                                      *)
EveryFailureReported ==
    /\ origins = [n \in 1..replayed |-> failures[n].origin]
    /\ ret = "failed" => Len(origins) = Len(failures) /\ failures # <<>>

(* The comment on replayFailure, read for a panic on the main goroutine:    *)
(* the reproduction blob of every failure that was replayed is shown.       *)
Replayed == {n \in 1..Len(failures) :
                /\ Deterministic(failures[n])
                /\ n <= replayed \/ (n = Current /\ ret \in {"panicked", "crashed"})}

BlobShown(n) == \E line \in output : line.failure = n /\ line.kind = "blob"

BlobSurvivesPanics ==
    hasOutput /\ printBlob /\ ret # "crashed" =>
        \A n \in Replayed : BlobShown(n)

(* The comment on replayFailure: "appends the reproduction blob when        *)
(* enabled, even if replay panics".                                         *)
BlobEvenIfReplayPanics ==
    hasOutput /\ printBlob => \A n \in Replayed : BlobShown(n)
=============================================================================
