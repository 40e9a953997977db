------------------------- MODULE PropertyRunProofs -------------------------
(***************************************************************************)
(* Proofs about PropertyRun, for any origins and any number of test cases: *)
(* type correctness, the engine's protocol, that no failure passes, and    *)
(* what is reported of each failure.  PropertyTests, which runs with the   *)
(* options of concurrent calls, implements PropertyRun: what is proved of  *)
(* a run holds of those as well.  The second half, from LeastNatural on,   *)
(* is about what the options give such a call, for any tests, any applied  *)
(* options and any spare capacity of the slice that the calls share.       *)
(***************************************************************************)
EXTENDS PropertyTests, SequenceTheorems, WellFoundedInduction, TLAPS

CaseType == [outcome : Outcomes, origin : Origins \cup {NoOrigin}, capture : BOOLEAN]
FailureType == [origin : Origins, blob : BOOLEAN, caveat : BOOLEAN]

(* A case the loop is done with has the one status its outcome maps to, and *)
(* an origin exactly if it failed.                                          *)
Settled(n) ==
    /\ cases[n].outcome # "control"
    /\ marked[n] = <<StatusOf(cases[n].outcome)>>
    /\ cases[n].origin \in Origins <=> cases[n].outcome = "failure"

Cases == 1..Len(cases)

(* What the engine has seen of the cases: CompletedBeforeNext and the       *)
(* statuses, also while the body runs.                                      *)
CasesSettled ==
    /\ phase \in {"next", "result", "report"} => \A n \in Cases : Settled(n)
    /\ phase = "case" =>
        /\ Len(cases) > 0
        /\ \A n \in 1..(Len(cases) - 1) : Settled(n)
        /\ cases[Len(cases)].origin = NoOrigin
        /\ marked[Len(cases)] = <<>>

(* The map of captured outputs while the loop goes on.                      *)
Stamped(from) == {n \in Cases : cases[n].origin = from /\ cases[n].capture}

IsLatest(n, S) == IF S = {} THEN n = 0 ELSE n \in S /\ \A m \in S : m <= n

LatestCaptured ==
    phase # "ended" => \A from \in Origins : IsLatest(captured[from], Stamped(from))

(* Nothing is reported before the engine has given its result.              *)
ReportsLast ==
    /\ phase = "start" => cases = <<>>
    /\ phase \notin {"report", "ended"} =>
            failures = <<>> /\ replayed = 0 /\ origins = <<>> /\ output = {}
    /\ phase = "report" => failures # <<>>

IInv ==
    /\ TypeOK
    /\ CasesSettled
    /\ LatestCaptured
    /\ ReportsLast
    /\ NoFailurePasses
    /\ CapturedByOrigin
    /\ EveryFailureReported
    /\ BlobSurvivesPanics

-----------------------------------------------------------------------------
(* Type correctness.                                                        *)

LEMMA TypeInit == Init => TypeOK
<1> SUFFICES ASSUME Init PROVE TypeOK
  OBVIOUS
<1>1. /\ cases \in Seq(CaseType) /\ marked \in Seq(Seq(Statuses))
      /\ failures \in Seq(FailureType) /\ origins \in Seq(Origins)
      /\ Len(cases) = 0 /\ Len(marked) = 0 /\ Len(failures) = 0
  BY DEF Init
<1>2. MaxCases \in Nat /\ Len(cases) <= MaxCases
  BY <1>1, RunAssumption
<1>3. captured \in [Origins \cup {NoOrigin} -> 0..MaxCases] /\ replayed \in 0..0
  BY <1>2 DEF Init
<1> QED BY <1>1, <1>2, <1>3 DEF Init, TypeOK, CaseType, FailureType

LEMMA ShortSeq ==
    ASSUME NEW S
    PROVE  \A f, g \in S : <<f>> \in Seq(S) /\ <<f, g>> \in Seq(S)
OBVIOUS

(* The fields of the current case that RunCase sets.                        *)
LEMMA RunCaseShape ==
    ASSUME TypeOK, NEW n \in Cases, NEW outcome \in Outcomes,
           NEW origin \in Origins \cup {NoOrigin},
           cases' = [cases EXCEPT ![n].outcome = outcome, ![n].origin = origin]
    PROVE  /\ cases' \in Seq(CaseType) /\ Len(cases') = Len(cases)
           /\ \A m \in Cases : m # n => cases'[m] = cases[m]
           /\ cases'[n].outcome = outcome
           /\ cases'[n].origin = origin
           /\ cases'[n].capture = cases[n].capture
<1>1. cases \in Seq(CaseType) /\ n \in 1..Len(cases) /\ cases[n] \in CaseType
  BY ElementOfSeq DEF TypeOK, CaseType, Cases
<1> DEFINE Ended == [cases[n] EXCEPT !.outcome = outcome, !.origin = origin]
<1>2. /\ Ended \in CaseType
      /\ Ended.outcome = outcome /\ Ended.origin = origin
      /\ Ended.capture = cases[n].capture
  BY <1>1 DEF CaseType
<1>3. cases' = [cases EXCEPT ![n] = Ended]
  OBVIOUS
<1> HIDE DEF Ended, CaseType
<1>4. /\ cases' \in Seq(CaseType) /\ Len(cases') = Len(cases)
      /\ \A m \in 1..Len(cases) : cases'[m] = IF m = n THEN Ended ELSE cases[m]
  BY <1>1, <1>2, <1>3, ExceptSeq
<1> QED BY <1>1, <1>2, <1>4 DEF Cases

(* The engine's record of the current case.                                 *)
LEMMA RunCaseMarks ==
    ASSUME TypeOK, NEW n \in Cases, NEW outcome \in Outcomes \ {"control"},
           marked' = [marked EXCEPT ![n] = Append(@, StatusOf(outcome))]
    PROVE  /\ marked' \in Seq(Seq(Statuses)) /\ Len(marked') = Len(marked)
           /\ \A m \in Cases : m # n => marked'[m] = marked[m]
           /\ marked'[n] = Append(marked[n], StatusOf(outcome))
<1> DEFINE S == Seq(Statuses)
           Extended == Append(marked[n], StatusOf(outcome))
<1>1. /\ marked \in Seq(S) /\ n \in 1..Len(marked)
      /\ marked[n] \in Seq(Statuses) /\ Len(marked) = Len(cases)
  BY ElementOfSeq DEF TypeOK, Cases
<1>2. StatusOf(outcome) \in Statuses
  BY DEF StatusOf, Outcomes, Statuses
<1>3. Extended \in S
  BY <1>1, <1>2, AppendProperties
<1> HIDE DEF Extended, S
<1>4. /\ [marked EXCEPT ![n] = Extended] \in Seq(S)
      /\ Len([marked EXCEPT ![n] = Extended]) = Len(marked)
      /\ \A m \in 1..Len(marked) :
            [marked EXCEPT ![n] = Extended][m] = IF m = n THEN Extended ELSE marked[m]
  BY ONLY <1>1, <1>3, ExceptSeq
<1>5. marked' = [marked EXCEPT ![n] = Extended]
  BY DEF Extended
<1>6. /\ marked' \in Seq(S) /\ Len(marked') = Len(marked)
      /\ \A m \in 1..Len(marked) : marked'[m] = IF m = n THEN Extended ELSE marked[m]
  BY ONLY <1>4, <1>5
<1> QED BY ONLY <1>1, <1>6 DEF Cases, Extended, S

(* A case is handed out.                                                    *)
HandedOut(capture) ==
    /\ cases' = Append(cases, [outcome |-> "none", origin |-> NoOrigin,
                               capture |-> capture])
    /\ marked' = Append(marked, <<>>)

LEMMA NextCaseShape ==
    ASSUME TypeOK, NEW capture \in BOOLEAN, HandedOut(capture)
    PROVE  /\ cases' \in Seq(CaseType) /\ Len(cases') = Len(cases) + 1
           /\ \A m \in Cases : cases'[m] = cases[m]
           /\ cases'[Len(cases) + 1].origin = NoOrigin
           /\ marked' \in Seq(Seq(Statuses)) /\ Len(marked') = Len(marked) + 1
           /\ \A m \in Cases : marked'[m] = marked[m]
           /\ marked'[Len(cases) + 1] = <<>>
           /\ Len(cases) \in Nat
<1> DEFINE New == [outcome |-> "none", origin |-> NoOrigin, capture |-> capture]
<1>1. New \in CaseType /\ New.origin = NoOrigin
  BY DEF CaseType, Outcomes
<1>2. cases \in Seq(CaseType) /\ marked \in Seq(Seq(Statuses)) /\ Len(marked) = Len(cases)
  BY DEF TypeOK, CaseType
<1>3. <<>> \in Seq(Statuses)
  OBVIOUS
<1> HIDE DEF New, CaseType
<1>4. cases' = Append(cases, New) /\ marked' = Append(marked, <<>>)
  BY DEF New, HandedOut
<1> QED BY <1>1, <1>2, <1>3, <1>4, AppendProperties DEF Cases

(* The lines written for a failure.                                         *)
LEMMA WriteType ==
    ASSUME TypeOK, NEW lines, lines \subseteq LineType, Write(lines)
    PROVE  output' \subseteq LineType
BY DEF Write, TypeOK

LEMMA LinesType ==
    ASSUME TypeOK
    PROVE  /\ \A kind \in {"document", "caveat", "blob"}, n \in 0..MaxCases :
                    Line(kind, n) \in LineType
           /\ \A outcome \in ReplayOutcomes :
                    Transcript(outcome) \cup Blob(outcome) \subseteq LineType
<1>1. Current \in Nat /\ 0 \in 0..MaxCases
  BY RunAssumption DEF TypeOK, Current
<1>2. \A kind \in {"document", "caveat", "blob"}, n \in 0..MaxCases :
            Line(kind, n) \in LineType
  BY <1>1 DEF Line, LineType
<1> QED BY <1>1, <1>2 DEF Transcript, Blob

(* The engine tells interesting cases by their status: those are the ones   *)
(* that failed, each with its origin.                                       *)
LEMMA SettledOrigins ==
    ASSUME TypeOK, CasesSettled, phase \in {"next", "result", "report"}
    PROVE  /\ InterestingOrigins =
                {cases[n].origin : n \in {m \in Cases : cases[m].outcome = "failure"}}
           /\ InterestingOrigins \subseteq Origins
<1>1. DOMAIN cases = Cases
  BY DEF TypeOK, Cases
<1>2. ASSUME NEW n \in Cases
      PROVE  /\ marked[n] = <<"interesting">> <=> cases[n].outcome = "failure"
             /\ cases[n].outcome = "failure" => cases[n].origin \in Origins
  <2>1. Settled(n)
    BY DEF CasesSettled
  <2>2. cases[n].outcome \in Outcomes \ {"control"}
    <3>1. cases \in Seq(CaseType) /\ n \in 1..Len(cases)
      BY DEF TypeOK, CaseType, Cases
    <3>2. cases[n] \in CaseType
      BY <3>1, ElementOfSeq
    <3> QED BY <2>1, <3>2 DEF CaseType, Settled
  <2>3. StatusOf(cases[n].outcome) = "interesting" <=> cases[n].outcome = "failure"
    BY <2>2 DEF StatusOf, Outcomes
  <2> QED BY <2>1, <2>3 DEF Settled
<1> QED BY <1>1, <1>2 DEF InterestingOrigins

(* The failure replayFailures is at.                                        *)
LEMMA CurrentFailure ==
    ASSUME TypeOK, replayed < Len(failures)
    PROVE  /\ replayed \in Nat /\ Current \in 1..Len(failures)
           /\ failures[Current] \in FailureType
           /\ failures[Current].origin \in Origins
<1>1. failures \in Seq(FailureType) /\ replayed \in 0..Len(failures)
  BY DEF TypeOK, FailureType
<1>2. replayed \in Nat /\ Current \in 1..Len(failures)
  BY <1>1 DEF Current
<1>3. failures[Current] \in FailureType
  <2> HIDE DEF FailureType
  <2> QED BY <1>1, <1>2, ElementOfSeq
<1> QED BY <1>2, <1>3 DEF FailureType

LEMMA AdvanceType ==
    ASSUME TypeOK, replayed < Len(failures), Advance
    PROVE  /\ replayed' \in 0..Len(failures) /\ origins' \in Seq(Origins)
           /\ UNCHANGED <<phase, ret>>
<1>1. origins' \in Seq(Origins)
  BY CurrentFailure, AppendProperties DEF Advance, TypeOK
<1>2. replayed' \in 0..Len(failures)
  BY CurrentFailure DEF Advance
<1> QED BY <1>1, <1>2 DEF Advance

LEMMA TypeNext == TypeOK /\ CasesSettled /\ ReportsLast /\ [Next]_vars => TypeOK'
<1> SUFFICES ASSUME TypeOK, CasesSettled, ReportsLast, [Next]_vars PROVE TypeOK'
  OBVIOUS
<1> USE RunAssumption
<1>1. CASE Start
  BY <1>1 DEF Start, End, engineVars, reportVars, TypeOK
<1>2. CASE NextTestCase
  <2>1. CASE UNCHANGED engineVars
    BY <1>2, <2>1 DEF NextTestCase, End, engineVars, reportVars, config, TypeOK
  <2>2. ASSUME NEW capture \in BOOLEAN, Len(cases) < MaxCases,
               HandedOut(capture)
        PROVE  TypeOK'
    <3>1. /\ cases' \in Seq(CaseType) /\ marked' \in Seq(Seq(Statuses))
          /\ Len(cases') <= MaxCases /\ Len(marked') = Len(cases')
      BY <2>2, NextCaseShape DEF TypeOK
    <3>2. (ret' = "none") = (phase' # "ended") /\ phase' \in {"case", "result", "ended"}
          /\ ret' \in {"none", "error"}
      BY <1>2 DEF NextTestCase, End, TypeOK
    <3>3. UNCHANGED <<config, captured, reportVars>>
      BY <1>2 DEF NextTestCase
    <3> HIDE DEF CaseType
    <3> QED BY <3>1, <3>2, <3>3 DEF config, reportVars, TypeOK, CaseType
  <2> QED BY <1>2, <2>1, <2>2 DEF NextTestCase, HandedOut
<1>3. CASE RunCase
  <2> DEFINE n == Len(cases)
  <2>1. PICK outcome \in Outcomes, origin \in Origins \cup {NoOrigin} :
        /\ cases' = [cases EXCEPT ![n].outcome = outcome, ![n].origin = origin]
        /\ marked' = IF Completes(outcome)
                     THEN [marked EXCEPT ![n] = Append(@, StatusOf(outcome))]
                     ELSE marked
        /\ \/ phase' = "next" /\ ret' = ret
           \/ phase' = "ended" /\ ret' = "error"
        /\ captured' \in {captured, Keep(origin, n)}
    BY <1>3 DEF RunCase, End
  <2>2. n \in Cases /\ n \in 0..MaxCases
    BY <1>3 DEF RunCase, CasesSettled, TypeOK, Cases
  <2>3. cases' \in Seq(CaseType) /\ Len(cases') = Len(cases)
    BY <2>1, <2>2, RunCaseShape
  <2>4. marked' \in Seq(Seq(Statuses)) /\ Len(marked') = Len(marked)
    BY <2>1, <2>2, RunCaseMarks DEF Completes, TypeOK
  <2>5. captured' \in [Origins \cup {NoOrigin} -> 0..MaxCases]
    BY <2>1, <2>2 DEF Keep, TypeOK
  <2>6. /\ phase' \in {"next", "ended"} /\ ret' \in {"none", "error"}
        /\ (ret' = "none") = (phase' # "ended")
    BY <1>3, <2>1 DEF RunCase, TypeOK
  <2>7. UNCHANGED <<config, reportVars>>
    BY <1>3 DEF RunCase
  <2> QED BY <2>3, <2>4, <2>5, <2>6, <2>7 DEF config, reportVars, TypeOK, CaseType
<1>4. CASE RunResult
  <2>1. failures' \in Seq(FailureType) /\ replayed \in 0..Len(failures')
    <3>1. failures = <<>> /\ replayed = 0
      BY <1>4 DEF RunResult, ReportsLast
    <3>2. \A from \in InterestingOrigins : Reports(from) \subseteq FailureType
      <4>1. \A from \in InterestingOrigins : from \in Origins
        BY <1>4, SettledOrigins DEF RunResult
      <4> QED BY <4>1 DEF Reports, FailureType
    <3>3. \/ failures' = failures
          \/ \E f \in FailureType : failures' = <<f>>
          \/ \E f, g \in FailureType : failures' = <<f, g>>
      BY <1>4, <3>2 DEF RunResult
    <3>4. failures' \in Seq(FailureType)
      <4>1. failures \in Seq(FailureType)
        BY DEF TypeOK, FailureType
      <4> QED BY ONLY <3>3, <4>1, ShortSeq
    <3> HIDE DEF FailureType
    <3>5. Len(failures') \in Nat
      BY <3>4, LenProperties
    <3> QED BY <3>1, <3>4, <3>5
  <2>2. UNCHANGED <<config, engineVars, captured, replayed, origins, output>>
    BY <1>4 DEF RunResult
  <2>3. /\ (ret' = "none") = (phase' # "ended") /\ phase' \in {"report", "ended"}
        /\ ret' \in {"none", "error", "runerror", "passed"}
    BY <1>4 DEF RunResult, End, TypeOK
  <2> QED BY <2>1, <2>2, <2>3 DEF config, engineVars, TypeOK, FailureType
<1>5. CASE ReportCaptured
  <2>1. replayed < Len(failures) /\ Advance /\ phase = "report"
    BY <1>5 DEF ReportCaptured
  <2>2. output' \subseteq LineType
    <3> DEFINE f == failures[Current]
    <3>1. f.origin \in Origins
      BY <2>1, CurrentFailure
    <3>2. captured[f.origin] \in 0..MaxCases /\ 0 \in 0..MaxCases
      BY <3>1 DEF TypeOK
    <3> DEFINE lines == {Line("document", captured[f.origin])}
                        \cup (IF f.caveat THEN {Line("caveat", 0)} ELSE {})
                        \cup (IF f.blob /\ printBlob THEN {Line("blob", 0)} ELSE {})
    <3>3. lines \subseteq LineType
      BY <3>2, LinesType
    <3>4. Write(lines)
      BY <1>5 DEF ReportCaptured
    <3> HIDE DEF lines
    <3> QED BY <3>3, <3>4, WriteType
  <2>3. UNCHANGED <<config, engineVars, captured, failures>>
    BY <1>5 DEF ReportCaptured
  <2> QED BY <2>1, <2>2, <2>3, AdvanceType DEF config, engineVars, TypeOK
<1>6. CASE NotReportable
  BY <1>6 DEF NotReportable, Leave, End, config, engineVars, TypeOK
<1>7. CASE Replay
  <2>1. output' \subseteq LineType
    <3>1. ASSUME NEW outcome \in ReplayOutcomes, Write(Transcript(outcome) \cup Blob(outcome))
          PROVE  output' \subseteq LineType
      BY <3>1, LinesType, WriteType
    <3>2. ASSUME NEW outcome \in ReplayOutcomes, Write(Blob(outcome))
          PROVE  output' \subseteq LineType
      <4>1. Blob(outcome) \subseteq LineType
        BY LinesType
      <4> QED BY <3>2, <4>1, WriteType
    <3>3. output' = output => output' \subseteq LineType
      BY DEF TypeOK
    <3> QED BY <1>7, <3>1, <3>2, <3>3 DEF Replay
  <2>2. UNCHANGED <<config, engineVars, captured, failures>>
    BY <1>7 DEF Replay
  <2>3. CASE Advance
    BY <1>7, <2>1, <2>2, <2>3, AdvanceType DEF Replay, config, engineVars, TypeOK
  <2>4. ASSUME NEW how \in {"error", "panicked", "crashed"}, Leave(how)
        PROVE  TypeOK'
    BY <2>1, <2>2, <2>4 DEF Leave, End, config, engineVars, TypeOK
  <2> QED BY <1>7, <2>3, <2>4 DEF Replay
<1>8. CASE ReportDone
  BY <1>8 DEF ReportDone, End, config, engineVars, reportVars, TypeOK
<1>9. CASE UNCHANGED vars
  BY <1>9 DEF vars, config, engineVars, reportVars, TypeOK
<1> QED BY <1>1, <1>2, <1>3, <1>4, <1>5, <1>6, <1>7, <1>8, <1>9 DEF Next, Finished

-----------------------------------------------------------------------------
(* The engine's protocol.                                                   *)

(* What RunCase does with the current case, but for an error at the end.    *)
Ended(outcome, origin) ==
    LET n == Len(cases) IN
    /\ n \in Cases /\ phase = "case"
    /\ origin \in Origins <=> outcome = "failure"
    /\ Len(cases') = Len(cases)
    /\ \A m \in Cases : m # n => cases'[m] = cases[m]
    /\ cases'[n].outcome = outcome
    /\ cases'[n].origin = origin
    /\ cases'[n].capture = cases[n].capture

LoopsOn(outcome, origin) ==
    LET n == Len(cases) IN
    /\ phase' = "next" /\ ret' = ret /\ outcome # "control"
    /\ \A m \in Cases : m # n => marked'[m] = marked[m]
    /\ marked'[n] = <<StatusOf(outcome)>>
    /\ captured' = IF outcome # "none" /\ cases[n].capture
                   THEN Keep(origin, n) ELSE captured

LEMMA RunCaseEffect ==
    ASSUME TypeOK, CasesSettled, RunCase
    PROVE  \E outcome \in Outcomes, origin \in Origins \cup {NoOrigin} :
            /\ Ended(outcome, origin)
            /\ LoopsOn(outcome, origin) \/ (phase' = "ended" /\ ret' = "error")
<1> DEFINE n == Len(cases)
<1>1. PICK outcome \in Outcomes, origin \in Origins \cup {NoOrigin} :
        /\ (origin \in Origins) = (outcome = "failure")
        /\ cases' = [cases EXCEPT ![n].outcome = outcome, ![n].origin = origin]
        /\ marked' = IF Completes(outcome)
                     THEN [marked EXCEPT ![n] = Append(@, StatusOf(outcome))]
                     ELSE marked
        /\ \/ /\ outcome # "control" /\ phase' = "next" /\ ret' = ret
              /\ captured' = IF outcome # "none" /\ cases[n].capture
                             THEN Keep(origin, n) ELSE captured
           \/ phase' = "ended" /\ ret' = "error"
  BY DEF RunCase, End
<1>2. n \in Cases /\ phase = "case" /\ marked[n] = <<>>
  BY DEF RunCase, CasesSettled, TypeOK, Cases
<1>3. Ended(outcome, origin)
  <2>1. /\ Len(cases') = Len(cases)
        /\ \A m \in Cases : m # n => cases'[m] = cases[m]
        /\ cases'[n].outcome = outcome /\ cases'[n].origin = origin
        /\ cases'[n].capture = cases[n].capture
    BY <1>1, <1>2, RunCaseShape
  <2>2. origin \in Origins <=> outcome = "failure"
    BY <1>1
  <2> QED BY <1>2, <2>1, <2>2 DEF Ended
<1>4. ASSUME outcome # "control", phase' = "next", ret' = ret,
             captured' = IF outcome # "none" /\ cases[n].capture
                         THEN Keep(origin, n) ELSE captured
      PROVE  LoopsOn(outcome, origin)
  <2>1. marked' = [marked EXCEPT ![n] = Append(@, StatusOf(outcome))]
    BY <1>1, <1>4 DEF Completes
  <2>2. /\ \A m \in Cases : m # n => marked'[m] = marked[m]
        /\ marked'[n] = Append(marked[n], StatusOf(outcome))
    BY <1>2, <1>4, <2>1, RunCaseMarks
  <2>3. marked'[n] = <<StatusOf(outcome)>>
    BY <1>2, <2>2
  <2>4. \A m \in Cases : m # n => marked'[m] = marked[m]
    BY <2>2
  <2> QED BY <1>4, <2>3, <2>4 DEF LoopsOn
<1> QED BY <1>1, <1>3, <1>4

LEMMA CasesNext ==
    ASSUME TypeOK, CasesSettled, ReportsLast, [Next]_vars
    PROVE  CasesSettled'
<1>1. CASE Start
  BY <1>1 DEF Start, End, engineVars, ReportsLast, CasesSettled, Cases
<1>2. CASE NextTestCase
  <2>1. CASE UNCHANGED engineVars
    BY <1>2, <2>1 DEF NextTestCase, End, engineVars, CasesSettled, Cases, Settled
  <2>2. ASSUME NEW capture \in BOOLEAN,
               HandedOut(capture),
               phase' \in {"case", "ended"}
        PROVE  CasesSettled'
    <3>1. /\ Len(cases') = Len(cases) + 1 /\ Len(cases) \in Nat
          /\ \A m \in Cases : cases'[m] = cases[m] /\ marked'[m] = marked[m]
          /\ cases'[Len(cases) + 1].origin = NoOrigin
          /\ marked'[Len(cases) + 1] = <<>>
      BY <2>2, NextCaseShape DEF TypeOK
    <3>2. \A m \in Cases : Settled(m)'
      BY <1>2, <3>1 DEF NextTestCase, CasesSettled, Settled
    <3>3. 1..(Len(cases') - 1) = Cases
      BY <3>1 DEF Cases
    <3> QED BY <2>2, <3>1, <3>2, <3>3 DEF CasesSettled
  <2> QED BY <1>2, <2>1, <2>2 DEF NextTestCase, End, HandedOut
<1>3. CASE RunCase
  <2> DEFINE n == Len(cases)
  <2>1. CASE phase' = "ended"
    BY <2>1 DEF CasesSettled
  <2>2. CASE phase' # "ended"
    <3>1. PICK outcome \in Outcomes, origin \in Origins \cup {NoOrigin} :
            Ended(outcome, origin) /\ LoopsOn(outcome, origin)
      BY <1>3, <2>2, RunCaseEffect
    <3>2. \A m \in Cases : m # n => m \in 1..(Len(cases) - 1)
      BY DEF Cases, TypeOK
    <3>3. \A m \in Cases : m # n => Settled(m)'
      BY <3>1, <3>2 DEF Ended, LoopsOn, CasesSettled, Settled
    <3>4. Settled(n)'
      BY <3>1 DEF Ended, LoopsOn, Settled
    <3> QED BY <3>1, <3>3, <3>4 DEF Ended, LoopsOn, CasesSettled, Cases
  <2> QED BY <2>1, <2>2
<1>4. CASE UNCHANGED engineVars /\ (phase' = phase \/ phase' = "ended")
  BY <1>4 DEF engineVars, CasesSettled, Cases, Settled
<1>5. CASE RunResult
  BY <1>5 DEF RunResult, End, engineVars, CasesSettled, Cases, Settled
<1> QED BY <1>1, <1>2, <1>3, <1>4, <1>5
        DEF Next, ReportCaptured, NotReportable, Replay, ReportDone, Advance, Leave,
            End, Finished, vars

LEMMA LatestNext ==
    ASSUME TypeOK, CasesSettled, LatestCaptured, [Next]_vars
    PROVE  LatestCaptured'
<1> USE RunAssumption
<1>1. CASE NextTestCase
  <2>1. CASE UNCHANGED engineVars
    BY <1>1, <2>1 DEF NextTestCase, engineVars, LatestCaptured, Stamped, Cases
  <2>2. ASSUME NEW capture \in BOOLEAN,
               HandedOut(capture)
        PROVE  LatestCaptured'
    <3>1. /\ Len(cases') = Len(cases) + 1 /\ Len(cases) \in Nat
          /\ \A m \in Cases : cases'[m] = cases[m]
          /\ cases'[Len(cases) + 1].origin = NoOrigin
      BY <2>2, NextCaseShape DEF TypeOK
    <3>2. Cases' = Cases \cup {Len(cases) + 1}
      BY <3>1 DEF Cases
    <3>3. \A from \in Origins : Stamped(from)' = Stamped(from)
      BY <3>1, <3>2 DEF Stamped
    <3> QED BY <1>1, <3>3 DEF NextTestCase, LatestCaptured
  <2> QED BY <1>1, <2>1, <2>2 DEF NextTestCase, HandedOut
<1>2. CASE RunCase
  <2> DEFINE n == Len(cases)
  <2>1. CASE phase' = "ended"
    BY <2>1 DEF LatestCaptured
  <2>2. CASE phase' # "ended"
    <3>1. PICK outcome \in Outcomes, origin \in Origins \cup {NoOrigin} :
            Ended(outcome, origin) /\ LoopsOn(outcome, origin)
      BY <1>2, <2>2, RunCaseEffect
    <3>2. Cases' = Cases /\ \A m \in Cases : m <= n
      BY <3>1 DEF Ended, Cases, TypeOK
    <3>3. ASSUME NEW from \in Origins
          PROVE  IsLatest(captured'[from], Stamped(from)')
      <4>1. n \notin Stamped(from)
        BY <3>1 DEF Ended, CasesSettled, Stamped
      <4>2. IsLatest(captured[from], Stamped(from))
        BY <3>1 DEF Ended, LatestCaptured
      <4>3. CASE origin = from /\ cases[n].capture
        <5>1. captured'[from] = n
          BY <3>1, <4>3 DEF Ended, LoopsOn, Keep, TypeOK
        <5>2. n \in Stamped(from)' /\ \A m \in Stamped(from)' : m <= n
          BY <3>1, <3>2, <4>3 DEF Ended, Stamped
        <5> QED BY <5>1, <5>2 DEF IsLatest
      <4>4. CASE ~(origin = from /\ cases[n].capture)
        <5>1. captured'[from] = captured[from]
          BY <3>1, <4>4 DEF LoopsOn, Keep, TypeOK
        <5>2. Stamped(from)' = Stamped(from)
          BY <3>1, <3>2, <4>1, <4>4 DEF Ended, Stamped
        <5> QED BY <4>2, <5>1, <5>2
      <4> QED BY <4>3, <4>4
    <3> QED BY <3>3 DEF LatestCaptured
  <2> QED BY <2>1, <2>2
<1>3. CASE /\ UNCHANGED <<cases, captured>>
           /\ phase = "ended" => phase' = "ended"
  BY <1>3 DEF LatestCaptured, Stamped, Cases
<1> QED BY <1>1, <1>2, <1>3
        DEF Next, Start, RunResult, ReportCaptured, NotReportable, Replay, ReportDone,
            Advance, Leave, End, Finished, vars, engineVars

LEMMA ReportsNext ==
    ASSUME TypeOK, ReportsLast, [Next]_vars
    PROVE  ReportsLast'
<1>1. CASE RunResult
  <2>1. phase' = "report" => failures' # <<>>
    <3>1. phase' = "report" =>
            \/ \E f : failures' = <<f>>
            \/ \E f, g : failures' = <<f, g>>
      BY <1>1 DEF RunResult, End
    <3> QED BY <3>1
  <2> QED BY <1>1, <2>1 DEF RunResult, End, ReportsLast
<1>2. CASE /\ UNCHANGED reportVars /\ phase \notin {"report", "ended"}
           /\ phase' \notin {"start", "report"}
  BY <1>2 DEF reportVars, ReportsLast, TypeOK
<1>3. CASE phase = "report" /\ phase' \in {"report", "ended"} /\ failures' = failures
  BY <1>3 DEF ReportsLast
<1>4. CASE UNCHANGED vars
  BY <1>4 DEF vars, engineVars, reportVars, ReportsLast
<1>5. CASE Start
  BY <1>2, <1>5 DEF Start, End
<1>6. CASE NextTestCase
  BY <1>2, <1>6 DEF NextTestCase, End
<1>7. CASE RunCase
  BY <1>2, <1>7 DEF RunCase, End
<1>8. CASE ReportCaptured \/ NotReportable \/ Replay \/ ReportDone
  BY <1>3, <1>8
     DEF ReportCaptured, NotReportable, Replay, ReportDone, Advance, Leave, End, reportVars
<1> QED BY <1>1, <1>4, <1>5, <1>6, <1>7, <1>8 DEF Next, Finished

-----------------------------------------------------------------------------
(* The result.                                                              *)

LEMMA NoFailurePassesNext ==
    ASSUME TypeOK, CasesSettled, NoFailurePasses, [Next]_vars
    PROVE  NoFailurePasses'
<1>1. CASE RunResult /\ ret' = "passed"
  <2>1. InterestingOrigins = {} /\ UNCHANGED cases
    BY <1>1 DEF RunResult, End, TypeOK, engineVars
  <2>2. \A n \in Cases : cases[n].outcome # "failure"
    BY <1>1, <2>1, SettledOrigins DEF RunResult
  <2>3. \A n \in Cases : cases[n].outcome \in Outcomes \ {"control"}
    <3>1. cases \in Seq(CaseType) /\ Cases = 1..Len(cases)
      BY DEF TypeOK, CaseType, Cases
    <3>2. \A n \in Cases : cases[n] \in CaseType
      <4> HIDE DEF CaseType
      <4> QED BY <3>1, ElementOfSeq
    <3> QED BY <1>1, <3>2 DEF RunResult, CasesSettled, Settled, CaseType
  <2>4. DOMAIN cases = Cases
    BY DEF TypeOK, Cases
  <2> QED BY <2>1, <2>2, <2>3, <2>4 DEF NoFailurePasses, Outcomes
<1>2. CASE ret' # "passed"
  BY <1>2 DEF NoFailurePasses
<1>3. CASE UNCHANGED <<ret, cases>>
  BY <1>3 DEF NoFailurePasses
<1> QED BY <1>1, <1>2, <1>3
        DEF Next, Start, NextTestCase, RunCase, RunResult, ReportCaptured, NotReportable,
            Replay, ReportDone, Advance, Leave, End, Finished, vars, engineVars, TypeOK

-----------------------------------------------------------------------------
(* What is reported.                                                        *)

(* A report leaves the cases, the map and the failures alone.               *)
LEMMA ReportStep ==
    ASSUME TypeOK, ReportCaptured \/ NotReportable \/ Replay \/ ReportDone
    PROVE  /\ phase = "report" /\ ret = "none"
           /\ UNCHANGED <<hasOutput, printBlob, cases, captured, failures>>
           /\ \/ UNCHANGED <<replayed, origins>> /\ phase' = "ended"
              \/ Advance /\ replayed < Len(failures)
BY DEF ReportCaptured, NotReportable, Replay, ReportDone, Leave, End, config, engineVars,
       reportVars, TypeOK

(* Elsewhere nothing has been reported yet.                                 *)
LEMMA QuietStep ==
    ASSUME TypeOK, ReportsLast, [Next]_vars,
           ~(ReportCaptured \/ NotReportable \/ Replay \/ ReportDone)
    PROVE  \/ UNCHANGED vars
           \/ /\ output = {} /\ output' = {}
              /\ replayed = 0 /\ replayed' = 0
              /\ origins = <<>> /\ origins' = <<>>
              /\ ret' \in {"none", "error", "runerror", "passed"}
BY DEF Next, Start, NextTestCase, RunCase, RunResult, Finished, End, reportVars,
       ReportsLast, TypeOK

LEMMA CapturedNext ==
    ASSUME TypeOK, LatestCaptured, ReportsLast, CapturedByOrigin, [Next]_vars
    PROVE  CapturedByOrigin'
<1> DEFINE Fits(line) ==
        line.kind = "document" /\ ~Deterministic(failures[line.failure]) =>
            IsLatest(line.case, Stamped(failures[line.failure].origin))
<1>1. DOMAIN cases = Cases
  BY DEF TypeOK, Cases
<1>2. CapturedByOrigin <=> \A line \in output : Fits(line)
  BY <1>1 DEF CapturedByOrigin, IsLatest, Stamped
<1>3. CASE ReportCaptured \/ NotReportable \/ Replay \/ ReportDone
  <2>1. UNCHANGED <<cases, failures>> /\ UNCHANGED Cases
    BY <1>3, ReportStep DEF Cases
  <2>2. CapturedByOrigin' <=> \A line \in output' : Fits(line)
    BY <1>1, <2>1 DEF CapturedByOrigin, IsLatest, Stamped, Deterministic
  <2>3. CASE ReportCaptured
    <3> DEFINE f == failures[Current]
    <3>1. \A line \in output' \ output :
            line.kind = "document" =>
                line.failure = Current /\ line.case = captured[f.origin]
      BY <2>3 DEF ReportCaptured, Write, Line
    <3>2. IsLatest(captured[f.origin], Stamped(f.origin))
      BY <2>3, CurrentFailure DEF ReportCaptured, LatestCaptured
    <3>3. \A line \in output' \ output : Fits(line)
      BY <3>1, <3>2
    <3> HIDE DEF Fits
    <3> QED BY <1>2, <2>2, <3>3
  <2>4. CASE Replay
    <3>1. \A line \in output' \ output : line.failure = Current
      BY <2>4 DEF Replay, Write, Line, Transcript, Blob
    <3>2. Deterministic(failures[Current])
      BY <2>4 DEF Replay
    <3>3. \A line \in output' \ output : Fits(line)
      BY <3>1, <3>2
    <3> HIDE DEF Fits
    <3> QED BY <1>2, <2>2, <3>3
  <2>5. CASE output' = output
    BY <1>2, <2>2, <2>5
  <2> QED BY <1>3, <2>3, <2>4, <2>5 DEF NotReportable, ReportDone, reportVars
<1>4. CASE UNCHANGED vars
  BY <1>4 DEF vars, engineVars, reportVars, CapturedByOrigin, Deterministic
<1>5. CASE output' = {}
  BY <1>5 DEF CapturedByOrigin
<1> QED BY <1>3, <1>4, <1>5, QuietStep

(* Appending the origin of the next failure.                                *)
LEMMA OriginsAppended ==
    ASSUME TypeOK, EveryFailureReported, replayed < Len(failures)
    PROVE  Append(origins, failures[Current].origin)
                = [n \in 1..Current |-> failures[n].origin]
<1> DEFINE all == [n \in 1..Current |-> failures[n].origin]
           e == failures[Current].origin
<1>1. /\ origins \in Seq(Origins) /\ e \in Origins
      /\ replayed \in Nat /\ Current \in Nat /\ Current = replayed + 1
      /\ 1..Current \subseteq 1..Len(failures)
  BY CurrentFailure DEF TypeOK, Current
<1>2. /\ Len(origins) = replayed
      /\ \A n \in 1..replayed : origins[n] = failures[n].origin
  BY <1>1 DEF EveryFailureReported
<1>3. \A n \in 1..Current : failures[n].origin \in Origins
  <2>1. failures \in Seq(FailureType)
    BY DEF TypeOK, FailureType
  <2>2. \A n \in 1..Len(failures) : failures[n] \in FailureType
    <3> HIDE DEF FailureType
    <3> QED BY <2>1, ElementOfSeq
  <2> QED BY <1>1, <2>2 DEF FailureType
<1>4. all \in Seq(Origins) /\ Len(all) = Current
  BY <1>1, <1>3
<1> HIDE DEF e
<1>5. /\ Append(origins, e) \in Seq(Origins)
      /\ Len(Append(origins, e)) = Current
      /\ \A n \in 1..replayed : Append(origins, e)[n] = origins[n]
      /\ Append(origins, e)[Current] = e
  BY <1>1, <1>2, AppendProperties
<1>6. \A n \in 1..Current : Append(origins, e)[n] = all[n]
  <2> TAKE n \in 1..Current
  <2>1. CASE n = Current
    BY <1>1, <1>5, <2>1 DEF e
  <2>2. CASE n \in 1..replayed
    BY <1>1, <1>2, <1>5, <2>2
  <2>3. n = Current \/ n \in 1..replayed
    BY <1>1
  <2> QED BY <2>1, <2>2, <2>3
<1> HIDE DEF all
<1>7. Append(origins, e) = all
  BY <1>4, <1>5, <1>6, SeqEqual
<1> QED BY <1>7 DEF all, e

LEMMA EveryNext ==
    ASSUME TypeOK, ReportsLast, EveryFailureReported, [Next]_vars
    PROVE  EveryFailureReported'
<1>1. CASE ReportCaptured \/ NotReportable \/ Replay \/ ReportDone
  <2>1. CASE Advance /\ replayed < Len(failures)
    <3>1. /\ origins' = Append(origins, failures[Current].origin)
          /\ replayed' = Current /\ ret' = "none" /\ failures' = failures
      BY <1>1, <2>1, ReportStep DEF Advance
    <3>2. origins' = [n \in 1..replayed' |-> failures'[n].origin]
      BY <2>1, <3>1, OriginsAppended
    <3> QED BY <3>1, <3>2 DEF EveryFailureReported
  <2>2. CASE UNCHANGED <<replayed, origins>>
    <3>1. failures' = failures /\ failures # <<>>
      BY <1>1, ReportStep DEF ReportsLast
    <3>2. ret' = "failed" => replayed = Len(failures)
      BY <1>1, <2>2, ReportStep
         DEF ReportCaptured, NotReportable, Replay, ReportDone, Advance, Leave, End
    <3>3. origins' = [n \in 1..replayed' |-> failures'[n].origin]
      BY <2>2, <3>1 DEF EveryFailureReported
    <3>4. replayed \in Nat => Len([n \in 1..replayed |-> failures[n].origin]) = replayed
      OBVIOUS
    <3>5. Len(origins) = replayed
      BY <3>4 DEF EveryFailureReported, TypeOK
    <3> QED BY <2>2, <3>1, <3>2, <3>3, <3>5 DEF EveryFailureReported
  <2> QED BY <1>1, <2>1, <2>2, ReportStep
<1>2. CASE UNCHANGED vars
  BY <1>2 DEF vars, reportVars, EveryFailureReported
<1>3. CASE replayed' = 0 /\ origins' = <<>> /\ ret' # "failed"
  BY <1>3 DEF EveryFailureReported
<1> QED BY <1>1, <1>2, <1>3, QuietStep

LEMMA BlobNext ==
    ASSUME TypeOK, ReportsLast, BlobSurvivesPanics, [Next]_vars
    PROVE  BlobSurvivesPanics'
<1>1. CASE ReportCaptured \/ NotReportable \/ Replay \/ ReportDone
  <2> SUFFICES ASSUME hasOutput', printBlob', ret' # "crashed", NEW n \in Replayed'
               PROVE  BlobShown(n)'
    BY DEF BlobSurvivesPanics
  <2>1. /\ UNCHANGED <<hasOutput, printBlob, failures>> /\ ret = "none"
        /\ replayed \in Nat
    <3>1. failures \in Seq(FailureType) /\ replayed \in 0..Len(failures)
      BY DEF TypeOK, FailureType
    <3>2. replayed \in Nat
      BY <3>1
    <3> QED BY <1>1, <3>2, ReportStep
  <2>2. output \subseteq output'
    BY <1>1, ReportStep
       DEF ReportCaptured, NotReportable, Replay, ReportDone, Write, reportVars
  <2>3. CASE n \in Replayed
    <3>1. BlobShown(n)
      BY <2>1, <2>3 DEF BlobSurvivesPanics
    <3> QED BY <2>2, <3>1 DEF BlobShown
  <2>4. CASE n \notin Replayed
    <3>1. n \in 1..Len(failures) /\ Deterministic(failures[n])
      BY <2>1 DEF Replayed, Deterministic
    <3>2. n > replayed
      BY <2>1, <2>4, <3>1 DEF Replayed
    <3>3. \/ Advance /\ n = Current
          \/ ret' = "panicked" /\ n = Current
      <4>1. n <= replayed' \/ (n = replayed' + 1 /\ ret' \in {"panicked", "crashed"})
        BY DEF Replayed, Current
      <4>2. CASE Advance
        <5>1. replayed' = replayed + 1 /\ ret' = "none" /\ n \in Int
          BY <2>1, <3>1, <4>2 DEF Advance, Current
        <5> QED BY <2>1, <3>2, <4>1, <4>2, <5>1 DEF Current
      <4>3. CASE replayed' = replayed
        BY <2>1, <3>1, <3>2, <4>1, <4>3 DEF Current
      <4> QED BY <1>1, <4>2, <4>3, ReportStep
    <3>4. Replay
      BY <1>1, <2>1, <3>1, <3>3
         DEF ReportCaptured, NotReportable, ReportDone, Leave, End, Advance, Current
    <3>5. \E outcome : Blob(outcome) \subseteq output'
      BY <2>1, <3>3, <3>4 DEF Replay, Leave, End, Write, Advance
    <3>6. Line("blob", 0) \in output'
      BY <2>1, <3>5 DEF Blob
    <3> QED BY <3>3, <3>6 DEF BlobShown, Line
  <2> QED BY <2>3, <2>4
<1>2. CASE UNCHANGED vars
  BY <1>2 DEF vars, config, reportVars, BlobSurvivesPanics, Replayed, BlobShown, Current,
              Deterministic
<1>3. CASE replayed' = 0 /\ ret' \notin {"panicked", "crashed"}
  BY <1>3 DEF BlobSurvivesPanics, Replayed
<1> QED BY <1>1, <1>2, <1>3, QuietStep

-----------------------------------------------------------------------------
(* The theorems.                                                            *)

LEMMA InvInit == Init => IInv
<1> SUFFICES ASSUME Init PROVE IInv
  OBVIOUS
<1>1. Cases = {} /\ \A from \in Origins : Stamped(from) = {}
  BY DEF Init, Cases, Stamped
<1>2. LatestCaptured /\ CasesSettled /\ ReportsLast
  BY <1>1 DEF Init, LatestCaptured, IsLatest, CasesSettled, ReportsLast
<1>3. NoFailurePasses /\ CapturedByOrigin
  BY DEF Init, NoFailurePasses, CapturedByOrigin
<1>4. EveryFailureReported /\ BlobSurvivesPanics
  BY DEF Init, EveryFailureReported, BlobSurvivesPanics, Replayed
<1> QED BY <1>2, <1>3, <1>4, TypeInit DEF IInv

LEMMA InvNext == IInv /\ [Next]_vars => IInv'
BY TypeNext, CasesNext, LatestNext, ReportsNext, NoFailurePassesNext, CapturedNext,
   EveryNext, BlobNext
   DEF IInv

LEMMA Invariance == Spec => []IInv
BY InvInit, InvNext, PTL DEF Spec

(* Every variable keeps its type, whatever the engine and the body answer.  *)
THEOREM TypeCorrect == Spec => []TypeOK
<1>1. IInv => TypeOK
  BY DEF IInv
<1> QED BY <1>1, Invariance, PTL

(* runWithContext asks the engine for a case or for the result only when    *)
(* every earlier case was completed, and completed once.                    *)
THEOREM ProtocolKept == Spec => []CompletedBeforeNext
<1>1. ASSUME IInv PROVE CompletedBeforeNext
  <2>1. DOMAIN marked = Cases
    BY <1>1 DEF IInv, TypeOK, Cases
  <2>2. phase \in {"next", "result", "report"} =>
            \A n \in Cases : marked[n] = <<StatusOf(cases[n].outcome)>>
    BY <1>1 DEF IInv, CasesSettled, Settled
  <2> QED BY <2>1, <2>2 DEF CompletedBeforeNext
<1> QED BY <1>1, Invariance, PTL

(* A run with a failing body, or with one that broke its test case, does    *)
(* not pass.                                                                *)
THEOREM FailuresFail == Spec => []NoFailurePasses
<1>1. IInv => NoFailurePasses
  BY DEF IInv
<1> QED BY <1>1, Invariance, PTL

(* The output shown for a failure is that of the latest captured execution  *)
(* which failed at the same origin.                                         *)
THEOREM OutputByOrigin == Spec => []CapturedByOrigin
<1>1. IInv => CapturedByOrigin
  BY DEF IInv
<1> QED BY <1>1, Invariance, PTL

(* replayFailures gets to every failure, in order, and once.                *)
THEOREM FailuresReported == Spec => []EveryFailureReported
<1>1. IInv => EveryFailureReported
  BY DEF IInv
<1> QED BY <1>1, Invariance, PTL

(* The reproduction blob of a replayed failure is written even if the       *)
(* replayed body panics, as long as the process survives.                   *)
THEOREM BlobsShown == Spec => []BlobSurvivesPanics
<1>1. IInv => BlobSurvivesPanics
  BY DEF IInv
<1> QED BY <1>1, Invariance, PTL

(* A run that gets its settings from the options of concurrent calls is a   *)
(* run of PropertyRun: all of the above holds of it.                        *)
THEOREM TestsAreRuns == TestsSpec => Spec
<1>1. TestsInit => Init
  BY DEF TestsInit
<1>2. [TestsNext]_allVars => [Next]_vars
  BY DEF TestsNext, GatherOptions, StartRun, FollowRun, AllEnded, Next, allVars
<1> QED BY <1>1, <1>2, PTL DEF TestsSpec, Spec

-----------------------------------------------------------------------------
(* Greatest elements, which say what comes last.                            *)
LEMMA LeastNatural ==
    ASSUME NEW X, X \subseteq Nat, X # {}
    PROVE  \E x \in X : \A y \in X : x <= y
<1> DEFINE Less == OpToRel(<, Nat)
<1>1. IsWellFoundedOn(Less, Nat)
  BY NatLessThanWellFounded
<1>2. PICK x \in X : \A y \in X : ~(<<y, x>> \in Less)
  <2> HIDE DEF Less
  <2> QED BY <1>1, WFMin
<1>3. \A y \in X : x <= y
  <2> TAKE y \in X
  <2>1. Less = {ss \in Nat \X Nat : ss[1] < ss[2]}
    BY Zenon DEF OpToRel
  <2>2. <<y, x>> \notin Less
    BY <1>2
  <2> HIDE DEF Less
  <2>3. ~(y < x)
    BY <2>1, <2>2
  <2> QED BY <2>3
<1> QED BY <1>3

(* A sequence's indices, as far as n, have a greatest one.                  *)
LEMMA GreatestIs ==
    ASSUME NEW n \in Nat, NEW X, X \subseteq 1..n, X # {}
    PROVE  Opt!Max(X) \in X /\ \A x \in X : x <= Opt!Max(X)
<1>1. {n - x : x \in X} \subseteq Nat /\ {n - x : x \in X} # {}
  <2>1. ASSUME NEW x \in X PROVE n - x \in Nat
    OBVIOUS
  <2> QED BY <2>1
<1>2. PICK d \in {n - x : x \in X} : \A y \in {n - x : x \in X} : d <= y
  BY ONLY <1>1, LeastNatural
<1>3. PICK x \in X : d = n - x
  BY <1>2
<1>4. \A y \in X : x >= y
  <2> TAKE y \in X
  <2>1. d <= n - y
    BY <1>2
  <2> QED BY <1>3, <2>1
<1>5. x \in X /\ \A y \in X : x >= y
  BY <1>4
<1>6. Opt!Max(X) = CHOOSE z \in X : \A y \in X : z >= y
  BY DEF Opt!Max
<1>7. Opt!Max(X) \in X /\ \A y \in X : Opt!Max(X) >= y
  BY ONLY <1>5, <1>6
<1> QED BY <1>7

-----------------------------------------------------------------------------
(* What a list of options says of a field: nothing, or what the last of     *)
(* those says that name it.                                                 *)
Silent(s, n, f) == \A i \in 1..n : s[i].field # f

Says(s, n, f, v) ==
    \E i \in 1..n : /\ s[i].field = f /\ s[i].value = v
                    /\ \A j \in (i + 1)..n : s[j].field # f

LEMMA SaysOne ==
    ASSUME NEW s, NEW n \in Nat, NEW f
    PROVE  /\ \A v, w : Says(s, n, f, v) /\ Says(s, n, f, w) => v = w
           /\ \A v : Says(s, n, f, v) => ~Silent(s, n, f)
<1>1. ASSUME NEW v, NEW w, Says(s, n, f, v), Says(s, n, f, w) PROVE v = w
  <2>1. PICK i \in 1..n : /\ s[i].field = f /\ s[i].value = v
                          /\ \A j \in (i + 1)..n : s[j].field # f
    BY <1>1 DEF Says
  <2>2. PICK k \in 1..n : /\ s[k].field = f /\ s[k].value = w
                          /\ \A j \in (k + 1)..n : s[j].field # f
    BY <1>1 DEF Says
  <2>3. i = k
    BY <2>1, <2>2
  <2> QED BY <2>1, <2>2, <2>3
<1> QED BY <1>1 DEF Says, Silent

LEMMA SaysNext ==
    ASSUME NEW s, NEW n \in Nat, NEW f
    PROVE  /\ s[n + 1].field = f => \A v : Says(s, n + 1, f, v) <=> v = s[n + 1].value
           /\ s[n + 1].field = f => ~Silent(s, n + 1, f)
           /\ s[n + 1].field # f => /\ \A v : Says(s, n + 1, f, v) <=> Says(s, n, f, v)
                                    /\ Silent(s, n + 1, f) <=> Silent(s, n, f)
<1>1. 1..(n + 1) = 1..n \cup {n + 1}
  OBVIOUS
<1>2. CASE s[n + 1].field = f
  <2>1. Says(s, n + 1, f, s[n + 1].value)
    BY <1>2 DEF Says
  <2> QED BY <2>1, <1>2, SaysOne DEF Silent
<1>3. CASE s[n + 1].field # f
  <2>1. ASSUME NEW v, Says(s, n + 1, f, v) PROVE Says(s, n, f, v)
    BY <2>1, <1>3 DEF Says
  <2>2. ASSUME NEW v, Says(s, n, f, v) PROVE Says(s, n + 1, f, v)
    <3>1. PICK i \in 1..n : /\ s[i].field = f /\ s[i].value = v
                            /\ \A j \in (i + 1)..n : s[j].field # f
      BY <2>2 DEF Says
    <3>2. \A j \in (i + 1)..(n + 1) : s[j].field # f
      BY <3>1, <1>3
    <3> QED BY <3>1, <3>2 DEF Says
  <2> QED BY <2>1, <2>2, <1>1, <1>3 DEF Silent
<1> QED BY <1>2, <1>3

LEMMA GivenSays ==
    ASSUME NEW S, NEW s \in Seq(S), NEW f
    PROVE  /\ Opt!Given(s, f) = {} <=> Silent(s, Len(s), f)
           /\ Opt!Given(s, f) # {} => Says(s, Len(s), f, Opt!LastWord(s, f))
<1>1. Opt!Given(s, f) = {i \in 1..Len(s) : s[i].field = f} /\ Len(s) \in Nat
  BY DEF Opt!Given
<1>2. ASSUME Opt!Given(s, f) # {} PROVE Says(s, Len(s), f, Opt!LastWord(s, f))
  <2>1. /\ Opt!Max(Opt!Given(s, f)) \in Opt!Given(s, f)
        /\ \A x \in Opt!Given(s, f) : x <= Opt!Max(Opt!Given(s, f))
    BY ONLY <1>1, <1>2, GreatestIs
  <2>2. PICK i : i = Opt!Max(Opt!Given(s, f))
    OBVIOUS
  <2>3. i \in 1..Len(s) /\ s[i].field = f /\ Opt!LastWord(s, f) = s[i].value
    BY <1>1, <2>1, <2>2 DEF Opt!LastWord
  <2>4. ASSUME NEW j \in (i + 1)..Len(s), s[j].field = f PROVE FALSE
    <3>1. j \in 1..Len(s) /\ ~(j <= i)
      BY <1>1, <2>3
    <3> QED BY <1>1, <2>1, <2>2, <2>4, <3>1
  <2> QED BY <2>3, <2>4 DEF Says
<1> QED BY <1>1, <1>2 DEF Silent

-----------------------------------------------------------------------------
(* The fold over the appliers leaves each setting as its last applier has   *)
(* put it: that is a function of the indices which the fold's equation      *)
(* determines.                                                              *)
Choice(x, s) == [s EXCEPT ![x.field] = x.value]

Unfolded(base, a, iter) ==
    iter = [s \in SUBSET (DOMAIN a) |->
              IF s = {} THEN base
              ELSE Choice(a[Opt!Max(s)], iter[s \ {Opt!Max(s)}])]

LEMMA OverriddenIs ==
    ASSUME NEW base, NEW a
    PROVE  Opt!Overridden(base, a) = (CHOOSE iter : Unfolded(base, a, iter))[DOMAIN a]
BY Zenon DEF Opt!Overridden, Opt!FoldLeft, Opt!MapThenFoldSet, Unfolded, Choice

(* What the last of the appliers with these indices says.                   *)
Naming(a, s, f) == {i \in s : a[i].field = f}
Closed(base, a, s) ==
    [f \in DOMAIN base |->
        IF Naming(a, s, f) = {} THEN base[f] ELSE a[Opt!Max(Naming(a, s, f))].value]

LEMMA ClosedNext ==
    ASSUME NEW base, NEW a, NEW n \in Nat, NEW s, s \subseteq 1..n, s # {},
           base = [f \in DOMAIN base |-> base[f]]
    PROVE  Closed(base, a, s) = Choice(a[Opt!Max(s)], Closed(base, a, s \ {Opt!Max(s)}))
<1>1. PICK m : m = Opt!Max(s)
  OBVIOUS
<1>2. m \in s /\ \A x \in s : x <= m
  BY <1>1, GreatestIs
<1>3. ASSUME NEW f, a[m].field = f
      PROVE  Opt!Max(Naming(a, s, f)) = m /\ Naming(a, s, f) # {}
  <2>1. m \in Naming(a, s, f) /\ Naming(a, s, f) \subseteq s
    BY <1>2, <1>3 DEF Naming
  <2>2. /\ Opt!Max(Naming(a, s, f)) \in Naming(a, s, f)
        /\ \A x \in Naming(a, s, f) : x <= Opt!Max(Naming(a, s, f))
    BY <2>1, GreatestIs
  <2>3. PICK k : k = Opt!Max(Naming(a, s, f))
    OBVIOUS
  <2>4. k \in s /\ m \in s /\ m <= k /\ k <= m
    BY <1>2, <2>1, <2>2, <2>3
  <2> QED BY <2>1, <2>3, <2>4
<1>4. ASSUME NEW f, a[m].field # f
      PROVE  Naming(a, s, f) = Naming(a, s \ {m}, f)
  BY <1>4 DEF Naming
<1>5. DOMAIN Closed(base, a, s \ {m}) = DOMAIN base
  BY DEF Closed
<1>6. \A f \in DOMAIN base :
          Closed(base, a, s)[f] =
              IF f = a[m].field THEN a[m].value ELSE Closed(base, a, s \ {m})[f]
  BY <1>3, <1>4 DEF Closed
<1>7. Choice(a[m], Closed(base, a, s \ {m})) =
          [f \in DOMAIN base |->
              IF f = a[m].field THEN a[m].value ELSE Closed(base, a, s \ {m})[f]]
  BY <1>5, Zenon DEF Choice
<1>8. Closed(base, a, s) = [f \in DOMAIN base |-> Closed(base, a, s)[f]]
  BY DEF Closed
<1> QED BY <1>1, <1>6, <1>7, <1>8

LEMMA ClosedUnfolds ==
    ASSUME NEW base, NEW S, NEW a \in Seq(S), base = [f \in DOMAIN base |-> base[f]]
    PROVE  Unfolded(base, a, [s \in SUBSET (DOMAIN a) |-> Closed(base, a, s)])
<1> DEFINE g == [s \in SUBSET (DOMAIN a) |-> Closed(base, a, s)]
<1>1. DOMAIN a = 1..Len(a) /\ Len(a) \in Nat
  OBVIOUS
<1>2. ASSUME NEW s \in SUBSET (DOMAIN a)
      PROVE  g[s] = IF s = {} THEN base
                    ELSE Choice(a[Opt!Max(s)], g[s \ {Opt!Max(s)}])
  <2>1. CASE s = {}
    <3>1. \A f : Naming(a, s, f) = {}
      BY <2>1 DEF Naming
    <3>2. Closed(base, a, s) = base
      BY <3>1 DEF Closed
    <3> QED BY <2>1, <3>2
  <2>2. CASE s # {}
    <3>1. s \ {Opt!Max(s)} \in SUBSET (DOMAIN a)
      BY <1>2
    <3>2. g[s \ {Opt!Max(s)}] = Closed(base, a, s \ {Opt!Max(s)}) /\ g[s] = Closed(base, a, s)
      BY <1>2, <3>1
    <3>3. Closed(base, a, s) = Choice(a[Opt!Max(s)], Closed(base, a, s \ {Opt!Max(s)}))
      <4>1. s \subseteq 1..Len(a) /\ Len(a) \in Nat
        BY <1>1, <1>2
      <4> HIDE DEF g
      <4> QED BY SMTT(60), <2>2, <4>1, ClosedNext
    <3> HIDE DEF g
    <3> QED BY <2>2, <3>2, <3>3
  <2> QED BY <2>1, <2>2
<1>3. g = [s \in SUBSET (DOMAIN a) |-> g[s]]
  OBVIOUS
<1> HIDE DEF g
<1>4. g = [s \in SUBSET (DOMAIN a) |->
              IF s = {} THEN base ELSE Choice(a[Opt!Max(s)], g[s \ {Opt!Max(s)}])]
  BY <1>2, <1>3
<1> QED BY <1>4 DEF Unfolded, g

LEMMA UnfoldedOnce ==
    ASSUME NEW base, NEW S, NEW a \in Seq(S), NEW g, NEW h,
           Unfolded(base, a, g), Unfolded(base, a, h)
    PROVE  g[DOMAIN a] = h[DOMAIN a]
<1>1. DOMAIN a = 1..Len(a) /\ Len(a) \in Nat
  OBVIOUS
<1>2. ASSUME NEW s \in SUBSET (DOMAIN a)
      PROVE  /\ g[s] = IF s = {} THEN base ELSE Choice(a[Opt!Max(s)], g[s \ {Opt!Max(s)}])
             /\ h[s] = IF s = {} THEN base ELSE Choice(a[Opt!Max(s)], h[s \ {Opt!Max(s)}])
  BY Zenon, <1>2 DEF Unfolded
<1> DEFINE Apart == {n \in 0..Len(a) : \E s \in SUBSET (1..n) : g[s] # h[s]}
<1>3. ASSUME Apart # {} PROVE FALSE
  <2>1. Apart \subseteq Nat
    BY <1>1
  <2>2. PICK n \in Apart : \A m \in Apart : n <= m
    <3> HIDE DEF Apart
    <3> QED BY <1>3, <2>1, LeastNatural
  <2>3. PICK s \in SUBSET (1..n) : g[s] # h[s]
    OBVIOUS
  <2>4. n \in 0..Len(a) /\ s \in SUBSET (DOMAIN a)
    BY <1>1
  <2>5. s # {}
    BY <1>2, <2>3, <2>4
  <2>6. PICK m : m = Opt!Max(s)
    OBVIOUS
  <2>7. m \in s /\ \A x \in s : x <= m
    <3>1. n \in Nat /\ s \subseteq 1..n
      BY <2>4
    <3> HIDE DEF Apart
    <3> QED BY <2>5, <2>6, <3>1, GreatestIs
  <2>8. s \ {m} \in SUBSET (1..(m - 1)) /\ m - 1 \in 0..Len(a) /\ m - 1 < n
    BY <2>4, <2>7
  <2>9. m - 1 \notin Apart
    <3> HIDE DEF Apart
    <3> QED BY <2>2, <2>4, <2>8
  <2>10. g[s \ {m}] = h[s \ {m}]
    BY <2>8, <2>9
  <2> QED BY <1>2, <2>3, <2>4, <2>5, <2>6, <2>10
<1>4. Len(a) \notin Apart
  BY <1>3
<1> QED BY <1>1, <1>4

(* Later appliers override earlier ones, and a setting without one is the   *)
(* profile's.                                                               *)
LEMMA OverriddenSays ==
    ASSUME NEW base, NEW S, NEW a \in Seq(S), base = [f \in DOMAIN base |-> base[f]]
    PROVE  /\ Opt!Overridden(base, a) = [f \in DOMAIN base |-> Opt!Overridden(base, a)[f]]
           /\ \A f \in DOMAIN base :
                /\ Silent(a, Len(a), f) => Opt!Overridden(base, a)[f] = base[f]
                /\ \A v : Says(a, Len(a), f, v) => Opt!Overridden(base, a)[f] = v
<1> DEFINE c == [s \in SUBSET (DOMAIN a) |-> Closed(base, a, s)]
<1>1. Unfolded(base, a, c)
  BY ClosedUnfolds
<1>2. Unfolded(base, a, CHOOSE iter : Unfolded(base, a, iter))
  <2> HIDE DEF c
  <2> QED BY ONLY <1>1
<1>3. Opt!Overridden(base, a) = c[DOMAIN a]
  <2> HIDE DEF c
  <2> QED BY <1>1, <1>2, UnfoldedOnce, OverriddenIs
<1>4. Opt!Overridden(base, a) = Closed(base, a, DOMAIN a)
  BY <1>3
<1>5. \A f : Naming(a, DOMAIN a, f) = Opt!Given(a, f)
  BY DEF Naming, Opt!Given
<1>6. \A f \in DOMAIN base :
          Opt!Overridden(base, a)[f] =
            IF Opt!Given(a, f) = {} THEN base[f] ELSE Opt!LastWord(a, f)
  BY <1>4, <1>5 DEF Closed, Opt!LastWord
<1>7. ASSUME NEW f \in DOMAIN base
      PROVE  /\ Silent(a, Len(a), f) => Opt!Overridden(base, a)[f] = base[f]
             /\ \A v : Says(a, Len(a), f, v) => Opt!Overridden(base, a)[f] = v
  <2>1. /\ Opt!Given(a, f) = {} <=> Silent(a, Len(a), f)
        /\ Opt!Given(a, f) # {} => Says(a, Len(a), f, Opt!LastWord(a, f))
        /\ Len(a) \in Nat
    BY GivenSays
  <2> QED BY <1>6, <2>1, SaysOne
<1>8. Opt!Overridden(base, a) = [f \in DOMAIN base |-> Opt!Overridden(base, a)[f]]
  BY <1>4 DEF Closed
<1> QED BY <1>7, <1>8

-----------------------------------------------------------------------------
(* Options as they are recorded.                                            *)
Fields == Opt!Settings \cup {"output", "profile"}
Listed ==
    [field : Fields \cup {"nil"},
     value : SUBSET (Texts \cup Tests \cup {"ten", "unbounded", "stdout"})]

Recorder(r) ==
    /\ r = [appliers |-> r.appliers, profile |-> r.profile, output |-> r.output]
    /\ r.appliers \in Seq(Listed)

SetsSetting(option) == option.field \notin {"output", "profile"}

(* r is what run has made of the first n of the options.                    *)
Matches(r, s, n) ==
    /\ Recorder(r)
    /\ Silent(s, n, "output") => r.output = Opt!Unset
    /\ \A v : Says(s, n, "output", v) => r.output = v
    /\ Silent(s, n, "profile") => r.profile = Opt!DefaultProfile
    /\ \A v : Says(s, n, "profile", v) => r.profile = v
    /\ \A f : f \notin {"output", "profile"} =>
         /\ Silent(s, n, f) => Silent(r.appliers, Len(r.appliers), f)
         /\ \A v : Says(s, n, f, v) => Says(r.appliers, Len(r.appliers), f, v)
    /\ Opt!Range(r.appliers) = {s[i] : i \in {j \in 1..n : SetsSetting(s[j])}}

LEMMA RecordedShape ==
    ASSUME NEW r, Recorder(r), NEW option \in Listed
    PROVE  /\ Recorder(Opt!Recorded(r, option))
           /\ option.field = "output" =>
                /\ Opt!Recorded(r, option).output = option.value
                /\ Opt!Recorded(r, option).profile = r.profile
                /\ Opt!Recorded(r, option).appliers = r.appliers
           /\ option.field = "profile" =>
                /\ Opt!Recorded(r, option).output = r.output
                /\ Opt!Recorded(r, option).profile = option.value
                /\ Opt!Recorded(r, option).appliers = r.appliers
           /\ SetsSetting(option) =>
                /\ Opt!Recorded(r, option).output = r.output
                /\ Opt!Recorded(r, option).profile = r.profile
                /\ Opt!Recorded(r, option).appliers = Append(r.appliers, option)
<1> DEFINE made(a, p, w) == [appliers |-> a, profile |-> p, output |-> w]
<1>1. r = made(r.appliers, r.profile, r.output) /\ r.appliers \in Seq(Listed)
  BY DEF Recorder
<1>2. Append(r.appliers, option) \in Seq(Listed)
  BY <1>1
<1>3. \A m, a, p, w : m = made(a, p, w) /\ a \in Seq(Listed) =>
        m.appliers = a /\ m.profile = p /\ m.output = w /\ Recorder(m)
  BY DEF Recorder
<1>4. CASE option.field = "output"
  <2>1. Opt!Recorded(r, option) = [r EXCEPT !.output = option.value]
    BY <1>4 DEF Opt!Recorded
  <2>2. Opt!Recorded(r, option) = made(r.appliers, r.profile, option.value)
    BY <1>1, <2>1
  <2> HIDE DEF made
  <2> QED BY <1>1, <1>3, <1>4, <2>2 DEF SetsSetting
<1>5. CASE option.field = "profile"
  <2>1. Opt!Recorded(r, option) = [r EXCEPT !.profile = option.value]
    BY <1>5 DEF Opt!Recorded
  <2>2. Opt!Recorded(r, option) = made(r.appliers, option.value, r.output)
    BY <1>1, <2>1
  <2> HIDE DEF made
  <2> QED BY <1>1, <1>3, <1>5, <2>2 DEF SetsSetting
<1>6. CASE SetsSetting(option)
  <2>1. Opt!Recorded(r, option) = [r EXCEPT !.appliers = Append(@, option)]
    BY <1>6 DEF Opt!Recorded, SetsSetting
  <2>2. Opt!Recorded(r, option) = made(Append(r.appliers, option), r.profile, r.output)
    BY <1>1, <2>1
  <2> HIDE DEF made
  <2>3. PICK a \in Seq(Listed) : a = Append(r.appliers, option)
    BY <1>2
  <2>5. PICK m : m = made(a, r.profile, r.output)
    OBVIOUS
  <2>6. m.appliers = a /\ m.profile = r.profile /\ m.output = r.output /\ Recorder(m)
    BY ONLY <1>3, <2>5
  <2>4. /\ Recorder(Opt!Recorded(r, option))
        /\ Opt!Recorded(r, option).output = r.output
        /\ Opt!Recorded(r, option).profile = r.profile
        /\ Opt!Recorded(r, option).appliers = Append(r.appliers, option)
    BY ONLY <2>2, <2>3, <2>5, <2>6
  <2> QED BY <1>6, <2>4 DEF SetsSetting
<1> QED BY <1>4, <1>5, <1>6 DEF SetsSetting

Extended(b, a, x) ==
    /\ Len(b) = Len(a) + 1 /\ Len(a) \in Nat
    /\ DOMAIN b = 1..Len(b) /\ DOMAIN a = 1..Len(a)
    /\ b[Len(a) + 1] = x /\ \A i \in 1..Len(a) : b[i] = a[i]

LEMMA AppendExtends ==
    ASSUME NEW S, NEW a \in Seq(S), NEW x \in S
    PROVE  Extended(Append(a, x), a, x) /\ Append(a, x) \in Seq(S)
BY DEF Extended

LEMMA AppendedSays ==
    ASSUME NEW b, NEW a, NEW x, NEW f, Extended(b, a, x)
    PROVE
        /\ x.field = f => Says(b, Len(b), f, x.value)
        /\ x.field # f => /\ Silent(a, Len(a), f) => Silent(b, Len(b), f)
                          /\ \A v : Says(a, Len(a), f, v) => Says(b, Len(b), f, v)
        /\ Opt!Range(b) = Opt!Range(a) \cup {x}
<1>1. Len(b) = Len(a) + 1 /\ Len(a) \in Nat /\ b[Len(a) + 1] = x
      /\ \A i \in 1..Len(a) : b[i] = a[i]
  BY DEF Extended
<1>2. Opt!Range(b) = Opt!Range(a) \cup {x}
  <2>1. DOMAIN b = 1..(Len(a) + 1) /\ DOMAIN a = 1..Len(a)
    BY DEF Extended
  <2> QED BY ONLY <1>1, <2>1 DEF Opt!Range
<1>3. ASSUME x.field # f, NEW v, Says(a, Len(a), f, v) PROVE Says(b, Len(a), f, v)
  BY <1>1, <1>3 DEF Says
<1>4. ASSUME Silent(a, Len(a), f) PROVE Silent(b, Len(a), f)
  BY <1>1, <1>4 DEF Silent
<1>5. /\ x.field = f => Says(b, Len(b), f, x.value)
      /\ x.field # f => /\ \A v : Says(b, Len(b), f, v) <=> Says(b, Len(a), f, v)
                        /\ Silent(b, Len(b), f) <=> Silent(b, Len(a), f)
  <2>1. PICK n \in Nat : n = Len(a)
    BY <1>1
  <2>2. /\ b[n + 1].field = f => \A v : Says(b, n + 1, f, v) <=> v = b[n + 1].value
        /\ b[n + 1].field # f => /\ \A v : Says(b, n + 1, f, v) <=> Says(b, n, f, v)
                                 /\ Silent(b, n + 1, f) <=> Silent(b, n, f)
    BY SaysNext
  <2> QED BY <1>1, <2>1, <2>2
<1> QED BY <1>2, <1>3, <1>4, <1>5

LEMMA MatchesNext ==
    ASSUME NEW r, NEW s \in Seq(Listed), NEW n \in Nat, n + 1 \in 1..Len(s),
           Matches(r, s, n)
    PROVE  Matches(Opt!Recorded(r, s[n + 1]), s, n + 1)
<1>1. PICK q : q = Opt!Recorded(r, s[n + 1])
  OBVIOUS
<1>2. PICK x \in Listed : x = s[n + 1]
  OBVIOUS
<1>3. Recorder(r)
  BY DEF Matches
<1>4. /\ Recorder(q)
      /\ x.field = "output" =>
            q.output = x.value /\ q.profile = r.profile /\ q.appliers = r.appliers
      /\ x.field = "profile" =>
            q.output = r.output /\ q.profile = x.value /\ q.appliers = r.appliers
      /\ SetsSetting(x) => /\ q.output = r.output /\ q.profile = r.profile
                           /\ q.appliers = Append(r.appliers, x)
  BY <1>1, <1>2, <1>3, RecordedShape
<1>5. {s[i] : i \in {j \in 1..(n + 1) : SetsSetting(s[j])}} =
        {s[i] : i \in {j \in 1..n : SetsSetting(s[j])}}
        \cup (IF SetsSetting(x) THEN {x} ELSE {})
  <2>1. 1..(n + 1) = 1..n \cup {n + 1}
    OBVIOUS
  <2>2. {j \in 1..(n + 1) : SetsSetting(s[j])} =
            {j \in 1..n : SetsSetting(s[j])} \cup (IF SetsSetting(x) THEN {n + 1} ELSE {})
    BY <1>2, <2>1
  <2> QED BY <1>2, <2>2
<1>6. \A f : /\ x.field = f => \A v : Says(s, n + 1, f, v) <=> v = x.value
             /\ x.field = f => ~Silent(s, n + 1, f)
             /\ x.field # f => /\ \A v : Says(s, n + 1, f, v) <=> Says(s, n, f, v)
                               /\ Silent(s, n + 1, f) <=> Silent(s, n, f)
  BY <1>2, SaysNext
<1>7. CASE ~SetsSetting(x)
  BY <1>1, <1>4, <1>5, <1>6, <1>7 DEF Matches, SetsSetting
<1>8. CASE SetsSetting(x)
  <2>1. r.appliers \in Seq(Listed)
    BY <1>3 DEF Recorder
  <2>2. /\ \A f : /\ x.field = f => Says(q.appliers, Len(q.appliers), f, x.value)
                  /\ x.field # f =>
                       /\ Silent(r.appliers, Len(r.appliers), f) =>
                            Silent(q.appliers, Len(q.appliers), f)
                       /\ \A v : Says(r.appliers, Len(r.appliers), f, v) =>
                                    Says(q.appliers, Len(q.appliers), f, v)
        /\ Opt!Range(q.appliers) = Opt!Range(r.appliers) \cup {x}
    <3>1. Extended(q.appliers, r.appliers, x)
      <4>1. q.appliers = Append(r.appliers, x)
        BY <1>4, <1>8
      <4> QED BY <1>2, <2>1, <4>1, AppendExtends
    <3>2. ASSUME NEW f
          PROVE  /\ x.field = f => Says(q.appliers, Len(q.appliers), f, x.value)
                 /\ x.field # f =>
                       /\ Silent(r.appliers, Len(r.appliers), f) =>
                            Silent(q.appliers, Len(q.appliers), f)
                       /\ \A v : Says(r.appliers, Len(r.appliers), f, v) =>
                                    Says(q.appliers, Len(q.appliers), f, v)
                 /\ Opt!Range(q.appliers) = Opt!Range(r.appliers) \cup {x}
      BY ZenonT(60), <3>1, AppendedSays
    <3> QED BY <3>2
  <2>3. /\ Silent(s, n + 1, "output") => q.output = Opt!Unset
        /\ \A v : Says(s, n + 1, "output", v) => q.output = v
        /\ Silent(s, n + 1, "profile") => q.profile = Opt!DefaultProfile
        /\ \A v : Says(s, n + 1, "profile", v) => q.profile = v
    BY <1>4, <1>6, <1>8 DEF Matches, SetsSetting
  <2>4. \A f : f \notin {"output", "profile"} =>
         /\ Silent(s, n + 1, f) => Silent(q.appliers, Len(q.appliers), f)
         /\ \A v : Says(s, n + 1, f, v) => Says(q.appliers, Len(q.appliers), f, v)
    BY <1>6, <2>2 DEF Matches
  <2>5. Opt!Range(q.appliers) = {s[i] : i \in {j \in 1..(n + 1) : SetsSetting(s[j])}}
    BY <1>5, <1>8, <2>2 DEF Matches
  <2> QED BY <1>1, <1>4, <2>3, <2>4, <2>5 DEF Matches
<1> QED BY <1>7, <1>8

LEMMA MatchesNone ==
    ASSUME NEW s
    PROVE  Matches(Opt!NoOptions, s, 0)
<1>1. Recorder(Opt!NoOptions) /\ Opt!NoOptions.output = Opt!Unset
      /\ Opt!NoOptions.profile = Opt!DefaultProfile /\ Opt!NoOptions.appliers = <<>>
  BY DEF Recorder, Opt!NoOptions
<1>2. \A f, v : ~Says(s, 0, f, v)
  BY DEF Says
<1>3. \A f : Silent(<<>>, Len(<<>>), f)
  BY DEF Silent
<1>4. Opt!Range(<<>>) = {} /\ {s[i] : i \in {j \in 1..0 : SetsSetting(s[j])}} = {}
  BY DEF Opt!Range
<1> QED BY <1>1, <1>2, <1>3, <1>4 DEF Matches

-----------------------------------------------------------------------------
(* What a concatenation says.                                               *)
Joined(b, c, d) ==
    /\ Len(c) \in Nat /\ Len(d) \in Nat /\ Len(b) = Len(c) + Len(d)
    /\ DOMAIN b = 1..Len(b) /\ DOMAIN c = 1..Len(c) /\ DOMAIN d = 1..Len(d)
    /\ \A i \in 1..Len(c) : b[i] = c[i]
    /\ \A i \in 1..Len(d) : b[Len(c) + i] = d[i]

LEMMA ConcatJoins ==
    ASSUME NEW S, NEW c \in Seq(S), NEW d \in Seq(S)
    PROVE  c \o d \in Seq(S) /\ Joined(c \o d, c, d)
BY DEF Joined

LEMMA JoinedSays ==
    ASSUME NEW b, NEW c, NEW d, NEW f, Joined(b, c, d)
    PROVE  /\ \A v : Says(d, Len(d), f, v) => Says(b, Len(b), f, v)
           /\ \A v : Silent(d, Len(d), f) /\ Says(c, Len(c), f, v) => Says(b, Len(b), f, v)
           /\ Silent(d, Len(d), f) /\ Silent(c, Len(c), f) => Silent(b, Len(b), f)
           /\ Opt!Range(b) = Opt!Range(c) \cup Opt!Range(d)
<1>1. /\ Len(c) \in Nat /\ Len(d) \in Nat /\ Len(b) = Len(c) + Len(d)
      /\ \A i \in 1..Len(c) : b[i] = c[i]
      /\ \A i \in 1..Len(d) : b[Len(c) + i] = d[i]
  BY DEF Joined
<1>2. \A i \in (Len(c) + 1)..Len(b) : b[i] = d[i - Len(c)] /\ i - Len(c) \in 1..Len(d)
  <2> TAKE i \in (Len(c) + 1)..Len(b)
  <2>1. PICK k : k = i - Len(c)
    OBVIOUS
  <2>2. k \in 1..Len(d) /\ i = Len(c) + k
    BY <1>1, <2>1
  <2> QED BY <1>1, <2>1, <2>2
<1>3. ASSUME NEW v, Says(d, Len(d), f, v) PROVE Says(b, Len(b), f, v)
  <2>1. PICK i \in 1..Len(d) : /\ d[i].field = f /\ d[i].value = v
                               /\ \A j \in (i + 1)..Len(d) : d[j].field # f
    BY <1>3 DEF Says
  <2>2. Len(c) + i \in 1..Len(b) /\ b[Len(c) + i].field = f /\ b[Len(c) + i].value = v
    BY <1>1, <2>1
  <2>3. \A j \in (Len(c) + i + 1)..Len(b) : b[j].field # f
    <3> TAKE j \in (Len(c) + i + 1)..Len(b)
    <3>1. j \in (Len(c) + 1)..Len(b) /\ j - Len(c) \in (i + 1)..Len(d)
      BY <1>1, <2>1
    <3> QED BY <1>2, <2>1, <3>1
  <2> QED BY <2>2, <2>3 DEF Says
<1>4. ASSUME Silent(d, Len(d), f) PROVE \A i \in (Len(c) + 1)..Len(b) : b[i].field # f
  BY <1>2, <1>4 DEF Silent
<1>5. ASSUME Silent(d, Len(d), f), NEW v, Says(c, Len(c), f, v) PROVE Says(b, Len(b), f, v)
  <2>1. PICK i \in 1..Len(c) : /\ c[i].field = f /\ c[i].value = v
                               /\ \A j \in (i + 1)..Len(c) : c[j].field # f
    BY <1>5 DEF Says
  <2>2. i \in 1..Len(b) /\ b[i].field = f /\ b[i].value = v
    BY <1>1, <2>1
  <2>3. \A j \in (i + 1)..Len(b) : b[j].field # f
    <3> TAKE j \in (i + 1)..Len(b)
    <3>1. j \in (i + 1)..Len(c) \/ j \in (Len(c) + 1)..Len(b)
      BY <1>1, <2>1
    <3> QED BY <1>1, <1>4, <1>5, <2>1, <3>1
  <2> QED BY <2>2, <2>3 DEF Says
<1>6. ASSUME Silent(d, Len(d), f), Silent(c, Len(c), f) PROVE Silent(b, Len(b), f)
  <2> SUFFICES ASSUME NEW i \in 1..Len(b) PROVE b[i].field # f
    BY DEF Silent
  <2>1. i \in 1..Len(c) \/ i \in (Len(c) + 1)..Len(b)
    BY <1>1
  <2> QED BY <1>1, <1>4, <1>6, <2>1 DEF Silent
<1>7. Opt!Range(b) = Opt!Range(c) \cup Opt!Range(d)
  <2>1. DOMAIN b = 1..Len(b) /\ DOMAIN c = 1..Len(c) /\ DOMAIN d = 1..Len(d)
    BY DEF Joined
  <2>2. ASSUME NEW x \in Opt!Range(b) PROVE x \in Opt!Range(c) \cup Opt!Range(d)
    <3>1. PICK i \in 1..Len(b) : x = b[i]
      BY <2>1 DEF Opt!Range
    <3>2. i \in 1..Len(c) \/ i \in (Len(c) + 1)..Len(b)
      BY <1>1
    <3> QED BY <1>1, <1>2, <2>1, <3>1, <3>2 DEF Opt!Range
  <2>3. ASSUME NEW x \in Opt!Range(c) PROVE x \in Opt!Range(b)
    <3>1. PICK i \in 1..Len(c) : x = c[i]
      BY <2>1 DEF Opt!Range
    <3>2. i \in 1..Len(b)
      BY <1>1
    <3> QED BY <1>1, <2>1, <3>1, <3>2 DEF Opt!Range
  <2>4. ASSUME NEW x \in Opt!Range(d) PROVE x \in Opt!Range(b)
    <3>1. PICK i \in 1..Len(d) : x = d[i]
      BY <2>1 DEF Opt!Range
    <3>2. Len(c) + i \in 1..Len(b) /\ b[Len(c) + i] = x
      BY <1>1, <3>1
    <3> QED BY <2>1, <3>2 DEF Opt!Range
  <2> QED BY <2>2, <2>3, <2>4
<1> QED BY <1>3, <1>5, <1>6, <1>7

LEMMA JoinedRange ==
    ASSUME NEW b, NEW c, NEW d, Joined(b, c, d)
    PROVE  Opt!Range(b) = Opt!Range(c) \cup Opt!Range(d)
BY ZenonT(60), JoinedSays

Single(s, x) == s = <<x>>

LEMMA OneSays ==
    ASSUME NEW S, NEW x \in S, NEW s, Single(s, x)
    PROVE  /\ s \in Seq(S)
           /\ Says(s, Len(s), x.field, x.value)
           /\ \A f : f # x.field => Silent(s, Len(s), f)
           /\ Opt!Range(s) = {x}
<1>1. s \in Seq(S) /\ Len(s) = 1 /\ s[1] = x /\ DOMAIN s = {1} /\ 1..1 = {1}
  BY DEF Single
<1> QED BY ONLY <1>1 DEF Says, Silent, Opt!Range

LEMMA NoneSays ==
    /\ \A f : Silent(<<>>, 0, f)
    /\ Opt!Range(<<>>) = {}
BY DEF Silent, Opt!Range

(* The flags that were given, by name.                                      *)
Lines == Seq(OptionsOf(Opt!FlagNames))
Known ==
    [field : Fields,
     value : SUBSET (Texts \cup Tests \cup {"ten", "unbounded", "stdout"})]

LEMMA FlagValueTyped ==
    ASSUME NEW line \in Lines, NEW name, Opt!Given(line, name) # {}
    PROVE  Opt!FlagValue(line, name) \in SUBSET Texts
<1>1. \A i \in DOMAIN line : line[i].value \in SUBSET Texts
  <2>1. \A i \in DOMAIN line : line[i] \in OptionsOf(Opt!FlagNames)
    BY DEF Lines
  <2> QED BY <2>1 DEF OptionsOf
<1>2. Opt!Given(line, name) \subseteq DOMAIN line
  BY DEF Opt!Given
<1>3. CASE name = "suppressHealthCheck"
  BY <1>1, <1>2, <1>3 DEF Opt!FlagValue
<1>4. CASE name # "suppressHealthCheck"
  <2>1. Opt!Given(line, name) \subseteq 1..Len(line) /\ Len(line) \in Nat
    BY <1>2 DEF Lines
  <2>2. Opt!Max(Opt!Given(line, name)) \in DOMAIN line
    BY <1>2, <2>1, GreatestIs
  <2> QED BY <1>1, <1>4, <2>2 DEF Opt!FlagValue
<1> QED BY <1>3, <1>4

LEMMA VisitedSays ==
    ASSUME NEW line \in Lines, NEW name \in Opt!FlagNames
    PROVE  LET s == Opt!Visited(line, name) IN
           /\ s \in Seq(Known)
           /\ Opt!Given(line, name) # {} => Says(s, Len(s), name, Opt!FlagValue(line, name))
           /\ Opt!Given(line, name) = {} => Silent(s, Len(s), name)
           /\ \A f : f # name => Silent(s, Len(s), f)
<1> DEFINE s == Opt!Visited(line, name)
<1>1. CASE Opt!Given(line, name) = {}
  <2>1. s = <<>> /\ Len(<<>>) = 0 /\ <<>> \in Seq(Known)
    BY <1>1 DEF Opt!Visited
  <2> HIDE DEF s
  <2>2. s \in Seq(Known) /\ \A f : Silent(s, Len(s), f)
    BY <2>1, NoneSays
  <2> QED BY <1>1, <2>2 DEF s
<1>2. CASE Opt!Given(line, name) # {}
  <2>1. PICK x : x = Opt!Option(name, Opt!FlagValue(line, name))
    OBVIOUS
  <2>2. x.field = name /\ x.value = Opt!FlagValue(line, name) /\ x \in Known
    BY <1>2, <2>1, FlagValueTyped DEF Opt!Option, Known, Fields, Opt!FlagNames, Opt!Settings
  <2>3. Single(s, x)
    BY <1>2, <2>1 DEF Opt!Visited, Single
  <2> HIDE DEF s
  <2>4. s \in Seq(Known) /\ Says(s, Len(s), name, Opt!FlagValue(line, name))
        /\ \A f : f # name => Silent(s, Len(s), f)
    BY <2>2, <2>3, OneSays
  <2> QED BY <1>2, <2>4 DEF s
<1> QED BY <1>1, <1>2

LEMMA FlagsSay ==
    ASSUME NEW line \in Lines
    PROVE  LET s == Opt!FlagOptions(line) IN
           /\ s \in Seq(Known)
           /\ \A f \in Opt!FlagNames :
                /\ Opt!Given(line, f) # {} => Says(s, Len(s), f, Opt!FlagValue(line, f))
                /\ Opt!Given(line, f) = {} => Silent(s, Len(s), f)
           /\ \A f : f \notin Opt!FlagNames => Silent(s, Len(s), f)
<1>1. PICK v1, v2, v3, v4 :
        /\ v1 = Opt!Visited(line, "database") /\ v2 = Opt!Visited(line, "derandomize")
        /\ v3 = Opt!Visited(line, "suppressHealthCheck")
        /\ v4 = Opt!Visited(line, "testCases")
  OBVIOUS
<1> DEFINE Tells(s, f) ==
      /\ Opt!Given(line, f) # {} => Says(s, Len(s), f, Opt!FlagValue(line, f))
      /\ Opt!Given(line, f) = {} => Silent(s, Len(s), f)
<1>2. Opt!FlagNames = {"database", "derandomize", "suppressHealthCheck", "testCases"}
  BY DEF Opt!FlagNames
<1>3. /\ v1 \in Seq(Known) /\ v2 \in Seq(Known) /\ v3 \in Seq(Known) /\ v4 \in Seq(Known)
      /\ Tells(v1, "database") /\ \A f : f # "database" => Silent(v1, Len(v1), f)
      /\ Tells(v2, "derandomize") /\ \A f : f # "derandomize" => Silent(v2, Len(v2), f)
      /\ Tells(v3, "suppressHealthCheck")
      /\ \A f : f # "suppressHealthCheck" => Silent(v3, Len(v3), f)
      /\ Tells(v4, "testCases") /\ \A f : f # "testCases" => Silent(v4, Len(v4), f)
  BY <1>1, <1>2, VisitedSays
<1>4. PICK b1, b2, b3 : b1 = v1 \o v2 /\ b2 = b1 \o v3 /\ b3 = b2 \o v4
  OBVIOUS
<1>5. b1 \in Seq(Known) /\ b2 \in Seq(Known) /\ b3 \in Seq(Known)
  BY <1>3, <1>4
<1>6. Joined(b1, v1, v2) /\ Joined(b2, b1, v3) /\ Joined(b3, b2, v4)
  BY <1>3, <1>4, <1>5, ConcatJoins
<1>7. b3 = Opt!FlagOptions(line)
  BY <1>1, <1>4 DEF Opt!FlagOptions
<1>8. Tells(b1, "database") /\ Tells(b1, "derandomize")
      /\ \A f : f \notin {"database", "derandomize"} => Silent(b1, Len(b1), f)
  BY <1>3, <1>6, JoinedSays
<1>9. Tells(b2, "database") /\ Tells(b2, "derandomize") /\ Tells(b2, "suppressHealthCheck")
      /\ \A f : f \notin {"database", "derandomize", "suppressHealthCheck"} =>
                    Silent(b2, Len(b2), f)
  BY <1>3, <1>6, <1>8, JoinedSays
<1>10. Tells(b3, "database") /\ Tells(b3, "derandomize") /\ Tells(b3, "suppressHealthCheck")
       /\ Tells(b3, "testCases")
       /\ \A f : f \notin {"database", "derandomize", "suppressHealthCheck", "testCases"} =>
                    Silent(b3, Len(b3), f)
  BY <1>3, <1>6, <1>9, JoinedSays
<1> QED BY <1>2, <1>5, <1>7, <1>10

-----------------------------------------------------------------------------
(* The options of a call, in their order, as run reads them if nobody else  *)
(* writes into them.                                                        *)
Unbounded == Opt!Option("testCases", {"unbounded"})
Ten == Opt!Option("testCases", {"ten"})
StdOut == Opt!Option("output", {"stdout"})
Key(t) == Opt!Option("databaseKey", {t})
Writer(t) == Opt!Option("output", {t})

Added(t) ==
    IF entry[t] = "Test"
    THEN IF short THEN <<Key(t), Writer(t), Ten>> ELSE <<Key(t), Writer(t)>>
    ELSE <<StdOut>>

Intended(t) ==
    IF entry[t] = "Workload" THEN Opt!WorkloadOptions(flags[t]) ELSE common \o Added(t)

CommonTyped == common \in Seq(OptionsOf(Fields)) /\ short \in BOOLEAN
Entered(t) ==
    /\ entry[t] \in {"Test", "Run", "Workload"}
    /\ flags[t] \in Lines
    /\ entry[t] # "Workload" => flags[t] = <<>>

Owned(t) == {Unbounded, Ten, StdOut, Key(t), Writer(t)}

LEMMA OwnedKnown == \A t \in Tests : Owned(t) \subseteq Known
BY DEF Owned, Unbounded, Ten, StdOut, Key, Writer, Opt!Option, Known, Fields, Opt!Settings

LEMMA CommonKnown == CommonTyped => common \in Seq(Known)
<1> SUFFICES ASSUME CommonTyped PROVE common \in Seq(Known)
  OBVIOUS
<1>1. OptionsOf(Fields) \subseteq Known
  BY DEF OptionsOf, Known
<1>2. common \in Seq(OptionsOf(Fields))
  BY DEF CommonTyped
<1> HIDE DEF CommonTyped
<1> QED BY <1>1, <1>2

Pair(s, x, y) == s = <<x, y>>

LEMMA PairSays ==
    ASSUME NEW S, NEW x \in S, NEW y \in S, NEW s, Pair(s, x, y), x.field # y.field
    PROVE  /\ s \in Seq(S)
           /\ Says(s, Len(s), x.field, x.value) /\ Says(s, Len(s), y.field, y.value)
           /\ \A f : f # x.field /\ f # y.field => Silent(s, Len(s), f)
           /\ Opt!Range(s) = {x, y}
<1>2. s \in Seq(S) /\ Len(s) = 2 /\ s[1] = x /\ s[2] = y /\ DOMAIN s = {1, 2}
  BY DEF Pair
<1>3. 1..2 = {1, 2}
  OBVIOUS
<1>4. Says(s, 2, x.field, x.value) /\ Says(s, 2, y.field, y.value)
  BY <1>2, <1>3 DEF Says
<1>5. \A f : f # x.field /\ f # y.field => Silent(s, 2, f)
  BY <1>2, <1>3 DEF Silent
<1>6. Opt!Range(s) = {x, y}
  BY <1>2 DEF Opt!Range
<1> QED BY <1>2, <1>4, <1>5, <1>6

LEMMA AddedSays ==
    ASSUME CommonTyped, NEW t \in Tests
    PROVE  LET s == Added(t) IN
           /\ s \in Seq(Known)
           /\ entry[t] = "Test" =>
                /\ Says(s, Len(s), "databaseKey", {t}) /\ Says(s, Len(s), "output", {t})
                /\ short => Says(s, Len(s), "testCases", {"ten"})
                /\ ~short => Silent(s, Len(s), "testCases")
                /\ \A f : f \notin {"databaseKey", "output", "testCases"} =>
                            Silent(s, Len(s), f)
           /\ entry[t] # "Test" =>
                /\ Says(s, Len(s), "output", {"stdout"})
                /\ \A f : f # "output" => Silent(s, Len(s), f)
           /\ Opt!Range(s) \subseteq Owned(t)
<1>1. /\ Key(t) \in Known /\ Key(t).field = "databaseKey" /\ Key(t).value = {t}
      /\ Writer(t) \in Known /\ Writer(t).field = "output" /\ Writer(t).value = {t}
      /\ Ten \in Known /\ Ten.field = "testCases" /\ Ten.value = {"ten"}
      /\ StdOut \in Known /\ StdOut.field = "output" /\ StdOut.value = {"stdout"}
  BY OwnedKnown DEF Owned, Key, Writer, Ten, StdOut, Opt!Option
<1>2. PICK p : p = <<Key(t), Writer(t)>>
  OBVIOUS
<1>3. /\ p \in Seq(Known)
      /\ Says(p, Len(p), "databaseKey", {t}) /\ Says(p, Len(p), "output", {t})
      /\ \A f : f # "databaseKey" /\ f # "output" => Silent(p, Len(p), f)
      /\ Opt!Range(p) = {Key(t), Writer(t)}
  <2>1. Key(t) \in Known /\ Writer(t) \in Known /\ Key(t).field # Writer(t).field
    BY <1>1
  <2>2. Pair(p, Key(t), Writer(t))
    BY <1>2 DEF Pair
  <2>3. /\ p \in Seq(Known) /\ Opt!Range(p) = {Key(t), Writer(t)}
        /\ Says(p, Len(p), Key(t).field, Key(t).value)
        /\ Says(p, Len(p), Writer(t).field, Writer(t).value)
        /\ \A f : f # Key(t).field /\ f # Writer(t).field => Silent(p, Len(p), f)
    BY ONLY <2>1, <2>2, PairSays
  <2> QED BY Zenon, <1>1, <2>3
<1>4. CASE entry[t] = "Test" /\ ~short
  <2>1. Added(t) = p
    BY <1>2, <1>4 DEF Added
  <2> QED BY <1>3, <1>4, <2>1 DEF Owned
<1>5. CASE entry[t] = "Test" /\ short
  <2>1. PICK q : q = Added(t)
    OBVIOUS
  <2>2. q = Append(p, Ten)
    BY <1>2, <1>5, <2>1 DEF Added
  <2>3. p \in Seq(Known) /\ Ten \in Known
    BY <1>1, <1>3
  <2>4. Extended(Append(p, Ten), p, Ten) /\ Append(p, Ten) \in Seq(Known)
    BY ONLY Zenon, <2>3, AppendExtends
  <2>5. Extended(q, p, Ten) /\ q \in Seq(Known)
    BY Zenon, <2>2, <2>4
  <2>6. \A f : /\ Ten.field = f => Says(q, Len(q), f, Ten.value)
               /\ Ten.field # f => /\ Silent(p, Len(p), f) => Silent(q, Len(q), f)
                                   /\ \A v : Says(p, Len(p), f, v) => Says(q, Len(q), f, v)
               /\ Opt!Range(q) = Opt!Range(p) \cup {Ten}
    BY ONLY ZenonT(60), <2>5, AppendedSays
  <2>7. /\ Says(q, Len(q), "databaseKey", {t}) /\ Says(q, Len(q), "output", {t})
        /\ Says(q, Len(q), "testCases", {"ten"})
        /\ \A f : f \notin {"databaseKey", "output", "testCases"} => Silent(q, Len(q), f)
        /\ Opt!Range(q) = {Key(t), Writer(t), Ten}
    BY <1>1, <1>3, <2>6
  <2> QED BY <1>5, <2>1, <2>5, <2>7 DEF Owned
<1>6. CASE entry[t] # "Test"
  <2>1. PICK q : q = <<StdOut>>
    OBVIOUS
  <2>3. Single(q, StdOut)
    BY <2>1 DEF Single
  <2>4. StdOut \in Known
    BY <1>1
  <2>6. /\ q \in Seq(Known) /\ Opt!Range(q) = {StdOut}
        /\ Says(q, Len(q), StdOut.field, StdOut.value)
        /\ \A f : f # StdOut.field => Silent(q, Len(q), f)
    BY Zenon, <2>3, <2>4, OneSays
  <2>2. /\ q \in Seq(Known) /\ Opt!Range(q) = {StdOut}
        /\ Says(q, Len(q), "output", {"stdout"})
        /\ \A f : f # "output" => Silent(q, Len(q), f)
    BY Zenon, <1>1, <2>6
  <2>5. Added(t) = q
    BY <1>6, <2>1 DEF Added
  <2> QED BY <1>6, <2>2, <2>5 DEF Owned
<1> QED BY <1>4, <1>5, <1>6

(* What the options of a call say of each field, and what the engine will   *)
(* be asked for.                                                            *)
Means(t, s) ==
    /\ s \in Seq(Known)
    /\ Says(s, Len(s), "output", Opt!PromisedOutput(t))
    /\ IF Opt!Given(common, "profile") = {} THEN Silent(s, Len(s), "profile")
       ELSE Says(s, Len(s), "profile", Opt!LastWord(common, "profile"))
    /\ \A f \in Opt!Settings \ {"testLocation"} :
         IF f = "databaseKey" /\ entry[t] = "Test" THEN Says(s, Len(s), f, {t})
         ELSE IF f = "testCases" /\ entry[t] = "Test" /\ short
              THEN Says(s, Len(s), f, {"ten"})
         ELSE IF Opt!Given(flags[t], f) # {} THEN Says(s, Len(s), f, Opt!FlagsWord(t, f))
         ELSE IF Opt!Given(common, f) # {} THEN Says(s, Len(s), f, Opt!LastWord(common, f))
         ELSE IF f = "testCases" /\ entry[t] = "Workload"
              THEN Says(s, Len(s), f, {"unbounded"})
         ELSE Silent(s, Len(s), f)
    /\ Opt!Range(common) \cup Opt!Range(Opt!FlagOptions(flags[t])) \subseteq Opt!Range(s)
    /\ Opt!Range(s) \subseteq
         Opt!Range(common) \cup Opt!Range(Opt!FlagOptions(flags[t])) \cup Owned(t)

LEMMA CommonSays ==
    ASSUME CommonTyped, NEW f
    PROVE  /\ Opt!Given(common, f) = {} => Silent(common, Len(common), f)
           /\ Opt!Given(common, f) # {} =>
                Says(common, Len(common), f, Opt!LastWord(common, f))
<1>1. common \in Seq(Known)
  BY CommonKnown
<1> QED BY <1>1, GivenSays

LEMMA NoFlags ==
    /\ \A f : Opt!Given(<<>>, f) = {}
    /\ Opt!FlagOptions(<<>>) = <<>>
<1>1. \A f : Opt!Given(<<>>, f) = {}
  BY DEF Opt!Given
<1>2. \A f : Opt!Visited(<<>>, f) = <<>>
  BY <1>1 DEF Opt!Visited
<1> QED BY <1>1, <1>2 DEF Opt!FlagOptions

LEMMA CallMeans ==
    ASSUME CommonTyped, NEW t \in Tests, Entered(t), entry[t] # "Workload"
    PROVE  Means(t, Intended(t))
<1>1. PICK s, a : s = Intended(t) /\ a = Added(t)
  OBVIOUS
<1>2. common \in Seq(Known) /\ a \in Seq(Known)
  BY <1>1, CommonKnown, AddedSays
<1>3. s = common \o a
  BY <1>1 DEF Intended
<1>4. s \in Seq(Known) /\ Joined(s, common, a)
  BY <1>2, <1>3, ConcatJoins
<1>5. \A f : Opt!Given(flags[t], f) = {} /\ Opt!FlagOptions(flags[t]) = <<>>
  BY NoFlags DEF Entered
<1>6. Opt!Range(<<>>) = {}
  BY NoneSays
<1>7. Opt!Range(s) = Opt!Range(common) \cup Opt!Range(a) /\ Opt!Range(a) \subseteq Owned(t)
  BY <1>1, <1>4, JoinedRange, AddedSays
<1>8. \A f : /\ \A v : Says(a, Len(a), f, v) => Says(s, Len(s), f, v)
             /\ Silent(a, Len(a), f) /\ Opt!Given(common, f) = {} => Silent(s, Len(s), f)
             /\ Silent(a, Len(a), f) /\ Opt!Given(common, f) # {} =>
                    Says(s, Len(s), f, Opt!LastWord(common, f))
  BY <1>4, JoinedSays, CommonSays
<1>9. CASE entry[t] = "Test"
  <2>1. /\ Says(a, Len(a), "databaseKey", {t}) /\ Says(a, Len(a), "output", {t})
        /\ short => Says(a, Len(a), "testCases", {"ten"})
        /\ ~short => Silent(a, Len(a), "testCases")
        /\ \A f : f \notin {"databaseKey", "output", "testCases"} => Silent(a, Len(a), f)
    BY <1>1, <1>9, AddedSays
  <2>2. Opt!PromisedOutput(t) = {t}
    BY <1>9 DEF Opt!PromisedOutput
  <2>3. Says(s, Len(s), "output", {t})
    BY <1>8, <2>1
  <2>4. \A f : f \notin {"databaseKey", "output", "testCases"} =>
            IF Opt!Given(common, f) # {} THEN Says(s, Len(s), f, Opt!LastWord(common, f))
            ELSE Silent(s, Len(s), f)
    BY <1>8, <2>1
  <2>5. Says(s, Len(s), "databaseKey", {t})
    BY <1>8, <2>1
  <2>6. IF short THEN Says(s, Len(s), "testCases", {"ten"})
        ELSE IF Opt!Given(common, "testCases") # {}
        THEN Says(s, Len(s), "testCases", Opt!LastWord(common, "testCases"))
        ELSE Silent(s, Len(s), "testCases")
    BY <1>8, <2>1
  <2>7. \A f \in Opt!Settings : f # "output"
    BY DEF Opt!Settings
  <2> QED BY <1>1, <1>4, <1>5, <1>6, <1>7, <1>9, <2>2, <2>3, <2>4, <2>5, <2>6, <2>7 DEF Means
<1>10. CASE entry[t] # "Test"
  <2>1. /\ Says(a, Len(a), "output", {"stdout"})
        /\ \A f : f # "output" => Silent(a, Len(a), f)
    BY <1>1, <1>10, AddedSays
  <2>2. Opt!PromisedOutput(t) = {"stdout"}
    BY <1>10 DEF Opt!PromisedOutput
  <2>3. \A f \in Opt!Settings : f # "output"
    BY DEF Opt!Settings
  <2> QED BY <1>1, <1>4, <1>5, <1>6, <1>7, <1>8, <1>10, <2>1, <2>2, <2>3 DEF Means
<1> QED BY <1>9, <1>10

LEMMA WorkloadMeans ==
    ASSUME CommonTyped, NEW t \in Tests, Entered(t), entry[t] = "Workload"
    PROVE  Means(t, Intended(t))
<1>1. PICK u, w, b1, b2, b3, fl :
        /\ fl = Opt!FlagOptions(flags[t]) /\ u = <<Unbounded>> /\ w = <<StdOut>>
        /\ b1 = u \o common /\ b2 = b1 \o fl /\ b3 = b2 \o w
  OBVIOUS
<1>2. b3 = Intended(t)
  BY <1>1 DEF Intended, Opt!WorkloadOptions, Unbounded, StdOut
<1>3. /\ Unbounded \in Known /\ StdOut \in Known /\ common \in Seq(Known)
      /\ Unbounded.field = "testCases" /\ Unbounded.value = {"unbounded"}
      /\ StdOut.field = "output" /\ StdOut.value = {"stdout"}
  BY OwnedKnown, CommonKnown DEF Owned, Unbounded, StdOut, Opt!Option
<1>4. /\ fl \in Seq(Known)
      /\ \A f \in Opt!FlagNames :
           /\ Opt!Given(flags[t], f) # {} =>
                Says(fl, Len(fl), f, Opt!FlagValue(flags[t], f))
           /\ Opt!Given(flags[t], f) = {} => Silent(fl, Len(fl), f)
      /\ \A f : f \notin Opt!FlagNames => Silent(fl, Len(fl), f)
  BY <1>1, FlagsSay DEF Entered
<1>8. Single(u, Unbounded) /\ Single(w, StdOut)
  BY <1>1 DEF Single
<1>5. /\ u \in Seq(Known) /\ Opt!Range(u) = {Unbounded}
      /\ Says(u, Len(u), "testCases", {"unbounded"})
      /\ \A f : f # "testCases" => Silent(u, Len(u), f)
  <2>1. Unbounded \in Known
    BY <1>3
  <2>2. /\ u \in Seq(Known) /\ Opt!Range(u) = {Unbounded}
        /\ Says(u, Len(u), Unbounded.field, Unbounded.value)
        /\ \A f : f # Unbounded.field => Silent(u, Len(u), f)
    BY Zenon, <1>8, <2>1, OneSays
  <2> QED BY Zenon, <1>3, <2>2
<1>6. /\ w \in Seq(Known) /\ Opt!Range(w) = {StdOut}
      /\ Says(w, Len(w), "output", {"stdout"})
      /\ \A f : f # "output" => Silent(w, Len(w), f)
  <2>1. StdOut \in Known
    BY <1>3
  <2>2. /\ w \in Seq(Known) /\ Opt!Range(w) = {StdOut}
        /\ Says(w, Len(w), StdOut.field, StdOut.value)
        /\ \A f : f # StdOut.field => Silent(w, Len(w), f)
    BY Zenon, <1>8, <2>1, OneSays
  <2> QED BY Zenon, <1>3, <2>2
<1>7. /\ Joined(b1, u, common) /\ Joined(b2, b1, fl) /\ Joined(b3, b2, w)
      /\ b3 \in Seq(Known)
  <2>1. b1 \in Seq(Known) /\ Joined(b1, u, common)
    BY <1>1, <1>3, <1>5, ConcatJoins
  <2>2. b2 \in Seq(Known) /\ Joined(b2, b1, fl)
    BY <1>1, <1>4, <2>1, ConcatJoins
  <2> QED BY <1>1, <1>6, <2>1, <2>2, ConcatJoins
<1>9. \A f : IF Opt!Given(common, f) # {} THEN Says(b1, Len(b1), f, Opt!LastWord(common, f))
             ELSE IF f = "testCases" THEN Says(b1, Len(b1), f, {"unbounded"})
             ELSE Silent(b1, Len(b1), f)
  <2> TAKE f
  <2>1. /\ Opt!Given(common, f) = {} => Silent(common, Len(common), f)
        /\ Opt!Given(common, f) # {} =>
                Says(common, Len(common), f, Opt!LastWord(common, f))
    BY CommonSays
  <2>2. /\ \A v : Says(common, Len(common), f, v) => Says(b1, Len(b1), f, v)
        /\ \A v : Silent(common, Len(common), f) /\ Says(u, Len(u), f, v) =>
                        Says(b1, Len(b1), f, v)
        /\ Silent(common, Len(common), f) /\ Silent(u, Len(u), f) => Silent(b1, Len(b1), f)
    BY <1>7, JoinedSays
  <2> QED BY <1>5, <2>1, <2>2
<1>10. \A f \in Opt!FlagNames : Opt!FlagValue(flags[t], f) = Opt!FlagsWord(t, f)
  BY DEF Opt!FlagValue, Opt!FlagsWord, Opt!LastWord
<1>11. \A f : f \notin Opt!FlagNames => Opt!Given(flags[t], f) = {}
  <2>1. flags[t] \in Lines
    BY DEF Entered
  <2>2. \A i \in DOMAIN flags[t] : flags[t][i] \in OptionsOf(Opt!FlagNames)
    BY <2>1 DEF Lines
  <2>3. \A i \in DOMAIN flags[t] : flags[t][i].field \in Opt!FlagNames
    BY <2>2 DEF OptionsOf
  <2> QED BY <2>3 DEF Opt!Given
<1>12. \A f : IF Opt!Given(flags[t], f) # {}
              THEN Says(b2, Len(b2), f, Opt!FlagsWord(t, f))
              ELSE IF Opt!Given(common, f) # {}
              THEN Says(b2, Len(b2), f, Opt!LastWord(common, f))
              ELSE IF f = "testCases" THEN Says(b2, Len(b2), f, {"unbounded"})
              ELSE Silent(b2, Len(b2), f)
  <2> TAKE f
  <2>1. /\ Opt!Given(flags[t], f) # {} => Says(fl, Len(fl), f, Opt!FlagsWord(t, f))
        /\ Opt!Given(flags[t], f) = {} => Silent(fl, Len(fl), f)
    BY <1>4, <1>10, <1>11
  <2>2. /\ \A v : Says(fl, Len(fl), f, v) => Says(b2, Len(b2), f, v)
        /\ \A v : Silent(fl, Len(fl), f) /\ Says(b1, Len(b1), f, v) => Says(b2, Len(b2), f, v)
        /\ Silent(fl, Len(fl), f) /\ Silent(b1, Len(b1), f) => Silent(b2, Len(b2), f)
    BY <1>7, JoinedSays
  <2> QED BY <1>9, <2>1, <2>2
<1>13. \A f : f # "output" =>
              IF Opt!Given(flags[t], f) # {}
              THEN Says(b3, Len(b3), f, Opt!FlagsWord(t, f))
              ELSE IF Opt!Given(common, f) # {}
              THEN Says(b3, Len(b3), f, Opt!LastWord(common, f))
              ELSE IF f = "testCases" THEN Says(b3, Len(b3), f, {"unbounded"})
              ELSE Silent(b3, Len(b3), f)
  <2> TAKE f
  <2>1. /\ \A v : Silent(w, Len(w), f) /\ Says(b2, Len(b2), f, v) => Says(b3, Len(b3), f, v)
        /\ Silent(w, Len(w), f) /\ Silent(b2, Len(b2), f) => Silent(b3, Len(b3), f)
    BY <1>7, JoinedSays
  <2> QED BY <1>6, <1>12, <2>1
<1>14. Says(b3, Len(b3), "output", {"stdout"})
  BY <1>6, <1>7, JoinedSays
<1>15. Opt!Range(b3) = {Unbounded} \cup Opt!Range(common) \cup Opt!Range(fl) \cup {StdOut}
  <2>1. /\ Opt!Range(b1) = Opt!Range(u) \cup Opt!Range(common)
        /\ Opt!Range(b2) = Opt!Range(b1) \cup Opt!Range(fl)
        /\ Opt!Range(b3) = Opt!Range(b2) \cup Opt!Range(w)
    BY <1>7, JoinedRange
  <2> QED BY <1>5, <1>6, <2>1
<1>16. Opt!PromisedOutput(t) = {"stdout"}
  BY DEF Opt!PromisedOutput
<1>17. Opt!Given(flags[t], "profile") = {} /\ \A f \in Opt!Settings : f # "output"
  BY <1>11 DEF Opt!FlagNames, Opt!Settings
<1> QED BY <1>1, <1>2, <1>7, <1>13, <1>14, <1>15, <1>16, <1>17 DEF Means, Owned

-----------------------------------------------------------------------------
(* What a call still has to append when k of its own options are in.        *)
Todo(t, k) ==
    IF entry[t] = "Test"
    THEN IF short
         THEN IF k = 0 THEN <<<<Key(t), Writer(t)>>, <<Ten>>>>
              ELSE IF k = 1 THEN <<<<Writer(t)>>, <<Ten>>>>
              ELSE IF k = 2 THEN <<<<Ten>>>> ELSE <<>>
         ELSE IF k = 0 THEN <<<<Key(t), Writer(t)>>>>
              ELSE IF k = 1 THEN <<<<Writer(t)>>>> ELSE <<>>
    ELSE IF k = 0 THEN <<<<StdOut>>>> ELSE <<>>

(* The batch h is next, then d; a is all there is to append.                *)
Batch(h, d, a, k) ==
    /\ Len(h) \in {1, 2} /\ k + Len(h) <= Len(a)
    /\ h \in Seq(Known)
    /\ \A i \in 1..Len(h) : h[i] = a[k + i]
    /\ d # <<>> /\ Head(d) = h

LEMMA OneBatch ==
    ASSUME NEW h, NEW d, Single(d, h)
    PROVE  /\ d # <<>> /\ Head(d) = h /\ Tail(d) = <<>>
           /\ \A g, e : Single(e, g) => [d EXCEPT ![1] = g] = e
BY DEF Single

LEMMA TwoBatches ==
    ASSUME NEW h, NEW g, NEW d, Pair(d, h, g)
    PROVE  /\ d # <<>> /\ Head(d) = h /\ Single(Tail(d), g)
           /\ \A j, e : Pair(e, j, g) => [d EXCEPT ![1] = j] = e
BY DEF Single, Pair

LEMMA SamePair ==
    ASSUME NEW x, NEW y, NEW d, NEW e
    PROVE  /\ Pair(d, x, y) /\ Pair(e, x, y) => d = e
           /\ Single(d, x) /\ Single(e, x) => d = e
BY DEF Single, Pair

LEMMA PairBatch ==
    ASSUME NEW x \in Known, NEW y \in Known, NEW h, Pair(h, x, y), NEW a,
           Len(a) \in {2, 3}, a[1] = x, a[2] = y, NEW d, d # <<>>, Head(d) = h
    PROVE  Batch(h, d, a, 0) /\ Len(h) = 2 /\ Single(Tail(h), y)
<1>1. h \in Seq(Known) /\ Len(h) = 2 /\ h[1] = x /\ h[2] = y /\ Single(Tail(h), y)
  BY DEF Pair, Single
<1> QED BY <1>1 DEF Batch

LEMMA SingleIs ==
    ASSUME NEW x \in Known, NEW h, Single(h, x)
    PROVE  h \in Seq(Known) /\ Len(h) = 1 /\ h[1] = x
BY DEF Single

LEMMA TodoSays ==
    ASSUME CommonTyped, NEW t \in Tests, NEW k \in 0..Len(Added(t))
    PROVE  LET d == Todo(t, k) h == Head(Todo(t, k)) IN
           /\ Len(Added(t)) \in Nat
           /\ d = <<>> <=> k = Len(Added(t))
           /\ d # <<>> =>
                /\ Batch(h, d, Added(t), k)
                /\ Tail(d) = Todo(t, k + Len(h))
                /\ Len(h) = 2 => [d EXCEPT ![1] = Tail(h)] = Todo(t, k + 1)
                /\ entry[t] = "Test" => (Len(h) = 2 <=> k = 0)
                /\ entry[t] # "Test" => Len(h) = 1 /\ h[1] = StdOut /\ k = 0
<1> DEFINE Right(d, h, a) ==
             /\ Batch(h, d, a, k)
             /\ Tail(d) = Todo(t, k + Len(h))
             /\ Len(h) = 2 => [d EXCEPT ![1] = Tail(h)] = Todo(t, k + 1)
             /\ entry[t] = "Test" => (Len(h) = 2 <=> k = 0)
             /\ entry[t] # "Test" => Len(h) = 1 /\ h[1] = StdOut /\ k = 0
<1> DEFINE Whole(d, h, a) ==
             /\ Len(a) \in Nat
             /\ d = <<>> <=> k = Len(a)
             /\ d # <<>> => Right(d, h, a)
<1> SUFFICES Whole(Todo(t, k), Head(Todo(t, k)), Added(t))
  OBVIOUS
<1>1. Key(t) \in Known /\ Writer(t) \in Known /\ Ten \in Known /\ StdOut \in Known
  BY OwnedKnown DEF Owned
<1>2. PICK both, one, ten, out, a :
        /\ both = <<Key(t), Writer(t)>> /\ one = <<Writer(t)>> /\ ten = <<Ten>>
        /\ out = <<StdOut>> /\ a = Added(t)
  OBVIOUS
<1>3. Pair(both, Key(t), Writer(t)) /\ Single(one, Writer(t)) /\ Single(ten, Ten)
      /\ Single(out, StdOut)
  BY <1>2 DEF Pair, Single
<1>7. /\ one \in Seq(Known) /\ Len(one) = 1 /\ one[1] = Writer(t)
      /\ ten \in Seq(Known) /\ Len(ten) = 1 /\ ten[1] = Ten
      /\ out \in Seq(Known) /\ Len(out) = 1 /\ out[1] = StdOut
  BY Zenon, <1>1, <1>3, SingleIs
<1> HIDE DEF Right, Whole
<1>4. CASE entry[t] = "Test" /\ short
  <2>1. Len(a) = 3 /\ a[1] = Key(t) /\ a[2] = Writer(t) /\ a[3] = Ten
    BY <1>2, <1>4 DEF Added
  <2>8. Len(a) \in Nat
    BY <2>1
  <2>2. PICK d0, d1, d2 : d0 = Todo(t, 0) /\ d1 = Todo(t, 1) /\ d2 = Todo(t, 2)
    OBVIOUS
  <2>3. Pair(d0, both, ten) /\ Pair(d1, one, ten) /\ Single(d2, ten) /\ Todo(t, 3) = <<>>
    BY <1>2, <1>4, <2>2 DEF Todo, Pair, Single
  <2>4. CASE k = 0
    <3>1. d0 # <<>> /\ Head(d0) = both /\ Single(Tail(d0), ten)
          /\ \A j, e : Pair(e, j, ten) => [d0 EXCEPT ![1] = j] = e
      BY Zenon, <2>3, TwoBatches
    <3>2. Batch(both, d0, a, 0) /\ Len(both) = 2 /\ Single(Tail(both), Writer(t))
      BY <1>1, <1>3, <2>1, <3>1, PairBatch
    <3>3. Tail(d0) = d2
      BY Zenon, <2>3, <3>1, SamePair
    <3>4. Tail(both) = one
      BY Zenon, <1>3, <3>2, SamePair
    <3>5. [d0 EXCEPT ![1] = one] = d1
      BY <1>3, <2>3, <3>1
    <3>7. k + Len(both) = 2 /\ k + 1 = 1
      BY <3>2, <2>4
    <3>6. Right(d0, both, a)
      BY <1>4, <2>2, <2>4, <3>2, <3>3, <3>4, <3>5, <3>7 DEF Right
    <3>8. Todo(t, k) = d0 /\ Head(d0) = both /\ k # Len(a) /\ d0 # <<>>
      BY <2>1, <2>2, <2>4, <3>1
    <3> QED BY Zenon, <1>2, <2>8, <3>6, <3>8 DEF Whole
  <2>5. CASE k = 1
    <3>1. d1 # <<>> /\ Head(d1) = one /\ Single(Tail(d1), ten)
      BY Zenon, <2>3, TwoBatches
    <3>2. Batch(one, d1, a, 1) /\ Len(one) = 1
      BY <1>7, <2>1, <3>1 DEF Batch
    <3>3. Tail(d1) = d2
      BY Zenon, <2>3, <3>1, SamePair
    <3>7. k + Len(one) = 2 /\ k + 1 = 2
      BY <3>2, <2>5
    <3>6. Right(d1, one, a)
      BY <1>4, <2>2, <2>5, <3>2, <3>3, <3>7 DEF Right
    <3>8. Todo(t, k) = d1 /\ Head(d1) = one /\ k # Len(a) /\ d1 # <<>>
      BY <2>1, <2>2, <2>5, <3>1
    <3> QED BY Zenon, <1>2, <2>8, <3>6, <3>8 DEF Whole
  <2>6. CASE k = 2
    <3>1. d2 # <<>> /\ Head(d2) = ten /\ Tail(d2) = <<>>
      BY Zenon, <2>3, OneBatch
    <3>2. Batch(ten, d2, a, 2) /\ Len(ten) = 1
      BY <1>7, <2>1, <3>1 DEF Batch
    <3>7. k + Len(ten) = 3 /\ k + 1 = 3
      BY <3>2, <2>6
    <3>9. Tail(d2) = Todo(t, 3)
      BY Zenon, <2>3, <3>1
    <3>6. Right(d2, ten, a)
      BY <1>4, <2>6, <3>2, <3>7, <3>9 DEF Right
    <3>8. Todo(t, k) = d2 /\ Head(d2) = ten /\ k # Len(a) /\ d2 # <<>>
      BY <2>1, <2>2, <2>6, <3>1
    <3> QED BY Zenon, <1>2, <2>8, <3>6, <3>8 DEF Whole
  <2>7. CASE k = 3
    BY <1>2, <2>1, <2>3, <2>7 DEF Whole
  <2> QED BY <1>2, <2>1, <2>4, <2>5, <2>6, <2>7
<1>5. CASE entry[t] = "Test" /\ ~short
  <2>1. Len(a) = 2 /\ a[1] = Key(t) /\ a[2] = Writer(t)
    BY <1>2, <1>5 DEF Added
  <2>8. Len(a) \in Nat
    BY <2>1
  <2>2. PICK d0, d1 : d0 = Todo(t, 0) /\ d1 = Todo(t, 1)
    OBVIOUS
  <2>3. Single(d0, both) /\ Single(d1, one) /\ Todo(t, 2) = <<>>
    BY <1>2, <1>5, <2>2 DEF Todo, Single
  <2>4. CASE k = 0
    <3>1. d0 # <<>> /\ Head(d0) = both /\ Tail(d0) = <<>>
          /\ \A j, e : Single(e, j) => [d0 EXCEPT ![1] = j] = e
      BY Zenon, <2>3, OneBatch
    <3>2. Batch(both, d0, a, 0) /\ Len(both) = 2 /\ Single(Tail(both), Writer(t))
      BY <1>1, <1>3, <2>1, <3>1, PairBatch
    <3>4. Tail(both) = one
      BY Zenon, <1>3, <3>2, SamePair
    <3>5. [d0 EXCEPT ![1] = one] = d1
      BY <1>3, <2>3, <3>1
    <3>7. k + Len(both) = 2 /\ k + 1 = 1
      BY <3>2, <2>4
    <3>6. Right(d0, both, a)
      BY <1>5, <2>2, <2>3, <2>4, <3>1, <3>2, <3>4, <3>5, <3>7 DEF Right
    <3>8. Todo(t, k) = d0 /\ Head(d0) = both /\ k # Len(a) /\ d0 # <<>>
      BY <2>1, <2>2, <2>4, <3>1
    <3> QED BY Zenon, <1>2, <2>8, <3>6, <3>8 DEF Whole
  <2>5. CASE k = 1
    <3>1. d1 # <<>> /\ Head(d1) = one /\ Tail(d1) = <<>>
      BY Zenon, <2>3, OneBatch
    <3>2. Batch(one, d1, a, 1) /\ Len(one) = 1
      BY <1>7, <2>1, <3>1 DEF Batch
    <3>7. k + Len(one) = 2 /\ k + 1 = 2
      BY <3>2, <2>5
    <3>9. Tail(d1) = Todo(t, 2)
      BY Zenon, <2>3, <3>1
    <3>6. Right(d1, one, a)
      BY <1>5, <2>5, <3>2, <3>7, <3>9 DEF Right
    <3>8. Todo(t, k) = d1 /\ Head(d1) = one /\ k # Len(a) /\ d1 # <<>>
      BY <2>1, <2>2, <2>5, <3>1
    <3> QED BY Zenon, <1>2, <2>8, <3>6, <3>8 DEF Whole
  <2>6. CASE k = 2
    BY <1>2, <2>1, <2>3, <2>6 DEF Whole
  <2> QED BY <1>2, <2>1, <2>4, <2>5, <2>6
<1>6. CASE entry[t] # "Test"
  <2>1. Len(a) = 1 /\ a[1] = StdOut
    BY <1>2, <1>6 DEF Added
  <2>8. Len(a) \in Nat
    BY <2>1
  <2>2. PICK d0 : d0 = Todo(t, 0)
    OBVIOUS
  <2>3. Single(d0, out) /\ Todo(t, 1) = <<>>
    BY <1>2, <1>6, <2>2 DEF Todo, Single
  <2>4. CASE k = 0
    <3>1. d0 # <<>> /\ Head(d0) = out /\ Tail(d0) = <<>>
      BY Zenon, <2>3, OneBatch
    <3>2. Batch(out, d0, a, 0) /\ Len(out) = 1 /\ out[1] = StdOut
      BY <1>7, <2>1, <3>1 DEF Batch
    <3>7. k + Len(out) = 1 /\ k + 1 = 1
      BY <3>2, <2>4
    <3>9. Tail(d0) = Todo(t, 1)
      BY Zenon, <2>3, <3>1
    <3>6. Right(d0, out, a)
      BY <1>6, <2>4, <3>2, <3>7, <3>9 DEF Right
    <3>8. Todo(t, k) = d0 /\ Head(d0) = out /\ k # Len(a) /\ d0 # <<>>
      BY <2>1, <2>2, <2>4, <3>1
    <3> QED BY Zenon, <1>2, <2>8, <3>6, <3>8 DEF Whole
  <2>5. CASE k = 1
    BY <1>2, <2>1, <2>3, <2>5 DEF Whole
  <2> QED BY <1>2, <2>1, <2>4, <2>5
<1> QED BY <1>4, <1>5, <1>6

-----------------------------------------------------------------------------
(* What comes of options that have all been recorded as they were meant.    *)
Located(t) == Opt!Option("testLocation", {t})

LEMMA MeansAll ==
    ASSUME CommonTyped, NEW t \in Tests, Entered(t)
    PROVE  Means(t, Intended(t))
BY CallMeans, WorkloadMeans

LEMMA RecordedMeans ==
    ASSUME CommonTyped, NEW t \in Tests, Entered(t), NEW r,
           Matches(r, Intended(t), Len(Intended(t)))
    PROVE  /\ r.output = Opt!PromisedOutput(t)
           /\ r.profile = Opt!Profile
           /\ \A f \in Opt!Settings \ {"testLocation"} :
                IF f = "databaseKey" /\ entry[t] = "Test"
                THEN Says(r.appliers, Len(r.appliers), f, {t})
                ELSE IF f = "testCases" /\ entry[t] = "Test" /\ short
                THEN Says(r.appliers, Len(r.appliers), f, {"ten"})
                ELSE IF Opt!Given(flags[t], f) # {}
                THEN Says(r.appliers, Len(r.appliers), f, Opt!FlagsWord(t, f))
                ELSE IF Opt!Given(common, f) # {}
                THEN Says(r.appliers, Len(r.appliers), f, Opt!LastWord(common, f))
                ELSE IF f = "testCases" /\ entry[t] = "Workload"
                THEN Says(r.appliers, Len(r.appliers), f, {"unbounded"})
                ELSE Silent(r.appliers, Len(r.appliers), f)
<1>1. PICK s : s = Intended(t)
  OBVIOUS
<1>2. Means(t, s) /\ Matches(r, s, Len(s))
  BY <1>1, MeansAll
<1>3. r.output = Opt!PromisedOutput(t)
  BY <1>2 DEF Means, Matches
<1>4. r.profile = Opt!Profile
  BY <1>2 DEF Means, Matches, Opt!Profile
<1>5. ASSUME NEW f \in Opt!Settings
      PROVE  /\ Silent(s, Len(s), f) => Silent(r.appliers, Len(r.appliers), f)
             /\ \A v : Says(s, Len(s), f, v) => Says(r.appliers, Len(r.appliers), f, v)
  <2>1. f \notin {"output", "profile"}
    BY DEF Opt!Settings
  <2> QED BY Zenon, <1>2, <2>1 DEF Matches
<1> QED BY <1>2, <1>3, <1>4, <1>5 DEF Means

LEMMA RefusedIs ==
    ASSUME CommonTyped, NEW t \in Tests, Entered(t), NEW r,
           Matches(r, Intended(t), Len(Intended(t))), NEW a, Extended(a, r.appliers, Located(t))
    PROVE  (r.profile \notin DOMAIN Profiles \/ Opt!Errors(a) # {}) <=> Opt!Refused(t)
<1>1. PICK s : s = Intended(t)
  OBVIOUS
<1>2. Means(t, s) /\ Matches(r, s, Len(s))
  BY <1>1, MeansAll
<1>3. r.profile = Opt!Profile
  BY RecordedMeans
<1>4. Opt!Range(a) = Opt!Range(r.appliers) \cup {Located(t)}
  BY AppendedSays
<1>5. Opt!Range(s) = {s[i] : i \in 1..Len(s)}
  <2>1. s \in Seq(Known)
    BY <1>2 DEF Means
  <2>2. DOMAIN s = 1..Len(s)
    BY <2>1
  <2> QED BY <2>2 DEF Opt!Range
<1>6. Opt!Range(r.appliers) = {s[i] : i \in {j \in 1..Len(s) : SetsSetting(s[j])}}
  BY <1>2 DEF Matches
<1>7. \A x : x \in Opt!Range(r.appliers) <=> x \in Opt!Range(s) /\ SetsSetting(x)
  BY <1>5, <1>6
<1>8. \A x \in Opt!Range(s) : x \in Known
  <2>1. s \in Seq(Known)
    BY <1>2 DEF Means
  <2> QED BY <1>5, <2>1
<1>9. \A x \in Known : SetsSetting(x) <=> x.field \in Opt!Settings
  BY DEF Known, Fields, SetsSetting, Opt!Settings
<1>10. \A x \in Owned(t) \cup {Located(t)} : SetsSetting(x) => x.value \cap Rejected = {}
  <2>1. \A v \in {{t}, {"ten"}, {"unbounded"}} : v \cap Rejected = {}
    BY TestsAssumption
  <2>2. \A x \in Owned(t) \cup {Located(t)} :
            SetsSetting(x) => x.value \in {{t}, {"ten"}, {"unbounded"}}
    BY DEF Owned, Located, SetsSetting, Unbounded, Ten, StdOut, Key, Writer, Opt!Option
  <2> QED BY <2>1, <2>2
<1>11. PICK g : g = Opt!Range(common) \cup Opt!Range(Opt!FlagOptions(flags[t]))
  OBVIOUS
<1>12. g \subseteq Opt!Range(s) /\ Opt!Range(s) \subseteq g \cup Owned(t)
  BY <1>2, <1>11 DEF Means
<1>13. Opt!Errors(a) # {} <=> \E x \in g : x.field \in Opt!Settings /\ x.value \cap Rejected # {}
  <2>1. Opt!Errors(a) = {x \in Opt!Range(a) : x.value \cap Rejected # {}}
    BY DEF Opt!Errors
  <2>2. SetsSetting(Located(t))
    BY DEF SetsSetting, Located, Opt!Option
  <2> QED BY <1>4, <1>7, <1>8, <1>9, <1>10, <1>12, <2>1, <2>2
<1> QED BY <1>3, <1>11, <1>13 DEF Opt!Refused

LEMMA SettingsAre ==
    ASSUME CommonTyped, NEW t \in Tests, Entered(t), NEW r,
           Matches(r, Intended(t), Len(Intended(t))), NEW a, a \in Seq(Listed),
           Extended(a, r.appliers, Located(t)), r.profile \in DOMAIN Profiles
    PROVE  Opt!Overridden(Profiles[r.profile], a) = Opt!Promised(t)
<1>1. PICK base : base = Profiles[r.profile]
  OBVIOUS
<1>2. base = [f \in Opt!Settings |-> base[f]]
  BY <1>1, TestsAssumption
<1>3. DOMAIN base = Opt!Settings /\ base = [f \in DOMAIN base |-> base[f]]
  BY <1>2
<1>4. PICK g : g = Opt!Overridden(base, a)
  OBVIOUS
<1>5. /\ g = [f \in Opt!Settings |-> g[f]]
      /\ \A f \in Opt!Settings : /\ Silent(a, Len(a), f) => g[f] = base[f]
                                 /\ \A v : Says(a, Len(a), f, v) => g[f] = v
  BY <1>3, <1>4, OverriddenSays
<1>6. r.profile = Opt!Profile
  BY RecordedMeans
<1>7. Located(t).field = "testLocation" /\ Located(t).value = {t}
  BY DEF Located, Opt!Option
<1>8. g["testLocation"] = {t}
  <2>1. Says(a, Len(a), "testLocation", {t})
    BY <1>7, AppendedSays
  <2> QED BY <1>5, <2>1 DEF Opt!Settings
<1>9. \A f \in Opt!Settings \ {"testLocation"} :
        /\ Silent(r.appliers, Len(r.appliers), f) => g[f] = base[f]
        /\ \A v : Says(r.appliers, Len(r.appliers), f, v) => g[f] = v
  <2> TAKE f \in Opt!Settings \ {"testLocation"}
  <2>1. /\ Silent(r.appliers, Len(r.appliers), f) => Silent(a, Len(a), f)
        /\ \A v : Says(r.appliers, Len(r.appliers), f, v) => Says(a, Len(a), f, v)
    BY <1>7, AppendedSays
  <2> QED BY <1>5, <2>1
<1>10. ASSUME NEW f \in Opt!Settings \ {"testLocation"}
       PROVE  g[f] = IF f = "databaseKey" /\ entry[t] = "Test" THEN {t}
                     ELSE IF f = "testCases" /\ entry[t] = "Test" /\ short THEN {"ten"}
                     ELSE IF Opt!Given(flags[t], f) # {} THEN Opt!FlagsWord(t, f)
                     ELSE IF Opt!Given(common, f) # {} THEN Opt!LastWord(common, f)
                     ELSE IF f = "testCases" /\ entry[t] = "Workload" THEN {"unbounded"}
                     ELSE base[f]
  BY <1>9, RecordedMeans
<1>11. \A f \in Opt!Settings : g[f] = Opt!Promised(t)[f]
  <2> TAKE f \in Opt!Settings
  <2>1. CASE f = "testLocation"
    BY <1>8, <2>1 DEF Opt!Promised
  <2>2. CASE f # "testLocation"
    BY <1>1, <1>6, <1>10, <2>2 DEF Opt!Promised
  <2> QED BY <2>1, <2>2
<1>12. Opt!Promised(t) = [f \in Opt!Settings |-> Opt!Promised(t)[f]]
  BY DEF Opt!Promised
<1>13. PICK h : h = Opt!Promised(t)
  OBVIOUS
<1> QED BY <1>1, <1>4, <1>5, <1>11, <1>12, <1>13

-----------------------------------------------------------------------------
(* While options are gathered.                                              *)
Steady ==
    /\ CommonTyped /\ spare \in Nat
    /\ array \in Seq(Listed) /\ Len(array) = Len(common) + spare
    /\ \A i \in 1..Len(common) : array[i] = common[i]
    /\ overlapping \subseteq Tests
    /\ DOMAIN entry = Tests /\ DOMAIN flags = Tests /\ DOMAIN at = Tests
    /\ DOMAIN slice = Tests /\ DOMAIN todo = Tests /\ DOMAIN applied = Tests
    /\ DOMAIN o = Tests /\ DOMAIN settings = Tests

Places == {"idle", "parse", "append", "store", "copy", "built", "rejected", "usage"}
Busy == {"append", "store", "copy", "parse"}

(* Calls that are in progress together are known to be.                     *)
Overlaps ==
    \A t, u \in Tests : t # u /\ at[t] \in Busy /\ at[u] \in Busy =>
                            t \in overlapping /\ u \in overlapping

Filled(t) == slice[t].len - Len(common)

SliceOf(s) ==
    /\ s = [shared |-> s.shared, len |-> s.len, items |-> s.items]
    /\ s.shared \in BOOLEAN /\ s.len \in Nat /\ s.items \in Seq(Listed)
    /\ s.shared => s.len <= Len(array)
    /\ ~s.shared => s.len = Len(s.items)

Started(t) ==
    /\ slice[t].shared /\ slice[t].len = Len(common) /\ slice[t].items = <<>>
    /\ todo[t] = <<>> /\ applied[t] = 0 /\ o[t] = Opt!NoOptions

(* Where Test and Run are, by what they have appended.                      *)
Appending(t) ==
    /\ at[t] \in {"append", "store", "copy", "built", "rejected"}
    /\ Filled(t) \in 0..Len(Added(t))
    /\ todo[t] = Todo(t, Filled(t))
    /\ entry[t] = "Test" /\ Filled(t) = 1 => at[t] = "store"
    /\ todo[t] # <<>> => applied[t] = 0
    /\ at[t] \in {"store", "copy"} => slice[t].shared /\ todo[t] # <<>>
    /\ at[t] = "store" => slice[t].len + Len(Head(todo[t])) <= Len(array)
    /\ at[t] \in {"built", "rejected"} => todo[t] = <<>>

Shape(t) ==
    /\ entry[t] \in {"none", "Test", "Run", "Workload"} /\ flags[t] \in Lines
    /\ at[t] \in Places /\ SliceOf(slice[t])
    /\ applied[t] \in Nat /\ applied[t] <= slice[t].len
    /\ Recorder(o[t]) /\ DOMAIN settings[t] = Opt!Settings
    /\ entry[t] # "Workload" => flags[t] = <<>>
    /\ at[t] \in {"idle", "parse", "usage"} => Started(t)
    /\ entry[t] = "none" => at[t] = "idle"
    /\ at[t] = "idle" => entry[t] = "none"
    /\ entry[t] = "Workload" =>
         /\ at[t] \in {"parse", "usage", "append", "built", "rejected"}
         /\ at[t] \in {"append", "built", "rejected"} =>
              todo[t] = <<>> /\ ~slice[t].shared /\ slice[t].items = Intended(t)
    /\ entry[t] \in {"Test", "Run"} => Appending(t)

(* A call that nobody else can have disturbed has what it put together.     *)
Told(t) ==
    ~Opt!Exposed(t) /\ at[t] \in {"append", "store", "copy"} =>
        /\ \A n \in 1..slice[t].len : Opt!Item(t, n) = Intended(t)[n]
        /\ \A n \in 1..Len(slice[t].items) : slice[t].items[n] = Intended(t)[n]
        /\ Matches(o[t], Intended(t), applied[t])

Kept(t) ==
    ~Opt!Exposed(t) =>
        /\ at[t] = "built" => /\ ~Opt!Refused(t)
                              /\ settings[t] = Opt!Promised(t)
                              /\ o[t].output = Opt!PromisedOutput(t)
        /\ at[t] = "rejected" => Opt!Refused(t)

Gathering ==
    /\ Steady /\ Overlaps
    /\ \A t \in Tests : Shape(t) /\ Told(t) /\ Kept(t)

OptionsInv ==
    /\ followed \in Tests \cup {NoTest}
    /\ IF followed = NoTest THEN Gathering
       ELSE Opt!TypeOK /\ \A t \in Tests : at[t] = "idle"

-----------------------------------------------------------------------------
(* What does not change for a call that takes no step.                      *)
Fixed == followed' = followed /\ common' = common /\ spare' = spare /\ short' = short

Called(u) == entry'[u] = entry[u] /\ flags'[u] = flags[u]

Untouched(u) ==
    /\ Called(u) /\ at'[u] = at[u] /\ slice'[u] = slice[u] /\ todo'[u] = todo[u]
    /\ applied'[u] = applied[u] /\ o'[u] = o[u] /\ settings'[u] = settings[u]

LEMMA SameIntended ==
    ASSUME Fixed, NEW u \in Tests, Called(u)
    PROVE  /\ Intended(u)' = Intended(u) /\ Added(u)' = Added(u)
           /\ \A k : Todo(u, k)' = Todo(u, k)
<1> USE DEF Fixed, Called
<1>1. Added(u)' = Added(u)
  BY DEF Added, Key, Writer, Ten, StdOut
<1>2. \A k : Todo(u, k)' = Todo(u, k)
  BY DEF Todo, Key, Writer, Ten, StdOut
<1>3. Opt!WorkloadOptions(flags[u])' = Opt!WorkloadOptions(flags[u])
  BY DEF Opt!WorkloadOptions
<1> QED BY <1>1, <1>2, <1>3 DEF Intended

(* The words of the promise, by what they depend on.                        *)
Name(c) ==
    IF Opt!Given(c, "profile") = {} THEN Opt!DefaultProfile ELSE Opt!LastWord(c, "profile")

Words(c, sh, e, line, t) ==
    [f \in Opt!Settings |->
        IF f = "testLocation" \/ (f = "databaseKey" /\ e = "Test") THEN {t}
        ELSE IF f = "testCases" /\ e = "Test" /\ sh THEN {"ten"}
        ELSE IF Opt!Given(line, f) # {}
        THEN IF f = "suppressHealthCheck" THEN UNION {line[i].value : i \in Opt!Given(line, f)}
             ELSE Opt!LastWord(line, f)
        ELSE IF Opt!Given(c, f) # {} THEN Opt!LastWord(c, f)
        ELSE IF f = "testCases" /\ e = "Workload" THEN {"unbounded"}
        ELSE Profiles[Name(c)][f]]

Refusal(c, line) ==
    \/ Name(c) \notin DOMAIN Profiles
    \/ \E option \in Opt!Range(c) \cup Opt!Range(Opt!FlagOptions(line)) :
            option.field \in Opt!Settings /\ option.value \cap Rejected # {}

LEMMA SamePromise ==
    ASSUME Fixed, NEW u \in Tests, Called(u)
    PROVE  /\ Opt!Promised(u)' = Opt!Promised(u)
           /\ Opt!Refused(u)' = Opt!Refused(u)
           /\ Opt!PromisedOutput(u)' = Opt!PromisedOutput(u)
<1>1. /\ Opt!Promised(u) = Words(common, short, entry[u], flags[u], u)
      /\ Opt!Promised(u)' = Words(common', short', entry'[u], flags'[u], u)
  BY DEF Opt!Promised, Words, Opt!FlagsWord, Opt!Profile, Name
<1>2. /\ Opt!Refused(u) = Refusal(common, flags[u])
      /\ Opt!Refused(u)' = Refusal(common', flags'[u])
  BY DEF Opt!Refused, Refusal, Opt!Profile, Name
<1>3. Opt!PromisedOutput(u)' = Opt!PromisedOutput(u)
  BY DEF Opt!PromisedOutput, Fixed, Called
<1> QED BY <1>1, <1>2, <1>3 DEF Fixed, Called

LEMMA StillExposed ==
    ASSUME Fixed, NEW u \in Tests, Called(u), overlapping \subseteq overlapping',
           Opt!Exposed(u)
    PROVE  Opt!Exposed(u)'
BY DEF Fixed, Called, Opt!Exposed

LEMMA SameShape ==
    ASSUME Fixed, NEW u \in Tests, Untouched(u), Len(array') = Len(array), Shape(u)
    PROVE  Shape(u)'
<1>1. Intended(u)' = Intended(u) /\ Added(u)' = Added(u) /\ \A k : Todo(u, k)' = Todo(u, k)
  BY SameIntended DEF Untouched
<1>2. Filled(u)' = Filled(u)
  BY DEF Filled, Untouched, Fixed
<1>3. SliceOf(slice[u])'
  BY DEF Shape, SliceOf, Untouched
<1>4. Started(u) => Started(u)'
  BY DEF Started, Untouched, Fixed
<1>5. Appending(u) => Appending(u)'
  BY <1>1, <1>2 DEF Appending, Untouched, Called
<1> QED BY <1>1, <1>3, <1>4, <1>5 DEF Shape, Untouched, Called

LEMMA SameTold ==
    ASSUME Fixed, NEW u \in Tests, Untouched(u), overlapping \subseteq overlapping', Told(u),
           \A n \in 1..slice[u].len :
                ~Opt!Exposed(u) /\ at[u] \in {"append", "store", "copy"} /\ slice[u].shared
                    => array'[n] = Intended(u)[n]
    PROVE  Told(u)'
<1>1. Intended(u)' = Intended(u)
  BY SameIntended DEF Untouched
<1>2. SUFFICES ASSUME ~Opt!Exposed(u)', at'[u] \in {"append", "store", "copy"}
               PROVE  /\ \A n \in 1..slice'[u].len : Opt!Item(u, n)' = Intended(u)'[n]
                      /\ \A n \in 1..Len(slice'[u].items) : slice'[u].items[n] = Intended(u)'[n]
                      /\ Matches(o'[u], Intended(u)', applied'[u])
  BY DEF Told
<1>3. ~Opt!Exposed(u) /\ at[u] \in {"append", "store", "copy"}
  BY <1>2, StillExposed DEF Untouched
<1>4. /\ \A n \in 1..slice[u].len : Opt!Item(u, n) = Intended(u)[n]
      /\ \A n \in 1..Len(slice[u].items) : slice[u].items[n] = Intended(u)[n]
      /\ Matches(o[u], Intended(u), applied[u])
  BY <1>3 DEF Told
<1>5. \A n \in 1..slice'[u].len : Opt!Item(u, n)' = Intended(u)[n]
  BY <1>3, <1>4 DEF Opt!Item, Untouched
<1> QED BY <1>1, <1>4, <1>5 DEF Untouched

LEMMA SameKept ==
    ASSUME Fixed, NEW u \in Tests, Called(u), at'[u] = at[u], o'[u] = o[u],
           settings'[u] = settings[u], overlapping \subseteq overlapping', Kept(u)
    PROVE  Kept(u)'
BY SamePromise, StillExposed DEF Kept

-----------------------------------------------------------------------------
(* A step of one call, but for what it does to that call.                   *)
Quietly(t) ==
    /\ Fixed /\ array' = array /\ overlapping' = overlapping
    /\ at'[t] \in Busy => at[t] \in Busy
    /\ \A u \in Tests \ {t} : Untouched(u)
    /\ DOMAIN entry' = Tests /\ DOMAIN flags' = Tests /\ DOMAIN at' = Tests
    /\ DOMAIN slice' = Tests /\ DOMAIN todo' = Tests /\ DOMAIN applied' = Tests
    /\ DOMAIN o' = Tests /\ DOMAIN settings' = Tests

LEMMA QuietlyKept ==
    ASSUME Gathering, NEW t \in Tests, Quietly(t), Shape(t)', Told(t)', Kept(t)'
    PROVE  Gathering'
<1>1. Steady'
  BY DEF Gathering, Steady, CommonTyped, Quietly, Fixed
<1>2. \A u \in Tests : at'[u] \in Busy => at[u] \in Busy
  BY DEF Quietly, Untouched
<1>3. Overlaps'
  BY <1>2 DEF Gathering, Overlaps, Quietly, Busy
<1>4. ASSUME NEW u \in Tests \ {t} PROVE Shape(u)' /\ Told(u)' /\ Kept(u)'
  <2>1. Fixed /\ Untouched(u) /\ array' = array /\ overlapping' = overlapping /\ Called(u)
        /\ at'[u] = at[u] /\ o'[u] = o[u] /\ settings'[u] = settings[u]
    BY DEF Quietly, Untouched
  <2>2. Shape(u) /\ Told(u) /\ Kept(u)
    BY DEF Gathering
  <2>3. Shape(u)'
    BY <2>1, <2>2, SameShape
  <2>4. Told(u)'
    <3>1. \A n \in 1..slice[u].len :
            ~Opt!Exposed(u) /\ at[u] \in {"append", "store", "copy"} /\ slice[u].shared =>
                array'[n] = Intended(u)[n]
      BY <2>1, <2>2 DEF Told, Opt!Item
    <3> QED BY <2>1, <2>2, <3>1, SameTold
  <2> QED BY <2>1, <2>2, <2>3, <2>4, SameKept
<1>5. \A u \in Tests : Shape(u)' /\ Told(u)' /\ Kept(u)'
  BY <1>4
<1> QED BY <1>1, <1>3, <1>5 DEF Gathering

-----------------------------------------------------------------------------
(* What the proofs about several steps need.                                *)
LEMMA SetsOne ==
    ASSUME NEW f, DOMAIN f = Tests, NEW t \in Tests, NEW v
    PROVE  /\ DOMAIN Opt!Set(f, t, v) = Tests /\ Opt!Set(f, t, v)[t] = v
           /\ \A u \in Tests \ {t} : Opt!Set(f, t, v)[u] = f[u]
BY DEF Opt!Set

LEMMA NotEnded ==
    ASSUME NEW t \in Tests, at'[t] \notin {"built", "rejected"}
    PROVE  Kept(t)'
BY DEF Kept

LEMMA KnownListed == Seq(Known) \subseteq Seq(Listed)
<1>1. Known \subseteq Listed
  BY DEF Known, Listed
<1> QED BY <1>1

LEMMA WorkloadTyped ==
    ASSUME CommonTyped, NEW line \in Lines
    PROVE  Opt!WorkloadOptions(line) \in Seq(Known)
<1>1. PICK fl : fl = Opt!FlagOptions(line)
  OBVIOUS
<1>2. fl \in Seq(Known) /\ common \in Seq(Known)
  BY <1>1, FlagsSay, CommonKnown
<1>3. /\ Opt!Option("testCases", {"unbounded"}) \in Known
      /\ Opt!Option("output", {"stdout"}) \in Known
  BY DEF Opt!Option, Known, Fields, Opt!Settings
<1> QED BY <1>1, <1>2, <1>3 DEF Opt!WorkloadOptions

(* What Test and Run have still to append follows what they have.           *)
LEMMA IntendedEnds ==
    ASSUME CommonTyped, NEW t \in Tests, entry[t] \in {"Test", "Run"}
    PROVE  /\ Len(common) \in Nat /\ Len(Added(t)) \in Nat
           /\ Intended(t) \in Seq(Known) /\ Len(Intended(t)) = Len(common) + Len(Added(t))
           /\ \A i \in 1..Len(common) : Intended(t)[i] = common[i]
           /\ \A i \in 1..Len(Added(t)) : Intended(t)[Len(common) + i] = Added(t)[i]
<1>1. common \in Seq(Known) /\ Added(t) \in Seq(Known)
  BY CommonKnown, AddedSays
<1>2. Intended(t) = common \o Added(t)
  BY DEF Intended
<1>3. Intended(t) \in Seq(Known) /\ Joined(Intended(t), common, Added(t))
  BY <1>1, <1>2, ConcatJoins
<1> QED BY <1>3 DEF Joined

LEMMA ShapeEntered ==
    ASSUME NEW t \in Tests, Shape(t),
           at[t] \in {"append", "store", "copy", "built", "rejected"}
    PROVE  Entered(t) /\ entry[t] # "none"
BY DEF Shape, Entered

LEMMA AllAppended ==
    ASSUME Gathering, NEW t \in Tests, at[t] = "append", todo[t] = <<>>
    PROVE  /\ Entered(t) /\ Intended(t) \in Seq(Listed)
           /\ Len(Intended(t)) = slice[t].len
<1>1. CommonTyped /\ Shape(t)
  BY DEF Gathering, Steady
<1>2. Entered(t) /\ entry[t] # "none"
  BY <1>1, ShapeEntered
<1>3. CASE entry[t] = "Workload"
  <2>1. Intended(t) \in Seq(Known)
    BY <1>1, <1>2, <1>3, WorkloadTyped DEF Entered, Intended
  <2> QED BY <1>1, <1>2, <1>3, <2>1, KnownListed DEF Shape, SliceOf
<1>4. CASE entry[t] \in {"Test", "Run"}
  <2>1. Filled(t) \in 0..Len(Added(t)) /\ Todo(t, Filled(t)) = <<>>
    BY <1>1, <1>4 DEF Shape, Appending
  <2>2. Filled(t) = Len(Added(t))
    BY <1>1, <2>1, TodoSays
  <2>3. slice[t].len \in Nat
    BY <1>1 DEF Shape, SliceOf
  <2> QED BY <1>1, <1>2, <1>4, <2>2, <2>3, IntendedEnds, KnownListed DEF Filled
<1> QED BY <1>1, <1>2, <1>3, <1>4 DEF Shape

LEMMA ItemListed ==
    ASSUME Gathering, NEW t \in Tests, NEW n \in 1..slice[t].len
    PROVE  Opt!Item(t, n) \in Listed
<1>1. array \in Seq(Listed) /\ SliceOf(slice[t])
  BY DEF Gathering, Steady, Shape
<1>2. CASE slice[t].shared
  <2>1. n \in 1..Len(array)
    BY <1>1, <1>2 DEF SliceOf
  <2> QED BY <1>1, <1>2, <2>1 DEF Opt!Item
<1>3. CASE ~slice[t].shared
  <2>1. slice[t].items \in Seq(Listed) /\ n \in 1..Len(slice[t].items)
    BY <1>1, <1>3 DEF SliceOf
  <2> QED BY <1>3, <2>1 DEF Opt!Item
<1> QED BY <1>2, <1>3

-----------------------------------------------------------------------------
(* The steps of a call, one by one.                                         *)
LEMMA ApplyStep ==
    ASSUME Gathering, NEW t \in Tests, followed' = followed, Opt!Apply(t)
    PROVE  Gathering'
<1>1. /\ CommonTyped /\ Shape(t) /\ Told(t)
      /\ DOMAIN applied = Tests /\ DOMAIN o = Tests
  BY DEF Gathering, Steady
<1>2. /\ at[t] = "append" /\ todo[t] = <<>> /\ applied[t] < slice[t].len
      /\ o' = Opt!Set(o, t, Opt!Recorded(o[t], Opt!Item(t, applied[t] + 1)))
      /\ applied' = Opt!Set(applied, t, applied[t] + 1)
      /\ UNCHANGED <<common, spare, short, array, entry, flags, at, slice, todo, settings,
                     overlapping>>
  BY DEF Opt!Apply
<1>3. /\ Quietly(t) /\ Called(t) /\ Fixed
      /\ at'[t] = at[t] /\ slice'[t] = slice[t] /\ todo'[t] = todo[t]
      /\ settings'[t] = settings[t] /\ applied'[t] = applied[t] + 1
      /\ o'[t] = Opt!Recorded(o[t], Opt!Item(t, applied[t] + 1))
  <2>1. /\ DOMAIN o' = Tests /\ DOMAIN applied' = Tests
        /\ \A u \in Tests \ {t} : o'[u] = o[u] /\ applied'[u] = applied[u]
        /\ o'[t] = Opt!Recorded(o[t], Opt!Item(t, applied[t] + 1))
        /\ applied'[t] = applied[t] + 1
    BY <1>1, <1>2, SetsOne
  <2>2. UNCHANGED <<followed, common, spare, short, array, entry, flags, at, slice, todo,
                    settings, overlapping>>
    BY <1>2
  <2> QED BY ONLY Gathering, <2>1, <2>2
          DEF Gathering, Steady, Quietly, Fixed, Untouched, Called
<1>4. PICK n, x, r, q : /\ n = applied[t] /\ x = Opt!Item(t, applied[t] + 1)
                        /\ r = o[t] /\ q = o'[t]
  OBVIOUS
<1>5. n \in Nat /\ n + 1 \in 1..slice[t].len /\ Recorder(r)
  BY <1>1, <1>2, <1>4 DEF Shape, SliceOf
<1>6. x \in Listed /\ q = Opt!Recorded(r, x)
  BY <1>3, <1>4, <1>5, ItemListed
<1>7. Recorder(q)
  BY <1>5, <1>6, RecordedShape
<1>8. Intended(t)' = Intended(t) /\ Added(t)' = Added(t) /\ \A k : Todo(t, k)' = Todo(t, k)
  BY <1>3, SameIntended
<1>9. Shape(t)'
  <2>1. SliceOf(slice[t])'
    BY <1>1, <1>2 DEF Shape, SliceOf
  <2>2. Appending(t) => Appending(t)'
    BY <1>2, <1>3, <1>8 DEF Appending, Filled, Fixed, Called
  <2> QED BY <1>1, <1>2, <1>3, <1>4, <1>5, <1>7, <1>8, <2>1, <2>2 DEF Shape, Called
<1>10. Told(t)'
  <2>1. SUFFICES ASSUME ~Opt!Exposed(t)
                 PROVE  /\ \A i \in 1..slice[t].len : Opt!Item(t, i) = Intended(t)[i]
                        /\ \A i \in 1..Len(slice[t].items) : slice[t].items[i] = Intended(t)[i]
                        /\ Matches(q, Intended(t), n + 1)
    <3>1. \A i : Opt!Item(t, i)' = Opt!Item(t, i)
      BY <1>2 DEF Opt!Item
    <3>2. Opt!Exposed(t)' = Opt!Exposed(t)
      BY <1>2 DEF Opt!Exposed
    <3> QED BY <1>3, <1>4, <1>8, <3>1, <3>2 DEF Told
  <2>2. /\ \A i \in 1..slice[t].len : Opt!Item(t, i) = Intended(t)[i]
        /\ \A i \in 1..Len(slice[t].items) : slice[t].items[i] = Intended(t)[i]
        /\ Matches(r, Intended(t), n)
    BY <1>1, <1>2, <1>4, <2>1 DEF Told
  <2>3. PICK s : s = Intended(t)
    OBVIOUS
  <2>4. s \in Seq(Listed) /\ n + 1 \in 1..Len(s) /\ x = s[n + 1]
    BY <1>2, <1>4, <1>5, <2>2, <2>3, AllAppended
  <2>5. Matches(Opt!Recorded(r, s[n + 1]), s, n + 1)
    BY <1>5, <2>2, <2>3, <2>4, MatchesNext
  <2> QED BY <1>6, <2>2, <2>3, <2>4, <2>5
<1> QED BY <1>2, <1>3, <1>9, <1>10, NotEnded, QuietlyKept

LEMMA BuildSettingsStep ==
    ASSUME Gathering, NEW t \in Tests, followed' = followed, Opt!BuildSettings(t)
    PROVE  Gathering'
<1>1. /\ CommonTyped /\ Shape(t) /\ Told(t)
      /\ DOMAIN at = Tests /\ DOMAIN settings = Tests
  BY DEF Gathering, Steady
<1>2. PICK r, a : r = o[t] /\ a = Append(o[t].appliers, Located(t))
  OBVIOUS
<1>3. /\ at[t] = "append" /\ todo[t] = <<>> /\ applied[t] = slice[t].len
      /\ IF r.profile \notin DOMAIN Profiles \/ Opt!Errors(a) # {}
         THEN at' = Opt!Set(at, t, "rejected") /\ settings' = settings
         ELSE /\ settings' = Opt!Set(settings, t, Opt!Overridden(Profiles[r.profile], a))
              /\ at' = Opt!Set(at, t, "built")
      /\ UNCHANGED <<common, spare, short, array, entry, flags, slice, todo, applied, o,
                     overlapping>>
  BY <1>2 DEF Opt!BuildSettings, Opt!Goto, Located
<1>4. /\ DOMAIN at' = Tests /\ DOMAIN settings' = Tests
      /\ \A u \in Tests \ {t} : at'[u] = at[u] /\ settings'[u] = settings[u]
      /\ IF r.profile \notin DOMAIN Profiles \/ Opt!Errors(a) # {}
         THEN at'[t] = "rejected" /\ settings'[t] = settings[t]
         ELSE /\ settings'[t] = Opt!Overridden(Profiles[r.profile], a)
              /\ at'[t] = "built"
  BY <1>1, <1>3, SetsOne
<1>5. at'[t] \in {"built", "rejected"} /\ at'[t] \notin Busy
  BY <1>4 DEF Busy
<1>6. /\ Quietly(t) /\ Called(t) /\ Fixed
      /\ slice'[t] = slice[t] /\ todo'[t] = todo[t]
      /\ applied'[t] = applied[t] /\ o'[t] = o[t]
  <2>1. UNCHANGED <<followed, common, spare, short, array, entry, flags, slice, todo,
                    applied, o, overlapping>>
    BY <1>3
  <2> QED BY ONLY Gathering, <1>4, <1>5, <2>1
          DEF Gathering, Steady, Quietly, Fixed, Untouched, Called
<1>7. Recorder(r) /\ r.appliers \in Seq(Listed) /\ Located(t) \in Listed
  <2>1. Recorder(r)
    BY <1>1, <1>2 DEF Shape
  <2> QED BY <2>1 DEF Recorder, Located, Listed, Fields, Opt!Option, Opt!Settings
<1>8. a \in Seq(Listed) /\ Extended(a, r.appliers, Located(t))
  BY <1>2, <1>7, AppendExtends
<1>9. DOMAIN settings'[t] = Opt!Settings
  <2>1. CASE r.profile \notin DOMAIN Profiles \/ Opt!Errors(a) # {}
    BY <1>1, <1>4, <2>1 DEF Shape
  <2>2. CASE ~(r.profile \notin DOMAIN Profiles \/ Opt!Errors(a) # {})
    <3>1. PICK base : base = Profiles[r.profile]
      OBVIOUS
    <3>2. base = [f \in Opt!Settings |-> base[f]]
      BY <2>2, <3>1, TestsAssumption
    <3>3. DOMAIN base = Opt!Settings /\ base = [f \in DOMAIN base |-> base[f]]
      BY <3>2
    <3>4. PICK g : g = Opt!Overridden(base, a)
      OBVIOUS
    <3>5. g = [f \in DOMAIN base |-> g[f]]
      BY <1>8, <3>3, <3>4, OverriddenSays
    <3>6. DOMAIN g = Opt!Settings
      BY <3>3, <3>5
    <3> QED BY <1>4, <2>2, <3>1, <3>4, <3>6
  <2> QED BY <2>1, <2>2
<1>10. Intended(t)' = Intended(t) /\ Added(t)' = Added(t) /\ \A k : Todo(t, k)' = Todo(t, k)
  BY <1>6, SameIntended
<1>11. Shape(t)'
  <2>1. SliceOf(slice[t])'
    BY <1>1, <1>3 DEF Shape, SliceOf
  <2>2. Appending(t) => Appending(t)'
    BY <1>3, <1>5, <1>6, <1>10 DEF Appending, Filled, Fixed, Called
  <2>3. entry[t] # "none"
    BY <1>1, <1>3, ShapeEntered
  <2>4. at'[t] \in Places
    BY <1>5 DEF Places
  <2> QED BY <1>1, <1>3, <1>5, <1>6, <1>9, <1>10, <2>1, <2>2, <2>3, <2>4 DEF Shape, Called
<1>12. Told(t)'
  BY <1>5 DEF Told
<1>13. Kept(t)'
  <2>1. SUFFICES ASSUME ~Opt!Exposed(t)
                 PROVE  /\ at'[t] = "built" => /\ ~Opt!Refused(t)
                                               /\ settings'[t] = Opt!Promised(t)
                                               /\ r.output = Opt!PromisedOutput(t)
                        /\ at'[t] = "rejected" => Opt!Refused(t)
    <3>1. Opt!Exposed(t)' = Opt!Exposed(t)
      BY <1>3 DEF Opt!Exposed
    <3> QED BY <1>2, <1>6, <3>1, SamePromise DEF Kept
  <2>2. Entered(t) /\ Matches(r, Intended(t), Len(Intended(t)))
    BY <1>1, <1>2, <1>3, <2>1, AllAppended DEF Told
  <2>3. r.output = Opt!PromisedOutput(t)
    BY <1>1, <2>2, RecordedMeans
  <2>4. (r.profile \notin DOMAIN Profiles \/ Opt!Errors(a) # {}) <=> Opt!Refused(t)
    BY <1>1, <1>8, <2>2, RefusedIs
  <2>5. r.profile \in DOMAIN Profiles => Opt!Overridden(Profiles[r.profile], a) = Opt!Promised(t)
    BY <1>1, <1>8, <2>2, SettingsAre
  <2> QED BY <1>4, <2>3, <2>4, <2>5
<1> QED BY <1>6, <1>11, <1>12, <1>13, QuietlyKept

LEMMA ParseStep ==
    ASSUME Gathering, NEW t \in Tests, followed' = followed, Opt!Parse(t)
    PROVE  Gathering'
<1>1. /\ CommonTyped /\ Shape(t)
      /\ DOMAIN at = Tests /\ DOMAIN flags = Tests /\ DOMAIN slice = Tests
  BY DEF Gathering, Steady
<1>2. PICK line \in CommandLines :
        /\ at[t] = "parse"
        /\ flags' = Opt!Set(flags, t, line)
        /\ \/ at' = Opt!Set(at, t, "usage") /\ slice' = slice
           \/ /\ slice' = Opt!Set(slice, t, Opt!Own(Opt!WorkloadOptions(line)))
              /\ at' = Opt!Set(at, t, "append")
        /\ UNCHANGED <<common, spare, short, array, entry, todo, applied, o, settings,
                       overlapping>>
  BY DEF Opt!Parse, Opt!Goto
<1>3. /\ DOMAIN at' = Tests /\ DOMAIN flags' = Tests /\ DOMAIN slice' = Tests
      /\ \A u \in Tests \ {t} : at'[u] = at[u] /\ flags'[u] = flags[u] /\ slice'[u] = slice[u]
      /\ flags'[t] = line
      /\ \/ at'[t] = "usage" /\ slice'[t] = slice[t]
         \/ slice'[t] = Opt!Own(Opt!WorkloadOptions(line)) /\ at'[t] = "append"
  BY <1>1, <1>2, SetsOne
<1>4. Quietly(t)
  <2>1. UNCHANGED <<followed, common, spare, short, array, entry, todo, applied, o, settings,
                    overlapping>>
    BY <1>2
  <2>2. at[t] \in Busy
    BY <1>2 DEF Busy
  <2> QED BY ONLY Gathering, <1>3, <2>1, <2>2
          DEF Gathering, Steady, Quietly, Fixed, Untouched, Called
<1>5. line \in Lines
  BY TestsAssumption DEF Lines
<1>6. /\ entry[t] = "Workload" /\ Started(t) /\ entry'[t] = entry[t]
  BY <1>1, <1>2 DEF Shape, Appending
<1>7. /\ todo'[t] = <<>> /\ applied'[t] = 0 /\ o'[t] = Opt!NoOptions
      /\ Recorder(o'[t]) /\ DOMAIN settings'[t] = Opt!Settings
  BY <1>1, <1>2, <1>6 DEF Started, Shape
<1>8. CASE at'[t] = "usage" /\ slice'[t] = slice[t]
  <2>1. SliceOf(slice[t])'
    BY <1>1, <1>2, <1>8 DEF Shape, SliceOf
  <2>2. Started(t)'
    BY <1>2, <1>6, <1>7, <1>8 DEF Started
  <2>3. applied'[t] \in Nat /\ applied'[t] <= slice'[t].len
    BY <1>7, <2>1 DEF SliceOf
  <2>4. Shape(t)'
    BY <1>3, <1>5, <1>6, <1>7, <1>8, <2>1, <2>2, <2>3 DEF Shape, Places
  <2>5. Told(t)'
    BY <1>8 DEF Told
  <2> QED BY <1>4, <1>8, <2>4, <2>5, NotEnded, QuietlyKept
<1>9. CASE slice'[t] = Opt!Own(Opt!WorkloadOptions(line)) /\ at'[t] = "append"
  <2>1. PICK w : w = Opt!WorkloadOptions(line)
    OBVIOUS
  <2>2. w \in Seq(Listed)
    BY <1>1, <1>5, <2>1, WorkloadTyped, KnownListed
  <2>3. Intended(t)' = w
    <3>1. Opt!WorkloadOptions(flags[t])' = Opt!WorkloadOptions(line)
      BY <1>2, <1>3 DEF Opt!WorkloadOptions
    <3> QED BY <1>6, <2>1, <3>1 DEF Intended
  <2>4. slice'[t] = [shared |-> FALSE, len |-> Len(w), items |-> w]
    BY <1>9, <2>1 DEF Opt!Own
  <2>5. /\ slice'[t] = [shared |-> slice'[t].shared, len |-> slice'[t].len,
                        items |-> slice'[t].items]
        /\ slice'[t].shared = FALSE /\ slice'[t].len = Len(w) /\ slice'[t].items = w
    BY ONLY <2>4
  <2>6. SliceOf(slice[t])'
    <3>1. PICK s : s = slice'[t]
      OBVIOUS
    <3>2. /\ s = [shared |-> s.shared, len |-> s.len, items |-> s.items]
          /\ s.shared \in BOOLEAN /\ s.len \in Nat /\ s.items \in Seq(Listed)
          /\ ~s.shared /\ s.len = Len(s.items)
      <4>1. s = [shared |-> s.shared, len |-> s.len, items |-> s.items]
        BY Zenon, <2>5, <3>1
      <4>2. s.shared = FALSE /\ s.len = Len(w) /\ s.items = w
        BY Zenon, <2>5, <3>1
      <4>3. Len(w) \in Nat
        BY <2>2
      <4> QED BY <2>2, <4>1, <4>2, <4>3
    <3> QED BY ONLY <3>1, <3>2 DEF SliceOf
  <2>7. Shape(t)'
    BY <1>5, <1>3, <1>6, <1>7, <1>9, <2>2, <2>3, <2>5, <2>6 DEF Shape, Places
  <2>8. Told(t)'
    <3>1. Matches(o'[t], w, applied'[t])
      BY <1>7, MatchesNone
    <3>2. \A n : Opt!Item(t, n)' = w[n]
      BY <2>5 DEF Opt!Item
    <3> QED BY <2>3, <2>5, <3>1, <3>2 DEF Told
  <2> QED BY <1>4, <1>9, <2>7, <2>8, NotEnded, QuietlyKept
<1> QED BY <1>3, <1>8, <1>9

LEMMA OwnSlice ==
    ASSUME NEW c \in Seq(Listed), NEW t \in Tests, slice'[t] = Opt!Own(c)
    PROVE  /\ SliceOf(slice[t])'
           /\ slice'[t].shared = FALSE /\ slice'[t].len = Len(c) /\ slice'[t].items = c
           /\ \A n : Opt!Item(t, n)' = c[n]
<1>1. slice'[t] = [shared |-> FALSE, len |-> Len(c), items |-> c]
  BY DEF Opt!Own
<1>2. PICK s : s = slice'[t]
  OBVIOUS
<1>3. /\ s = [shared |-> s.shared, len |-> s.len, items |-> s.items]
      /\ s.shared = FALSE /\ s.len = Len(c) /\ s.items = c
  BY ONLY <1>1, <1>2
<1>4. /\ s = [shared |-> s.shared, len |-> s.len, items |-> s.items]
      /\ s.shared \in BOOLEAN /\ s.len \in Nat /\ s.items \in Seq(Listed)
      /\ ~s.shared /\ s.len = Len(s.items)
  <2>1. s = [shared |-> s.shared, len |-> s.len, items |-> s.items]
    BY <1>3
  <2>2. s.shared = FALSE /\ s.len = Len(c) /\ s.items = c
    BY <1>3
  <2>3. Len(c) \in Nat
    OBVIOUS
  <2> QED BY <2>1, <2>2, <2>3
<1>5. SliceOf(slice[t])'
  BY ONLY <1>2, <1>4 DEF SliceOf
<1> QED BY <1>2, <1>3, <1>5 DEF Opt!Item

(* The next batch of a call that has one, and where the call is then.       *)
LEMMA NextBatch ==
    ASSUME Gathering, NEW t \in Tests, todo[t] # <<>>
    PROVE  LET h == Head(todo[t]) k == Filled(t) IN
           /\ entry[t] \in {"Test", "Run"} /\ Entered(t) /\ Appending(t)
           /\ k \in Nat /\ slice[t].len = Len(common) + k /\ Len(common) \in Nat
           /\ Len(h) \in {1, 2} /\ k + Len(h) <= Len(Added(t)) /\ h \in Seq(Known)
           /\ \A i \in 1..Len(h) : h[i] = Added(t)[k + i]
           /\ \A i \in 1..Len(h) : h[i] = Intended(t)[slice[t].len + i]
           /\ Tail(todo[t]) = Todo(t, k + Len(h))
           /\ Len(h) = 2 => [todo[t] EXCEPT ![1] = Tail(h)] = Todo(t, k + 1)
           /\ entry[t] = "Test" => (Len(h) = 2 <=> k = 0)
           /\ entry[t] # "Test" => Len(h) = 1 /\ h[1] = StdOut /\ k = 0
           /\ slice[t].len + Len(h) <= Len(Intended(t)) /\ Len(Intended(t)) \in Nat
           /\ Len(Added(t)) \in Nat /\ applied[t] = 0
<1>1. CommonTyped /\ Shape(t)
  BY DEF Gathering, Steady
<1>2. entry[t] \in {"Test", "Run"}
  BY <1>1 DEF Shape, Started
<1>3. Appending(t) /\ Entered(t) /\ SliceOf(slice[t])
  BY <1>1, <1>2 DEF Shape, Entered
<1>4. PICK d, h, k, a : d = todo[t] /\ h = Head(todo[t]) /\ k = Filled(t) /\ a = Added(t)
  OBVIOUS
<1>5. k \in 0..Len(a) /\ d = Todo(t, k) /\ d # <<>> /\ applied[t] = 0 /\ h = Head(d)
  BY <1>3, <1>4 DEF Appending
<1>6. /\ Len(a) \in Nat /\ Batch(h, d, a, k) /\ Tail(d) = Todo(t, k + Len(h))
      /\ Len(h) = 2 => [d EXCEPT ![1] = Tail(h)] = Todo(t, k + 1)
      /\ entry[t] = "Test" => (Len(h) = 2 <=> k = 0)
      /\ entry[t] # "Test" => Len(h) = 1 /\ h[1] = StdOut /\ k = 0
  <2>1. k \in 0..Len(Added(t)) /\ Todo(t, k) # <<>>
    BY <1>4, <1>5
  <2>2. /\ Len(Added(t)) \in Nat /\ Batch(Head(Todo(t, k)), Todo(t, k), Added(t), k)
        /\ Tail(Todo(t, k)) = Todo(t, k + Len(Head(Todo(t, k))))
        /\ Len(Head(Todo(t, k))) = 2 =>
                [Todo(t, k) EXCEPT ![1] = Tail(Head(Todo(t, k)))] = Todo(t, k + 1)
        /\ entry[t] = "Test" => (Len(Head(Todo(t, k))) = 2 <=> k = 0)
        /\ entry[t] # "Test" =>
                Len(Head(Todo(t, k))) = 1 /\ Head(Todo(t, k))[1] = StdOut /\ k = 0
    BY Zenon, <1>1, <2>1, TodoSays
  <2> QED BY Zenon, <1>4, <1>5, <2>2
<1>7. /\ Len(h) \in {1, 2} /\ k + Len(h) <= Len(a) /\ h \in Seq(Known)
      /\ \A i \in 1..Len(h) : h[i] = a[k + i]
  BY <1>6 DEF Batch
<1>8. PICK s : s = Intended(t)
  OBVIOUS
<1>9. /\ Len(common) \in Nat /\ Len(s) = Len(common) + Len(a)
      /\ \A i \in 1..Len(a) : s[Len(common) + i] = a[i]
  BY <1>1, <1>2, <1>4, <1>8, IntendedEnds
<1>10. slice[t].len = Len(common) + k
  <2>1. slice[t].len \in Nat
    BY <1>3 DEF SliceOf
  <2> QED BY <1>4, <1>9, <2>1 DEF Filled
<1>11. \A i \in 1..Len(h) : h[i] = s[slice[t].len + i]
  <2> TAKE i \in 1..Len(h)
  <2>1. k + i \in 1..Len(a) /\ slice[t].len + i = Len(common) + (k + i)
    BY <1>5, <1>6, <1>7, <1>9, <1>10
  <2>2. h[i] = a[k + i]
    BY <1>7
  <2> QED BY <1>9, <2>1, <2>2
<1>12. slice[t].len + Len(h) <= Len(s) /\ Len(s) \in Nat
  BY <1>5, <1>6, <1>7, <1>9, <1>10
<1>13. k \in Nat
  BY <1>5, <1>6
<1> QED BY <1>2, <1>3, <1>4, <1>5, <1>6, <1>7, <1>8, <1>9, <1>10, <1>11, <1>12, <1>13

LEMMA AppendedOwn ==
    ASSUME Gathering, NEW t \in Tests, Quietly(t), Called(t), todo[t] # <<>>,
           NEW c \in Seq(Listed), Len(c) = slice[t].len,
           slice'[t] = Opt!Own(c \o Head(todo[t])), todo'[t] = Tail(todo[t]),
           at'[t] = "append", applied'[t] = applied[t], o'[t] = o[t],
           settings'[t] = settings[t], at[t] \in {"append", "store", "copy"},
           ~Opt!Exposed(t) => \A n \in 1..Len(c) : c[n] = Intended(t)[n]
    PROVE  Gathering'
<1>1. CommonTyped /\ Shape(t) /\ Told(t) /\ Fixed
  BY DEF Gathering, Steady, Quietly
<1>2. PICK h, k : h = Head(todo[t]) /\ k = Filled(t)
  OBVIOUS
<1>3. /\ entry[t] \in {"Test", "Run"} /\ Entered(t) /\ Appending(t)
      /\ k \in Nat /\ slice[t].len = Len(common) + k /\ Len(common) \in Nat
      /\ Len(h) \in {1, 2} /\ k + Len(h) <= Len(Added(t)) /\ h \in Seq(Known)
      /\ \A i \in 1..Len(h) : h[i] = Intended(t)[slice[t].len + i]
      /\ Tail(todo[t]) = Todo(t, k + Len(h))
      /\ entry[t] = "Test" => (Len(h) = 2 <=> k = 0)
      /\ applied[t] = 0 /\ Len(Added(t)) \in Nat
  BY <1>2, NextBatch
<1>4. PICK b : b = c \o h
  OBVIOUS
<1>5. h \in Seq(Listed)
  BY <1>3, KnownListed
<1>6. b \in Seq(Listed) /\ Joined(b, c, h)
  BY <1>4, <1>5, ConcatJoins
<1>7. slice'[t] = Opt!Own(b)
  BY <1>2, <1>4
<1>8. /\ SliceOf(slice[t])' /\ slice'[t].shared = FALSE /\ slice'[t].len = Len(b)
      /\ slice'[t].items = b /\ \A n : Opt!Item(t, n)' = b[n]
  BY <1>6, <1>7, OwnSlice
<1>9. /\ Len(b) = slice[t].len + Len(h) /\ Len(b) \in Nat /\ Len(h) \in Nat
      /\ slice[t].len \in Nat
  BY <1>3, <1>6 DEF Joined
<1>10. Filled(t)' = k + Len(h)
  BY <1>1, <1>3, <1>8, <1>9 DEF Filled, Fixed
<1>11. Intended(t)' = Intended(t) /\ Added(t)' = Added(t) /\ \A j : Todo(t, j)' = Todo(t, j)
  BY <1>1, SameIntended
<1>12. todo'[t] = Todo(t, k + Len(h))
  BY <1>3
<1>13. PICK j : j = k + Len(h)
  OBVIOUS
<1>14. j \in 0..Len(Added(t)) /\ (entry[t] = "Test" => j # 1)
  <2>1. PICK m, l : m = Len(h) /\ l = Len(Added(t))
    OBVIOUS
  <2>2. m \in {1, 2} /\ l \in Nat /\ k \in Nat /\ k + m <= l /\ j = k + m
        /\ (entry[t] = "Test" => (m = 2 <=> k = 0))
    BY <1>3, <1>13, <2>1
  <2>3. j \in 0..l /\ (entry[t] = "Test" => j # 1)
    BY ONLY <2>2
  <2> QED BY <2>1, <2>3
<1>15. Appending(t)'
  <2>1. Filled(t)' = j /\ todo'[t] = Todo(t, j)' /\ Filled(t)' \in 0..Len(Added(t)')
        /\ (entry'[t] = "Test" => Filled(t)' # 1)
    BY <1>10, <1>11, <1>12, <1>13, <1>14 DEF Called
  <2> QED BY <1>3, <2>1 DEF Appending
<1>16. Shape(t)'
  <2>1. applied'[t] \in Nat /\ applied'[t] <= slice'[t].len
    BY <1>3, <1>8, <1>9
  <2>2. at'[t] \in Places /\ at'[t] \notin {"idle", "parse", "usage"}
    BY DEF Places
  <2>3. /\ entry'[t] \in {"Test", "Run"} /\ flags'[t] = <<>> /\ flags'[t] \in Lines
        /\ Recorder(o'[t]) /\ DOMAIN settings'[t] = Opt!Settings
    BY <1>1, <1>3 DEF Shape, Called
  <2> QED BY <1>8, <1>15, <2>1, <2>2, <2>3 DEF Shape
<1>17. Told(t)'
  <2>1. SUFFICES ASSUME ~Opt!Exposed(t)
                 PROVE  /\ \A n \in 1..Len(b) : b[n] = Intended(t)[n]
                        /\ Matches(o[t], Intended(t), applied[t])
    <3>1. Opt!Exposed(t)' = Opt!Exposed(t)
      BY DEF Opt!Exposed, Quietly, Fixed, Called
    <3> QED BY <1>8, <1>11, <3>1 DEF Told
  <2>2. Matches(o[t], Intended(t), applied[t])
    BY <1>1, <2>1 DEF Told
  <2>3. ASSUME NEW n \in 1..Len(b) PROVE b[n] = Intended(t)[n]
    <3>1. CASE n \in 1..Len(c)
      BY <1>6, <2>1, <3>1 DEF Joined
    <3>2. CASE n \notin 1..Len(c)
      <4>1. PICK i : i = n - Len(c)
        OBVIOUS
      <4>2. i \in 1..Len(h) /\ n = Len(c) + i /\ n = slice[t].len + i
        BY <1>9, <3>2, <4>1
      <4>3. b[Len(c) + i] = h[i]
        BY <1>6, <4>2 DEF Joined
      <4>4. h[i] = Intended(t)[slice[t].len + i]
        BY <1>3, <4>2
      <4> QED BY <4>2, <4>3, <4>4
    <3> QED BY <3>1, <3>2
  <2> QED BY <2>2, <2>3
<1> QED BY <1>16, <1>17, NotEnded, QuietlyKept

LEMMA AppendOwnStep ==
    ASSUME Gathering, NEW t \in Tests, followed' = followed, Opt!AppendOwn(t)
    PROVE  Gathering'
<1>1. /\ Shape(t) /\ Told(t) /\ DOMAIN slice = Tests /\ DOMAIN todo = Tests
  BY DEF Gathering, Steady
<1>2. /\ at[t] = "append" /\ todo[t] # <<>> /\ ~slice[t].shared
      /\ slice' = Opt!Set(slice, t, Opt!Own(slice[t].items \o Head(todo[t])))
      /\ todo' = Opt!Set(todo, t, Tail(todo[t]))
      /\ UNCHANGED <<common, spare, short, array, entry, flags, at, applied, o, settings,
                     overlapping>>
  BY DEF Opt!AppendOwn
<1>3. /\ DOMAIN slice' = Tests /\ DOMAIN todo' = Tests
      /\ \A u \in Tests \ {t} : slice'[u] = slice[u] /\ todo'[u] = todo[u]
      /\ slice'[t] = Opt!Own(slice[t].items \o Head(todo[t])) /\ todo'[t] = Tail(todo[t])
  <2>1. PICK v, d : v = Opt!Own(slice[t].items \o Head(todo[t])) /\ d = Tail(todo[t])
    OBVIOUS
  <2>2. slice' = Opt!Set(slice, t, v) /\ todo' = Opt!Set(todo, t, d)
    BY Zenon, <1>2, <2>1
  <2>3. /\ DOMAIN slice' = Tests /\ DOMAIN todo' = Tests
        /\ \A u \in Tests \ {t} : slice'[u] = slice[u] /\ todo'[u] = todo[u]
        /\ slice'[t] = v /\ todo'[t] = d
    BY ONLY <1>1, <2>2, SetsOne
  <2> QED BY Zenon, <2>1, <2>3
<1>4. /\ Quietly(t) /\ Called(t) /\ at'[t] = at[t] /\ applied'[t] = applied[t]
      /\ o'[t] = o[t] /\ settings'[t] = settings[t]
  <2>1. UNCHANGED <<followed, common, spare, short, array, entry, flags, at, applied, o,
                    settings, overlapping>>
    BY <1>2
  <2> QED BY ONLY Gathering, <1>3, <2>1 DEF Gathering, Steady, Quietly, Fixed, Untouched, Called
<1>5. slice[t].items \in Seq(Listed) /\ Len(slice[t].items) = slice[t].len
  BY <1>1, <1>2 DEF Shape, SliceOf
<1>6. ~Opt!Exposed(t) =>
            \A n \in 1..Len(slice[t].items) : slice[t].items[n] = Intended(t)[n]
  BY <1>1, <1>2 DEF Told
<1> QED BY <1>2, <1>3, <1>4, <1>5, <1>6, AppendedOwn

LEMMA AppendSharedStep ==
    ASSUME Gathering, NEW t \in Tests, followed' = followed, Opt!AppendShared(t)
    PROVE  Gathering'
<1>1. /\ Shape(t) /\ Told(t) /\ DOMAIN at = Tests
  BY DEF Gathering, Steady
<1>2. /\ at[t] = "append" /\ todo[t] # <<>> /\ slice[t].shared
      /\ at' = Opt!Set(at, t, IF Opt!Fits(t) THEN "store" ELSE "copy")
      /\ UNCHANGED <<common, spare, short, array, entry, flags, slice, todo, applied, o,
                     settings, overlapping>>
  BY DEF Opt!AppendShared, Opt!Goto
<1>3. /\ DOMAIN at' = Tests /\ \A u \in Tests \ {t} : at'[u] = at[u]
      /\ at'[t] = IF Opt!Fits(t) THEN "store" ELSE "copy"
  BY <1>1, <1>2, SetsOne
<1>4. at[t] \in Busy /\ at'[t] \in {"store", "copy"}
  BY <1>2, <1>3 DEF Busy
<1>5. /\ Quietly(t) /\ Called(t) /\ Fixed
      /\ slice'[t] = slice[t] /\ todo'[t] = todo[t]
      /\ applied'[t] = applied[t] /\ o'[t] = o[t] /\ settings'[t] = settings[t]
  <2>1. UNCHANGED <<followed, common, spare, short, array, entry, flags, slice, todo,
                    applied, o, settings, overlapping>>
    BY <1>2
  <2> QED BY ONLY Gathering, <1>3, <1>4, <2>1
          DEF Gathering, Steady, Quietly, Fixed, Untouched, Called
<1>6. Intended(t)' = Intended(t) /\ Added(t)' = Added(t) /\ \A k : Todo(t, k)' = Todo(t, k)
  BY <1>5, SameIntended
<1>7. Appending(t) /\ entry[t] \in {"Test", "Run"}
  BY <1>2, NextBatch
<1>8. Appending(t)'
  <2>1. at'[t] = "store" => slice[t].len + Len(Head(todo[t])) <= Len(array)
    BY <1>3 DEF Opt!Fits
  <2>2. entry[t] = "Test" => Filled(t) # 1
    BY <1>2, <1>7 DEF Appending
  <2>3. Filled(t)' = Filled(t)
    BY <1>2 DEF Filled
  <2> QED BY <1>2, <1>4, <1>5, <1>6, <1>7, <2>1, <2>2, <2>3 DEF Appending, Called
<1>9. Shape(t)'
  <2>1. SliceOf(slice[t])'
    BY <1>1, <1>2 DEF Shape, SliceOf
  <2>2. at'[t] \in Places /\ at'[t] \notin {"idle", "parse", "usage"}
    BY <1>4 DEF Places
  <2> QED BY <1>1, <1>5, <1>7, <1>8, <2>1, <2>2 DEF Shape, Called
<1>10. Told(t)'
  <2>1. \A n : Opt!Item(t, n)' = Opt!Item(t, n)
    BY <1>2 DEF Opt!Item
  <2>2. Opt!Exposed(t)' = Opt!Exposed(t)
    BY <1>2 DEF Opt!Exposed
  <2> QED BY <1>1, <1>2, <1>5, <1>6, <2>1, <2>2 DEF Told
<1>11. at'[t] \notin {"built", "rejected"}
  BY <1>4
<1> QED BY <1>5, <1>9, <1>10, <1>11, NotEnded, QuietlyKept

LEMMA CopyStep ==
    ASSUME Gathering, NEW t \in Tests, followed' = followed, Opt!Copy(t)
    PROVE  Gathering'
<1>1. /\ Shape(t) /\ Told(t) /\ DOMAIN at = Tests /\ DOMAIN slice = Tests
      /\ DOMAIN todo = Tests /\ array \in Seq(Listed)
  BY DEF Gathering, Steady
<1>2. PICK c : c = slice[t].items
  OBVIOUS
<1>3. /\ at[t] = "copy"
      /\ \/ /\ Len(c) < slice[t].len
            /\ slice' = [slice EXCEPT ![t].items = Append(c, array[Len(c) + 1])]
            /\ todo' = todo /\ at' = at
         \/ /\ Len(c) = slice[t].len
            /\ slice' = Opt!Set(slice, t, Opt!Own(c \o Head(todo[t])))
            /\ todo' = Opt!Set(todo, t, Tail(todo[t]))
            /\ at' = Opt!Set(at, t, "append")
      /\ UNCHANGED <<common, spare, short, array, entry, flags, applied, o, settings,
                     overlapping>>
  BY <1>2 DEF Opt!Copy, Opt!Goto
<1>4. at[t] \in Busy /\ Opt!Exposed(t)' = Opt!Exposed(t)
  BY <1>3 DEF Busy, Opt!Exposed
<1>5. /\ SliceOf(slice[t]) /\ c \in Seq(Listed) /\ todo[t] # <<>> /\ slice[t].shared
      /\ Appending(t) /\ entry[t] \in {"Test", "Run"}
  <2>1. Appending(t) /\ entry[t] \in {"Test", "Run"}
    BY <1>1, <1>3 DEF Shape
  <2> QED BY <1>1, <1>2, <1>3, <2>1 DEF Shape, SliceOf, Appending
<1>6. CASE /\ Len(c) < slice[t].len
           /\ slice' = [slice EXCEPT ![t].items = Append(c, array[Len(c) + 1])]
           /\ todo' = todo /\ at' = at
  <2>1. PICK x : x = array[Len(c) + 1]
    OBVIOUS
  <2>2. PICK b : b = Append(c, x)
    OBVIOUS
  <2>3. /\ DOMAIN slice' = Tests /\ \A u \in Tests \ {t} : slice'[u] = slice[u]
        /\ slice'[t] = [slice[t] EXCEPT !.items = b]
    BY <1>1, <1>6, <2>1, <2>2
  <2>4. /\ Quietly(t) /\ Called(t) /\ Fixed /\ at'[t] = at[t] /\ todo'[t] = todo[t]
        /\ applied'[t] = applied[t] /\ o'[t] = o[t] /\ settings'[t] = settings[t]
    <3>1. UNCHANGED <<followed, common, spare, short, array, entry, flags, todo, at,
                      applied, o, settings, overlapping>>
      BY <1>3, <1>6
    <3> QED BY ONLY Gathering, <2>3, <3>1
            DEF Gathering, Steady, Quietly, Fixed, Untouched, Called
  <2>5. x \in Listed /\ Len(c) \in Nat /\ Len(c) + 1 \in 1..slice[t].len
        /\ Opt!Item(t, Len(c) + 1) = x
    <3>1. Len(c) \in Nat /\ slice[t].len \in Nat /\ Len(c) + 1 \in 1..slice[t].len
      BY <1>5, <1>6 DEF SliceOf
    <3>2. Opt!Item(t, Len(c) + 1) = x
      BY <1>5, <2>1 DEF Opt!Item
    <3> QED BY <3>1, <3>2, ItemListed
  <2>6. b \in Seq(Listed) /\ Extended(b, c, x)
    BY <1>5, <2>2, <2>5, AppendExtends
  <2>7. /\ slice'[t] = [shared |-> slice'[t].shared, len |-> slice'[t].len,
                        items |-> slice'[t].items]
        /\ slice'[t].shared = slice[t].shared /\ slice'[t].len = slice[t].len
        /\ slice'[t].items = b
    <3>1. PICK p, l : p = slice[t].shared /\ l = slice[t].len
      OBVIOUS
    <3>2. slice[t] = [shared |-> p, len |-> l, items |-> c]
      BY <1>2, <1>5, <3>1 DEF SliceOf
    <3>3. slice'[t] = [shared |-> p, len |-> l, items |-> b]
      BY ONLY <2>3, <3>2
    <3> QED BY ONLY <3>1, <3>3
  <2>8. SliceOf(slice[t])'
    BY <1>3, <1>5, <2>6, <2>7 DEF SliceOf
  <2>9. Intended(t)' = Intended(t) /\ Added(t)' = Added(t) /\ \A k : Todo(t, k)' = Todo(t, k)
    BY <2>4, SameIntended
  <2>10. Appending(t)'
    <3>1. Filled(t)' = Filled(t)
      BY <2>4, <2>7 DEF Filled, Fixed
    <3> QED BY <1>3, <1>5, <2>4, <2>7, <2>9, <3>1 DEF Appending, Called
  <2>11. Shape(t)'
    <3>1. at'[t] \in Places /\ at'[t] \notin {"idle", "parse", "usage"}
      BY <1>3, <2>4 DEF Places
    <3> QED BY <1>1, <1>5, <2>4, <2>7, <2>8, <2>10, <3>1 DEF Shape, Called
  <2>12. Told(t)'
    <3>1. SUFFICES ASSUME ~Opt!Exposed(t)
                   PROVE  /\ \A n \in 1..slice[t].len : Opt!Item(t, n) = Intended(t)[n]
                          /\ \A n \in 1..Len(b) : b[n] = Intended(t)[n]
                          /\ Matches(o[t], Intended(t), applied[t])
      <4>1. \A n : Opt!Item(t, n)' = Opt!Item(t, n)
        BY <1>3, <1>5, <2>7 DEF Opt!Item
      <4> QED BY <1>4, <2>4, <2>7, <2>9, <4>1 DEF Told
    <3>2. /\ \A n \in 1..slice[t].len : Opt!Item(t, n) = Intended(t)[n]
          /\ \A n \in 1..Len(c) : c[n] = Intended(t)[n]
          /\ Matches(o[t], Intended(t), applied[t])
      BY <1>1, <1>2, <1>3, <3>1 DEF Told
    <3>3. ASSUME NEW n \in 1..Len(b) PROVE b[n] = Intended(t)[n]
      <4>1. n \in 1..Len(c) \/ n = Len(c) + 1
        BY <2>6 DEF Extended
      <4> QED BY <2>5, <2>6, <3>2, <4>1 DEF Extended
    <3> QED BY <3>2, <3>3
  <2> QED BY <1>3, <2>4, <2>11, <2>12, NotEnded, QuietlyKept
<1>7. CASE /\ Len(c) = slice[t].len
           /\ slice' = Opt!Set(slice, t, Opt!Own(c \o Head(todo[t])))
           /\ todo' = Opt!Set(todo, t, Tail(todo[t]))
           /\ at' = Opt!Set(at, t, "append")
  <2>1. /\ DOMAIN slice' = Tests /\ DOMAIN todo' = Tests /\ DOMAIN at' = Tests
        /\ \A u \in Tests \ {t} :
                slice'[u] = slice[u] /\ todo'[u] = todo[u] /\ at'[u] = at[u]
        /\ slice'[t] = Opt!Own(c \o Head(todo[t])) /\ todo'[t] = Tail(todo[t])
        /\ at'[t] = "append"
    <3>1. PICK v, d : v = Opt!Own(c \o Head(todo[t])) /\ d = Tail(todo[t])
      OBVIOUS
    <3>2. /\ slice' = Opt!Set(slice, t, v) /\ todo' = Opt!Set(todo, t, d)
          /\ at' = Opt!Set(at, t, "append")
      BY Zenon, <1>7, <3>1
    <3>3. /\ DOMAIN slice' = Tests /\ DOMAIN todo' = Tests /\ DOMAIN at' = Tests
          /\ \A u \in Tests \ {t} :
                slice'[u] = slice[u] /\ todo'[u] = todo[u] /\ at'[u] = at[u]
          /\ slice'[t] = v /\ todo'[t] = d /\ at'[t] = "append"
      BY ONLY <1>1, <3>2, SetsOne
    <3> QED BY Zenon, <3>1, <3>3
  <2>2. /\ Quietly(t) /\ Called(t) /\ applied'[t] = applied[t]
        /\ o'[t] = o[t] /\ settings'[t] = settings[t]
    <3>1. UNCHANGED <<followed, common, spare, short, array, entry, flags, applied, o,
                      settings, overlapping>>
      BY <1>3
    <3> QED BY ONLY Gathering, <1>4, <2>1, <3>1
            DEF Gathering, Steady, Quietly, Fixed, Untouched, Called
  <2>3. ~Opt!Exposed(t) => \A n \in 1..Len(c) : c[n] = Intended(t)[n]
    BY <1>1, <1>2, <1>3 DEF Told
  <2> QED BY <1>3, <1>5, <1>7, <2>1, <2>2, <2>3, AppendedOwn
<1> QED BY <1>3, <1>6, <1>7

LEMMA SharedSlice ==
    ASSUME NEW n \in Nat, NEW t \in Tests, slice'[t] = Opt!Shared(n), n <= Len(array')
    PROVE  /\ SliceOf(slice[t])'
           /\ slice'[t].shared = TRUE /\ slice'[t].len = n /\ slice'[t].items = <<>>
           /\ \A m : Opt!Item(t, m)' = array'[m]
<1>1. slice'[t] = [shared |-> TRUE, len |-> n, items |-> <<>>]
  BY DEF Opt!Shared
<1>2. PICK e : e = <<>>
  OBVIOUS
<1>3. e \in Seq(Listed)
  BY <1>2
<1>4. PICK s : s = slice'[t]
  OBVIOUS
<1>5. s = [shared |-> TRUE, len |-> n, items |-> e]
  BY Zenon, <1>1, <1>2, <1>4
<1>6. /\ s = [shared |-> s.shared, len |-> s.len, items |-> s.items]
      /\ s.shared = TRUE /\ s.len = n /\ s.items = e
  BY ONLY <1>5
<1>7. SliceOf(slice[t])'
  BY <1>3, <1>4, <1>6 DEF SliceOf
<1>8. \A m : Opt!Item(t, m)' = array'[m]
  BY <1>4, <1>6 DEF Opt!Item
<1> QED BY Zenon, <1>2, <1>4, <1>6, <1>7, <1>8

(* What a store changes for the others, and for the caller's options.       *)
LEMMA StoreElsewhere ==
    ASSUME Gathering, NEW t \in Tests, at[t] = "store", NEW u \in Tests \ {t},
           ~Opt!Exposed(u), at[u] \in {"append", "store", "copy"}, slice[u].shared,
           slice[t].len + 1 \in 1..slice[u].len
    PROVE  Head(todo[t])[1] = Intended(u)[slice[t].len + 1]
<1>1. /\ CommonTyped /\ Shape(t) /\ Shape(u) /\ Overlaps /\ spare \in Nat
      /\ Len(array) = Len(common) + spare
  BY DEF Gathering, Steady
<1>2. t \in overlapping /\ u \in overlapping
  BY <1>1 DEF Overlaps, Busy
<1>3. entry[u] \in {"Test", "Run"} /\ Appending(u) /\ SliceOf(slice[u])
  BY <1>1 DEF Shape
<1>4. spare < 2
  BY <1>1, <1>2, <1>3 DEF Opt!Exposed
<1>5. Appending(t) /\ todo[t] # <<>> /\ slice[t].len + Len(Head(todo[t])) <= Len(array)
  <2>1. Appending(t)
    BY <1>1 DEF Shape
  <2> QED BY <2>1 DEF Appending
<1>6. PICK h, k, c : h = Head(todo[t]) /\ k = Filled(t) /\ c = Len(common)
  OBVIOUS
<1>7. /\ entry[t] \in {"Test", "Run"} /\ k \in Nat /\ slice[t].len = c + k /\ c \in Nat
      /\ Len(h) \in {1, 2}
      /\ entry[t] = "Test" => (Len(h) = 2 <=> k = 0)
      /\ entry[t] # "Test" => Len(h) = 1 /\ h[1] = StdOut /\ k = 0
  BY <1>5, <1>6, NextBatch
<1>8. k = 0 /\ Len(h) = 1 /\ spare = 1 /\ entry[t] # "Test" /\ h[1] = StdOut
  <2>1. PICK m, q, l : m = Len(h) /\ q = slice[t].len /\ l = Len(array)
    OBVIOUS
  <2>2. /\ m \in {1, 2} /\ k \in Nat /\ c \in Nat /\ spare \in Nat /\ spare < 2
        /\ q = c + k /\ q + m <= l /\ l = c + spare
        /\ entry[t] = "Test" => (m = 2 <=> k = 0)
    BY Zenon, <1>1, <1>4, <1>5, <1>6, <1>7, <2>1
  <2>3. k = 0 /\ m = 1 /\ spare = 1 /\ entry[t] # "Test"
    BY ONLY <2>2
  <2> QED BY <1>7, <2>1, <2>3
<1>9. slice[t].len + 1 = c + 1 /\ Filled(u) = 1 /\ slice[u].len = c + 1
  BY <1>1, <1>3, <1>6, <1>7, <1>8 DEF Filled, SliceOf
<1>10. entry[u] # "Test"
  <2> SUFFICES ASSUME entry[u] = "Test" PROVE FALSE
    OBVIOUS
  <2>1. at[u] = "store"
    BY <1>3, <1>9 DEF Appending
  <2>2. todo[u] # <<>> /\ slice[u].len + Len(Head(todo[u])) <= Len(array)
    BY <1>3, <2>1 DEF Appending
  <2>3. Len(Head(todo[u])) \in {1, 2}
    BY <2>2, NextBatch
  <2>4. PICK m, q, l : m = Len(Head(todo[u])) /\ q = slice[u].len /\ l = Len(array)
    OBVIOUS
  <2>5. m \in {1, 2} /\ q + m <= l /\ q = c + 1 /\ l = c + 1 /\ c \in Nat
    BY Zenon, <1>1, <1>6, <1>7, <1>8, <1>9, <2>2, <2>3, <2>4
  <2> QED BY ONLY <2>5
<1>11. Intended(u)[c + 1] = StdOut
  <2>1. PICK a, s : a = Added(u) /\ s = Intended(u)
    OBVIOUS
  <2>2. a = <<StdOut>>
    BY <1>10, <2>1 DEF Added
  <2>3. Len(a) = 1 /\ a[1] = StdOut
    BY ONLY <2>2
  <2>4. \A i \in 1..Len(a) : s[c + i] = a[i]
    BY <1>1, <1>3, <1>6, <2>1, IntendedEnds
  <2>5. s[c + 1] = a[1]
    BY <2>3, <2>4
  <2> QED BY <2>1, <2>3, <2>5
<1> QED BY <1>6, <1>8, <1>9, <1>11

LEMMA StoreStep ==
    ASSUME Gathering, NEW t \in Tests, followed' = followed, Opt!Store(t)
    PROVE  Gathering'
<1>1. /\ CommonTyped /\ Shape(t) /\ Told(t) /\ Overlaps /\ spare \in Nat
      /\ array \in Seq(Listed) /\ Len(array) = Len(common) + spare
      /\ \A i \in 1..Len(common) : array[i] = common[i]
      /\ DOMAIN slice = Tests /\ DOMAIN todo = Tests /\ DOMAIN at = Tests
  BY DEF Gathering, Steady
<1>2. PICK h, k, n, d : h = Head(todo[t]) /\ k = Filled(t) /\ n = slice[t].len + 1 /\ d = todo[t]
  OBVIOUS
<1>3. /\ at[t] = "store"
      /\ array' = Opt!Set(array, n, Head(h))
      /\ slice' = Opt!Set(slice, t, Opt!Shared(n))
      /\ \/ Len(h) = 1 /\ todo' = Opt!Set(todo, t, Tail(d)) /\ at' = Opt!Set(at, t, "append")
         \/ Len(h) # 1 /\ todo' = [todo EXCEPT ![t][1] = Tail(h)] /\ at' = at
      /\ UNCHANGED <<common, spare, short, entry, flags, applied, o, settings, overlapping>>
  BY <1>2 DEF Opt!Store, Opt!Goto
<1>4. /\ Appending(t) /\ d # <<>> /\ slice[t].len + Len(h) <= Len(array)
      /\ slice[t].shared
  <2>1. Appending(t)
    BY <1>1, <1>3 DEF Shape
  <2> QED BY <1>2, <1>3, <2>1 DEF Appending
<1>5. /\ entry[t] \in {"Test", "Run"} /\ Entered(t)
      /\ k \in Nat /\ slice[t].len = Len(common) + k /\ Len(common) \in Nat
      /\ Len(h) \in {1, 2} /\ k + Len(h) <= Len(Added(t)) /\ h \in Seq(Known)
      /\ \A i \in 1..Len(h) : h[i] = Intended(t)[slice[t].len + i]
      /\ Tail(d) = Todo(t, k + Len(h))
      /\ Len(h) = 2 => [d EXCEPT ![1] = Tail(h)] = Todo(t, k + 1)
      /\ entry[t] = "Test" => (Len(h) = 2 <=> k = 0)
      /\ entry[t] # "Test" => Len(h) = 1
      /\ applied[t] = 0 /\ Len(Added(t)) \in Nat
  BY <1>2, <1>4, NextBatch
<1>6. PICK x : x = Head(h)
  OBVIOUS
<1>7. x \in Listed /\ x = h[1] /\ x = Intended(t)[n]
  <2>3. h \in Seq(Known) /\ Len(h) \in {1, 2}
    BY <1>5
  <2>1. h \in Seq(Listed) /\ 1 \in 1..Len(h)
    <3>1. h \in Seq(Listed)
      BY Zenon, <2>3, KnownListed
    <3>2. 1 \in 1..Len(h)
      <4>1. PICK m : m = Len(h)
        OBVIOUS
      <4>2. m \in {1, 2}
        BY Zenon, <2>3, <4>1
      <4>3. 1 \in 1..m
        BY ONLY <4>2
      <4> QED BY Zenon, <4>1, <4>3
    <3> QED BY <3>1, <3>2
  <2>2. x = h[1] /\ x \in Listed
    BY <1>6, <2>1
  <2> QED BY <1>2, <1>5, <2>1, <2>2
<1>8. n \in 1..Len(array) /\ n = Len(common) + k + 1 /\ n \in Nat
  <2>1. PICK m, q, l, c : /\ m = Len(h) /\ q = slice[t].len /\ l = Len(array)
                          /\ c = Len(common)
    OBVIOUS
  <2>2. m \in {1, 2} /\ k \in Nat /\ c \in Nat /\ q = c + k /\ q + m <= l /\ n = q + 1
        /\ l \in Nat
    <3>1. l \in Nat
      BY <1>1, <2>1
    <3> QED BY Zenon, <1>2, <1>4, <1>5, <2>1, <3>1
  <2>3. n \in 1..l /\ n = c + k + 1 /\ n \in Nat
    BY ONLY <2>2
  <2> QED BY Zenon, <2>1, <2>3
<1>9. /\ array' \in Seq(Listed) /\ Len(array') = Len(array) /\ array'[n] = x
      /\ \A i \in 1..Len(array) : i # n => array'[i] = array[i]
  <2>1. array' = [array EXCEPT ![n] = x]
    BY <1>3, <1>6 DEF Opt!Set
  <2> QED BY ONLY <1>1, <1>7, <1>8, <2>1
<1>10. /\ DOMAIN slice' = Tests /\ DOMAIN todo' = Tests /\ DOMAIN at' = Tests
       /\ \A u \in Tests \ {t} : slice'[u] = slice[u] /\ todo'[u] = todo[u] /\ at'[u] = at[u]
       /\ slice'[t] = Opt!Shared(n)
       /\ \/ Len(h) = 1 /\ todo'[t] = Tail(d) /\ at'[t] = "append"
          \/ Len(h) # 1 /\ todo'[t] = [d EXCEPT ![1] = Tail(h)] /\ at'[t] = "store"
  <2>1. PICK v, e : v = Opt!Shared(n) /\ e = Tail(d)
    OBVIOUS
  <2>2. DOMAIN slice' = Tests /\ slice'[t] = v /\ \A u \in Tests \ {t} : slice'[u] = slice[u]
    BY <1>1, <1>3, <2>1, SetsOne
  <2>3. CASE Len(h) = 1 /\ todo' = Opt!Set(todo, t, Tail(d)) /\ at' = Opt!Set(at, t, "append")
    <3>1. todo' = Opt!Set(todo, t, e) /\ at' = Opt!Set(at, t, "append")
      BY Zenon, <2>1, <2>3
    <3>2. /\ DOMAIN todo' = Tests /\ DOMAIN at' = Tests
          /\ \A u \in Tests \ {t} : todo'[u] = todo[u] /\ at'[u] = at[u]
          /\ todo'[t] = e /\ at'[t] = "append"
      BY ONLY <1>1, <3>1, SetsOne
    <3> QED BY Zenon, <2>1, <2>2, <2>3, <3>2
  <2>4. CASE Len(h) # 1 /\ todo' = [todo EXCEPT ![t][1] = Tail(h)] /\ at' = at
    <3>1. /\ DOMAIN todo' = Tests /\ \A u \in Tests \ {t} : todo'[u] = todo[u]
          /\ todo'[t] = [todo[t] EXCEPT ![1] = Tail(h)]
      BY <1>1, <2>4
    <3>2. at'[t] = "store" /\ DOMAIN at' = Tests /\ \A u \in Tests \ {t} : at'[u] = at[u]
      BY <1>1, <1>3, <2>4
    <3> QED BY Zenon, <1>2, <2>1, <2>2, <2>4, <3>1, <3>2
  <2> QED BY Zenon, <1>3, <2>3, <2>4
<1>11. /\ UNCHANGED <<followed, common, spare, short, entry, flags, applied, o, settings,
                      overlapping>>
  BY <1>3
<1>12. Fixed /\ Called(t) /\ \A u \in Tests \ {t} : Untouched(u)
  BY <1>10, <1>11 DEF Fixed, Called, Untouched
<1>13. todo'[t] = Todo(t, k + 1) /\ at'[t] \in {"append", "store"}
  BY <1>5, <1>10
<1>14. /\ SliceOf(slice[t])' /\ slice'[t].shared = TRUE /\ slice'[t].len = n
       /\ slice'[t].items = <<>> /\ \A m : Opt!Item(t, m)' = array'[m]
  <2>1. n <= Len(array')
    BY <1>8, <1>9, <1>1
  <2> QED BY <1>8, <1>10, <2>1, SharedSlice
<1>15. Steady'
  <2>1. DOMAIN entry' = Tests /\ DOMAIN flags' = Tests /\ DOMAIN applied' = Tests
        /\ DOMAIN o' = Tests /\ DOMAIN settings' = Tests /\ overlapping' \subseteq Tests
    BY <1>11 DEF Gathering, Steady
  <2>2. Len(array') = Len(common') + spare' /\ spare' \in Nat /\ CommonTyped'
    BY <1>1, <1>9, <1>11 DEF CommonTyped
  <2>3. \A i \in 1..Len(common') : array'[i] = common'[i]
    <3>1. \A i \in 1..Len(common) : i \in 1..Len(array) /\ i # n
      BY <1>1, <1>5, <1>8
    <3> QED BY <1>1, <1>9, <1>11, <3>1
  <2> QED BY <1>9, <1>10, <2>1, <2>2, <2>3 DEF Steady
<1>16. Overlaps'
  <2>1. \A u \in Tests : at'[u] \in Busy => at[u] \in Busy
    BY <1>3, <1>10 DEF Busy
  <2> QED BY <1>1, <1>11, <2>1 DEF Overlaps
<1>17. Intended(t)' = Intended(t) /\ Added(t)' = Added(t) /\ \A j : Todo(t, j)' = Todo(t, j)
  BY <1>12, SameIntended
<1>18. Filled(t)' = k + 1 /\ k + 1 \in 0..Len(Added(t))
  <2>1. Filled(t)' = n - Len(common)
    BY <1>11, <1>14 DEF Filled
  <2>2. PICK m, l, c : m = Len(h) /\ l = Len(Added(t)) /\ c = Len(common)
    OBVIOUS
  <2>3. m \in {1, 2} /\ k \in Nat /\ l \in Nat /\ c \in Nat /\ k + m <= l /\ n = c + k + 1
    BY Zenon, <1>5, <1>8, <2>2
  <2>4. n - c = k + 1 /\ k + 1 \in 0..l
    BY ONLY <2>3
  <2> QED BY Zenon, <2>1, <2>2, <2>4
<1>19. Appending(t)'
  <2>1. CASE Len(h) = 1
    <3>1. at'[t] = "append" /\ (entry[t] = "Test" => k + 1 # 1)
      BY <1>5, <1>10, <2>1
    <3> QED BY <1>5, <1>11, <1>13, <1>17, <1>18, <3>1 DEF Appending
  <2>2. CASE Len(h) = 2
    <3>1. at'[t] = "store" /\ entry[t] = "Test"
      BY <1>5, <1>10, <2>2
    <3>2. PICK j, e, g : j = k + 1 /\ e = Todo(t, k + 1) /\ g = Head(Todo(t, k + 1))
      OBVIOUS
    <3>3. j \in 0..Len(Added(t)) /\ j # Len(Added(t)) /\ j # 0
      BY <1>5, <1>18, <2>2, <3>2
    <3>4. e # <<>> /\ Batch(g, e, Added(t), j) /\ Len(g) # 2
      BY <1>1, <3>1, <3>2, <3>3, TodoSays
    <3>5. Len(g) = 1
      BY <3>4 DEF Batch
    <3>6. n + Len(g) <= Len(array')
      <4>1. PICK q, l : q = slice[t].len /\ l = Len(array)
        OBVIOUS
      <4>2. q \in Nat /\ l \in Nat /\ q + 2 <= l /\ n = q + 1
        <5>1. q \in Nat /\ l \in Nat
          BY <1>1, <4>1 DEF Shape, SliceOf
        <5> QED BY Zenon, <1>2, <1>4, <2>2, <4>1, <5>1
      <4>3. n + 1 <= l
        BY ONLY <4>2
      <4> QED BY Zenon, <1>9, <3>5, <4>1, <4>3
    <3>7. todo'[t] = e /\ g = Head(todo'[t])
      BY <1>13, <3>2
    <3> QED BY <1>5, <1>11, <1>13, <1>14, <1>17, <1>18, <3>1, <3>4, <3>6, <3>7 DEF Appending
  <2> QED BY <1>5, <2>1, <2>2
<1>20. Shape(t)'
  <2>1. applied'[t] \in Nat /\ applied'[t] <= slice'[t].len
    BY <1>5, <1>8, <1>11, <1>14
  <2>2. at'[t] \in Places /\ at'[t] \notin {"idle", "parse", "usage"}
    BY <1>13 DEF Places
  <2>3. /\ entry'[t] \in {"Test", "Run"} /\ flags'[t] = <<>> /\ flags'[t] \in Lines
        /\ Recorder(o'[t]) /\ DOMAIN settings'[t] = Opt!Settings
    BY <1>1, <1>5, <1>11 DEF Shape
  <2> QED BY <1>14, <1>19, <2>1, <2>2, <2>3 DEF Shape
<1>21. Told(t)'
  <2>1. SUFFICES ASSUME ~Opt!Exposed(t)
                 PROVE  /\ \A m \in 1..n : array'[m] = Intended(t)[m]
                        /\ Matches(o[t], Intended(t), applied[t])
    <3>1. Opt!Exposed(t)' = Opt!Exposed(t)
      BY <1>11 DEF Opt!Exposed
    <3>2. Len(slice'[t].items) = 0
      BY <1>14
    <3> QED BY <1>11, <1>14, <1>17, <3>1, <3>2 DEF Told
  <2>2. /\ \A m \in 1..slice[t].len : array[m] = Intended(t)[m]
        /\ Matches(o[t], Intended(t), applied[t])
    BY <1>1, <1>3, <1>4, <2>1 DEF Told, Opt!Item
  <2>3. \A m \in 1..n : m = n \/ (m \in 1..slice[t].len /\ m # n /\ m \in 1..Len(array))
    BY <1>2, <1>5, <1>8, <1>1
  <2> QED BY <1>7, <1>9, <2>2, <2>3
<1>22. ASSUME NEW u \in Tests \ {t} PROVE Shape(u)' /\ Told(u)' /\ Kept(u)'
  <2>1. /\ Fixed /\ Untouched(u) /\ overlapping' = overlapping /\ Called(u)
        /\ at'[u] = at[u] /\ o'[u] = o[u] /\ settings'[u] = settings[u]
    BY <1>11, <1>12 DEF Untouched
  <2>2. Shape(u) /\ Told(u) /\ Kept(u)
    BY DEF Gathering
  <2>3. Shape(u)'
    BY <1>9, <2>1, <2>2, SameShape
  <2>4. \A m \in 1..slice[u].len :
            ~Opt!Exposed(u) /\ at[u] \in {"append", "store", "copy"} /\ slice[u].shared =>
                array'[m] = Intended(u)[m]
    <3> SUFFICES ASSUME NEW m \in 1..slice[u].len, ~Opt!Exposed(u),
                        at[u] \in {"append", "store", "copy"}, slice[u].shared
                 PROVE  array'[m] = Intended(u)[m]
      OBVIOUS
    <3>1. CASE m = n
      <4>1. h[1] = Intended(u)[slice[t].len + 1]
        BY <1>2, <1>3, <3>1, StoreElsewhere
      <4> QED BY <1>2, <1>7, <1>9, <3>1, <4>1
    <3>2. CASE m # n
      <4>1. array[m] = Intended(u)[m]
        BY <2>2 DEF Told, Opt!Item
      <4>2. m \in 1..Len(array)
        BY <1>1, <2>2 DEF Shape, SliceOf
      <4> QED BY <1>9, <3>2, <4>1, <4>2
    <3> QED BY <3>1, <3>2
  <2>5. Told(u)'
    BY <2>1, <2>2, <2>4, SameTold
  <2> QED BY <2>1, <2>2, <2>3, <2>5, SameKept
<1>23. Kept(t)'
  BY <1>13, NotEnded
<1>24. \A u \in Tests : Shape(u)' /\ Told(u)' /\ Kept(u)'
  BY <1>20, <1>21, <1>22, <1>23
<1> QED BY <1>15, <1>16, <1>24 DEF Gathering

LEMMA OnesJoined ==
    ASSUME NEW x, NEW y
    PROVE  <<x>> \o <<y>> = <<x, y>>
<1>1. PICK S : S = {x, y}
  OBVIOUS
<1>2. PICK p, q, r : p = <<x>> /\ q = <<y>> /\ r = p \o q
  OBVIOUS
<1>3. p \in Seq(S) /\ q \in Seq(S)
  BY <1>1, <1>2
<1>4. r \in Seq(S) /\ Joined(r, p, q)
  BY <1>2, <1>3, ConcatJoins
<1>5. Len(p) = 1 /\ Len(q) = 1 /\ p[1] = x /\ q[1] = y
  BY <1>2
<1>6. Len(r) = 2 /\ r[1] = x /\ r[2] = y
  <2>1. 1 \in 1..Len(p) /\ 1 \in 1..Len(q) /\ Len(p) + Len(q) = 2 /\ Len(p) + 1 = 2
    BY <1>5
  <2> QED BY <1>4, <1>5, <2>1 DEF Joined
<1>7. r = <<x, y>>
  BY <1>4, <1>6
<1> QED BY <1>2, <1>7

LEMMA CallStep ==
    ASSUME Gathering, NEW t \in Tests, followed' = followed,
           NEW how \in {"Test", "Run", "Workload"}, Opt!Call(t, how)
    PROVE  Gathering'
<1>1. /\ CommonTyped /\ Shape(t) /\ Overlaps /\ overlapping \subseteq Tests
      /\ DOMAIN at = Tests /\ DOMAIN entry = Tests /\ DOMAIN todo = Tests
      /\ array \in Seq(Listed) /\ spare \in Nat /\ Len(array) = Len(common) + spare
      /\ \A i \in 1..Len(common) : array[i] = common[i]
  BY DEF Gathering, Steady
<1>2. PICK d, p : /\ d = CASE how = "Test" -> Opt!TestOptions(t)
                           [] how = "Run" -> Opt!RunOptions
                           [] how = "Workload" -> <<>>
                  /\ p = IF how = "Workload" THEN "parse" ELSE "append"
  OBVIOUS
<1>3. /\ at[t] = "idle"
      /\ entry' = Opt!Set(entry, t, how) /\ todo' = Opt!Set(todo, t, d)
      /\ at' = Opt!Set(at, t, p)
      /\ overlapping' = IF Opt!InProgress = {} THEN overlapping
                        ELSE overlapping \cup Opt!InProgress \cup {t}
      /\ UNCHANGED <<common, spare, short, array, flags, slice, applied, o, settings>>
  BY Zenon, <1>2 DEF Opt!Call, Opt!Goto
<1>4. /\ DOMAIN entry' = Tests /\ DOMAIN todo' = Tests /\ DOMAIN at' = Tests
      /\ \A u \in Tests \ {t} : entry'[u] = entry[u] /\ todo'[u] = todo[u] /\ at'[u] = at[u]
      /\ entry'[t] = how /\ todo'[t] = d /\ at'[t] = p
  BY ONLY <1>1, <1>3, SetsOne
<1>5. UNCHANGED <<followed, common, spare, short, array, flags, slice, applied, o, settings>>
  BY <1>3
<1>6. Fixed /\ \A u \in Tests \ {t} : Untouched(u)
  BY <1>4, <1>5 DEF Fixed, Untouched, Called
<1>7. Opt!InProgress = {u \in Tests : at[u] \in Busy}
  BY DEF Opt!InProgress, Busy
<1>8. overlapping \subseteq overlapping' /\ overlapping' \subseteq Tests
  BY <1>1, <1>3, <1>7
<1>9. Started(t) /\ entry[t] = "none" /\ flags[t] = <<>> /\ SliceOf(slice[t])
  BY <1>1, <1>3 DEF Shape
<1>10. Steady'
  BY <1>4, <1>5, <1>8 DEF Gathering, Steady, CommonTyped
<1>11. Overlaps'
  <2>1. SUFFICES ASSUME NEW u \in Tests, NEW v \in Tests, u # v, at'[u] \in Busy, at'[v] \in Busy
                 PROVE  u \in overlapping' /\ v \in overlapping'
    BY DEF Overlaps
  <2>2. CASE u # t /\ v # t
    BY <1>1, <1>4, <1>8, <2>1, <2>2 DEF Overlaps
  <2>3. CASE u = t
    BY <1>3, <1>4, <1>7, <2>1, <2>3
  <2>4. CASE v = t
    BY <1>3, <1>4, <1>7, <2>1, <2>4
  <2> QED BY <2>2, <2>3, <2>4
<1>12. /\ slice'[t] = slice[t] /\ slice'[t].shared /\ slice'[t].len = Len(common)
       /\ slice'[t].items = <<>> /\ applied'[t] = 0 /\ o'[t] = Opt!NoOptions
       /\ flags'[t] = <<>> /\ flags'[t] \in Lines
       /\ Recorder(o'[t]) /\ DOMAIN settings'[t] = Opt!Settings
  BY <1>1, <1>5, <1>9 DEF Started, Shape
<1>13. SliceOf(slice[t])'
  BY <1>5, <1>9 DEF SliceOf
<1>14. Filled(t)' = 0 /\ Len(common) \in Nat
  <2>1. Len(common) \in Nat
    BY <1>1 DEF CommonTyped
  <2>2. Filled(t)' = Len(common) - Len(common)
    BY <1>5, <1>12 DEF Filled
  <2> QED BY <2>1, <2>2
<1>15. applied'[t] \in Nat /\ applied'[t] <= slice'[t].len
  BY <1>12, <1>14
<1>16. ASSUME how = "Workload" PROVE Shape(t)' /\ Told(t)' /\ Kept(t)'
  <2>1. p = "parse" /\ d = <<>>
    BY <1>2, <1>16
  <2>2. Started(t)'
    BY <1>4, <1>5, <1>12, <2>1 DEF Started
  <2>3. Shape(t)'
    BY <1>4, <1>12, <1>13, <1>15, <1>16, <2>1, <2>2 DEF Shape, Places
  <2>4. Told(t)' /\ Kept(t)'
    BY <1>4, <2>1 DEF Told, Kept
  <2> QED BY <2>3, <2>4
<1>17. ASSUME how # "Workload" PROVE Shape(t)' /\ Told(t)' /\ Kept(t)'
  <2>1. p = "append" /\ how \in {"Test", "Run"} /\ p \notin {"built", "rejected"}
    BY <1>2, <1>17
  <2>2. d = Todo(t, 0)'
    <3>1. CASE how = "Test" /\ short
      <4>1. d = Opt!TestOptions(t) /\ short' /\ entry'[t] = "Test"
        BY <1>2, <1>4, <1>5, <3>1
      <4>2. Opt!TestOptions(t) = <<<<Key(t), Writer(t)>>, <<Ten>>>>
        <5>1. PICK x, y : x = <<Key(t), Writer(t)>> /\ y = <<Ten>>
          OBVIOUS
        <5>2. Opt!TestOptions(t) = <<x>> \o <<y>>
          BY <3>1, <5>1 DEF Opt!TestOptions, Key, Writer, Ten
        <5>3. <<x>> \o <<y>> = <<x, y>>
          BY OnesJoined
        <5> QED BY Zenon, <5>1, <5>2, <5>3
      <4>3. Todo(t, 0)' = <<<<Key(t), Writer(t)>>, <<Ten>>>>
        BY <4>1 DEF Todo, Key, Writer, Ten
      <4> QED BY Zenon, <4>1, <4>2, <4>3
    <3>2. CASE how = "Test" /\ ~short
      <4>1. d = Opt!TestOptions(t) /\ ~short' /\ entry'[t] = "Test"
        BY <1>2, <1>4, <1>5, <3>2
      <4>2. Opt!TestOptions(t) = <<<<Key(t), Writer(t)>>>>
        BY <3>2 DEF Opt!TestOptions, Key, Writer
      <4>3. Todo(t, 0)' = <<<<Key(t), Writer(t)>>>>
        BY <4>1 DEF Todo, Key, Writer
      <4> QED BY Zenon, <4>1, <4>2, <4>3
    <3>3. CASE how = "Run"
      <4>1. d = Opt!RunOptions /\ entry'[t] # "Test"
        BY <1>2, <1>4, <3>3
      <4>2. Opt!RunOptions = <<<<StdOut>>>>
        BY DEF Opt!RunOptions, StdOut
      <4>3. Todo(t, 0)' = <<<<StdOut>>>>
        BY <4>1 DEF Todo, StdOut
      <4> QED BY Zenon, <4>1, <4>2, <4>3
    <3> QED BY <2>1, <3>1, <3>2, <3>3
  <2>3. PICK a, s : a = Added(t)' /\ s = Intended(t)'
    OBVIOUS
  <2>4. a \in Seq(Known) /\ Len(a) \in Nat
    <3>1. Key(t) \in Known /\ Writer(t) \in Known /\ Ten \in Known /\ StdOut \in Known
      BY OwnedKnown DEF Owned
    <3>2. a \in {<<Key(t), Writer(t), Ten>>, <<Key(t), Writer(t)>>, <<StdOut>>}
      BY <2>3 DEF Added, Key, Writer, Ten, StdOut
    <3>3. a \in Seq(Known)
      <4>1. PICK x, y, z, w : x = Key(t) /\ y = Writer(t) /\ z = Ten /\ w = StdOut
        OBVIOUS
      <4>2. /\ x \in Known /\ y \in Known /\ z \in Known /\ w \in Known
            /\ a \in {<<x, y, z>>, <<x, y>>, <<w>>}
        BY Zenon, <3>1, <3>2, <4>1
      <4>3. <<x, y, z>> \in Seq(Known) /\ <<x, y>> \in Seq(Known) /\ <<w>> \in Seq(Known)
        BY <4>2
      <4> QED BY Zenon, <4>2, <4>3
    <3> QED BY <3>3
  <2>5. s = common \o a
    BY <1>4, <1>5, <1>17, <2>3 DEF Intended
  <2>6. \A n \in 1..Len(common) : s[n] = common[n]
    <3>1. common \in Seq(Known)
      BY <1>1, CommonKnown
    <3>2. Joined(s, common, a)
      BY <2>4, <2>5, <3>1, ConcatJoins
    <3> QED BY <3>2 DEF Joined
  <2>7. Appending(t)'
    <3>1. Filled(t)' \in 0..Len(Added(t)') /\ Filled(t)' # 1
      BY <1>14, <2>3, <2>4
    <3>2. todo'[t] = Todo(t, Filled(t))'
      BY <1>4, <1>14, <2>2
    <3> QED BY <1>4, <1>12, <2>1, <3>1, <3>2 DEF Appending
  <2>8. Shape(t)'
    BY <1>4, <1>12, <1>13, <1>15, <2>1, <2>7 DEF Shape, Places
  <2>9. Told(t)'
    <3>1. Matches(o'[t], s, applied'[t])
      BY <1>12, MatchesNone
    <3>2. \A n \in 1..slice'[t].len : Opt!Item(t, n)' = s[n]
      BY <1>1, <1>5, <1>12, <2>6 DEF Opt!Item
    <3>3. Len(slice'[t].items) = 0
      BY <1>12
    <3> QED BY <2>3, <3>1, <3>2, <3>3 DEF Told
  <2> QED BY <1>4, <2>1, <2>8, <2>9, NotEnded
<1>18. ASSUME NEW u \in Tests \ {t} PROVE Shape(u)' /\ Told(u)' /\ Kept(u)'
  <2>1. /\ Fixed /\ Untouched(u) /\ array' = array /\ Called(u)
        /\ at'[u] = at[u] /\ o'[u] = o[u] /\ settings'[u] = settings[u]
    BY <1>5, <1>6 DEF Untouched
  <2>2. Shape(u) /\ Told(u) /\ Kept(u)
    BY DEF Gathering
  <2>3. Shape(u)'
    BY <2>1, <2>2, SameShape
  <2>4. Told(u)'
    <3>1. \A n \in 1..slice[u].len :
            ~Opt!Exposed(u) /\ at[u] \in {"append", "store", "copy"} /\ slice[u].shared =>
                array'[n] = Intended(u)[n]
      BY <2>1, <2>2 DEF Told, Opt!Item
    <3> QED BY <1>8, <2>1, <2>2, <3>1, SameTold
  <2> QED BY <1>8, <2>1, <2>2, <2>3, <2>4, SameKept
<1>19. \A u \in Tests : Shape(u)' /\ Told(u)' /\ Kept(u)'
  BY <1>16, <1>17, <1>18
<1> QED BY <1>10, <1>11, <1>19 DEF Gathering

-----------------------------------------------------------------------------
(* The invariant.                                                           *)
LEMMA GatheringInit == TestsInit => Gathering
<1> SUFFICES ASSUME TestsInit PROVE Gathering
  OBVIOUS
<1>1. /\ common \in Slices /\ spare \in Spares /\ short \in BOOLEAN
      /\ array = common \o [i \in 1..spare |-> Opt!NilOption]
      /\ entry = [t \in Tests |-> "none"] /\ flags = [t \in Tests |-> <<>>]
      /\ at = [t \in Tests |-> "idle"]
      /\ slice = [t \in Tests |-> Opt!Shared(Len(common))]
      /\ todo = [t \in Tests |-> <<>>] /\ applied = [t \in Tests |-> 0]
      /\ o = [t \in Tests |-> Opt!NoOptions]
      /\ settings = [t \in Tests |-> Opt!NoSettings] /\ overlapping = {}
  BY Zenon DEF TestsInit, Opt!Init
<1>2. CommonTyped /\ spare \in Nat
  BY <1>1, TestsAssumption DEF CommonTyped, Fields
<1>3. /\ array \in Seq(Listed) /\ Len(array) = Len(common) + spare
      /\ \A i \in 1..Len(common) : array[i] = common[i]
  <2>1. PICK n : n = [i \in 1..spare |-> Opt!NilOption]
    OBVIOUS
  <2>2. Opt!NilOption \in Listed
    BY DEF Opt!NilOption, Opt!Option, Opt!Unset, Listed
  <2>3. n \in Seq(Listed) /\ Len(n) = spare
    BY <1>2, <2>1, <2>2
  <2>4. common \in Seq(Listed)
    BY <1>2, CommonKnown, KnownListed
  <2>5. array \in Seq(Listed) /\ Joined(array, common, n)
    BY <1>1, <2>1, <2>3, <2>4, ConcatJoins
  <2> QED BY <2>3, <2>5 DEF Joined
<1>4. Steady
  BY <1>1, <1>2, <1>3 DEF Steady
<1>5. Overlaps
  BY <1>1 DEF Overlaps, Busy
<1>6. ASSUME NEW t \in Tests PROVE Shape(t) /\ Told(t) /\ Kept(t)
  <2>1. /\ slice[t] = [shared |-> TRUE, len |-> Len(common), items |-> <<>>]
        /\ entry[t] = "none" /\ flags[t] = <<>> /\ at[t] = "idle" /\ todo[t] = <<>>
        /\ applied[t] = 0 /\ o[t] = Opt!NoOptions /\ settings[t] = Opt!NoSettings
    BY <1>1 DEF Opt!Shared
  <2>2. PICK e, m, s : e = <<>> /\ m = Len(common) /\ s = slice[t]
    OBVIOUS
  <2>3. s = [shared |-> TRUE, len |-> m, items |-> e]
    BY Zenon, <2>1, <2>2
  <2>4. /\ s = [shared |-> s.shared, len |-> s.len, items |-> s.items]
        /\ s.shared = TRUE /\ s.len = m /\ s.items = e
    BY ONLY <2>3
  <2>5. m \in Nat /\ m <= Len(array) /\ e \in Seq(Listed)
    BY <1>2, <1>3, <2>2 DEF CommonTyped
  <2>6. SliceOf(s)
    BY <2>4, <2>5 DEF SliceOf
  <2>7. Started(t)
    BY <2>1, <2>2, <2>4 DEF Started
  <2>8. Recorder(o[t]) /\ DOMAIN settings[t] = Opt!Settings
    <3>1. Matches(Opt!NoOptions, <<>>, 0)
      BY MatchesNone
    <3> QED BY <2>1, <3>1 DEF Matches, Opt!NoSettings
  <2>9. flags[t] \in Lines
    BY <2>1 DEF Lines
  <2> QED BY <2>1, <2>2, <2>4, <2>5, <2>6, <2>7, <2>8, <2>9 DEF Shape, Told, Kept, Places
<1> QED BY <1>4, <1>5, <1>6 DEF Gathering

LEMMA GatheringNext ==
    ASSUME Gathering, NEW t \in Tests, followed' = followed, Opt!Step(t)
    PROVE  Gathering'
<1>1. CASE \E how \in {"Test", "Run", "Workload"} : Opt!Call(t, how)
  BY <1>1, CallStep
<1>2. CASE Opt!Parse(t)
  BY <1>2, ParseStep
<1>3. CASE Opt!AppendOwn(t)
  BY <1>3, AppendOwnStep
<1>4. CASE Opt!AppendShared(t)
  BY <1>4, AppendSharedStep
<1>5. CASE Opt!Store(t)
  BY <1>5, StoreStep
<1>6. CASE Opt!Copy(t)
  BY <1>6, CopyStep
<1>7. CASE Opt!Apply(t)
  BY <1>7, ApplyStep
<1>8. CASE Opt!BuildSettings(t)
  BY <1>8, BuildSettingsStep
<1> QED BY Zenon, <1>1, <1>2, <1>3, <1>4, <1>5, <1>6, <1>7, <1>8 DEF Opt!Step

LEMMA GatheringKept ==
    ASSUME Gathering, UNCHANGED <<optionVars, followed>>
    PROVE  Gathering'
<1>1. /\ Fixed /\ array' = array /\ overlapping' = overlapping /\ at' = at
      /\ \A u \in Tests : Untouched(u) /\ Called(u) /\ o'[u] = o[u] /\ settings'[u] = settings[u]
  BY DEF optionVars, Fixed, Untouched, Called
<1>2. Steady'
  BY DEF Gathering, Steady, CommonTyped, optionVars
<1>3. Overlaps'
  BY <1>1 DEF Gathering, Overlaps
<1>4. ASSUME NEW u \in Tests PROVE Shape(u)' /\ Told(u)' /\ Kept(u)'
  <2>1. Shape(u) /\ Told(u) /\ Kept(u)
    BY DEF Gathering
  <2>2. Shape(u)'
    BY <1>1, <2>1, SameShape
  <2>3. Told(u)'
    <3>1. \A n \in 1..slice[u].len :
            ~Opt!Exposed(u) /\ at[u] \in {"append", "store", "copy"} /\ slice[u].shared =>
                array'[n] = Intended(u)[n]
      BY <1>1, <2>1 DEF Told, Opt!Item
    <3> QED BY <1>1, <2>1, <3>1, SameTold
  <2>4. Kept(u)'
    BY <1>1, <2>1, SameKept
  <2> QED BY <2>2, <2>3, <2>4
<1> QED BY <1>2, <1>3, <1>4 DEF Gathering

LEMMA Forgotten == Opt!Forget => (Opt!TypeOK /\ \A t \in Tests : at[t] = "idle")'
<1> SUFFICES ASSUME Opt!Forget PROVE (Opt!TypeOK /\ \A t \in Tests : at[t] = "idle")'
  OBVIOUS
<1>1. /\ common' = <<>> /\ spare' = 0 /\ array' = <<>> /\ overlapping' = {}
      /\ entry' = [t \in Tests |-> "none"] /\ at' = [t \in Tests |-> "idle"]
      /\ slice' = [t \in Tests |-> Opt!Own(<<>>)] /\ applied' = [t \in Tests |-> 0]
      /\ settings' = [t \in Tests |-> Opt!NoSettings]
  BY Zenon DEF Opt!Forget
<1>2. Len(array') = Len(common') + spare'
  BY <1>1
<1>3. ASSUME NEW t \in Tests
      PROVE  /\ at'[t] = "idle" /\ entry'[t] = "none" /\ ~slice'[t].shared
             /\ applied'[t] <= slice'[t].len /\ DOMAIN settings'[t] = Opt!Settings
  <2>1. PICK e, m : e = <<>> /\ m = Len(<<>>)
    OBVIOUS
  <2>2. slice'[t] = [shared |-> FALSE, len |-> m, items |-> e]
    BY Zenon, <1>1, <2>1 DEF Opt!Own
  <2>3. m = 0
    BY <2>1
  <2>4. ~slice'[t].shared /\ slice'[t].len = 0
    BY ONLY <2>2, <2>3
  <2> QED BY <1>1, <2>4 DEF Opt!NoSettings
<1> QED BY <1>1, <1>2, <1>3 DEF Opt!TypeOK

LEMMA OptionsNext == OptionsInv /\ [TestsNext]_allVars => OptionsInv'
<1> SUFFICES ASSUME OptionsInv, [TestsNext]_allVars PROVE OptionsInv'
  OBVIOUS
<1>1. CASE GatherOptions
  <2>1. followed = NoTest /\ followed' = followed /\ \E t \in Tests : Opt!Step(t)
    BY <1>1 DEF GatherOptions
  <2>2. Gathering
    BY <2>1 DEF OptionsInv
  <2>3. Gathering'
    BY <2>1, <2>2, GatheringNext
  <2> QED BY <2>1, <2>3 DEF OptionsInv
<1>2. CASE StartRun
  <2>1. followed' \in Tests /\ Opt!Forget
    BY <1>2 DEF StartRun
  <2>2. followed' # NoTest
    BY <2>1, TestsAssumption
  <2> QED BY <2>1, <2>2, Forgotten DEF OptionsInv
<1>3. CASE UNCHANGED <<optionVars, followed>>
  <2>1. CASE followed = NoTest
    <3>1. Gathering'
      BY <1>3, <2>1, GatheringKept DEF OptionsInv
    <3> QED BY <1>3, <2>1, <3>1 DEF OptionsInv
  <2>2. CASE followed # NoTest
    <3>1. Opt!TypeOK /\ \A t \in Tests : at[t] = "idle"
      BY <2>2 DEF OptionsInv
    <3>2. (Opt!TypeOK /\ \A t \in Tests : at[t] = "idle")'
      BY <1>3, <3>1 DEF optionVars, Opt!TypeOK
    <3> QED BY <1>3, <2>2, <3>2 DEF OptionsInv
  <2> QED BY <2>1, <2>2
<1> QED BY <1>1, <1>2, <1>3 DEF TestsNext, FollowRun, AllEnded, allVars

LEMMA OptionsKept == TestsSpec => []OptionsInv
<1>1. TestsInit => OptionsInv
  BY GatheringInit DEF OptionsInv, TestsInit
<1> QED BY <1>1, OptionsNext, PTL DEF TestsSpec

(* The settings and the writer of a run are those its options promise,      *)
(* unless another call wrote into the array they share.                     *)
THEOREM OptionsAsPromised == TestsSpec => []OwnSettingsUnlessShared
<1>1. ASSUME OptionsInv PROVE OwnSettingsUnlessShared
  <2>1. CASE followed = NoTest
    BY <1>1, <2>1 DEF OptionsInv, Gathering, Kept, OwnSettingsUnlessShared,
                      Opt!OwnSettingsUnlessShared
  <2>2. CASE followed # NoTest
    BY <1>1, <2>2 DEF OptionsInv, OwnSettingsUnlessShared, Opt!OwnSettingsUnlessShared
  <2> QED BY <2>1, <2>2
<1> QED BY <1>1, OptionsKept, PTL

LEMMA GatheringTyped == Gathering => Opt!TypeOK
BY DEF Gathering, Steady, Shape, SliceOf, Places, Opt!TypeOK

(* Both halves stay well-formed: the run's state, and for every call its    *)
(* slices, its settings and the array it shares with the others.            *)
THEOREM TestsTyped == TestsSpec => []TestsTypeOK
<1>1. TestsSpec => []TypeOK
  BY TestsAreRuns, TypeCorrect, PTL
<1>2. OptionsInv => Opt!TypeOK /\ followed \in Tests \cup {NoTest}
  BY GatheringTyped DEF OptionsInv
<1>3. TypeOK /\ OptionsInv => TestsTypeOK
  BY <1>2 DEF TestsTypeOK
<1> QED BY <1>1, <1>3, OptionsKept, PTL
=============================================================================
