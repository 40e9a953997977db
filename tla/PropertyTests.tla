--------------------------- MODULE PropertyTests ---------------------------
(***************************************************************************)
(* Property tests as a package runs them: several goroutines call Test,    *)
(* Run or Workload with the same slice of options (Options), and what      *)
(* comes of the options of one of them is followed through its run         *)
(* (PropertyRun).  Once started, runs share nothing that is modelled, so   *)
(* one is enough.                                                          *)
(***************************************************************************)
EXTENDS PropertyRun

CONSTANTS
    Tests, Slices, Spares, CommandLines, Unreadable, Profiles, Rejected,   \* of Options
    NoTest

VARIABLES
    common, spare, short, array, entry, flags, at, slice, todo, applied, o,
    settings, overlapping,
    followed      \* the test whose run is followed

Opt == INSTANCE Options

(* Options are made by the library's functions, flags are those it defines, *)
(* profiles are complete, and the engine takes what the library sets itself. *)
Texts == UNION {UNION {s[i].value : i \in DOMAIN s} : s \in Slices \cup CommandLines}
OptionsOf(fields) == [field : fields, value : SUBSET Texts]

ASSUME TestsAssumption ==
    /\ NoTest \notin Tests
    /\ Slices \subseteq Seq(OptionsOf(Opt!Settings \cup {"output", "profile"}))
    /\ CommandLines \subseteq Seq(OptionsOf(Opt!FlagNames))
    /\ Spares \subseteq Nat
    /\ \A name \in DOMAIN Profiles :
            Profiles[name] = [f \in Opt!Settings |-> Profiles[name][f]]
    /\ Rejected \cap (Tests \cup {"ten", "unbounded"}) = {}

optionVars ==
    <<common, spare, short, array, entry, flags, at, slice, todo, applied, o,
      settings, overlapping>>
allVars == <<vars, optionVars, followed>>

TestsInit == Init /\ Opt!Init /\ followed = NoTest

GatherOptions ==
    /\ followed = NoTest
    /\ \E t \in Tests : Opt!Step(t)
    /\ UNCHANGED <<vars, followed>>

(* runWithContext goes on with the settings and the writer of one call when *)
(* no other is at the slice any more.                                       *)
StartRun ==
    /\ followed = NoTest
    /\ \A t \in Tests : at[t] = "idle" \/ Opt!Ended(t)
    /\ \E t \in Tests :
        /\ at[t] = "built"
        /\ followed' = t
        /\ Start
        /\ hasOutput' = (o[t].output # Opt!Unset)
        /\ printBlob' = (settings[t]["printBlob"] = {"yes"})
    /\ Opt!Forget

FollowRun ==
    /\ \/ NextTestCase \/ RunCase \/ RunResult
       \/ ReportCaptured \/ NotReportable \/ Replay \/ ReportDone
    /\ UNCHANGED <<optionVars, followed>>

(* No run was started, or the one that was has ended.                       *)
AllEnded ==
    /\ phase = "ended" \/ \A t \in Tests : at[t] \in {"rejected", "usage"}
    /\ UNCHANGED allVars

TestsNext == GatherOptions \/ StartRun \/ FollowRun \/ AllEnded

TestsSpec == TestsInit /\ [][TestsNext]_allVars

-----------------------------------------------------------------------------
(* Properties.                                                              *)

TestsTypeOK == TypeOK /\ Opt!TypeOK /\ followed \in Tests \cup {NoTest}

(* The settings and the writer of a run are those its options promise,      *)
(* unless another call wrote into the array they share.                     *)
OwnSettingsUnlessShared == Opt!OwnSettingsUnlessShared

(* The comment on withDatabaseKey: "only [Test] supplies a key, deriving it *)
(* from t.Name()"; that on withOutput: "[Run] sets it to [os.Stdout],       *)
(* [Test] to t.Output()".                                                   *)
OwnKeyAndOutput == Opt!OwnKeyAndOutput
=============================================================================
