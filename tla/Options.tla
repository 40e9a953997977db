------------------------------ MODULE Options ------------------------------
(***************************************************************************)
(* The options of Test, Run, MustRun and Workload, from the slice that the *)
(* caller passes to the settings that the engine is started with           *)
(* (runner.go, workload.go).                                               *)
(*                                                                         *)
(* An option is a function that records what to set; here it is the field  *)
(* and the value: the output, the profile, or a setting of the engine.  A  *)
(* value is a set, of one element but for the mask of health checks, and   *)
(* the empty set is what nobody has set.                                   *)
(* All calls are given one slice, `common...`, as a package does that      *)
(* keeps its options in one variable.  Test and Run append their own       *)
(* options to it: an append with enough spare capacity writes into the     *)
(* backing array that all these calls share, element by element; one       *)
(* without copies the elements into an array of its own.  Workload always  *)
(* starts a slice of its own.                                              *)
(***************************************************************************)
EXTENDS Naturals, Sequences, FiniteSetsExt, SequencesExt

CONSTANTS
    Tests,         \* goroutines, with one call each; also its name, writer, location
    Slices,        \* the options that callers share
    Spares,        \* the spare capacities of their backing array
    CommandLines,  \* the flags a workload may be given, in the order they are written
    Unreadable,    \* the texts that the flags' Set methods refuse
    Profiles,      \* the settings profiles: the settings of each name
    Rejected       \* the values that the engine refuses

Settings == {"testCases", "database", "databaseKey", "derandomize", "printBlob",
             "testLocation", "suppressHealthCheck"}
Unset == {}
Option(field, value) == [field |-> field, value |-> value]
NilOption == Option("nil", Unset)

VARIABLES
    common,       \* the caller's options
    spare,        \* the spare capacity of the array they are in
    short,        \* testing.Short()
    array,        \* that array
    entry,        \* the function each goroutine calls
    flags,        \* the flags a workload was given
    at,           \* each goroutine's place
    slice,        \* its opts or allOpts: in the shared array, or its own items
    todo,         \* the options it still has to append, by call of append
    applied,      \* how many options run's loop has applied
    o,            \* its runOptions
    settings,     \* what buildSettings returned
    overlapping   \* history: calls that were in progress at the same time

callVars == <<entry, flags, at, slice, todo, applied, o, settings>>
optionVars == <<common, spare, short, array, callVars, overlapping>>

Shared(n) == [shared |-> TRUE, len |-> n, items |-> <<>>]
Own(items) == [shared |-> FALSE, len |-> Len(items), items |-> items]
DefaultProfile == {""}
NoOptions == [appliers |-> <<>>, profile |-> DefaultProfile, output |-> Unset]
NoSettings == [f \in Settings |-> Unset]

Init ==
    /\ common \in Slices
    /\ spare \in Spares
    /\ short \in BOOLEAN
    /\ array = common \o [i \in 1..spare |-> NilOption]
    /\ entry = [t \in Tests |-> "none"]
    /\ flags = [t \in Tests |-> <<>>]
    /\ at = [t \in Tests |-> "idle"]
    /\ slice = [t \in Tests |-> Shared(Len(common))]
    /\ todo = [t \in Tests |-> <<>>]
    /\ applied = [t \in Tests |-> 0]
    /\ o = [t \in Tests |-> NoOptions]
    /\ settings = [t \in Tests |-> NoSettings]
    /\ overlapping = {}

Set(f, t, value) == [f EXCEPT ![t] = value]
Goto(t, place) == at' = Set(at, t, place)

-----------------------------------------------------------------------------
(* Putting the slice together.                                              *)

TestOptions(t) ==
    <<<<Option("databaseKey", {t}), Option("output", {t})>>>>
    \o (IF short THEN <<<<Option("testCases", {"ten"})>>>> ELSE <<>>)
RunOptions == <<<<Option("output", {"stdout"})>>>>

InProgress == {t \in Tests : at[t] \in {"append", "store", "copy", "parse"}}

Call(t, how) ==
    /\ at[t] = "idle"
    /\ entry' = Set(entry, t, how)
    /\ todo' = Set(todo, t, CASE how = "Test" -> TestOptions(t)
                              [] how = "Run" -> RunOptions
                              [] how = "Workload" -> <<>>)
    /\ Goto(t, IF how = "Workload" THEN "parse" ELSE "append")
    /\ overlapping' = IF InProgress = {} THEN overlapping
                      ELSE overlapping \cup InProgress \cup {t}
    /\ UNCHANGED <<common, spare, short, array, flags, slice, applied, o, settings>>

(* The flags' Set methods: a repeated flag counts as its last occurrence,   *)
(* but health checks accumulate; Visit goes by name.                        *)
FlagNames == {"database", "derandomize", "suppressHealthCheck", "testCases"}
Given(line, name) == {i \in DOMAIN line : line[i].field = name}

FlagValue(line, name) ==
    IF name = "suppressHealthCheck" THEN UNION {line[i].value : i \in Given(line, name)}
    ELSE line[Max(Given(line, name))].value

Visited(line, name) ==
    IF Given(line, name) = {} THEN <<>> ELSE <<Option(name, FlagValue(line, name))>>

FlagOptions(line) ==
    Visited(line, "database") \o Visited(line, "derandomize")
    \o Visited(line, "suppressHealthCheck") \o Visited(line, "testCases")

(* Flags ahead of the program's options: a faulty variant of                *)
(* WorkloadOptions.                                                         *)
FlagsFirst(line) ==
    <<Option("testCases", {"unbounded"})>> \o FlagOptions(line) \o common
    \o <<Option("output", {"stdout"})>>

WorkloadOptions(line) ==
    <<Option("testCases", {"unbounded"})>> \o common \o FlagOptions(line)
    \o <<Option("output", {"stdout"})>>

Unreadables(line) == {i \in DOMAIN line : line[i].value \cap Unreadable # {}}

(* Without a readable command line, --help included, there is no run.       *)
Parse(t) ==
    /\ at[t] = "parse"
    /\ \E line \in CommandLines :
        /\ flags' = Set(flags, t, line)
        /\ IF Unreadables(line) # {}
           THEN Goto(t, "usage") /\ UNCHANGED slice
           ELSE /\ slice' = Set(slice, t, Own(WorkloadOptions(line)))
                /\ Goto(t, "append")
    /\ UNCHANGED <<common, spare, short, array, entry, todo, applied, o, settings,
                   overlapping>>

(* append(slice, Head(todo)...): in an array of one's own, ...              *)
AppendOwn(t) ==
    /\ at[t] = "append" /\ todo[t] # <<>>
    /\ ~slice[t].shared
    /\ slice' = Set(slice, t, Own(slice[t].items \o Head(todo[t])))
    /\ todo' = Set(todo, t, Tail(todo[t]))
    /\ UNCHANGED <<common, spare, short, array, entry, flags, at, applied, o, settings,
                   overlapping>>

(* ... in the spare capacity of the shared one, or after copying it.        *)
Fits(t) == slice[t].len + Len(Head(todo[t])) <= Len(array)

AppendShared(t) ==
    /\ at[t] = "append" /\ todo[t] # <<>>
    /\ slice[t].shared
    /\ Goto(t, IF Fits(t) THEN "store" ELSE "copy")
    /\ UNCHANGED <<common, spare, short, array, entry, flags, slice, todo, applied, o,
                   settings, overlapping>>

Store(t) ==
    /\ at[t] = "store"
    /\ LET batch == Head(todo[t]) n == slice[t].len + 1 IN
        /\ array' = Set(array, n, Head(batch))
        /\ slice' = Set(slice, t, Shared(n))
        /\ IF Len(batch) = 1
           THEN todo' = Set(todo, t, Tail(todo[t])) /\ Goto(t, "append")
           ELSE todo' = [todo EXCEPT ![t][1] = Tail(batch)] /\ UNCHANGED at
    /\ UNCHANGED <<common, spare, short, entry, flags, applied, o, settings, overlapping>>

Copy(t) ==
    /\ at[t] = "copy"
    /\ LET copied == slice[t].items IN
        \/ /\ Len(copied) < slice[t].len
           /\ slice' = [slice EXCEPT ![t].items = Append(copied, array[Len(copied) + 1])]
           /\ UNCHANGED <<todo, at>>
        \/ /\ Len(copied) = slice[t].len
           /\ slice' = Set(slice, t, Own(copied \o Head(todo[t])))
           /\ todo' = Set(todo, t, Tail(todo[t]))
           /\ Goto(t, "append")
    /\ UNCHANGED <<common, spare, short, array, entry, flags, applied, o, settings,
                   overlapping>>

-----------------------------------------------------------------------------
(* run and buildSettings.                                                   *)

Item(t, n) == IF slice[t].shared THEN array[n] ELSE slice[t].items[n]

Recorded(before, option) ==
    CASE option.field = "output" -> [before EXCEPT !.output = option.value]
      [] option.field = "profile" -> [before EXCEPT !.profile = option.value]
      [] OTHER -> [before EXCEPT !.appliers = Append(@, option)]

(* One turn of the loop of run: the option is read from the array now.      *)
Apply(t) ==
    /\ at[t] = "append" /\ todo[t] = <<>>
    /\ applied[t] < slice[t].len
    /\ o' = Set(o, t, Recorded(o[t], Item(t, applied[t] + 1)))
    /\ applied' = Set(applied, t, applied[t] + 1)
    /\ UNCHANGED <<common, spare, short, array, entry, flags, at, slice, todo, settings,
                   overlapping>>

(* Every applier is called on the settings; the engine's refusals are       *)
(* joined.                                                                  *)
Errors(appliers) == {a \in Range(appliers) : a.value \cap Rejected # {}}

(* Later appliers override earlier ones.                                    *)
Overridden(base, appliers) ==
    FoldLeft(LAMBDA s, a : [s EXCEPT ![a.field] = a.value], base, appliers)

(* The rest of run, up to RunStart: the location is recorded last.          *)
BuildSettings(t) ==
    /\ at[t] = "append" /\ todo[t] = <<>>
    /\ applied[t] = slice[t].len
    /\ LET appliers == Append(o[t].appliers, Option("testLocation", {t})) IN
        IF o[t].profile \notin DOMAIN Profiles \/ Errors(appliers) # {}
        THEN Goto(t, "rejected") /\ UNCHANGED settings
        ELSE /\ settings' = Set(settings, t, Overridden(Profiles[o[t].profile], appliers))
             /\ Goto(t, "built")
    /\ UNCHANGED <<common, spare, short, array, entry, flags, slice, todo, applied, o,
                   overlapping>>

Step(t) ==
    \/ \E how \in {"Test", "Run", "Workload"} : Call(t, how)
    \/ Parse(t) \/ AppendOwn(t) \/ AppendShared(t) \/ Store(t) \/ Copy(t)
    \/ Apply(t) \/ BuildSettings(t)

Ended(t) == at[t] \in {"built", "rejected", "usage"}

(* The calls are over and nothing refers to their options any more.         *)
Forget ==
    /\ common' = <<>> /\ spare' = 0 /\ short' = FALSE /\ array' = <<>>
    /\ entry' = [t \in Tests |-> "none"]
    /\ flags' = [t \in Tests |-> <<>>]
    /\ at' = [t \in Tests |-> "idle"]
    /\ slice' = [t \in Tests |-> Own(<<>>)]
    /\ todo' = [t \in Tests |-> <<>>]
    /\ applied' = [t \in Tests |-> 0]
    /\ o' = [t \in Tests |-> NoOptions]
    /\ settings' = [t \in Tests |-> NoSettings]
    /\ overlapping' = {}

-----------------------------------------------------------------------------
(* Properties.                                                              *)

TypeOK ==
    /\ Len(array) = Len(common) + spare
    /\ \A t \in Tests :
        /\ entry[t] \in {"none", "Test", "Run", "Workload"}
        /\ at[t] \in {"idle", "parse", "append", "store", "copy", "built", "rejected",
                      "usage"}
        /\ slice[t].shared => slice[t].len <= Len(array)
        /\ applied[t] <= slice[t].len
        /\ DOMAIN settings[t] = Settings
    /\ overlapping \subseteq Tests

(* The value that the last option for `field` gives.                        *)
LastWord(options, field) == options[Max(Given(options, field))].value

(* The settings and the writer that the comments on the options promise:    *)
(* "Other options override the profile"; "When testing.Short is true, Test  *)
(* reduces the number of test cases, overriding WithTestCases and profile   *)
(* settings"; a workload's "opts are overridden by flags", and it "runs for *)
(* an unbounded amount of time unless overridden via an option or flag".    *)
Profile ==
    IF Given(common, "profile") = {} THEN DefaultProfile ELSE LastWord(common, "profile")

FlagsWord(t, f) ==
    IF f = "suppressHealthCheck" THEN UNION {flags[t][i].value : i \in Given(flags[t], f)}
    ELSE LastWord(flags[t], f)

Promised(t) ==
    [f \in Settings |->
        IF f = "testLocation" \/ (f = "databaseKey" /\ entry[t] = "Test") THEN {t}
        ELSE IF f = "testCases" /\ entry[t] = "Test" /\ short THEN {"ten"}
        ELSE IF Given(flags[t], f) # {} THEN FlagsWord(t, f)
        ELSE IF Given(common, f) # {} THEN LastWord(common, f)
        ELSE IF f = "testCases" /\ entry[t] = "Workload" THEN {"unbounded"}
        ELSE Profiles[Profile][f]]

PromisedOutput(t) == IF entry[t] = "Test" THEN {t} ELSE {"stdout"}

Refused(t) ==
    \/ Profile \notin DOMAIN Profiles
    \/ \E option \in Range(common) \cup Range(FlagOptions(flags[t])) :
            option.field \in Settings /\ option.value \cap Rejected # {}

(* Calls at the same time with a shared array that has room for two more.   *)
Exposed(t) == spare >= 2 /\ t \in overlapping /\ entry[t] # "Workload"

(* A run gets the settings and the writer its options promise, and none is  *)
(* started if the engine refuses one of them, even one that a later option  *)
(* overrides: unless its array is shared, has room for two options, and     *)
(* another call was at it at the same time.                                 *)
OwnSettingsUnlessShared ==
    \A t \in Tests : ~Exposed(t) =>
        /\ at[t] = "built" => /\ ~Refused(t)
                              /\ settings[t] = Promised(t)
                              /\ o[t].output = PromisedOutput(t)
        /\ at[t] = "rejected" => Refused(t)

(* "only [Test] supplies a key, deriving it from t.Name()", and the output  *)
(* goes to that test's t.Output().                                          *)
OwnKeyAndOutput ==
    \A t \in Tests : at[t] = "built" =>
        /\ settings[t]["databaseKey"] = (IF entry[t] = "Test" THEN {t} ELSE Unset)
        /\ o[t].output = PromisedOutput(t)
=============================================================================
