# TLA+ specifications of hegel-go

hegel-go is the Go front end of the Hegel property-testing engine.  The engine
(`libhegel`, a native library) chooses the data of every test case; the Go side
runs the user's test body, tells the engine how it ended, replays and reports
failures, and drives state machines with concurrent workers.  These modules
specify the Go side: its control flow, what it shares between goroutines, and
what it does when the engine or the user's code fails.  The engine is external:
its answers are nondeterministic within what `internal/libhegel/libhegel.go`
and its tests say of them.

## 1. Inventory

| Component | Code | State | Operations | Interacts with |
|---|---|---|---|---|
| Invocation boundaries | `runner.go` invoke, abort, `stateful.go` invokeRule, `recursive.go` | per invocation: `aborted`, a scoped copy of the test case, the panic policy | invoke, abort, Fail/FailNow/Assume, Target, Note | user code; the workers; `testCase.run` |
| State machine run | `stateful.go` Run, workgroup | round, group, workers' clones, result channel, errors | next group, clone, Go, Wait, invariants | engine state machine; user rules on goroutines |
| State machine configuration | `stateful.go` newStateMachine, options | rules, groups, invariants, bounds | sort methods into rules and invariants, apply options, assign groups | Run; the engine, which knows groups by number |
| Property run and replay | `runner.go` runWithContext, run, replayFailures | captured output by origin, failures, origins | next case, mark complete, capture, replay, report | engine run; invocation; output |
| Value pool | `pool.go` | engine ids, Go map, mutex | Add, Len, IsEmpty, reusable and consuming draws | workers of a state machine |
| Recursive generators and spans | `recursive.go`, `generators.go` | span depth on the Go and on the engine side, leaf budget | draw, retry, filter, start/stop span | invocation; engine |
| Collections | `runner.go` collection, `collections.go` | finished, first error | More, Reject, Err | generators; engine |
| Generators and combinators | `generators.go`, `combinators.go`, `composite.go`, `labels.go` | none | map, flat map, one-of, composite | engine |
| Primitive generators | `primitives.go`, `formats.go`, ... | a builder's character filters | argument checks, one engine call, conversion of integers | engine |
| Default generator and its cache | `default.go` | generators by type, under a lock; the memo and the active types of a walk | lookup, walk over a type, overrides | goroutines of the user |
| Draw reports and source cache | `draw_report.go` | parsed files, statements, under a lock | report a draw with its source | workers |
| Settings, profiles, options | `hegel.go`, `workload.go`, `runner.go` | the caller's slice of options, appliers, flags | append options, parse flags, apply, build settings | property run; calls that share a slice |
| `testing.T` adapter | `state.go` and `hegel.go` | wraps a test case | clone, free, invoke | invocation, state machine run |
| Native handles and callbacks | `internal/libhegel`, `internal/cgo` | raw pointers, cleanups, a registry of writers | Free, cleanup, Value, Delete | garbage collector; engine |
| Library cache and loading | `internal/libhegel/embed*.go`, `dlopen*.go` | files of a cache directory, a lock | publish, recheck, load | other processes |
| Engine bindings | `internal/libhegel/libhegel.go`, `printer.go`, `grammar.go` | none | one wrapper per C function | engine |
| Vendoring script | `scripts/vendor-libhegel.go` | vendored libraries, version file | choose a release, download, verify, replace, remove | maintainers; what a build embeds |
| Build scripts and examples | `scripts/`, `examples/` | none | tooling, programs that use the library | |

### Where the behaviour is hard

* **Joins.** A round's workers run user code on goroutines and send one result
  each on a buffered channel that all rounds share.  `Wait` counts results; a
  wrong count either blocks for ever or lets the next round, or an invariant,
  overlap with a running rule.
* **Which error wins.** Several workers can fail in one round, in any order, and
  clones can fail while others exist.  The error that ends the test case decides
  whether the engine shrinks it, rejects it or aborts the run, so it must not
  depend on the schedule.
* **Panics as control flow.** An abort is a panic that one invocation marks as
  its own.  Invocations nest (body, rule, recursion attempt), each must take
  what is its own and pass everything else on, and under the replay policy it
  must not recover at all.
* **Two copies of the same state.** A pool, a span depth, a collection and a
  native handle exist in the engine and in Go.  Failures between the two updates,
  and goroutines interleaving with them, make the copies differ.
* **Reporting.** A failure must be reported from the right execution although
  other failures, probes, errors and panics come in between.
* **Processes and the collector.** The shared library is published by processes
  that can die; native objects are freed by hand and by the collector.
* **Order of configuration.**  Options, flags, overrides and a builder's methods
  come in any order and number; each is a small language whose meaning is spread
  over several functions and promised in several comments.

### What makes each component correct

* Invocation: a rejection ends only its rule, a retry only its attempt, and
  anything else reaches the test body unchanged; `invoke` itself never panics.
* State machine run: rules of different groups never overlap; invariants run
  alone and as often as promised; no clone leaks or is used after it is freed;
  no failure is lost and the selected one is schedule-independent; Run ends.
* Property run: each case is completed once and in order; no failing body
  passes; each failure is reported once, with its own output and its blob.
* Pool: the engine's ids and the map agree; every operation is atomic; a failing
  operation never blocks the others.
* Spans: the depths agree at every draw that is reported. Collections: no
  truncated collection is returned. Handles: freed once, never used afterwards.
  Library cache: nobody loads a partial file, or another version's.  Default: one
  generator per type, and each part of a type drawn from the override meant for it.
* Configuration: a run gets the settings its options promise, a machine is the one
  its options describe, an alphabet the one its builder's comments describe.
  Integers are the same on both sides of the engine's interface.
* Vendoring: a checkout whose script was let finish names what it contains, and the
  release published last is found.

`PROJECT.json` lists the hazards line by line with the properties that cover
them, and a note for each that nothing covers yet.

## 2. Modules

| Module | Models |
|---|---|
| `Workgroup` | the error half of the workgroup: Wait's order, the selected and the dropped errors |
| `StatefulRun` | `stateMachine.Run`: main goroutine, worker goroutines, channel, clones, invariants |
| `RuleRounds` | abstract: what Run promises about rules and invariants |
| `MachineConfig` | `newStateMachine` as a function of methods and options, and what should come of it |
| `MachineRun` | composes the two: `RunStateful` configures a machine and runs it |
| `Invocation` | `invoke`/`abort` and the three callers of invoke, nested |
| `PropertyRun` | `runWithContext`, `testCase.run`, `replayFailures`, `replayFailure` |
| `Options` | `Test`, `Run`, `MustRun`, `Workload` up to the engine's settings: a shared slice of options, flags, appliers |
| `PropertyTests` | composes the two: concurrent tests with one slice of options, and the run of one of them |
| `ValuePool` | `Pool` with concurrent workers and failing engine calls |
| `AtomicPool` | abstract: a pool whose operations are atomic |
| `RecursiveDraw` | draws, filters and recursive generators with their spans and retries |
| `Collections` | lists, unique lists and maps over the engine's collection protocol |
| `DefaultShape` | what `Default` builds for a type and its overrides, and what its comment says of it |
| `DefaultCache` | `Default[T](...)`: the generators shared by goroutines, and those built with options |
| `PrimitiveDraws` | integers on their way to the engine and back; the alphabet of a text's builder |
| `SourceCache` | `sourceCache`: the statements shared by reports |
| `ReportedDraws` | composes these five: look up a generator, draw with it or draw a primitive, report |
| `NativeHandles` | native objects, `Free`, the collector, output writers |
| `LibraryCache` | processes that publish and load the shared library |
| `VendorScript` | the script that vendors a release, stopped anywhere and run again |
| `VendoredLibrary` | composes the two: what builds of the checkout embed, and what their processes load |
| `MCStatefulRun`, `MCPropertyTests`, `MCReportedDraws`, `MCVendoredLibrary` | the machines, options, types, releases and sizes that TLC runs the compositions with |
| `StatefulRunProofs`, `InvocationProofs`, `PropertyRunProofs`, `ValuePoolProofs`, `RecursiveDrawProofs`, `ReportedDrawsProofs`, `NativeHandlesProofs`, `VendoredLibraryProofs` | theorems and proofs, section 4 |

The other `.cfg` files are named `MC<what>.cfg` and give constants to the module
that their run in `PROJECT.json` names.

### StatefulRun

| Variable | In the code |
|---|---|
| `policy` | `testCase.panicPolicy`: capture while exploring, propagate on replay |
| `pc` | the main goroutine's place in Run: `new`, `initial` (the first loop over the invariants), `group`, `clone`, `wait`, `join`, `sample`, `final`, and how it ended |
| `outcome` | the error given to `tc.abort` |
| `concurrency` | what the engine chose; `Team` is `range concurrency` |
| `handle` | the native clone of each worker: none, live, freed |
| `wpc`, `rule`, `drawn` | each worker goroutine, the rule it runs, and the engine's count of rules it was given |
| `inbox` | the channel `workgroup` |
| `received`, `results` | the locals of Wait |
| `failed`, `checked`, `dropped` | histories: errors the workers returned, invariants run since the last rule, workers named in a "Dropped concurrent" line |

Each action is a step between two points where another goroutine can observe
something: one engine call, one send, one receive, one invariant.  `StartWorkers`
starts all goroutines at once: a worker's first step is an engine call on its
own clone, which commutes with starting the next one.  `InvokeInvariant` and
`FinishRule` take the outcomes that `Invocation` says invoke can have.
A panic on a worker goroutine that invoke lets through (`CrashInRule`) ends the
process.  `Join` is Wait's return together with the deferred frees, which run
before the errors are looked at.  `RuleRounds` has no workers' states, channel
or errors; `Rounds!Spec` is checked and proved with a mapping that calls a round
open exactly while the main goroutine is in Wait.

### MachineConfig and MachineRun

`NewStateMachine` is the function of that name: the options applied in their
order, the methods sorted by prefix, and every reason to refuse.  `AsAsked` is
what should come of it, without an order.  `Legal` and `Callers` take the comments on
`RunStateful` and its options to the letter: what they forbid, and which rules one
call puts together.  For some lists of options (`AtOdds`) the comments contradict
each other or the code: a step count below 1 that is overridden, two calls with one
group name, a rule named twice in one call (section 3 quotes them).
`ToTheLetter`, a part of `AsAsked`, holds `NewStateMachine` to the letter for all
other lists.  `Permitted` and `GroupOf` are what the code makes of every list: the
last count, one group for a name, a panic.  `MachineRun` adds
`machine` to the variables of `StatefulRun`: what `RunStateful` is asked for and
what it makes.  `Configure` ends in the panic of `RunStateful` or leads to
`StartRun`, which goes on to the `Init` of `StatefulRun` for the machine that the
constants describe; a call that makes another machine is not followed.

### Invocation

A frame is one running `invoke`, with the local `aborted` that its `abortFn`
sets.  `flight` is the panic in flight.  `Unwind` is the deferred function of
invoke together with what its caller does with the result: `RuleReturned` for a
rule, `AttemptReturned` for a recursion, `Conclude` for the test body.  `habits`
says what the user's code of this execution does besides following the
documented contract: call methods of an outer invocation's TestCase, or recover
panics that are not its own; properties that rest on careful code say `Careful`.

### PropertyRun

`cases` is what the engine handed out, `marked` the statuses it was told;
`captured` is `capturedOutput`; `replayed` and `origins` are the loop and the
result of `replayFailures`; `output` is the set of things written for each
failure.  `RunCase` is one iteration of the loop after the test case exists.

### Options and PropertyTests

An option is the field it sets and a value.  All calls get one slice,
`common...`; `array` is its backing array, with `spare` elements behind its end.
`append` writes into it if there is room (`Store`, one element a step) and
copies otherwise (`Copy`), and `run` reads it element by element (`Apply`), each
interleaved with the same steps of other calls: the race detector would call these
data races, so the elements are read and written one at a time in any order.
`Workload` parses its flags (`Parse`) and always builds a slice of its own.
`BuildSettings` is `buildSettings` and the location that `run` adds.  In
`PropertyTests` one of the calls is then followed through `PropertyRun`, whose
`hasOutput` and `printBlob` are no longer chosen but come out of the options.

### ValuePool

Every operation is lock, engine call, map update, unlock.  `engine` is the
engine's ids, `values` the Go map.  Any engine call can fail, which aborts out
of the operation through the deferred unlock.  `AtomicPool` is implemented with
`contents <- values`, so the instant an operation takes effect is its map update.

### RecursiveDraw

`stack` holds the calls in progress inside one invocation of the test body, from
the body over draws, filters, attempts and subtrees to the innermost one.
`depths` has `testCase.depth` of the body's copy of the test case and of each
attempt's; `spans` is how many spans the engine has open; `engine` has the
engine's side of each recursion: the spans at its creation, the leaves drawn, the
retries and whether it is over its budget and owed a retry.  `flight` is the
error on its way to the innermost invoke.  `crossing` chooses between user code
whose recursions draw their own subtrees only and code that draws the child of
an enclosing `Recursive` inside another one.  What retry and finish do to the
engine's spans (`StartOver`) is external: the comments say that Retry "discards a
generation attempt" (`libhegel.go:1671`) and that Finish may ask "to restart
without Retry" (2198), which is taken to close the attempt's spans.

### ReportedDraws

A goroutine finds a default generator or has one of its own (`DefaultCache`),
draws a list, a unique list or a map (`Collections`), or an integer or a text
(`PrimitiveDraws`), and reports the value if
its test case has a printer (`SourceCache`).  `stage` is which of the three it is
in.  The two caches are shared by all goroutines, each behind its own read-write
lock, with one action per lock, lookup and unlock; a lock is taken only when its
guard allows, and a goroutine that waited for ever would be a deadlock, which TLC looks
for.  A collection belongs to one test case, and so to one goroutine, so nothing
can see the difference when only one goroutine draws at a time.

`DefaultCache`: `byType` is the map, a generator is the number of its
construction, `handedOut` a history of what callers without options got.
`DefaultShape`: a program is a function from type names to a kind and parts.
`BuildDefault` is the walk with its memo and its active types, as one recursive
function of both: `Visit` is one call, `WalkParts` its loop over the parts and
`Walk` one turn of that; `sources` is what `compileDefault` draws each part from.  `Conforms`
is the reference: reachability and precedence as the comment on `Default` has
them, with neither memo nor order.
`PrimitiveDraws`: integers of every width and sign travel as words or as two's
complement bytes; a text's builder is the fold of its methods over its fields, and
`Documented` what the methods' comments say of the same calls.
`Collections`: `coll` is the engine's side (bounds, elements asked for and not
given back, whether it has said that there are no more), `result` the Go side,
`failed` is `collection.err`.  Sizes are machine integers of `Bits` bits: a
negative one reaches the engine as the unsigned number with the same bits, and the
greatest stands for no maximum.  Keys in `Irreflexive` are new whenever they are
drawn, as NaN is to a Go map.  `SourceCache`: `file` is the parsed file or
the error of parsing it, `statements` the statements cut from it, `disk` the file
as it is, which an editor changes `MaxEdits` times at most, at any time.

### NativeHandles

A wrapper is a Go object with a `pointer`: `raw` is whether its handle is
nonzero, `native` what has become of the engine's object, `cleanups` the cleanups
attached to it, `queue` those the collector has released, `refs` the
goroutines whose variables hold it.  `registry`, `handleIdx` and `userData` are
the map of `internal/cgo`, its counter and the number the engine was given.
`Call` and `Return` are the two halves of every method that passes `raw` to the
engine: the variable may die as soon as `raw` is loaded (`LastUse`), and only the
`KeepAlive` after the call keeps the wrapper reachable (`Reachable`).  A method
such as `Failure.Origin` gets a view of a string inside the object and copies it
before a second `KeepAlive` (`CopyView`).  `Output` is
an engine callback during a call or a free.  `Free` is three steps: stop the
cleanup, clear `raw`, call the engine.  It is taken by a goroutine that is alone
with the wrapper, which is what "owned by the caller" in `libhegel.go` asks for;
the code itself does not lock.

### LibraryCache

`dest` is what is at the library's path in the user's and in the temporary cache
directory, `partial` the partial files, `lock` the holder of `.install.lock` in
each directory (Windows only), `pc`, `dir` and `ok` are the locals of
`writeDynamicLibrary` and `libraryInDir`, `mapped` what `dlopen` opened.  Every
system call can fail except the stat of the check and the removal of a partial
file, and a process can die between any two.  A lock that cannot be had is
waited for, as `LockFileEx` does.  An outage stops all processes and may cut a
renamed file short, because the file is never synced.  A file of the right size
is taken to be whole: that is what the code itself relies on, and a file that is
not is beyond `LibraryCache`.

### VendorScript and VendoredLibrary

`libs` and `version` are the checkout, `script` the place of the script and its
locals.  `published` orders the releases by publication, `Created` by creation,
which is how they are listed; a release may appear in the middle of the list
between two pages.  `Download` is one asset with its digest, `RemoveStale` one
file, `WriteVersion` the version file, cut short if it fails; `Stop` is an error
or an interruption anywhere.  `VendoredLibrary` builds the checkout at any time at
which it compiles: earlier builds leave a library in the directory of the version
they name, and the processes of the last one go through `LibraryCache`, where a
file is "whole" if it is taken for the right one: it is, or it has the same size
(`TakenFor`).

## 3. Runs

| Run | Shows | Bounds |
|---|---|---|
| `stateful` | the machine is the one its options describe; all safety properties of Run, that it implements `RuleRounds`, and that it ends | 8 sets of methods, lists of up to 5 options; 3 workers, 2 rounds, 2 draws per worker and round, 3 rules in 2 groups, 2 invariants of which one is always checked |
| `invocation` | every error reaches the boundary that handles it; panics follow the policy | 4 nested invocations |
| `property_run` | settings are those the options promise; cases are completed in order, no failure passes, each is reported once from its own execution | 2 calls with one slice of 4, spare capacity 0 to 3, 3 command lines, 2 profiles; 3 cases, 2 origins |
| `value_pool` | the two sides agree, each operation is atomic and returns | 2 workers with 3 operations each, 2 values, 3 ids |
| `recursive_draw` | span depths agree, each draw of the body is reported once, an owed retry comes before anything else | 12 calls in progress, 2 draws of the body, depth, leaves and retries of a recursion 1 each |
| `library_cache` | the newest release is vendored, what is loaded is whole and pinned, no mapped library is replaced, every process ends | 4 releases of 2 libraries, pages of 1, 2 runs of the script; 2 processes, both platforms, all initial contents, 1 outage |
| `native_handles` | no use after free, no double free, no leak, each line to its writer | 2 wrappers, 3 goroutines |
| `reported_draws` | one generator per type, the override meant for each part, sound collections, integers and alphabets unchanged, one reading of the file | 2 goroutines; 2 cached types of which one is supported; all programs of 3 types with 4 lists of overrides; sizes -1, 0 and 2 of 3 bits, 2 keys of which one is NaN; words of 2 bytes of 2 bits, integers of 2 and 4 bits; 4 characters, up to 3 of 9 builder calls; 2 lines, 2 versions of the file, 1 edit |
| `invocation_outer` | finding 1, below | 2 nested invocations |
| `replay_panics` | finding 2, below | as `property_run`, without the options |
| `retry_owner` | finding 3, below | as `recursive_draw` |
| `shared_options` | finding 4, below | as `property_run` |

Why the bounds are enough.  *stateful*: two rounds are the least in which a
result, a clone or a check of an earlier round can be mistaken for one of the
next; three workers are the least with a failure that is selected, one that is
dropped and a worker that still runs, and with a middle clone that fails; two
groups let a round be followed by one of another group; one sampled and one
always-check invariant exercise both branches, in the order where skipping the
first must not skip the second.  The machines are one of each way to be refused
and three legal ones; with three group options after two bounds a group can be
filled by two calls with another's between them, which is the least at which
numbers and names can come apart.  *invocation*: four frames hold a body, a rule,
and a recursion in a recursion, so that every boundary occurs above and below
every other that can hold it.  *property_run*: three cases let a captured failure of one
origin be followed by one of the other and by one of the same; two failures let
the loop go on after one that was replayed or shown from its capture.  `Test`
appends twice, two options and then one, so that spare capacities 0 to 3 are all
the ways these fit or do not; a third call would only write what a second can.
*value_pool*: two workers with an add, a draw and a consuming draw each can put
any operation between the steps of another; with three ids one can be consumed
while another remains.  *recursive_draw*: twelve calls hold two recursions
inside one another, each with a subtree below its root, and a filter between
them; a depth, a leaf and a retry of one are the least at which the limit is
met both from below and from above.  *library_cache*: two
processes race for one path, and a third would only wait behind the second; the
initial contents include a file the check refuses in either directory, and an
outage lets them start over on what they left behind.  Four releases of which
one lacks a library and one is a prerelease make a second run of the script
repair, replace and remove; with pages of one, any publication shifts what is
left to read.  *native_handles*: a
wrapper can be forgotten by one goroutine, used by another and freed by the
third; a second wrapper, with a writer or without, gives the registry a number that must not be
mixed up.  *reported_draws*: two goroutines make every race of the
double-checked lookups; a second type, unsupported, leaves by the panic; size 2 is
the least at which a unique list can repeat a key, -1 is the negative size that
looks like a huge one, and 3 bits leave room between the largest size and "no
maximum".  Three types can form cycles of every length up to three and meet again
without one; two calls of a method and one of another tell "the last call wins" from
"all calls count".  Integers as wide as the word are the ones that do not fit the
signed word, and at 4 bits all bounds can be tried, powers of a byte included.

Every property has a mutation in `PROJECT.json`: a faulty variant of a
definition, kept beside it and marked as such, under which TLC finds the
property violated.  Every module has a `TypeOK`; a run lists it where a proof or
another property rests on it.

### Fairness

`StatefulRun`, and `MachineRun` for the same actions and for configuring and
starting a run, assume weak fairness of the main goroutine's steps and of each
worker's: the Go scheduler runs every goroutine that can run, and engine calls
and user code are taken to return.  Nothing is assumed of their order.
Termination then rests on the engine's two bounds, `StepCount` and `MaxDraws`,
and on each worker sending exactly one result.  `ValuePool` assumes weak
fairness of every step inside an operation, not of calls, and only weak fairness
of taking the mutex: each worker has at most `MaxOps` operations, so a
worker that waits is in the end the only one that can take it.
`NativeHandles` assumes that engine calls return and that the collector finds
unreachable objects and runs their cleanups in the end; a program that ends first
leaks nothing that matters, so `NothingLeaks` is about one that goes on.
`VendoredLibrary` assumes weak fairness of the steps of each living process of
the build that is followed, taken
together, but not of `LockFails`: a process that waits for a lock is not
obliged to be refused it.  Nothing makes a process die either, so a lock that its
holder never gave back would show as a process that waits for ever.  Nothing makes the
script, or a maintainer, go on.  The other specifications state no fairness and no liveness.

### Findings

1. **invoke can panic itself** (`invocation_outer`).  Inside a rule, user code
   that calls `Assume(false)` on the TestCase of the surrounding body sets the
   outer invocation's `aborted`; the rule's own invoke recovers the panic and
   `invokeRule` absorbs the rejection.  When the outer body later returns,
   its deferred function evaluates `recovered.(error)` on nil and panics, although
   the comment on invoke (`runner.go:723`) says that it returns an error.
2. **No blob when a rule panics on replay** (`replay_panics`).  The comment on
   `replayFailure` (`runner.go:878`) says that the blob is appended "even if
   replay panics".  Rules always run on their own goroutines; while a failure
   is replayed invoke does not recover, so a user panic in a rule ends the process
   and the deferred function on the main goroutine never runs.
3. **A retry goes to the wrong recursion** (`retry_owner`).  `leafBudgetRetry`
   (`recursive.go:52`, `93`) carries no recursion.  When a `Recursive` generator
   used inside another one draws the outer one's child and the outer
   recursion exceeds its budget there, the inner one catches the error, retries
   itself and draws on inside an attempt which "Unwind ... drawing
   nothing further for it" (`libhegel.go:71`) was about.  `OwnRetriedFirst` holds
   when each recursion draws its own subtrees.
4. **Tests that share options get each other's key and writer** (`shared_options`).
   `withDatabaseKey` and `withOutput` are promised per test: "only [Test] supplies
   a key, deriving it from t.Name()" (`runner.go:542`).  `Test` appends them to
   the slice it is given (`runner.go:586`); when two parallel tests pass the same
   `common...` and its array has room for two more options, both write the same
   elements, and the one that reads last runs with the other's key and output.
   `OwnSettingsUnlessShared` holds for every call that is not so exposed.

Noticed while modelling, and kept out of the properties by a condition that says so:

* `ExcludeCategories` "excludes characters in the given Unicode general
  categories" (`primitives.go:305`), but together with `Categories` it has no
  effect (`primitives.go:229`).  `TextsAsBuilt` makes an exception of the two.
* "Calls using the same group name add rules to that group", says the comment on
  `WithRuleGroup` (`stateful.go:95`), and three lines on, "Each call creates a
  distinct group" (98).  The code (107) and its test (`stateful_test.go:461`) follow
  the first: two calls with one name make one group.
* "RunStateful panics if n is less than 1", says the comment on
  `WithStatefulStepCount` (`stateful.go:72`), but the option only stores n and the
  last one is checked (137): after 0 and then 2, RunStateful runs with 2.
* It panics if an option "names a rule already assigned by another WithRuleGroup
  option" (`stateful.go:102`), and also if one option names a rule twice, of which
  no comment speaks.  "If a group is empty" is taken of a call that names no rule;
  where another call fills the group of that name, there is no panic.
  These are the cases of `AtOdds`: `MachineAsAsked` follows the letter of
  the comments for all other lists of options, and the code for these.
* A checkout in which the script was stopped half way builds, embeds a
  library that its version does not name, and leaves it in that version's cache
  directory, where a later build takes it for its own if it has the same size
  (`embed.go:74`).  `LoadedPinned` is about checkouts that were let finish.
* "On Windows the publication lock guarantees dest does not exist"
  (`embed.go:96`).  What is checked under the lock (74) is that no file of the right
  size is there; one of another size, cut short by an outage or left by another
  build, is still there at the rename.  `DestAbsentIfSound` is the comment
  without such files.  `MappedNeverReplaced` is its purpose, "avoiding ... replacing
  a DLL mapped by another process", and holds with them, of the processes of one
  build: what another build has mapped is not known to the model.  `RenameIsSafe` is
  both.
* The comment on `Delete` (`handle.go:138`) wants "the C code" to have no copy of
  the handle by then, but the cleanup that deletes it (`callback.go:33`) and the one
  that frees the native object (`libhegel.go:582`) run in any order.
  `OutputReachesWriter` holds for output during calls and `Free`; an engine
  that prints while the collector's cleanup frees it is left out.

## 4. Proofs

`tlapm` proves the safety properties below for every value of the constants, from
the assumption that the module declares about them and nothing else.  Each
`...Proofs` module extends the component's module and has its inductive invariant
as `IInv`: `Init => IInv`, `IInv /\ [Next]_vars => IInv'`, and `IInv` implies the
property.

| Module | Theorems |
|---|---|
| `StatefulRunProofs` | `TypeCorrect`, `GroupsSafe`, `InvariantsSafe`, `HandlesSafe`, `ChecksSafe`, `FailuresSafe`, `SelectedIsLeast`, `RunImplementsRuleRounds`; of `RunSpec`, `MachinesRunSafely`, `MachinesImplementRuleRounds` and `MachinesAsAsked` |
| `InvocationProofs` | `TypeCorrect`, `FlagsSafe`, `VerdictSafe`, `PolicySafe` |
| `PropertyRunProofs` | `TypeCorrect`, `ProtocolKept`, `FailuresFail`, `OutputByOrigin`, `FailuresReported`, `BlobsShown`; of `TestsSpec`, `TestsAreRuns`, `OptionsAsPromised`, `TestsTyped` |
| `ValuePoolProofs` | `TypeCorrect`, `SidesSafe`, `MapAlwaysKnows`, `PoolIsAtomic` |
| `RecursiveDrawProofs` | `TypeCorrect`, `DepthsAlwaysAgree`, `DrawsReportedOnce`, `RetriedBeforeDraws` |
| `ReportedDrawsProofs` | `TypeCorrect`, `OneGenerator`, `DefaultsSound`, `CollectionsSound`, `PrimitivesSound`, `FileReadOnce` |
| `NativeHandlesProofs` | `TypeCorrect`, `UsedWhileLive`, `FreedAtMostOnce`, `OutputIsRouted` |
| `VendoredLibraryProofs` | `TypeCorrect`, `WholeLibraryLoaded`, `NobodyReplaces`, `LatestTaken` |

**StatefulRun.**  `IInv` conjoins `TypeOK` with:

* `Barrier`: during Wait, the workers of the team that are idle are those whose
  result has been received, counted by `received`, and the results in the channel
  are exactly one for each worker that has sent.  Hence `received = Capacity`
  only when all workers are idle and the channel is empty, which is
  `InvariantsRunAlone` from the join on.  The property alone is not inductive:
  it says nothing of the states inside Wait.
* `RulesInGroup`: a worker in a rule runs one of the current group.  The group
  changes only outside Wait, when by `Barrier` no worker runs.
* `ClonesLive`: in Wait the clones of the team are live and nobody else's are.
* `AlwaysCheckedAtJoins` with `CheckedSoFar`: in the loop over the invariants,
  all (or all always-check) ones below `invariant` are in `checked`.
* `FailuresTracked`: every error returned in the round is in the channel or in
  `results`, and nothing else is; by `SelectedIsLeast` the least of them in
  Wait's order is the outcome, whatever order they arrived in.

`WorkerEffect` and `MainEffect` describe what a step of either side can do to the
variables of the join, so that each conjunct's proof looks at those and not at
all actions again.  The refinement uses `IInv`: a worker's `NextRule` maps to `Start`,
`FinishRule` to `Finish`, `StartWorkers` to `Open`, `Join` to `Close`, an
invariant to `Look`, everything else to a stuttering step.  `MachineInv` adds
that nothing has happened while the machine is only asked for, which
carries all of it over to `RunSpec`, the specification that the run `stateful`
checks.

**MachineConfig.**  What a machine is put together from are folds: over the
methods, over the options, over the names of a group.  A fold is a recursive
function of sets of places in the sequence; `OneAfterTheOther` shows that it is
also one step after the other from the front (`InTurn`), and `OneByOne`,
induction over the elements taken, carries a statement along it.  `Configured` says what
the options before the `k`-th make of the machine: the last bounds, the names that
are always checked, and by `GroupsAsked` the groups, each name
once and with the rules of all its options.  `Clean` says that
the first `m` groups name rules only, each once and none of them nothing, and
`Numbered` that the assignment has come that far; it is refused at the first group
that is not.  `MachineStage` then says that what is made is `NewStateMachine` of what
was asked for.  `MadeAsAsked` compares that with `Permitted` and `GroupOf`, for any
methods and options; `LetterAgrees` shows that where the comments are not at odds
these forbid what `Legal` forbids and put the same rules together as `Callers`, and
`MachineAsAsked` follows.

**Invocation.**  `VerdictIsWhatWasRaised` speaks of the end of a test case only;
`FlightIsWhatWasRaised` says, while a panic unwinds, that it is all that careful
code has raised and that the frame it unwinds is the one it has marked.  The
proof follows one unwinding step by its three destinations (`RuleReturned`,
`AttemptReturned`, `Conclude`); nesting is unbounded.

**PropertyRun.**  `CasesSettled` is `CompletedBeforeNext` with the statuses, also while
a body runs; `LatestCaptured` says that the map of captured outputs has, for each
origin, the latest case with that origin and a capture; `ReportsLast` that
nothing is reported before the engine's result.  `TestsAreRuns` shows that
`PropertyTests` implements `PropertyRun`, so that all of this holds of a run whose
settings come out of shared options.

**Options.**  `OwnSettingsUnlessShared` speaks of calls that have ended; `Gathering`
is what leads there, for any number of calls, any options and any spare capacity
(`OptionsInv` adds that everything is forgotten once a run is followed):

* `Steady`: the elements of `common` itself are never written.
* `Overlaps`: calls in progress together are both in `overlapping`.
* `Shape`: where each call is, by the number of its own options that are in its
  slice (`Filled`), and what it has still to append (`Todo`).
* `Told`: a call that is not exposed reads, at each place of its slice, the option
  it put together there (`Intended`), and `o` is what `run` makes of as many of
  those as it has applied (`Matches`).
* `Kept`: the property.

`StoreStep` has the reason why only some calls are exposed.  With fewer than
two places to spare a `Test` never stores, because its first `append` brings two options
and copies; a `Run` stores its one option, the same for all, at the same place, so
that whoever reads it finds what it wrote itself.  With two places or more,
whoever stores is known to overlap everybody in progress.  What the settings
come to goes by what is said last: `Says` is the last option of a list for a field,
`Silent` that there is none, and lemmas carry both through `Append`, concatenation, the
flags and `Recorded`.  `Overridden` folds over the appliers; `ClosedUnfolds` shows
that their last words satisfy the fold's equation, and `UnfoldedOnce` that nothing else
does, since two solutions would differ first at some least number of appliers.

**ValuePool.**  `SidesAgree` is about the moments when the mutex is free.
`HolderInside` (a worker is past the lock exactly if it holds the mutex) leaves one
worker to look at, and `AgreeButForId` says that between the two halves of its
operation the sides differ by the id in its hand and nothing else.
`MapAlwaysKnows` follows: the two "internal error" branches of `pool.go` are dead
code.  For `AtomicPool` an operation takes effect at its map update, or where the
engine's call fails.

**RecursiveDraw.**  `DepthsAgree` counts the whole stack, so an induction needs to
know what each part of it holds.  `Shape` describes the stack (what may lie on what, that
the engine's recursions are the attempts in their order, and whose subtrees are
drawn above which attempt); `BasesHeld` says that a recursion's base is the number
of spans held below it, which makes a retry safe; `SpansHeld` is the property
with that count; `Discarded` describes the one state in which the engine has
closed spans before the Go side unwinds; `Owing` is `OwnRetriedFirst` with the
recursion that owes being the innermost.  The lemmas `Opens`, `Closes`, `Turns`
and `Unwinds` say what each kind of step does to the count, for any depth.

**ReportedDraws.**  Each of the composed modules has its own invariant, kept by
its steps and by everybody else's.  `DefaultInv` and `SourceInv` rest on
`Exclusive`: one goroutine is between taking and giving back the write
lock, and nobody reads meanwhile, so a second look under the lock cannot be stale.
`CollectionsInv` says of each goroutine where the engine's count stands against the
result: equal, or one more while an element is drawn; after an error nothing is
known of it, which is why no such result may be returned.  `Powers` and
`SizesTravel` are what a machine integer of any width needs for a size to reach
the engine unchanged or be refused.

**DefaultShape.**  `DefaultInv` says of a generator built with options that it is the one
the comment describes (`GeneratorConforms`).  Four things stand between the walk and
that comment:

* The overrides: after `k` options the map `Holds` the last option for each key
  among them.
* `Reached`, which is defined by as many rounds as there are types: `SpreadingEnds`
  counts them, and `Closure` says that the result is the least set of types that
  contains the first ones and what its members need.  Nothing else is used of it.
* That the walk, a recursive function, exists at all.  `VisitLooksDeeper`: a call
  looks only at calls that have one more active type, so the functions
  for calls with few types left are put together to those with more (`BuildsAll`).
* That the walk is right.  A call is `Sane` if the types done are buildable and closed
  under what they need, and every active type needs the one that is called
  for.  It is `Correct` if, where it succeeds, what is done afterwards is closed,
  and is what was done before with what the type reaches; and where it fails, some
  type that it reaches is unbuildable.  Each holds of the calls inside
  if it holds of the call (`InnerSane`, `WalkKeepsCorrect`), by induction on the number
  of types whose walk has not begun.  Sanity is what makes an active type that
  is met again a real cycle, and a type that is done safe to take from the memo.

**PrimitiveDraws.**  No prover here knows powers; `Subsets` makes those of two
counts of subsets, from which come `PowerOfSum`, growth and the division by a
byte.  The bytes of `NewBigInt` are then the digits of the number (`BigIntIsDigits`):
as many as the least length that holds it with its sign (`OneLength`), which is
where the loop stops.  `MagnitudeOfDigits` sums them to the number modulo the power
of their length, `EngineReadsDigits` gives back the sign, and so for the engine's
answer (`EngineWritesDigits`); a value of the type never overflows the
word.  For texts, `Built` says what the builder's fields are after `k` calls by
the latest call of each kind (`BuiltNext`), and `TextFollows` compares what they
tell the engine with the comments, case by case of the alphabet's two styles.

**NativeHandles.**  `Sound(w)` says where the one free of an object can come from
at each stage of its wrapper: attached, queued, or in the hands of the goroutine
that frees it.  A queued cleanup belongs to a wrapper nobody can reach, and a call
in progress keeps its wrapper reachable; both halves are needed, because the
collector runs between any two steps.  `NumbersUnique` keeps the registry's
numbers apart.

**VendoredLibrary.**  `CacheInv`: on Windows whoever is inside holds the lock; a
partial file is renamed only when it is complete; a path that was found or made is
whole until it is loaded, because only an outage cuts files and it ends all
processes; and what is mapped stays at its path, where nobody who publishes
under the lock can be (`InPlace`).  `VendorInv`: a release that was there when the script began to read
is on a page yet to be read or no later than the latest one found
(`SeenOrAhead`), which is how a shifting list loses nothing; and the checkout after
each phase of the replacement (`LibrariesPlaced`).  `Unmixed` and `BuildKnown` tie
the two: directories hold their own version's library if the checkouts that were
built were complete.

**What the proofs changed.** `Recovered` in `Invocation` and `Promised` in
`Options` had CASEs that overlapped: TLC takes the first, a proof may not. The
script's folds over sequences became sets of indices and their least element,
and the cache names its assumption that no process is called "nobody".
`NativeHandles!TypeOK` had a conjunct that was no type; it is now proved
(`CleanedIsLive`). `Visited` looks flags up by name, as `Visit` does, and
`Refused` asks only about options that are settings: a profile or a writer is
never given to the engine. `TestsAssumption` says what the proofs need of the
options: fields and values that the library's functions can make, profiles
complete, and the values that the library itself sets taken by the engine.  The
loops of `newStateMachine`, `buildDefault` and `BigInt.Uint64` got names for one turn
each (`Found`, `Put`, `Fill`, `Kept`, `Walk`, `Visit`, `Magnitude`), so that a lemma
can speak of it, and the bytes of a number are a function on the numbers that the
loop meets, without which the recursion does not determine it.  `MachinesAssumption`,
`ProgramsAssumption` and `DrawsAssumption` type what a user can write: methods
and options, types whose parts are types of the program, and a builder's calls,
whose literal characters are no surrogates because a Go string has none.  None of
this changed what the runs explore.

**Only model-checked**: liveness (`Termination`, `CallsReturn`, `NothingLeaks`,
`EverybodyEnds`), which the prover does not reach, and that the four findings are
real, which a counterexample shows.  Every invariant and every action property of a
passing run is a theorem.

## 5. What is not modelled

* Log lines and their failures in `StatefulRun` (`worker.log` runs outside any
  invoke; its failure would end the process), and failures of the user's writer
  in `PropertyRun`.
* What rules and test bodies compute: they are outcomes.  `runtime.Goexit` in a
  rule is not one: `Wait` would block, but `testing` itself asks that `FailNow`
  be called from the goroutine of the test, and no comment here promises more.
* Wording and layout of reports, source positions, printing of values, and
  reflection itself: a type is its kind and its parts, a method its signature.
* Primitive generators other than integers and texts (floats, bytes, dates,
  addresses, patterns): argument checks and one engine call each.  One-of,
  optional and the like are a choice by the engine and a draw.
* In `MachineConfig` a nil machine; in `DefaultShape` the checks that
  `WithFieldGenerator` makes of its own arguments, and the panic on an option
  that no function made.
* `LibraryPathEnv`, which goes around the cache, the registration of symbols,
  failures of the check's stat and of removing a partial file, partial files that
  stay for ever, and the permissions of the directories, which are one step that
  fails or not.
* The script's temporary files: nothing reads them.
* What a rule that was rejected leaves open: the engine's side of
  `hegel_state_machine_rule_rejected` cannot be told from this repository.
* The `testing.T` adapter, which forwards to what `StatefulRun` and `Invocation`
  model; the engine bindings but for `NativeHandles` and the integers of
  `PrimitiveDraws`, because they convert arguments and keep no state; build
  scripts and examples.

## 6. Plan

The model is complete as far as it is meant to be: what is left out is listed
above with the reason.  It was built from the state machine run (the only
concurrency the library itself creates) outwards: the invocation boundaries, the
property run, the pool; draws with their spans and retries, collections with the
caches that goroutines share, native objects under the collector, the library
cache between processes; then what configures these: options, machines, types,
builders, and the script whose output the cache publishes.

The proofs cover every safety property that a passing run checks.  What a recursive
function or a fold computes for all inputs was reached without the library's
induction theorems, which the provers cannot instantiate: by closed forms,
and by least numbers of elements or of types for which a statement could fail.
