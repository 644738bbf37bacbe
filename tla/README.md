# A formal model of Inshimtu

Inshimtu is an in-situ visualization shim: MPI ranks watch a directory for the
files a simulation writes, agree on which of them are complete, and hand those
to pipelines of Catalyst scripts and external commands. These TLA+ modules model
the part of it that decides *which rank processes which file, when, and when the
program stops*, check it with TLC on small instances, and prove every invariant,
action property and refinement that these checks pass with TLAPS, for every number of
ranks, files, rounds, pipelines, sections and configurations. Liveness is model-checked.

All paths below are relative to `source/` of the repository.

## 1. Inventory

| Component | Source | State | Operations | Correct if |
|---|---|---|---|---|
| Main loop | `inshimtu.cxx` | `newfiles`, `isFinished` per rank | initial update, then poll / update / process until finished | ranks stay in step, every complete file is processed once, all ranks leave |
| Coordinator | `sentinels/coordinator.*` | root: `filesInfo`, `writers`, `collect_tick`; inporters: `readyFiles` | `update` = getTotalFiles, isDone, updateProcessedFiles, gatherNewFiles, calculateReadyFiles, broadcastReadyFiles, barrier | a file is handed out once, only when the evidence says it is complete; all inporters get the same files |
| Notifier | `sentinels/notification.*` | `known_files`, `done_flag`, `monitoring_start_time`, static `last_done_time` | constructor, `processEvents`, `checkDone`, `isDone` | every write is reported, nothing else is, a touch of the done file stops it, nothing but a removal breaks it |
| Inporter | `processing/inporter.*` | `availableFiles`, `workingFiles`, `completedFiles`, `timeStep` | `process`, `createTasks` | each file goes to one pipeline, none is lost, all inporters make the same collective calls |
| Pipelines | `processing/pipeline.*`, `core/specifications.*` | `TaskState`: stage, files, status | `AcceptInput`, `MkPipelineTask`, `ProcessNext`, `ProcessTask`, `Commands::process` | a stage gets what it accepts; the commands run as configured |
| Sections | `core/application.*`, `Adaptor::getExtent` | inporter set, section index and size | constructor, `getExtent` | each layer of a file is read by exactly one inporter |
| Catalyst adaptor | `processing/adaptorV2.*` | conduit node of the scripts, a description per file, `descriptor_data` | `Processor`, `Descriptor`, `coprocess` | Catalyst knows every script; one `catalyst_execute` per file on every inporter, with the same fields and with data that is still there |
| File readers | `processing/inporters/*` | none | `canProcess`, `process` of NetCDF and VTK XML files | each part of a file is described once, an empty part too |
| Configuration | `core/options.*` | option values, JSON tree | collect..., get..., validation | what it accepts can run, stop, and takes the files it is told of |
| Python bindings, logging, help | `processing/python.cxx`, `utils/*` | none of the above | wrappers, text | - |

`processing/adaptor.cxx` is the adaptor of the first Catalyst and is not built.

**Interaction.** Each rank's `main` owns a notifier and a coordinator; some ranks,
chosen by node intervals, own an inporter. A rank polls (`processEvents` fills
`newfiles`), then enters `update`: two all-reduces (how many new files, are all
done), one MPI message per new file to the root, a broadcast of the ready files
over the communicator of root and inporters, and a barrier. Inporters then call
`process(readyFiles)` before the next poll. `notify->isDone() || update(...)`
short-circuits: a rank whose own notifier is done does not enter the update, and
goes on to process the ready files of the last one again.

**What is hard.** Ranks run freely between collectives while the simulation
writes files, so they see different files in different rounds; file times are
whole seconds; the root receives from `MPI_ANY_SOURCE`; the coordinator's evidence
(writers, ticks, signal files) grows from round to round and a file may be
reported again after it was handed out; the done file is seen by each rank at its
own time, and the first to see it stops taking part in the collectives the others
wait in, those of `update` and, in `process`, `catalyst_execute`; pipelines compete for the same files, and commands may succeed on one
inporter and fail on another; files and the done file may be removed between two
looks at them, on one inporter before and on another after it read them. Nothing is persisted and no rank is restarted, so
there is no crash recovery to model. MPI loses and duplicates nothing.

The hazards are listed with their lines in `PROJECT.json`.

## 2. Modules

| Module | Models | How |
|---|---|---|
| `FilesInfo` | the root's `filesInfo` map | one operator for each of `setModified`, `updateProcessedFiles`, `gatherNewFiles`, `getSignalledOutputFile`, `calculateReadyFiles`; no state |
| `Coordinator` | `Coordinator::update` as one step of all ranks | variables are the root's members; `UpdateNothing` is the early return when no rank reports a file, `UpdateCollect` the rest |
| `Delivery` | abstract | what the coordinator promises: a file's status goes unknown, withheld, ready, retired |
| `FilesInfo_proofs` | - | lemmas about the phases of `update` |
| `Coordinator_proofs` | - | theorems about `Coordinator` |
| `Rounds` | the main loop on every rank, with `update` taken apart | one action for each step between two communications; collectives are joint actions; refines `Coordinator` |
| `Rounds_proofs` | - | theorems about `Rounds`, the refinement among them |
| `Notification` | `PollingNotify` of one rank, the file system and the clock | the directory iteration visits one entry at a time while the simulation writes, and the user may remove files and the done file between any two looks at the disk |
| `Notification_proofs` | - | theorems about `Notification` |
| `Sections` | the inporter set and `getExtent` | operators |
| `Sections_proofs` | - | theorems about `Sections` |
| `Selections` | the loops that copy some members of a vector into another | the operator `Select`, and `Count` for properties |
| `Selections_proofs` | - | lemmas about these and about operators of the community modules, by induction |
| `Pipelines` | input specifications, stages, commands | operators on stages and tasks |
| `Adaptors` | the adaptors and readers of a Catalyst stage, and the description they make of a file | operators; a field is the object its values are in and the layers it holds |
| `Inporters` | `Inporter::process` on every inporter | one action for each pipeline asked, each adaptor that reads, each `catalyst_execute`, each stage, each end of a pass |
| `Inporters_proofs` | - | theorems about `Inporters` |
| `Configuration` | `Configuration`'s settings, pipelines and validation | operators on a configuration `[opts, tree]`; no state |
| `Startup` | one rank from the command line to the loop: constructor of `Configuration`, node intervals, choice and constructor of the notifier, `Processor`'s initialisation of Catalyst, initial update | one action per step, from every configuration of a set |
| `Startup_proofs` | - | theorems about `Startup` and the settings of `Configuration` |
| `MC*` | - | constants for TLC |

**Files are numbers.** `filesInfo` is a `std::map` ordered by path, and
`calculateReadyFiles` compares positions in it, so a file is the position of its
name. A signal file (`output_ready` in the configuration) and the output it
announces are related by the partial function `ReadyConversion`.

**One step or many.** `Coordinator` treats `update` as atomic, as its comments do:
it is where what is handed out is decided, and where the proofs are. `Rounds`
shows that the exchange of the ranks implements that step, with `Atomic`, an
instance of `Coordinator` whose variables are read off the program counters.
`Coordinator` in turn implements `Delivery` with `Promise`.

**Files in directories.** `Rounds` has a simplified notifier (a rank reports a
file after each write that it sees, at its own time; only files that were handed
out are written again); `Notification` has the full one, with times, filters,
removals and skipped directories. `Inporters` takes from `Rounds`
that the inporters get the same batch between two barriers, that no file is in
two batches (`NeverTwice`), and that a rank may be given the last batch once more
as it leaves, and only then (`ProcessedAgainOnLeaving`). What the other ranks do to one
rank is in each of these two modules a step of its environment: in `Notification`, main may
not come back from `update` once the done file was touched, for another rank saw it first
(`UpdateBlocks`, with `OtherRanks`); in `Inporters`, a rank that does not see the touch
stays in `"main"`, where it waits in `update`.
What a write does to a file still open
is the simulation's affair: polling looks at write times only, although the help
text (`utils/help.cxx:39`) still speaks of closed files and of inotify, which
`inshimtu.cxx:36` says was replaced.

**Configurations.** `Startup` takes the pipelines of `Configuration` in the form
that `Inporters` runs and the watch specifications in the form that `Notification`
polls, so it is where the constants of those two come from. A JSON value is
reduced to what the code asks of it: missing, one of the expected words, or
another. A directory is its name; `InputSpecPaths::match` compares spellings, so
a directory written with a trailing slash matches no file, which is left out.
A set of variables is the sequence its text is split into at the commas.

**Pipelines.** A file specification is the set of files it matches. An accept
script is a user's Python function; it is taken to be one that waits for a
group of files and accepts them together. A command is what decides how files
are passed to it, and succeeds or not. One `catalyst_execute` is made per input
file of a Catalyst stage; what its script does is not modelled. It is a collective of
the inporters. A collective may return on one rank before another enters it, so
`Execute` is a step of its own on each inporter and the safety properties cover every
order of them; that it does return is only assumed when all inporters have entered it as
often (`AllEnter`). The asserts are
not compiled in the default build (`CMakeLists.txt:32` sets Release), so what they guard
happens: `files[0]` of no files either ends the program (`Crash`) or goes on, and
so does reading a NetCDF file that cannot be opened or lacks the variable
(`CrashReading`, or a field without layers). A crash of one rank ends all.

**Descriptions.** For a NetCDF file there is an adaptor for every variable of every
script, and each reads its own layers; the XML readers read the whole file on every
inporter ("TODO: handle multiple inporters", `inporterXMLImage.cxx:94`), so
`PartsCoverFile` is about NetCDF files. Each `coprocess` makes an object, numbered
in order; the node refers to the values of all of them, the descriptor holds the
last (`kept`). That is what `DataKept` compares.

## 3. Runs

| Run | Question | Instance |
|---|---|---|
| `coordinator` | Is a file handed out exactly on the evidence the code asks for, once, and never lost? | 2 ranks, a data file, its signal, a later file; 4 ticks |
| `rounds` | Does one distributed update gather every report, keep rounds apart, give all inporters the same files, and implement `Coordinator`? Do older files reach the inporters, is a file processed again only by a rank that leaves, and does main end when all notifiers are done? | 3 ranks, 2 of them inporters, 2 files, one rewrite of a delivered file, one message per rank in transit |
| `notification` | Is every distinguishable write reported, nothing else, does only a touch stop the notifier and only a removal make it throw? | 2 files, 3 seconds, 2 writes per file, one removal of a file or the done file, scans visiting entries one by one, other ranks that may leave the loop |
| `inporters` | Are files put to one pipeline each, drained, read in full, with the same Catalyst calls, none missing, and fields on all inporters, and does `process` return, except where a leaving inporter calls alone? | 3 ranks, 2 inporters, 3 files (a signal, an image, a NetCDF file of one layer) of which one may be removed, 2 batches, 3 pipelines of 2 and 3 stages |
| `rounds_any_done` | "Stops when build/testing.done file is touched" (`README.md:89`) | violated: a rank that sees the touch first skips the update the others wait in |
| `rounds_exit_complete` | with the done notification all remaining files become ready (`coordinator.cxx:266`) | violated: no update in the loop ever sees the done notification |
| `notification_any_touch` | "continues until the termination file (--done) is touched" (`utils/help.cxx:42`) | violated: the time to compare with is learnt at the end of the first scan |
| `notification_stop_complete` | "assumes done notification occurs only after simulation exits, and data files are completely written out by then" (`coordinator.cxx:266`) | violated: what is written between the scan and the check of the done file behind it is never scanned |
| `inporters_given_again` | `assert(std::find(availableFiles, name) == end)` (`inporter.cxx:60`) | violated: a file that waits for others when a rank leaves is given to it a second time |
| `inporters_command_files` | `assert(!files.empty())` (`pipeline.cxx:289`) | violated: a pipeline for any input that accepts all gets a task when nothing is available |
| `inporters_data_kept` | "set the vtkobject to a local varaible so that it is not lost" (`adaptorV2.cxx:164`) | violated: with two variables only the last object is kept |
| `startup` | Is what validation accepts made into a notifier that polls the pipelines' inputs and a loop that can end? Are enumerated files taken, and is Catalyst initialised with every script and its variables, for the last time too if its file name is its own? Do options override the JSON file? | 18588 configurations: every setting given as option, in the file, as both or not; pipelines well-formed in several ways, and malformed in seven; up to two scripts, also of one file name, with up to two sets of variables |

**Bounds.** Two ranks suffice for a file to be seen by one rank and not by
another, three for two ranks to race to the root while it receives. Three files
are a data file, its signal between it and the next output in name order, and that next
output; that is every relation `calculateReadyFiles` distinguishes (older, only
one, announced, initial). In `Rounds` a rank's second message of a
round has no room and waits for the root, as MPI_Send may. The tick bound 4 lets a file be reported, withheld,
reported again and flushed; a single rewrite of a delivered file is all it takes
for the file to be collected and gathered once more. In `Notification` the third second is the first in which
a scan can start after a write that came after the start second; two writes
in one second are the case polling cannot tell; one removal can hit every place
between two looks, and the done file may be made again by a touch. In `Inporters` the second batch
completes what the first left waiting; `MaxTimeStep` is above what two batches
and the last call need, which `ProcessReturns` confirms: an inporter at the
bound would be stuck. One layer on two sections leaves the second without any;
that other divisions are right is proved (`LayersReadOnce`). Two variables are
the least for `kept` to differ from an object a field is in, and one removable file
is read by both inporters, by one or by none. `Startup` has two directories, one that holds the
done file and one that does not exist, two filters, and pipelines that share a
directory. Deadlock is not checked where the system is meant
to stop: ranks exit, deliveries and the clock are bounded.

**Fairness.** `Rounds!FairSpec` has weak fairness of each rank's own steps, of the
root's receiving and of the collectives: MPI makes progress and a poll sleeps a
fixed time. Nothing is assumed of the simulation or the done file.
`Notification!FairSpec` has it of `processEvents`: an iteration of a directory ends, and
main calls the next as long as `update` returns. It does not have it of main beyond that: at
any time after a touch `UpdateBlocks` may take main away for good, which `rounds_any_done`
shows to happen, and the liveness properties except that case by name. With `OtherRanks`
false there is one rank, and none is excepted; both runs that expect a violation have it
so, and refute the stronger claim. `Inporters!FairSpec` has it of `process`, which is
sequential code between collectives, with the condition that a Catalyst call which an
inporter waits in is entered by all; its commands are assumed to end (`bp::system` waits).

**Liveness that holds, and that does not.** While no notifier is done, an older
file is processed by every inporter (`OlderFilesProcessed`); if all notifiers are
done all ranks leave (`AllDoneAllExit`). That one done notifier suffices does not
hold (`rounds_any_done`), and the newest file is not processed before leaving
(`rounds_exit_complete`), for no update of the loop is entered by a rank that is done:
the branch for `is_done_global` (`coordinator.cxx:268`) is taken for the initial files
only, against what its comment and `coordinator.h:42` to 48 expect. A notifier reports a write
(`NewsIsReported`) and sees a touch (`TouchIsSeen`) unless another rank leaves first.
`process` returns (`ProcessReturns`), so no inporter waits for ever for another's
Catalyst calls, with one exception: the last call of an inporter that leaves while another
does not. There it can hang in `catalyst_execute`, a collective of the inporters
(`adaptorV2.cxx:101`), with the others in `update`; and it is also where a file can become
available twice (`inporters_given_again`), which `FilesAccountedFor` allows, since it
counts copies.

**Other disagreements.** Two that are in the model as the code has them, and that one call
is enough to see, so that no run is spent on them. For `ProcessCommands_All` with
`ProcessFiles_Single`, `pipeline.h:90` says "Each file has all commands run on it"; the branch
does not return (`pipeline.cxx:236`) and the commands run once more on all files
(`Pipelines!CommandCalls`). `utils/help.cxx:38` says that an existing directory is watched
(`--watch`); only the inputs of pipelines are polled for, so with `--external_commands` as the
only work (`options.cxx:541`), which makes no pipeline, or without `--files`, nothing is
(`WatchesInputs`).

## 4. Proofs

Every proof has the same plan: an inductive invariant, a conjunction of named
parts (`IInv`; several that build on each other in `Inporters_proofs`) that TLC has checked
on the run's instance, where it can evaluate them; `InitIInv`; one lemma per
action, or per part and action, that it is kept; `Invariance`
(`Spec => []IInv`); and a theorem per property that follows from it. The
assumptions are those the modules declare, and TLC evaluates them on every run.

### Coordinator (`FilesInfo_proofs`, `Coordinator_proofs`)

From `FilesInfoAssumption` and `MaxTickAssumption`, for any set of ranks with a root,
any set of numbered files, any conversion and any tick bound:

- `TypeCorrect`: `TypeOK`;
- `DeliveredOnce`: `NeverTwice`, no file is handed out in two rounds;
- `WithheldIsNewest`: only the last file by name waits;
- `WritersExact`: the writer set is that of the files;
- `SignalsHonoured`, `SignalsWithheld`: announced outputs are handed out, and pure
  signals are not;
- `FlushedWhenDone`: after the last update nothing waits;
- `ImplementsDelivery`: `Coordinator` implements `Delivery`.

The properties are not inductive
alone: that a ready file was never delivered needs to know that `is_ready` is
never cleared and that `delivered` is exactly what became ready
(`ReadyWereDelivered`, `DeliveredAreReady`), that `readyFiles` is what
`filesInfo` calls ready and unprocessed (`ReadyAreCurrent`), and how the flags of
one file relate (`Coherent`: processed implies ready; a signal is processed and
matches the conversion; a file that matches is ready). One lemma per phase of
`update` (`ProcessedEffect`, `GatheredEffect`, `SignalledEffect`,
`ReadiedEffect`, `CollectedEffect`, in `FilesInfo_proofs`) says what the phase leaves and
changes, and the step proof (`NothingStep`, `CollectStep`, `NextStep`) cites them for each
conjunct. The refinement uses the invariant to read each file's status before and
after a step (`StatusMeaning`, `UpdateMoves`, `UpdateRound`).

### The exchange of the ranks (`Rounds_proofs`)

From `FilesInfoAssumption` and `RoundsAssumption` (ranks and files are
finite, the inporters are ranks, the bounds are numbers), for any ranks,
inporters, files, conversion, number of rewrites and size of the MPI buffers:

- `TypeCorrect`: `TypeOK`;
- `AllReportsArrive`: `NothingLost`;
- `RoundsSeparate`: `RoundsDoNotMix`;
- `Agreement`: `InportersAgree`;
- `KeepInStep`: `InportersInStep`;
- `ProcessedOnce`: the action property `ProcessedAgainOnLeaving`;
- `ImplementsAtomic`: `ImplementsCoordinator`, every step of the ranks is a step of
  `Coordinator` or none.

`IInv` is stated by theme. `Roles` and `InStep` say what the program counters of
different ranks can be together: the collectives let no rank into a round that
another has not entered, but ranks that return early go on alone. `TotalExact` ties
the all-reduced sum to the reports it summed. `Accounting` is the core: until
the root calculates, each rank's reports are split without overlap into those received, in
transit and held back, and `remaining` is the number of those outstanding, so
that the root cannot stop a message too early or wait for one that is not sent.
`Broadcasting` says to whom a broadcast is under way, and that those past it
agree with the root. `DoneFirst` and `FirstUpdate` say that only the first update finds
a notifier done, and that it starts with nothing known and reports of the root alone;
without this the refinement fails, since `Coordinator` distinguishes the first call.
`HandedOut` and `Processing` relate ready files, what was delivered and what each
inporter processed. `TicksBounded` bounds the collecting rounds by the reports that
can be made, which is what gives `Coordinator`'s `MaxTick` a value.

With the instance `Coordinated` of `Coordinator_proofs` the theorems of the atomic update
become theorems of the ranks. What that module assumes of its constants is proved from
`RoundsAssumption` (`CoordinatedAssumptions`):

- `HandedOutOnce`: no file becomes ready in two rounds (`NeverTwice`);
- `NewestWithheld`: only the last file by name waits (`OnlyNewestWithheld`);
- `SignalsFollowed`: announced outputs are handed out, pure signals are not
  (`AnnouncedDelivered`, `SignalsNotDelivered`);
- `ImplementsPromise`: the exchange of the ranks implements `Delivery` (`KeepsPromise`).

The step lemmas go theme by theme. The refinement has one lemma for each
action that maps to a step of `Coordinator` (`NothingIsAtomic`, the root's early return, and `CalculateIsAtomic`, its calculation once
all reports have arrived); `AtomicStep` shows that all others map to a stutter.

### The notifier (`Notification_proofs`)

From `NotificationAssumption` (the names of files are not those of places in
`processEvents`; the clock has a first second), for any files, watches, writes and removals:
`TypeCorrect`, `ReportedForWrites` (`ReportsAreWrites`), `StopsForTouch`
(`StopsForTouchOnly`), `ThrowsForRemoval` (`ThrowsForRemovalOnly`) and `NoneOverlooked`
(`NothingOverlooked`). `NothingOverlooked` is not inductive: a scan in progress has
visited some entries and not others. `EntriesMet` says what is known of a file that the
scan has met, `LooksAtWhatWasThere` what the one entry at hand can be, and
`NewsNotReported` that a time that is still to be learnt is one report the file
has in hand, which makes the count of reports inductive. `LearntUntouched` says that the time of the done file, once
learnt, is its present one if it was not touched.

### Sequences (`Selections_proofs`)

What a model computes along a sequence is written as a recursive function over the
numbers up to its length (`Select`, `Erase`, `NodeWith`), not with a recursive operator
or a fold. The induction theorems of the library take an operator that the provers
cannot instantiate, so induction is stated with a set instead: a set that has 0
and the successor of each of its numbers has all of them (`InductionOnNumbers`), and the
like for sequences by length (`InductionOnSequences`). They rest on `LeastNumber`, for
which the library's well-foundedness of `<` suffices. `RecursionOnNumbers` shows that a
recursive function over an initial segment exists and has the values its equation says.
From these follow what `Select` keeps and counts (`SelectProperties`, `SelectOfAppend`,
`CountOfSelect`), what `RemoveFirst` leaves, and what the members of `FlattenSeq` are.

### Process (`Inporters_proofs`)

From `InportersAssumption` and the assumptions of `Sections` and `Adaptors`, for any
inporters, pipelines, files, readers and deliveries:

- `TypeCorrect`: `TypeOK`;
- `NothingMoreAccepted`: `Drained`;
- `TimeStepPerPass`: `TimeStepsArePasses`;
- `NoFileLost`: `FilesAccountedFor`;
- `CallsInStep`: `CatalystInStep`;
- `FieldsInStep`: `SameFields`;
- `FileCovered`: `PartsCoverFile`.

The invariants build on each other. `IInv` has the loop invariant of `createTasks`
(`AsksAll`: as long as it has made no task, what is available has not changed since
each pipeline asked so far declined) and the timesteps (`CountsPasses`: which pass
belongs to the timestep at each place of `process`). `Typed` says that each task has
the end of one of the pipelines' stages and files, and that adaptors and
descriptions are of the file at hand; the bounds of `TypeOK` follow from it.
`Accounted` is inductive because what a pipeline accepts is there as often as it
accepts it, so that `Erase` takes exactly that (`AcceptedProperties`, `EraseProperties`).

*The inporters in step.* Two inporters are at different places of the same program, so
an inductive invariant must say how far apart they are. `After` is that program as a
machine without choices, on states that leave out all in which inporters can differ: what
they read, and tasks without input files, as a failed command leaves them, for such a task
makes no further calls (`DeadStaysDead`, `CommandsLeaveNothing`). `Reaches` says that
one state comes a number of steps of the machine after another. `Lock` says that each
inporter's state is one of the machine's, its calls the machine's calls
(`Agrees`), and that of any two inporters one reaches the other. A step of an inporter is a
step of the machine or none (the lemmas `...Moves`), and since the machine has no
choices the one that moved is still ahead or behind (`OneWayFurther`,
`ReachesFromNext`). A new batch arrives when all have returned, hence are in the same
state; a crash ends all where they are (`Together`). The calls recorded in two states of
one run of the machine are one the beginning of the other (`ReachedExecuted`), which gives
both `CommonCallsAgree` and `SameFields`. That no call is missing (`NoCallMissing`, the
other half of `CatalystInStep`) needs that the machine does not come back: an inporter in main
that is not leaving has nothing behind it but its last call, and one that has ended nothing
at all (`ReachedGone`, `ReachedLeaving`), so no other that began no more calls is ahead
of it. For the fields, `FieldsRead` says
that while a file is there what is described of it and what its remaining
adaptors add are all fields of its stage.

*The parts of a file.* `PartsRead` says that each field described of a NetCDF file
is the inporter's section, or empty if the file is gone or lacks the variable; with
`LayersReadOnce` no layer is described twice, and with `SameFields` none is left out.

TLC has checked `IInv`, `Typed`, `Accounted`, `FieldsRead` and `PartsRead` on the instance
of `inporters`. `Lock` it cannot evaluate: it asks for a run of the machine of any length.

What is assumed beyond the shapes of the constants is what the code gives: a
pipeline has a stage (`collectPipelines`, `options.cxx:567` to 612, throws otherwise), its input
accepts the first file, all, or what a script accepts; scripts and their variables are
vectors. Two assumptions are about what the code leaves to the user: the group of files that an
accept script waits for is not empty (a script that accepts without files would be asked
again without end), and what a signal announces is among the files of the instance.

### Startup (`Startup_proofs`)

From `StartupAssumption` (a configuration has the options and the tree's paths; its
pipelines, scripts, sets of variables and node intervals are sequences, as the parser makes
them; the empty name is no done file), for any configurations, directories and done files:

- `TypeCorrect`: `TypeOK`, with `WatchedOnce`, which says of it that no directory is
  watched twice;
- `LoopEnds`: `LoopCanEnd`;
- `InputsWatched`: `WatchesInputs`;
- `ScriptsTakeInitialFiles`: `EnumeratedFilesTaken`;
- `EveryScriptInitialised`: `ScriptsInitialised`;
- `OptionsFirst`: `OptionsOverride`.

`WatchesApart` is the loop invariant of the notifier's constructor
(`WithWatchApart`), and so is `WatchesSoFar`: what is polled so far and the inputs that are
still to add are together what the pipelines take of the directories that can be watched.
`DoneFileFound` and `Accepting` carry what the notifier found and
what validation accepted to the loop. That every script is in some node Catalyst was
initialised with, and stays in the later ones as long as no other script of its file name
comes, is an induction over the scripts (`NodeHasScript`). Where two scripts have the same file
name the last node has only the later one's path: nothing is claimed of the earlier one there.
`OverriddenAlike` holds of every configuration, so that
theorem does not depend on which are enumerated.

### Sections (`Sections_proofs`)

From `SectionsAssumption`, for any number of ranks, any
intervals and any number of layers: `ExtentsPartition` (getExtent's chunks
partition the layers), `IndicesAreSections` (section indices are 0 to size - 1,
each used once) and, from both, `LayersReadOnce`: exactly one inporter reads each
layer. The rounding up of the division is what makes the chunks suffice
(`ChunksSuffice`), the minima only cut the chunk off at the file's end
(`ExtentMeaning`). The model computes the ceiling on integers; the code does so
in doubles, which agrees below 2^53 layers.

### Only model-checked

- Liveness: `OlderFilesProcessed`, `AllDoneAllExit`, `NewsIsReported`, `TouchIsSeen` and
  `ProcessReturns`. It rests on weak fairness, hence ENABLED, which the provers do not treat.
- What the runs that expect a violation refute, of course.

## 5. Not modelled

- Of the configuration: delays, verbosity and attributes, which decide nothing
  modelled here.
- What Catalyst does when it is initialised several times, as it is with several
  scripts, or not at all, as with JSON Catalyst stages without `--scripts`
  (`getScript` takes the text of a node as the script and as its variables, and
  nothing initialises Catalyst with it): that is outside the repository.
- Deleting files: `Inporter::process` deletes the members of `completedFiles`,
  which nothing fills, so `--delete` has no effect and there is no step to model.
- The values in the files and the geometry of the grids; what VTK and NetCDF do.
- A rank that dies alone, and MPI errors: both abort the job. Whether an exception
  of `processEvents` or a crash while reading leaves other ranks waiting is up to
  the launcher; the models end there.
- Python bindings, logging and help text.

## 6. Plan

1. Initial files that are signals, and ranks that have no done file while others do.
2. `Rounds` composed with `Notification` instead of the notifier it has now.
3. The link from `Rounds` to `Inporters` as theorems: that the batches `Deliver` draws from are
   those `Rounds` hands out is argued in section 2, from `InportersAgree`, `NeverTwice` and
   `ProcessedAgainOnLeaving`, and not by a refinement.
