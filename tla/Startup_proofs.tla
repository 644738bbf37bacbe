----------------------------- MODULE Startup_proofs -----------------------------
(***************************************************************************)
(* What TLAPS proves of Startup for any configurations and directories:    *)
(* the types; an option overrides what the tree says of the same setting;  *)
(* no directory is watched twice, and those watched are the pipelines'     *)
(* inputs; Catalyst is initialised with every script; the loop is only     *)
(* entered if it can end, and without a directory to watch the initial     *)
(* files are taken and main ends.                                          *)
(***************************************************************************)
EXTENDS Startup, Selections_proofs

-----------------------------------------------------------------------------
(* The settings a configuration and its overridden one agree on. *)

LEMMA OverriddenSettings ==
    ASSUME NEW c \in Configurations
    PROVE  LET d == Overridden(c) IN
           /\ d.tree.pipelines = c.tree.pipelines
           /\ HasWatchDirectory(d) = HasWatchDirectory(c)
           /\ HasDoneFile(d) = HasDoneFile(c)
           /\ HasFileFilter(d) = HasFileFilter(c)
           /\ HasCatalystLib(d) = HasCatalystLib(c)
           /\ WatchDirectory(d) = WatchDirectory(c)
           /\ DoneFile(d) = DoneFile(c)
           /\ FileFilter(d) = FileFilter(c)
           /\ CollectInitialFiles(d) = CollectInitialFiles(c)
           /\ CollectScripts(d) = CollectScripts(c)
           /\ CollectVariables(d) = CollectVariables(c)
           /\ CollectExternalCommands(d) = CollectExternalCommands(c)
           /\ InporterIntervals(d) = InporterIntervals(c)
<1> DEFINE d == Overridden(c)
<1> HIDE DEF d
<1>1. /\ d.opts = c.opts
      /\ d.tree.pipelines = c.tree.pipelines
      /\ c.opts.watch = "" => d.tree.directory_path = c.tree.directory_path
      /\ c.opts.done = "" => d.tree.done_watchfile = c.tree.done_watchfile
      /\ c.opts.files = "" => d.tree.files_regex = c.tree.files_regex
      /\ c.opts.initial = <<>> => d.tree.initial_files = c.tree.initial_files
      /\ c.opts.scripts = <<>> => d.tree.scripts = c.tree.scripts
      /\ c.opts.variables = <<>> => d.tree.variables = c.tree.variables
      /\ c.opts.external_commands = <<>> => d.tree.commands = c.tree.commands
      /\ c.opts.nodes = <<>> => d.tree.nodes = c.tree.nodes
      /\ c.opts.catalyst_lib = "" => d.tree.catalyst_lib = c.tree.catalyst_lib
  <2>1. "opts" \in DOMAIN c /\ "tree" \in DOMAIN c /\ TreePaths \subseteq DOMAIN c.tree
    BY StartupAssumption
  <2>2. d.opts = c.opts /\ d.tree = OverriddenTree(c.opts, c.tree)
    BY <2>1 DEF d, Overridden
  <2> DEFINE over == OverriddenTree(c.opts, c.tree)
  <2> USE DEF OverriddenTree, TreePaths
  <2>3. over.pipelines = c.tree.pipelines
    BY <2>1
  <2>4. c.opts.watch = "" => over.directory_path = c.tree.directory_path
    BY <2>1
  <2>5. c.opts.done = "" => over.done_watchfile = c.tree.done_watchfile
    BY <2>1
  <2>6. c.opts.files = "" => over.files_regex = c.tree.files_regex
    BY <2>1
  <2>7. c.opts.initial = <<>> => over.initial_files = c.tree.initial_files
    BY <2>1
  <2>8. c.opts.scripts = <<>> => over.scripts = c.tree.scripts
    BY <2>1
  <2>9. c.opts.variables = <<>> => over.variables = c.tree.variables
    BY <2>1
  <2>10. c.opts.external_commands = <<>> => over.commands = c.tree.commands
    BY <2>1
  <2>11. c.opts.nodes = <<>> => over.nodes = c.tree.nodes
    BY <2>1
  <2>12. c.opts.catalyst_lib = "" => over.catalyst_lib = c.tree.catalyst_lib
    BY <2>1
  <2> HIDE DEF OverriddenTree
  <2> QED
    BY <2>2, <2>3, <2>4, <2>5, <2>6, <2>7, <2>8, <2>9, <2>10, <2>11, <2>12
<1>2. /\ HasWatchDirectory(d) = HasWatchDirectory(c)
      /\ HasDoneFile(d) = HasDoneFile(c)
      /\ HasFileFilter(d) = HasFileFilter(c)
      /\ HasCatalystLib(d) = HasCatalystLib(c)
  BY <1>1 DEF HasWatchDirectory, HasDoneFile, HasFileFilter, HasCatalystLib
<1>3. /\ WatchDirectory(d) = WatchDirectory(c)
      /\ DoneFile(d) = DoneFile(c)
      /\ FileFilter(d) = FileFilter(c)
  BY <1>1 DEF WatchDirectory, DoneFile, FileFilter
<1>4. /\ CollectInitialFiles(d) = CollectInitialFiles(c)
      /\ CollectScripts(d) = CollectScripts(c)
      /\ CollectVariables(d) = CollectVariables(c)
      /\ CollectExternalCommands(d) = CollectExternalCommands(c)
      /\ InporterIntervals(d) = InporterIntervals(c)
  BY <1>1 DEF CollectInitialFiles, CollectScripts, CollectVariables,
              CollectExternalCommands, InporterIntervals
<1> QED
  BY <1>1, <1>2, <1>3, <1>4 DEF d

(* An option overrides the tree (options.cxx:682, 722 and 758): what the   *)
(* tree says of the same setting changes neither whether a configuration   *)
(* is accepted nor what is made of it, in whatever state it is looked at.  *)
LEMMA OverriddenAlike ==
    ASSUME NEW c \in Configurations
    PROVE  LET d == Overridden(c)
           IN  /\ Validated(d) = Validated(c)
               /\ CollectPipelines(d) = CollectPipelines(c)
               /\ CollectInitialFiles(d) = CollectInitialFiles(c)
               /\ NodesInitialised(d) = NodesInitialised(c)
               /\ InporterIntervals(d) = InporterIntervals(c)
               /\ NeedsPolling(d) = NeedsPolling(c)
               /\ DoneFile(d) = DoneFile(c)
<1> DEFINE d == Overridden(c)
<1>1. d.tree.pipelines = c.tree.pipelines
  BY OverriddenSettings
<1> HIDE DEF d
<1>2. /\ HasWatchDirectory(d) = HasWatchDirectory(c)
      /\ HasDoneFile(d) = HasDoneFile(c)
      /\ HasFileFilter(d) = HasFileFilter(c)
      /\ HasCatalystLib(d) = HasCatalystLib(c)
      /\ WatchDirectory(d) = WatchDirectory(c)
      /\ DoneFile(d) = DoneFile(c)
      /\ FileFilter(d) = FileFilter(c)
      /\ CollectInitialFiles(d) = CollectInitialFiles(c)
      /\ CollectScripts(d) = CollectScripts(c)
      /\ CollectVariables(d) = CollectVariables(c)
      /\ CollectExternalCommands(d) = CollectExternalCommands(c)
      /\ InporterIntervals(d) = InporterIntervals(c)
  BY OverriddenSettings DEF d
<1>3. LegacyStage(d) = LegacyStage(c)
  <2>1. LegacyInput(d) = LegacyInput(c)
    BY <1>2 DEF LegacyInput
  <2>2. LegacyScripts(d) = LegacyScripts(c)
    BY <1>2 DEF LegacyScripts
  <2> QED
    BY <2>1, <2>2 DEF LegacyStage
<1>4. CollectPipelines(d) = CollectPipelines(c)
  BY <1>1, <1>2, <1>3 DEF CollectPipelines, LegacyPipelines
<1>5. Validated(d) = Validated(c)
  <2>1. PipelinesWellFormed(d) = PipelinesWellFormed(c)
    BY <1>1 DEF PipelinesWellFormed
  <2>2. WatchAndDoneFit(d) = WatchAndDoneFit(c)
    BY <1>2 DEF WatchAndDoneFit
  <2> QED
    BY <1>2, <1>4, <2>1, <2>2 DEF Validated
<1>6. NodesInitialised(d) = NodesInitialised(c)
  BY <1>2 DEF NodesInitialised
<1>7. NeedsPolling(d) = NeedsPolling(c)
  <2>1. GetWatchPaths(d) = GetWatchPaths(c)
    BY <1>4 DEF GetWatchPaths
  <2> QED
    BY <1>2, <2>1 DEF NeedsPolling
<1> QED
  BY <1>2, <1>4, <1>5, <1>6, <1>7 DEF d

-----------------------------------------------------------------------------
(* The inductive invariant. *)

(* A watch is a directory, unlike any other's, with its filters, and the   *)
(* done file is not in it.                                                 *)
WatchesApart ==
    /\ watches \in Seq(ToSet(watches))
    /\ \A n \in DOMAIN watches :
        /\ watches[n] = [directory |-> watches[n].directory, filters |-> watches[n].filters]
        /\ watches[n].directory # DirectoryOf[DoneFile(config)]
        /\ watches[n].directory \in Directories
    /\ \A m, n \in DOMAIN watches :
        watches[m].directory = watches[n].directory => m = n

(* A notifier that is not done has a done file, and only then is there a   *)
(* loop.                                                                   *)
DoneFileFound ==
    /\ pc \in {"watch", "processor"} /\ ~doneFlag => FindsDoneFile(config)
    /\ pc = "loop" => FindsDoneFile(config)

(* main only goes on with a configuration that was validated. *)
Accepting ==
    pc \in {"application", "notifier", "watch", "processor", "loop", "ended"}
        => Validated(config)

(* The rest of the types, and an inporter's Catalyst is initialised with   *)
(* what Processor's constructor makes of the configuration.                *)
Made ==
    /\ pc \in {"options", "exited", "json", "validate", "threw", "application",
               "notifier", "watch", "processor", "loop", "ended"}
    /\ intervals \subseteq Nat \X Nat
    /\ inporter \in BOOLEAN /\ doneFlag \in BOOLEAN
    /\ initialised = IF pc \in {"processor", "loop", "ended"} /\ inporter
                     THEN NodesInitialised(config) ELSE <<>>

(* What the watches scan for, and what a sequence of inputs, and the first *)
(* stages of a configuration's pipelines, ask for.                         *)
Polled ==
    UNION {{<<w.directory, regex>> : regex \in ToSet(w.filters)} : w \in ToSet(watches)}

PathsOf(inputs) == {<<in.directory, in.filenames>> : in \in ToSet(inputs)}

Wanted(c) ==
    LET pipelines == CollectPipelines(c)
    IN  {<<in.directory, in.filenames>> :
            in \in {pipelines[p][1].input : p \in
                {q \in DOMAIN pipelines : pipelines[q][1].input.type = "paths"}}}

CanBeWatched(c, paths) == {w \in paths : CanWatch(c, w[1])}

(* The watches made so far and the inputs still to add are together what   *)
(* the pipelines take.                                                     *)
WatchesSoFar ==
    /\ pc \in {"options", "json", "validate", "application", "notifier"} => watches = <<>>
    /\ pc \in {"processor", "loop"} => watchPaths = <<>>
    /\ pc = "loop" => ~doneFlag
    /\ watchPaths \in Seq(ToSet(watchPaths))
    /\ \A in \in ToSet(watchPaths) : in.type = "paths"
    /\ \A n \in DOMAIN watches : watches[n].filters \in Seq(ToSet(watches[n].filters))
    /\ pc \in {"watch", "processor", "loop"} /\ ~doneFlag =>
            Polled \cup CanBeWatched(config, PathsOf(watchPaths))
                = CanBeWatched(config, Wanted(config))

IInv ==
    /\ config \in Configurations
    /\ WatchesApart
    /\ DoneFileFound
    /\ Accepting
    /\ Made
    /\ WatchesSoFar

LEMMA InitIInv == Init => IInv
<1> SUFFICES ASSUME Init PROVE IInv
  OBVIOUS
<1>1. config \in Configurations /\ WatchesApart /\ DoneFileFound /\ Accepting
  BY DEF Init, WatchesApart, DoneFileFound, Accepting
<1>2. Made
  BY DEF Init, Made
<1>3. WatchesSoFar
  <2>1. watchPaths = <<>> /\ watches = <<>> /\ ToSet(<<>>) = {}
    BY ToSetOfEmpty DEF Init
  <2>2. <<>> \in Seq({})
    OBVIOUS
  <2>3. watchPaths \in Seq(ToSet(watchPaths))
    BY <2>1, <2>2, Zenon
  <2> QED
    BY <2>1, <2>3 DEF Init, WatchesSoFar
<1> QED
  BY <1>1, <1>2, <1>3 DEF IInv

(* The constructor keeps the directories apart, whichever it adds.         *)
LEMMA WithWatchApart ==
    ASSUME WatchesApart, NEW spec,
           CanWatch(config, spec.directory),
           watches' = WithWatch(watches, spec), config' = config
    PROVE  WatchesApart'
<1>0. /\ Len(watches) \in Nat
      /\ DOMAIN watches = 1..Len(watches)
      /\ watches \in Seq(ToSet(watches))
  BY DEF WatchesApart
<1>1. CASE \E w \in ToSet(watches) : w.directory = spec.directory
  <2>1. watches' = [n \in DOMAIN watches |->
                        IF watches[n].directory = spec.directory
                        THEN [watches[n] EXCEPT !.filters = Append(@, spec.filenames)]
                        ELSE watches[n]]
    BY <1>1 DEF WithWatch
  <2>2. \A n \in DOMAIN watches :
            /\ watches'[n].directory = watches[n].directory
            /\ watches'[n] = [directory |-> watches'[n].directory,
                              filters |-> watches'[n].filters]
    <3> SUFFICES ASSUME NEW n \in DOMAIN watches
                 PROVE  /\ watches'[n].directory = watches[n].directory
                        /\ watches'[n] = [directory |-> watches'[n].directory,
                                          filters |-> watches'[n].filters]
      OBVIOUS
    <3> DEFINE w == watches[n]
               filters == Append(w.filters, spec.filenames)
    <3>1. w = [directory |-> w.directory, filters |-> w.filters]
      BY DEF WatchesApart
    <3> HIDE DEF w
    <3>2. [w EXCEPT !.filters = Append(@, spec.filenames)]
            = [directory |-> w.directory, filters |-> filters]
      <4> HIDE DEF filters
      <4>1. [w EXCEPT !.filters = filters] = [directory |-> w.directory, filters |-> filters]
        BY <3>1
      <4> QED
        BY <4>1 DEF filters
    <3>3. watches'[n] \in {w, [directory |-> w.directory, filters |-> filters]}
      BY <2>1, <3>2 DEF w
    <3> HIDE DEF filters
    <3> QED
      BY <3>1, <3>3 DEF w
  <2>3. watches' \in Seq(ToSet(watches'))
    <3>1. \A n \in DOMAIN watches : watches'[n] \in ToSet(watches')
      BY <2>1 DEF ToSet
    <3>2. DOMAIN watches' = 1..Len(watches) /\ watches' = [n \in 1..Len(watches) |-> watches'[n]]
      BY <1>0, <2>1
    <3>3. watches' \in [1..Len(watches) -> ToSet(watches')]
      BY <1>0, <3>1, <3>2
    <3> QED
      BY <1>0, <3>3
  <2>4. DOMAIN watches' = DOMAIN watches
    BY <2>1
  <2> QED
    BY <2>2, <2>3, <2>4 DEF WatchesApart
<1>2. CASE ~\E w \in ToSet(watches) : w.directory = spec.directory
  <2> DEFINE new == [directory |-> spec.directory, filters |-> <<spec.filenames>>]
             S == ToSet(watches) \cup {new}
  <2>1. watches' = Append(watches, new)
    BY <1>2 DEF WithWatch
  <2>2. watches \in Seq(S) /\ new \in S
    BY <1>0
  <2>3. new = [directory |-> new.directory, filters |-> new.filters]
        /\ new.directory = spec.directory
    OBVIOUS
  <2> HIDE DEF new
  <2>4. /\ watches' \in Seq(S)
        /\ Len(watches') = Len(watches) + 1
        /\ DOMAIN watches' = 1..(Len(watches) + 1)
        /\ \A n \in 1..Len(watches) : watches'[n] = watches[n]
        /\ watches'[Len(watches) + 1] = new
    <3> HIDE DEF S
    <3> QED
      BY <1>0, <2>1, <2>2
  <2>5. watches' \in Seq(ToSet(watches'))
    <3>1. \A n \in 1..Len(watches') : watches'[n] \in ToSet(watches')
      BY <1>0, <2>4 DEF ToSet
    <3> QED
      BY <2>4, <3>1
  <2>6. \A n \in DOMAIN watches : watches[n].directory # spec.directory
    <3>1. \A n \in DOMAIN watches : watches[n] \in ToSet(watches)
      BY DEF ToSet
    <3> QED
      BY <1>2, <3>1
  <2>7. \A n \in DOMAIN watches' :
            \/ n \in DOMAIN watches /\ watches'[n] = watches[n]
            \/ n = Len(watches) + 1 /\ watches'[n] = new
    BY <1>0, <2>4
  <2>8. spec.directory # DirectoryOf[DoneFile(config)] /\ spec.directory \in Directories
    BY DEF CanWatch
  <2>9. \A n \in DOMAIN watches' :
            /\ watches'[n] = [directory |-> watches'[n].directory,
                              filters |-> watches'[n].filters]
            /\ watches'[n].directory # DirectoryOf[DoneFile(config)]
            /\ watches'[n].directory \in Directories
    BY <2>3, <2>7, <2>8 DEF WatchesApart
  <2>10. \A m, n \in DOMAIN watches' :
            watches'[m].directory = watches'[n].directory => m = n
    BY <2>3, <2>6, <2>7 DEF WatchesApart
  <2> QED
    BY <2>5, <2>9, <2>10 DEF WatchesApart
<1> QED
  BY <1>1, <1>2

LEMMA NextAccepting ==
    ASSUME IInv, [Next]_vars
    PROVE  /\ config' \in Configurations
           /\ WatchesApart'
           /\ DoneFileFound'
           /\ Accepting'
<1>1. CASE AddWatch
  <2>1. config' = config /\ pc' = pc /\ doneFlag' = doneFlag
    BY <1>1 DEF AddWatch
  <2>2. WatchesApart'
    <3>1. CASE CanWatch(config, Head(watchPaths).directory)
      <4>1. watches' = WithWatch(watches, Head(watchPaths))
        BY <1>1, <3>1 DEF AddWatch
      <4> QED
        BY <2>1, <3>1, <4>1, WithWatchApart DEF IInv
    <3>2. CASE ~CanWatch(config, Head(watchPaths).directory)
      BY <1>1, <2>1, <3>2 DEF AddWatch, IInv, WatchesApart
    <3> QED
      BY <3>1, <3>2
  <2> QED
    BY <2>1, <2>2 DEF IInv, DoneFileFound, Accepting
<1>2. CASE ~AddWatch
  <2>1. config' = config /\ watches' = watches
    BY <1>2 DEF Next, ParseCommandLine, ReadJson, Validate, CollectInporterNodes,
                MakeNotifier, MakeProcessor, UpdateInitial, vars
  <2>2. WatchesApart'
    BY <2>1 DEF IInv, WatchesApart
  <2>3. DoneFileFound'
    <3>1. CASE MakeNotifier
      BY <2>1, <3>1 DEF MakeNotifier, DoneFileFound, IInv
    <3>2. CASE ParseCommandLine \/ ReadJson \/ Validate \/ CollectInporterNodes
      BY <2>1, <3>2 DEF ParseCommandLine, ReadJson, Validate, CollectInporterNodes,
                        DoneFileFound
    <3>3. CASE MakeProcessor \/ UpdateInitial \/ UNCHANGED vars
      BY <2>1, <3>3 DEF MakeProcessor, UpdateInitial, vars, DoneFileFound, IInv
    <3> QED
      BY <1>2, <3>1, <3>2, <3>3 DEF Next
  <2>4. Accepting'
    BY <1>2, <2>1 DEF Next, ParseCommandLine, ReadJson, Validate, CollectInporterNodes,
                      MakeNotifier, MakeProcessor, UpdateInitial, vars, IInv, Accepting
  <2> QED
    BY <2>1, <2>2, <2>3, <2>4 DEF IInv
<1> QED
  BY <1>1, <1>2

LEMMA NextMade ==
    ASSUME IInv, [Next]_vars
    PROVE  Made'
<1> USE DEF Made, IInv
<1>1. CASE CollectInporterNodes
  <2>1. ToSet(InporterIntervals(config)) \subseteq {<<>>} \cup Nat \X Nat
    BY StartupAssumption, SequenceOfItsOwn
  <2>2. NodesAreIntervals(config) => ToSet(InporterIntervals(config)) \subseteq Nat \X Nat
    BY <2>1 DEF NodesAreIntervals
  <2>3. intervals' \subseteq Nat \X Nat /\ inporter' \in BOOLEAN
    BY <1>1, <2>2 DEF CollectInporterNodes
  <2> QED
    BY <1>1, <2>3 DEF CollectInporterNodes
<1>2. CASE ParseCommandLine \/ ReadJson \/ Validate \/ MakeNotifier \/ AddWatch
  BY <1>2 DEF ParseCommandLine, ReadJson, Validate, MakeNotifier, AddWatch
<1>3. CASE MakeProcessor
  BY <1>3 DEF MakeProcessor
<1>4. CASE UpdateInitial \/ UNCHANGED vars
  BY <1>4 DEF UpdateInitial, vars
<1> QED
  BY <1>1, <1>2, <1>3, <1>4 DEF Next

-----------------------------------------------------------------------------
(* What the pipelines ask the notifier to watch. *)

FromTree(c) ==
    [p \in DOMAIN c.tree.pipelines |->
        [s \in DOMAIN c.tree.pipelines[p] |-> Stage(c.tree.pipelines[p][s])]]

LEMMA FromTreeIsSequence ==
    ASSUME NEW c \in Configurations
    PROVE  \E S : FromTree(c) \in Seq(S)
<1> DEFINE read == FromTree(c)
           N == Len(c.tree.pipelines)
           S == {read[p] : p \in 1..N}
<1>1. N \in Nat /\ DOMAIN c.tree.pipelines = 1..N
  <2>1. c.tree.pipelines \in Seq(ToSet(c.tree.pipelines))
    BY StartupAssumption, Zenon
  <2> QED
    BY <2>1
<1>2. DOMAIN read = 1..N /\ read = [p \in 1..N |-> read[p]]
  BY <1>1 DEF FromTree
<1> HIDE DEF read, N
<1>3. read \in [1..N -> S]
  BY <1>2
<1> HIDE DEF S
<1>4. read \in Seq(S)
  BY <1>1, <1>3
<1> QED
  BY <1>4 DEF read

(* All the pipelines are those of the tree and then the scripts'. *)
LEMMA CollectedPipelines ==
    ASSUME NEW c \in Configurations
    PROVE  /\ CollectPipelines(c) \in Seq(ToSet(CollectPipelines(c)))
           /\ CollectScripts(c) # <<>> => <<LegacyStage(c)>> \in ToSet(CollectPipelines(c))
<1> DEFINE legacy == <<LegacyStage(c)>>
           read == FromTree(c)
           all == CollectPipelines(c)
<1>1. PICK S : read \in Seq(S)
  BY FromTreeIsSequence
<1> DEFINE T == S \cup {legacy}
<1>2. /\ all = read \o LegacyPipelines(c)
      /\ LegacyPipelines(c) \in {<<>>, <<legacy>>}
      /\ CollectScripts(c) # <<>> => LegacyPipelines(c) = <<legacy>>
  BY DEF CollectPipelines, LegacyPipelines, FromTree
<1> HIDE DEF read, legacy, all
<1>3. read \in Seq(T) /\ <<legacy>> \in Seq(T) /\ <<>> \in Seq(T)
  BY <1>1
<1> HIDE DEF T
<1>4. LegacyPipelines(c) \in Seq(T)
  BY <1>2, <1>3, Zenon
<1>5. all \in Seq(T) /\ ToSet(all) = ToSet(read) \cup ToSet(LegacyPipelines(c))
  BY <1>2, <1>3, <1>4, ToSetOfConcat
<1>6. legacy \in ToSet(<<legacy>>)
  BY DEF ToSet
<1>7. all \in Seq(ToSet(all))
  BY <1>5, SequenceOfItsOwn
<1> QED
  BY <1>2, <1>5, <1>6, <1>7 DEF legacy, all

LEMMA WatchPathsAreWanted ==
    ASSUME NEW c \in Configurations
    PROVE  /\ GetWatchPaths(c) \in Seq(ToSet(GetWatchPaths(c)))
           /\ \A in \in ToSet(GetWatchPaths(c)) : in.type = "paths"
           /\ PathsOf(GetWatchPaths(c)) = Wanted(c)
<1> DEFINE pipelines == CollectPipelines(c)
           N == Len(pipelines)
           inputs == [p \in DOMAIN pipelines |-> pipelines[p][1].input]
           T == ToSet(inputs)
           S == {in \in T : in.type = "paths"}
<1>1. N \in Nat /\ DOMAIN pipelines = 1..N
  BY CollectedPipelines
<1> HIDE DEF pipelines, N
<1>2. inputs \in [1..N -> T]
  BY <1>1 DEF ToSet
<1>3. T = {pipelines[p][1].input : p \in DOMAIN pipelines}
  BY DEF ToSet
<1>4. GetWatchPaths(c) = Select(inputs, S)
  BY DEF GetWatchPaths, pipelines
<1> HIDE DEF T, inputs
<1>5. inputs \in Seq(T) /\ ToSet(inputs) = T
  BY <1>1, <1>2 DEF T
<1>6. Select(inputs, S) \in Seq(T \cap S) /\ ToSet(Select(inputs, S)) = T \cap S
  <2> HIDE DEF S
  <2> QED
    BY <1>5, SelectProperties
<1>7. T \cap S = S
  OBVIOUS
<1>8. PathsOf(GetWatchPaths(c)) = {<<in.directory, in.filenames>> : in \in S}
  BY <1>4, <1>6, <1>7 DEF PathsOf
<1>9. S = {pipelines[p][1].input : p \in
                {q \in DOMAIN pipelines : pipelines[q][1].input.type = "paths"}}
  BY <1>3
<1>10. PathsOf(GetWatchPaths(c)) = Wanted(c)
  <2> HIDE DEF S
  <2> QED
    BY <1>8, <1>9 DEF Wanted, pipelines
<1>11. Select(inputs, S) \in Seq(ToSet(Select(inputs, S)))
  <2> HIDE DEF S
  <2> QED
    BY <1>6, SequenceOfItsOwn
<1> QED
  BY <1>4, <1>6, <1>10, <1>11

(* A specification that is added has its directory scanned with its        *)
(* expression too, and nothing else changes.                               *)
LEMMA WithWatchPolls ==
    ASSUME WatchesApart, NEW spec, watches' = WithWatch(watches, spec),
           \A n \in DOMAIN watches : watches[n].filters \in Seq(ToSet(watches[n].filters))
    PROVE  /\ \A n \in DOMAIN watches' :
                watches'[n].filters \in Seq(ToSet(watches'[n].filters))
           /\ Polled' = Polled \cup {<<spec.directory, spec.filenames>>}
<1> DEFINE Of(w) == {<<w.directory, regex>> : regex \in ToSet(w.filters)}
           x == spec.filenames
<1>1. /\ DOMAIN watches = 1..Len(watches) /\ Len(watches) \in Nat
      /\ watches \in Seq(ToSet(watches))
  BY DEF WatchesApart
<1>2. /\ Polled = UNION {Of(watches[n]) : n \in DOMAIN watches}
      /\ Polled' = UNION {Of(watches'[n]) : n \in DOMAIN watches'}
  BY DEF Polled, ToSet
<1>3. CASE \E w \in ToSet(watches) : w.directory = spec.directory
  <2>1. watches' = [n \in DOMAIN watches |->
                        IF watches[n].directory = spec.directory
                        THEN [watches[n] EXCEPT !.filters = Append(@, x)]
                        ELSE watches[n]]
    BY <1>3 DEF WithWatch
  <2>2. ASSUME NEW n \in DOMAIN watches
        PROVE  /\ watches'[n].directory = watches[n].directory
               /\ watches'[n].filters \in Seq(ToSet(watches'[n].filters))
               /\ ToSet(watches'[n].filters) =
                    IF watches[n].directory = spec.directory
                    THEN ToSet(watches[n].filters) \cup {x} ELSE ToSet(watches[n].filters)
    <3> DEFINE w == watches[n]
               filters == Append(w.filters, x)
               T == ToSet(w.filters) \cup {x}
    <3>1. w = [directory |-> w.directory, filters |-> w.filters]
      BY DEF WatchesApart
    <3>2. w.filters \in Seq(T)
      OBVIOUS
    <3>3. filters \in Seq(ToSet(filters)) /\ ToSet(filters) = ToSet(w.filters) \cup {x}
      <4> DEFINE old == w.filters
      <4>1. old \in Seq(T) /\ x \in T
        BY <3>2
      <4> HIDE DEF old, T
      <4>2. Append(old, x) \in Seq(T) /\ ToSet(Append(old, x)) = ToSet(old) \cup {x}
        BY <4>1, ToSetOfAppend
      <4>3. Append(old, x) \in Seq(ToSet(Append(old, x)))
        BY <4>2, SequenceOfItsOwn
      <4> QED
        BY <4>2, <4>3 DEF old
    <3> HIDE DEF w, T
    <3>4. [w EXCEPT !.filters = Append(@, x)]
            = [directory |-> w.directory, filters |-> filters]
      <4>1. \A g : [w EXCEPT !.filters = g] = [directory |-> w.directory, filters |-> g]
        BY <3>1
      <4> QED
        BY <4>1
    <3>5. watches'[n] = IF w.directory = spec.directory
                        THEN [directory |-> w.directory, filters |-> filters] ELSE w
      BY <2>1, <3>4 DEF w
    <3> HIDE DEF filters
    <3>6. CASE w.directory = spec.directory
      <4>1. watches'[n].directory = w.directory /\ watches'[n].filters = filters
        BY <3>5, <3>6
      <4> QED
        BY <3>3, <3>6, <4>1 DEF w
    <3>7. CASE w.directory # spec.directory
      <4>1. watches'[n] = w
        BY <3>5, <3>7
      <4> QED
        BY <3>7, <4>1 DEF w
    <3> QED
      BY <3>6, <3>7
  <2>3. DOMAIN watches' = DOMAIN watches
    BY <2>1
  <2>4. PICK m \in DOMAIN watches : watches[m].directory = spec.directory
    BY <1>3 DEF ToSet
  <2>5. \A n \in DOMAIN watches :
            Of(watches'[n]) = IF watches[n].directory = spec.directory
                              THEN Of(watches[n]) \cup {<<spec.directory, x>>}
                              ELSE Of(watches[n])
    <3> SUFFICES ASSUME NEW n \in DOMAIN watches
                 PROVE  Of(watches'[n]) = IF watches[n].directory = spec.directory
                                          THEN Of(watches[n]) \cup {<<spec.directory, x>>}
                                          ELSE Of(watches[n])
      OBVIOUS
    <3>1. watches'[n].directory = watches[n].directory
      BY <2>2
    <3>2. CASE watches[n].directory = spec.directory
      <4>1. ToSet(watches'[n].filters) = ToSet(watches[n].filters) \cup {x}
        BY <2>2, <3>2
      <4> QED
        BY <3>1, <3>2, <4>1
    <3>3. CASE watches[n].directory # spec.directory
      <4>1. ToSet(watches'[n].filters) = ToSet(watches[n].filters)
        BY <2>2, <3>3
      <4> QED
        BY <3>1, <3>3, <4>1
    <3> QED
      BY <3>2, <3>3
  <2> HIDE DEF Of
  <2>6. Polled' = Polled \cup {<<spec.directory, x>>}
    BY <1>2, <2>3, <2>4, <2>5
  <2> QED
    BY <2>2, <2>3, <2>6
<1>4. CASE ~\E w \in ToSet(watches) : w.directory = spec.directory
  <2> DEFINE new == [directory |-> spec.directory, filters |-> <<x>>]
             S == ToSet(watches) \cup {new}
  <2>1. watches' = Append(watches, new)
    BY <1>4 DEF WithWatch
  <2>2. watches \in Seq(S) /\ new \in S
    BY <1>1
  <2>3. new.filters = <<x>> /\ new.directory = spec.directory
    OBVIOUS
  <2>4. <<x>> \in Seq(ToSet(<<x>>)) /\ ToSet(<<x>>) = {x}
    BY DEF ToSet
  <2> HIDE DEF new, S
  <2>5. watches' \in Seq(S) /\ ToSet(watches') = ToSet(watches) \cup {new}
    BY <2>1, <2>2, ToSetOfAppend
  <2>6. Of(new) = {<<spec.directory, x>>}
    BY <2>3, <2>4
  <2> HIDE DEF Of
  <2>7. Polled = UNION {Of(w) : w \in ToSet(watches)}
        /\ Polled' = UNION {Of(w) : w \in ToSet(watches')}
    BY DEF Polled, Of
  <2>8. Polled' = Polled \cup {<<spec.directory, x>>}
    BY <2>5, <2>6, <2>7
  <2>9. \A w \in ToSet(watches') : w.filters \in Seq(ToSet(w.filters))
    <3>1. \A w \in ToSet(watches) : w.filters \in Seq(ToSet(w.filters))
      BY DEF ToSet
    <3>2. new.filters \in Seq(ToSet(new.filters))
      BY <2>3, <2>4, Zenon
    <3> QED
      BY <2>5, <3>1, <3>2
  <2>10. \A n \in DOMAIN watches' : watches'[n] \in ToSet(watches')
    BY DEF ToSet
  <2> QED
    BY <2>8, <2>9, <2>10
<1> QED
  BY <1>3, <1>4

LEMMA NextWatchesSoFar ==
    ASSUME IInv, [Next]_vars
    PROVE  WatchesSoFar'
<1> USE DEF IInv, WatchesSoFar
<1>1. CASE MakeNotifier
  <2>1. /\ watches' = watches /\ watches = <<>> /\ config' = config /\ pc' = "watch"
        /\ watchPaths' \in {<<>>, GetWatchPaths(config)}
        /\ ~doneFlag' => watchPaths' = GetWatchPaths(config)
    BY <1>1 DEF MakeNotifier
  <2>2. Polled' = {}
    BY <2>1, ToSetOfEmpty DEF Polled
  <2>3. \A in \in ToSet(watchPaths') : in.type = "paths"
    BY <2>1, WatchPathsAreWanted, ToSetOfEmpty
  <2>4. watchPaths' \in Seq(ToSet(watchPaths'))
    <3>1. <<>> \in Seq({})
      OBVIOUS
    <3>2. <<>> \in Seq(ToSet(<<>>))
      BY <3>1, ToSetOfEmpty, Zenon
    <3> QED
      BY <2>1, <3>2, WatchPathsAreWanted, Zenon
  <2>5. ~doneFlag' => PathsOf(watchPaths') = Wanted(config')
    BY <2>1, WatchPathsAreWanted
  <2>6. DOMAIN watches' = {}
    BY <2>1
  <2> QED
    BY <2>1, <2>2, <2>3, <2>4, <2>5, <2>6 DEF CanBeWatched
<1>2. CASE AddWatch
  <2> DEFINE in == Head(watchPaths)
             rest == Tail(watchPaths)
  <2>1. /\ pc' = pc /\ pc = "watch" /\ config' = config /\ doneFlag' = doneFlag
        /\ watchPaths # <<>>
        /\ watchPaths' = rest
        /\ watches' = IF CanWatch(config, in.directory) THEN WithWatch(watches, in)
                      ELSE watches
    BY <1>2 DEF AddWatch
  <2>2. /\ ToSet(watchPaths) = {in} \cup ToSet(rest)
        /\ rest \in Seq(ToSet(rest))
    <3>1. /\ rest \in Seq(ToSet(watchPaths))
          /\ ToSet(watchPaths) = {in} \cup ToSet(rest)
      BY <2>1, ToSetOfTail
    <3> HIDE DEF rest
    <3> QED
      BY <3>1, SequenceOfItsOwn
  <2> HIDE DEF in, rest
  <2>3. /\ \A n \in DOMAIN watches' :
            watches'[n].filters \in Seq(ToSet(watches'[n].filters))
        /\ Polled' = IF CanWatch(config, in.directory)
                     THEN Polled \cup {<<in.directory, in.filenames>>} ELSE Polled
    <3>1. CASE CanWatch(config, in.directory)
      BY <2>1, <3>1, WithWatchPolls
    <3>2. CASE ~CanWatch(config, in.directory)
      BY <2>1, <3>2 DEF Polled
    <3> QED
      BY <3>1, <3>2
  <2>4. PathsOf(watchPaths) = {<<in.directory, in.filenames>>} \cup PathsOf(rest)
    BY <2>2 DEF PathsOf
  <2>5. Polled' \cup CanBeWatched(config, PathsOf(rest))
            = Polled \cup CanBeWatched(config, PathsOf(watchPaths))
    BY <2>3, <2>4 DEF CanBeWatched
  <2> QED
    BY <2>1, <2>2, <2>3, <2>5
<1>3. CASE ParseCommandLine \/ ReadJson \/ Validate \/ CollectInporterNodes
  <2>1. UNCHANGED <<config, watchPaths, watches, doneFlag>> /\ watches = <<>>
    BY <1>3 DEF ParseCommandLine, ReadJson, Validate, CollectInporterNodes
  <2>2. pc' \notin {"watch", "processor", "loop"}
    BY <1>3 DEF ParseCommandLine, ReadJson, Validate, CollectInporterNodes
  <2> QED
    BY <2>1, <2>2
<1>4. CASE MakeProcessor \/ UpdateInitial \/ UNCHANGED vars
  <2>1. UNCHANGED <<config, watchPaths, watches, doneFlag>> /\ Polled' = Polled
    BY <1>4 DEF MakeProcessor, UpdateInitial, vars, Polled
  <2>2. \/ pc = "watch" /\ pc' = "processor" /\ watchPaths = <<>>
        \/ pc = "processor" /\ pc' = IF doneFlag THEN "ended" ELSE "loop"
        \/ pc' = pc
    BY <1>4 DEF MakeProcessor, UpdateInitial, vars
  <2> QED
    BY <2>1, <2>2
<1> QED
  BY <1>1, <1>2, <1>3, <1>4 DEF Next

LEMMA NextIInv ==
    ASSUME IInv, [Next]_vars
    PROVE  IInv'
<1>1. /\ config' \in Configurations
      /\ WatchesApart'
      /\ DoneFileFound'
      /\ Accepting'
  BY NextAccepting
<1>2. Made'
  BY NextMade
<1>3. WatchesSoFar'
  BY NextWatchesSoFar
<1> QED
  BY <1>1, <1>2, <1>3 DEF IInv

(* The inductive invariant holds throughout. *)
THEOREM Invariance == Spec => []IInv
<1>1. IInv /\ [Next]_vars => IInv'
  BY NextIInv
<1> QED
  BY InitIInv, <1>1, PTL DEF Spec

(* PollingNotify's constructor merges the specifications of a directory:   *)
(* none is watched, and so scanned, by two watches.                        *)
THEOREM WatchedOnce ==
    Spec => [](\A m, n \in DOMAIN watches :
                    watches[m].directory = watches[n].directory => m = n)
<1>1. IInv => \A m, n \in DOMAIN watches :
                watches[m].directory = watches[n].directory => m = n
  BY DEF IInv, WatchesApart
<1> QED
  BY Invariance, <1>1, PTL

(* main's loop is only entered if a done file was found whose touch ends   *)
(* it, and no watched directory is that of the done file.                  *)
THEOREM LoopEnds == Spec => []LoopCanEnd
<1>1. IInv => LoopCanEnd
  <2> SUFFICES ASSUME IInv, pc = "loop" PROVE LoopCanEnd
    BY DEF LoopCanEnd
  <2>1. DoneFile(config) \in DoneFiles
    BY DEF IInv, DoneFileFound, FindsDoneFile
  <2>2. HasDoneFile(config)
    BY <2>1, StartupAssumption DEF DoneFile, HasDoneFile
  <2>3. \A w \in ToSet(watches) : w.directory # DirectoryOf[DoneFile(config)]
    BY DEF IInv, WatchesApart, ToSet
  <2> QED
    BY <2>1, <2>2, <2>3 DEF LoopCanEnd
<1> QED
  BY Invariance, <1>1, PTL

(* Without a directory to watch, the pipeline made of the scripts takes    *)
(* whatever file it is put.                                                *)
LEMMA ScriptsTakeAnyFile ==
    ASSUME NEW c \in Configurations, NEW f,
           CollectScripts(c) # <<>>, ~HasWatchDirectory(c)
    PROVE  \E stages \in ToSet(CollectPipelines(c)) : P!Accepts(stages[1].input, <<f>>)
<1> DEFINE legacy == <<LegacyStage(c)>>
<1>1. legacy \in ToSet(CollectPipelines(c))
  BY CollectedPipelines
<1>2. legacy[1].input = AnyInput("first")
  BY DEF LegacyStage, LegacyInput
<1>3. P!Accepts(AnyInput("first"), <<f>>)
  BY DEF P!Accepts, P!Candidates, AnyInput
<1> QED
  BY <1>1, <1>2, <1>3

(* Scripts and no directory to watch: there are initial files, each is one *)
(* that a pipeline takes, and main ends after them, for it has no done     *)
(* file (README.md:112).                                                   *)
THEOREM ScriptsTakeInitialFiles == Spec => []EnumeratedFilesTaken
<1>1. IInv => EnumeratedFilesTaken
  <2> SUFFICES ASSUME IInv, Running, CollectScripts(config) # <<>>,
                      ~HasWatchDirectory(config)
               PROVE  /\ pc = "ended"
                      /\ CollectInitialFiles(config) # <<>>
                      /\ \A f \in ToSet(CollectInitialFiles(config)) :
                            \E stages \in ToSet(CollectPipelines(config)) :
                                P!Accepts(stages[1].input, <<f>>)
    BY DEF EnumeratedFilesTaken
  <2>1. WatchAndDoneFit(config)
    BY DEF IInv, Accepting, Running, Validated
  <2>2. CollectInitialFiles(config) # <<>> /\ ~HasDoneFile(config)
    BY <2>1 DEF WatchAndDoneFit
  <2>3. ~FindsDoneFile(config)
    <3>1. DoneFile(config) = ""
      BY <2>2 DEF DoneFile, HasDoneFile
    <3> QED
      BY <3>1, StartupAssumption DEF FindsDoneFile
  <2>4. pc = "ended"
    BY <2>3 DEF IInv, DoneFileFound, Running
  <2> QED
    BY <2>2, <2>4, ScriptsTakeAnyFile DEF IInv
<1> QED
  BY Invariance, <1>1, PTL

(* An option overrides what the tree says of the same setting, for every   *)
(* configuration (Configuration's methods has..., get... and collect...).  *)
THEOREM OptionsFirst == Spec => []OptionsOverride
<1>1. IInv => OptionsOverride
  BY OverriddenAlike DEF IInv, OptionsOverride
<1> QED
  BY Invariance, <1>1, PTL

(* The variables keep their types, and PollingNotify's constructor watches *)
(* no directory twice.                                                     *)
THEOREM TypeCorrect == Spec => []TypeOK
<1>1. IInv => TypeOK
  <2> SUFFICES ASSUME IInv PROVE TypeOK
    OBVIOUS
  <2>1. IsInjective([n \in DOMAIN watches |-> watches[n].directory])
    BY DEF IInv, WatchesApart, IsInjective
  <2>2. initialised # <<>> => inporter
    BY DEF IInv, Made
  <2> QED
    BY <2>1, <2>2 DEF IInv, Made, WatchesSoFar, TypeOK
<1> QED
  BY Invariance, <1>1, PTL

(* In the loop the notifier scans for what the first stages take, unless a *)
(* directory cannot be watched, and for nothing else (notification.cxx:    *)
(* PollingNotify's constructor, options.cxx: getWatchPaths).               *)
THEOREM InputsWatched == Spec => []WatchesInputs
<1>1. IInv => WatchesInputs
  <2> SUFFICES ASSUME IInv, pc = "loop"
               PROVE  Polled = {w \in Wanted(config) : CanWatch(config, w[1])}
    BY DEF WatchesInputs, Polled, Wanted
  <2>1. /\ watchPaths = <<>>
        /\ Polled \cup CanBeWatched(config, PathsOf(watchPaths))
                = CanBeWatched(config, Wanted(config))
    BY DEF IInv, WatchesSoFar
  <2>2. PathsOf(<<>>) = {}
    BY ToSetOfEmpty DEF PathsOf
  <2> QED
    BY <2>1, <2>2 DEF CanBeWatched
<1> QED
  BY Invariance, <1>1, PTL

-----------------------------------------------------------------------------
(* The nodes Catalyst is initialised with. *)

(* The nodes with scripts of W under names of Z, and lists over V. *)
Nodes(Z, W, V) == UNION {[X -> [filename : W, args : Seq(V)]] : X \in SUBSET Z}

(* What a script adds to a node: itself, and the variables to what a       *)
(* script of its name has.                                                 *)
LEMMA WithScriptProperties ==
    ASSUME NEW Z, NEW W, NEW V, NEW node \in Nodes(Z, W, V), NEW script \in W,
           FileNameOf[script] \in Z, NEW variables \in Seq(V)
    PROVE  LET new == WithScript(node, script, variables)
               name == FileNameOf[script]
           IN  /\ new \in Nodes(Z, W, V)
               /\ name \in DOMAIN new
               /\ new[name].filename = script
               /\ ToSet(variables) \subseteq ToSet(new[name].args)
               /\ \A other \in DOMAIN node \ {name} :
                    other \in DOMAIN new /\ new[other] = node[other]
<1> DEFINE name == FileNameOf[script]
           new == WithScript(node, script, variables)
           args == IF name \in DOMAIN node THEN node[name].args ELSE <<>>
           entry == [filename |-> script, args |-> args \o variables]
           R == [filename : W, args : Seq(V)]
<1>1. PICK X \in SUBSET Z : node \in [X -> R]
  BY DEF Nodes
<1>2. args \in Seq(V)
  <2>1. name \in DOMAIN node => node[name] \in R
    BY <1>1
  <2>2. name \in DOMAIN node => node[name].args \in Seq(V)
    BY <2>1
  <2>3. <<>> \in Seq(V)
    OBVIOUS
  <2> QED
    BY <2>2, <2>3, Zenon
<1>3. new = [x \in DOMAIN node \cup {name} |-> IF x = name THEN entry ELSE node[x]]
  BY DEF WithScript
<1> HIDE DEF args
<1>4. args \o variables \in Seq(V) /\ ToSet(args \o variables) = ToSet(args) \cup ToSet(variables)
  BY <1>2, ToSetOfConcat
<1>5. entry \in R /\ entry.filename = script /\ entry.args = args \o variables
  BY <1>4
<1> HIDE DEF entry, new, R, name
<1>6. new \in [{name} \cup X -> R]
  BY <1>1, <1>3, <1>5
<1>7. new[name] = entry /\ name \in DOMAIN new
  BY <1>3
<1>8. {name} \cup X \in SUBSET Z
  BY <1>1 DEF name
<1>9. new \in Nodes(Z, W, V)
  BY <1>6, <1>8 DEF Nodes, R
<1>10. \A other \in DOMAIN node \ {name} : other \in DOMAIN new /\ new[other] = node[other]
  BY <1>3
<1> QED
  BY <1>4, <1>5, <1>7, <1>9, <1>10 DEF new, name

NodeFcn(scripts, variables, n) ==
    CHOOSE node : node = [m \in 0..n |->
        IF m = 0 THEN [name \in {} |-> 0]
        ELSE WithScript(node[m - 1], scripts[m], variables)]

(* A script is under its file name in a node, with all the variables. *)
Has(node, script, variables) ==
    LET name == FileNameOf[script]
    IN  /\ name \in DOMAIN node
        /\ node[name].filename = script
        /\ ToSet(variables) \subseteq ToSet(node[name].args)

LEMMA WithScriptHas ==
    ASSUME NEW Z, NEW W, NEW V, NEW node \in Nodes(Z, W, V), NEW script \in W,
           FileNameOf[script] \in Z, NEW variables \in Seq(V),
           NEW kept, \/ kept = script
                     \/ Has(node, kept, variables) /\ FileNameOf[kept] # FileNameOf[script]
    PROVE  Has(WithScript(node, script, variables), kept, variables)
BY WithScriptProperties DEF Has

(* So is every script in the node made after it, and in the later ones as  *)
(* long as no other script of its file name comes.                         *)
LEMMA NodeHasScript ==
    ASSUME NEW W, NEW V, NEW scripts \in Seq(W), NEW variables \in Seq(V),
           NEW n \in DOMAIN scripts, NEW first \in 1..n,
           \A k \in first..n :
                FileNameOf[scripts[k]] = FileNameOf[scripts[first]]
                    => scripts[k] = scripts[first]
    PROVE  Has(NodeWith(scripts, variables, n), scripts[first], variables)
<1> DEFINE Z == {FileNameOf[script] : script \in W}
           D == Nodes(Z, W, V)
           empty == [name \in {} |-> 0]
           step == [m \in 1..n |-> [d \in D |-> WithScript(d, scripts[m], variables)]]
           Body(f, m) == IF m = 0 THEN empty ELSE WithScript(f[m - 1], scripts[m], variables)
<1>1. n \in Nat /\ n > 0 /\ \A m \in 1..n : scripts[m] \in W
  BY LenProperties
<1>2. empty \in D
  <2>1. empty \in [{} -> [filename : W, args : Seq(V)]]
    OBVIOUS
  <2>2. {} \in SUBSET Z
    OBVIOUS
  <2> HIDE DEF empty, Z
  <2> QED
    BY <2>1, <2>2 DEF Nodes
<1>3. \A d \in D, m \in 1..n : WithScript(d, scripts[m], variables) \in D
  <2> SUFFICES ASSUME NEW d \in D, NEW m \in 1..n
               PROVE  WithScript(d, scripts[m], variables) \in D
    OBVIOUS
  <2>1. scripts[m] \in W /\ FileNameOf[scripts[m]] \in Z
    BY <1>1
  <2> HIDE DEF Z
  <2> QED
    BY <2>1, WithScriptProperties
<1> HIDE DEF D, empty
<1>4. step \in [1..n -> [D -> D]]
  BY <1>3
<1>5. PICK f \in [0..n -> D] : Iterates(f, empty, step, n)
  <2> HIDE DEF step
  <2> QED
    BY <1>1, <1>2, <1>4, RecursionOnNumbers
<1>6. \A m \in 0..n : f[m] = Body(f, m)
  <2>1. ASSUME NEW m \in 1..n PROVE f[m] = Body(f, m)
    <3>1. m - 1 \in 0..n /\ m # 0
      BY <1>1
    <3>2. f[m - 1] \in D /\ f[m] = step[m][f[m - 1]]
      BY <1>5, <3>1 DEF Iterates
    <3> QED
      BY <3>1, <3>2
  <2>2. f[0] = Body(f, 0)
    BY <1>5 DEF Iterates
  <2>3. \A m \in 0..n : m = 0 \/ m \in 1..n
    BY <1>1
  <2> HIDE DEF Body
  <2> QED
    BY <2>1, <2>2, <2>3
<1>7. f = [m \in 0..n |-> Body(f, m)]
  <2> HIDE DEF Body
  <2> QED
    BY <1>5, <1>6
<1> DEFINE node == NodeFcn(scripts, variables, n)
<1>8. node = [m \in 0..n |-> Body(node, m)]
  BY <1>7 DEF NodeFcn, empty
<1> HIDE DEF Body, node
<1>9. \A m \in 0..n : node[m] = Body(node, m)
  BY <1>8, Zenon
<1>10. node[0] = empty /\ StepAlike(node, f, n)
  <2>1. 0 \in 0..n /\ \A m \in 1..n : m \in 0..n /\ m # 0
    BY <1>1
  <2> QED
    BY <1>6, <1>9, <2>1 DEF Body, StepAlike
<1>11. AgreeOn(node, f, 0..n)
  BY <1>1, <1>5, <1>10, AgreeThroughout DEF Iterates
<1>12. ASSUME NEW m \in 1..n
       PROVE  /\ node[m - 1] \in D
              /\ node[m] = WithScript(node[m - 1], scripts[m], variables)
              /\ scripts[m] \in W /\ FileNameOf[scripts[m]] \in Z
  <2>1. m - 1 \in 0..n /\ m \in 0..n /\ m # 0
    BY <1>1
  <2>2. node[m - 1] = f[m - 1] /\ f[m - 1] \in D
    BY <1>5, <1>11, <2>1 DEF AgreeOn
  <2>3. scripts[m] \in W /\ FileNameOf[scripts[m]] \in Z
    BY <1>1
  <2> QED
    BY <1>9, <2>1, <2>2, <2>3 DEF Body
<1> HIDE DEF Z
<1> DEFINE Kept(k) == k \in first..n => Has(node[k], scripts[first], variables)
           KeptAt == {k \in Nat : Kept(k)}
<1>13. 0 \in KeptAt
  OBVIOUS
<1>14. ASSUME NEW k \in Nat, k \in KeptAt PROVE k + 1 \in KeptAt
  <2> SUFFICES ASSUME k + 1 \in first..n
               PROVE  Has(node[k + 1], scripts[first], variables)
    OBVIOUS
  <2>1. k + 1 \in 1..n /\ (k + 1) - 1 = k
    BY <1>1
  <2>2. \/ scripts[first] = scripts[k + 1]
        \/ /\ Has(node[k], scripts[first], variables)
           /\ FileNameOf[scripts[first]] # FileNameOf[scripts[k + 1]]
    <3>1. k + 1 = first \/ k \in first..n
      BY <2>1
    <3>2. k \in first..n => Has(node[k], scripts[first], variables)
      BY <1>14
    <3> QED
      BY <3>1, <3>2
  <2>3. /\ node[k] \in D
        /\ node[k + 1] = WithScript(node[k], scripts[k + 1], variables)
        /\ scripts[k + 1] \in W /\ FileNameOf[scripts[k + 1]] \in Z
    BY <1>12, <2>1
  <2> QED
    BY <2>2, <2>3, WithScriptHas DEF D
<1>15. n \in KeptAt
  <2> HIDE DEF KeptAt
  <2> QED
    BY <1>1, <1>13, <1>14, InductionOnNumbers
<1>16. n \in first..n
  BY <1>1
<1>17. NodeWith(scripts, variables, n) = node[n]
  BY DEF NodeWith, NodeFcn, node
<1> QED
  BY <1>15, <1>16, <1>17

(* What the stage of the scripts reads with one of them. *)
LEMMA LegacyScriptsOf ==
    ASSUME NEW c \in Configurations, NEW s \in ToSet(LegacyScripts(c))
    PROVE  \E n \in DOMAIN CollectScripts(c), v \in DOMAIN CollectVariables(c) :
                s.script = CollectScripts(c)[n] /\ s.variables = CollectVariables(c)[v]
<1> DEFINE scripts == CollectScripts(c)
           variables == CollectVariables(c)
           Pair(n, v) == [script |-> scripts[n], variables |-> variables[v]]
           M == Len(scripts)
           N == Len(variables)
           T == {Pair(n, v) : n \in 1..M, v \in 1..N}
           Row(v) == [n \in DOMAIN scripts |-> Pair(n, v)]
           seqs == [v \in DOMAIN variables |-> Row(v)]
<1>1. scripts \in Seq(ToSet(scripts)) /\ variables \in Seq(ToSet(variables))
  BY StartupAssumption, Zenon
<1>2. M \in Nat /\ N \in Nat /\ DOMAIN scripts = 1..M /\ DOMAIN variables = 1..N
  BY <1>1
<1>3. LegacyScripts(c) = FlattenSeq(seqs)
  BY DEF LegacyScripts
<1> HIDE DEF M, N, scripts, variables
<1>4. \A v \in 1..N : Row(v) \in [1..M -> T]
  BY <1>2
<1>5. \A v \in 1..N : Row(v) \in Seq(T)
  <2> HIDE DEF T, Row
  <2> QED
    BY <1>2, <1>4
<1>6. seqs \in [1..N -> Seq(T)]
  <2> HIDE DEF T, Row
  <2> QED
    BY <1>2, <1>5
<1>7. seqs \in Seq(Seq(T))
  <2> HIDE DEF T, seqs
  <2> QED
    BY <1>2, <1>6
<1>8. PICK v \in DOMAIN seqs : s \in ToSet(seqs[v])
  <2> HIDE DEF seqs, T
  <2> QED
    BY <1>3, <1>7, FlattenSeqProperties
<1>9. v \in DOMAIN variables /\ seqs[v] = Row(v)
  OBVIOUS
<1>10. PICK n \in DOMAIN scripts : s = Pair(n, v)
  BY <1>8, <1>9 DEF ToSet
<1>11. s.script = scripts[n] /\ s.variables = variables[v]
  BY <1>10
<1> QED
  BY <1>9, <1>11 DEF scripts, variables

(* When an inporter starts to process, one of the initialisations had each *)
(* script of the pipeline made of --scripts, under its own path and with   *)
(* every set of variables, and the last has those that share their file    *)
(* name with no other (adaptorV2.cxx: Processor's constructor).            *)
THEOREM EveryScriptInitialised == Spec => []ScriptsInitialised
<1>1. IInv => ScriptsInitialised
  <2> SUFFICES ASSUME IInv, Running, inporter,
                      NEW s \in ToSet(LegacyStage(config).process.scripts)
               PROVE  /\ \E node \in ToSet(initialised) : Knows(node, s)
                      /\ NameIsItsOwn(s.script) => Knows(Last(initialised), s)
    BY DEF ScriptsInitialised
  <2> DEFINE scripts == CollectScripts(config)
             variables == CollectVariables(config)
             Node(n) == NodeWith(scripts, variables, n)
  <2>1. config \in Configurations /\ initialised = NodesInitialised(config)
    BY DEF IInv, Made, Running
  <2>2. LegacyStage(config).process.scripts = LegacyScripts(config)
    BY DEF LegacyStage
  <2>3. PICK n \in DOMAIN scripts, v \in DOMAIN variables :
            s.script = scripts[n] /\ s.variables = variables[v]
    BY <2>1, <2>2, LegacyScriptsOf
  <2>4. scripts \in Seq(ToSet(scripts)) /\ variables \in Seq(ToSet(variables))
    BY <2>1, StartupAssumption, Zenon
  <2>5. initialised = [m \in DOMAIN scripts |-> Node(m)]
    BY <2>1 DEF NodesInitialised
  <2>6. ASSUME NEW m \in DOMAIN scripts, Has(Node(m), scripts[n], variables)
        PROVE  Knows(Node(m), s)
    <3> HIDE DEF Node, scripts, variables
    <3>1. variables[v] \in ToSet(variables)
      BY DEF ToSet
    <3> QED
      BY <2>3, <2>6, <3>1 DEF Has, Knows
  <2>7. NameIsItsOwn(s.script) =>
            \A m \in DOMAIN scripts :
                FileNameOf[scripts[m]] = FileNameOf[scripts[n]] => scripts[m] = scripts[n]
    BY <2>3 DEF NameIsItsOwn, ToSet
  <2> HIDE DEF scripts, variables
  <2>8. DOMAIN scripts = 1..Len(scripts) /\ Len(scripts) \in Nat
    BY <2>4
  <2>9. Knows(Node(n), s)
    <3>1. n \in 1..n /\ \A k \in n..n : scripts[k] = scripts[n]
      BY <2>8
    <3> QED
      BY <2>4, <2>6, <3>1, NodeHasScript
  <2>10. ASSUME NameIsItsOwn(s.script) PROVE Knows(Node(Len(scripts)), s)
    <3>1. /\ Len(scripts) \in DOMAIN scripts /\ n \in 1..Len(scripts)
          /\ \A k \in n..Len(scripts) : k \in DOMAIN scripts
      BY <2>8
    <3> QED
      BY <2>4, <2>6, <2>7, <2>10, <3>1, NodeHasScript
  <2> HIDE DEF Node
  <2>11. Last(initialised) = Node(Len(scripts))
    <3>1. initialised \in [1..Len(scripts) -> {Node(m) : m \in DOMAIN scripts}]
      BY <2>5, <2>8
    <3>2. Len(initialised) = Len(scripts) /\ Len(scripts) \in DOMAIN scripts
      BY <2>8, <3>1
    <3> QED
      BY <2>5, <3>2 DEF Last
  <2>12. Node(n) \in ToSet(initialised)
    BY <2>5 DEF ToSet
  <2> QED
    BY <2>9, <2>10, <2>11, <2>12
<1> QED
  BY Invariance, <1>1, PTL
=============================================================================
