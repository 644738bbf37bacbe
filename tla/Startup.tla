-------------------------------- MODULE Startup --------------------------------
(***************************************************************************)
(* inshimtu.cxx up to its loop, on one rank: the options and the JSON file *)
(* are read and validated, MPICatalystApplication picks the inporters, the *)
(* notifier is made and told what to watch, Catalyst is initialised on an  *)
(* inporter, and the initial files are put to the pipelines.  Every rank   *)
(* is given the same command line and file, so all of them take these      *)
(* steps alike.                                                            *)
(***************************************************************************)
EXTENDS Configuration

CONSTANTS
    Configurations, \* the configurations: [opts, tree]
    Directories,    \* the directories that exist
    DoneFiles,      \* the regular files that could be done files
    DirectoryOf,    \* the directory of each name given for a done file
    FileNameOf      \* the name of each script without its directory

P == INSTANCE Pipelines

(* What the tree can say. *)
TreePaths ==
    {"directory_path", "done_watchfile", "files_regex", "initial_files", "scripts",
     "variables", "commands", "nodes", "catalyst_lib", "pipelines", "readable"}

ASSUME StartupAssumption ==
    /\ \A c \in Configurations :
        /\ {"opts", "tree"} \subseteq DOMAIN c /\ TreePaths \subseteq DOMAIN c.tree
        /\ c.tree.pipelines \in Seq(ToSet(c.tree.pipelines))
        /\ InporterIntervals(c) \in Seq({<<>>} \cup Nat \X Nat)
        /\ \A list \in {CollectScripts(c), CollectVariables(c)} : list \in Seq(ToSet(list))
    /\ {DoneFile(c) : c \in Configurations} \subseteq DOMAIN DirectoryOf
    /\ "" \notin DoneFiles

VARIABLES
    pc,             \* where main is
    config,         \* the configuration
    intervals,      \* the node intervals, if any
    inporter,       \* is this rank an inporter?
    watchPaths,     \* the watch_paths the constructor has still to add
    watches,        \* PollingNotify::watches
    doneFlag,       \* Notify::isDone
    initialised     \* the nodes catalyst_initialize was called with

vars == <<pc, config, intervals, inporter, watchPaths, watches, doneFlag, initialised>>

Init ==
    /\ pc = "options"
    /\ config \in Configurations
    /\ intervals = {}
    /\ inporter = FALSE
    /\ watchPaths = <<>>
    /\ watches = <<>>
    /\ doneFlag = FALSE
    /\ initialised = <<>>

(* Configuration's constructor.  It prints what help asks for and exits,   *)
(* throws if the file is no JSON, and then validates.                      *)
ParseCommandLine ==
    /\ pc = "options"
    /\ pc' = IF config.opts.help THEN "exited" ELSE "json"
    /\ UNCHANGED <<config, intervals, inporter, watchPaths, watches, doneFlag, initialised>>

ReadJson ==
    /\ pc = "json"
    /\ pc' = IF config.tree.readable THEN "validate" ELSE "threw"
    /\ UNCHANGED <<config, intervals, inporter, watchPaths, watches, doneFlag, initialised>>

Validate ==
    /\ pc = "validate"
    /\ pc' = IF Validated(config) THEN "application" ELSE "threw"
    /\ UNCHANGED <<config, intervals, inporter, watchPaths, watches, doneFlag, initialised>>

(* MPICatalystApplication: only now the node intervals are read.  Without  *)
(* any, all ranks are inporters (module Sections).                         *)
CollectInporterNodes ==
    /\ pc = "application"
    /\ IF NodesAreIntervals(config)
       THEN /\ intervals' = ToSet(InporterIntervals(config))
            /\ inporter' \in IF intervals' = {} THEN {TRUE} ELSE BOOLEAN
            /\ pc' = "notifier"
       ELSE UNCHANGED <<intervals, inporter>> /\ pc' = "threw"
    /\ UNCHANGED <<config, watchPaths, watches, doneFlag, initialised>>

-----------------------------------------------------------------------------
(* main: a Notify, done at once, if there is nothing to watch; otherwise a *)
(* PollingNotify, which is done at once if it finds no done file.          *)
NeedsPolling(c) == GetWatchPaths(c) # <<>> \/ HasDoneFile(c)

AnyDoneFile(c) == TRUE      \* mutant

FindsDoneFile(c) == DoneFile(c) \in DoneFiles

MakeNotifier ==
    /\ pc = "notifier"
    /\ IF NeedsPolling(config) /\ FindsDoneFile(config)
       THEN /\ watchPaths' = GetWatchPaths(config)
            /\ doneFlag' = FALSE
       ELSE /\ watchPaths' = <<>>
            /\ doneFlag' = TRUE
    /\ pc' = "watch"
    /\ UNCHANGED <<config, intervals, inporter, watches, initialised>>

(* PollingNotify's constructor for one specification: a directory that     *)
(* does not exist or that holds the done file is skipped, and one already  *)
(* watched only gets another filter.                                       *)
CanWatch(c, directory) ==
    directory \in Directories /\ directory # DirectoryOf[DoneFile(c)]

NeverMerged(sofar, spec) ==     \* mutant
    Append(sofar, [directory |-> spec.directory, filters |-> <<spec.filenames>>])

FirstFilterOnly(sofar, spec) == \* mutant
    IF \E w \in ToSet(sofar) : w.directory = spec.directory THEN sofar
    ELSE Append(sofar, [directory |-> spec.directory, filters |-> <<spec.filenames>>])

WithWatch(sofar, spec) ==
    IF \E w \in ToSet(sofar) : w.directory = spec.directory
    THEN [n \in DOMAIN sofar |->
            IF sofar[n].directory = spec.directory
            THEN [sofar[n] EXCEPT !.filters = Append(@, spec.filenames)] ELSE sofar[n]]
    ELSE Append(sofar, [directory |-> spec.directory, filters |-> <<spec.filenames>>])

AddWatch ==
    /\ pc = "watch"
    /\ watchPaths # <<>>
    /\ watchPaths' = Tail(watchPaths)
    /\ watches' = IF CanWatch(config, Head(watchPaths).directory)
                  THEN WithWatch(watches, Head(watchPaths)) ELSE watches
    /\ UNCHANGED <<pc, config, intervals, inporter, doneFlag, initialised>>

-----------------------------------------------------------------------------
(* Processor's constructor.  Its one node collects the scripts by their    *)
(* file names, each with an argument for every set of variables, and       *)
(* Catalyst is initialised with it once more after each script.            *)
WithScript(node, script, variables) ==
    LET name == FileNameOf[script]
        args == IF name \in DOMAIN node THEN node[name].args ELSE <<>>
    IN  [other \in DOMAIN node \cup {name} |->
            IF other = name THEN [filename |-> script, args |-> args \o variables]
            ELSE node[other]]

NodeWith(scripts, variables, n) ==
    LET node[m \in 0..n] ==
            IF m = 0 THEN [name \in {} |-> 0]
            ELSE WithScript(node[m - 1], scripts[m], variables)
    IN  node[n]

NodesAtEnd(c) ==        \* mutant
    LET scripts == CollectScripts(c)
    IN  IF scripts = <<>> THEN <<>>
        ELSE <<NodeWith(scripts, CollectVariables(c), Len(scripts))>>

NodesInitialised(c) ==
    [n \in DOMAIN CollectScripts(c) |->
        NodeWith(CollectScripts(c), CollectVariables(c), n)]

MakeProcessor ==
    /\ pc = "watch"
    /\ watchPaths = <<>>
    /\ initialised' = IF inporter THEN NodesInitialised(config) ELSE <<>>
    /\ pc' = "processor"
    /\ UNCHANGED <<config, intervals, inporter, watchPaths, watches, doneFlag>>

(* The initial update returns whether the notifier is done: without the    *)
(* loop, main ends after the initial files.                                *)
UpdateInitial ==
    /\ pc = "processor"
    /\ pc' = IF doneFlag THEN "ended" ELSE "loop"
    /\ UNCHANGED <<config, intervals, inporter, watchPaths, watches, doneFlag, initialised>>

Next ==
    \/ ParseCommandLine \/ ReadJson \/ Validate
    \/ CollectInporterNodes \/ MakeNotifier \/ AddWatch
    \/ MakeProcessor \/ UpdateInitial

Spec == Init /\ [][Next]_vars

-----------------------------------------------------------------------------

Running == pc \in {"loop", "ended"}

(* The variables keep their types, and no directory is watched twice: it   *)
(* would be scanned twice, with known files of its own.                    *)
TypeOK ==
    /\ pc \in {"options", "exited", "json", "validate", "threw", "application",
               "notifier", "watch", "processor", "loop", "ended"}
    /\ config \in Configurations
    /\ intervals \subseteq Nat \X Nat
    /\ \A in \in ToSet(watchPaths) : in.type = "paths"
    /\ IsInjective([n \in DOMAIN watches |-> watches[n].directory])
    /\ {inporter, doneFlag} \subseteq BOOLEAN
    /\ initialised # <<>> => inporter

(* In the loop the notifier polls exactly what the pipelines take: every   *)
(* file some first stage matches, unless its directory cannot be watched,  *)
(* passes a filter of its directory, and no filter passes anything else.   *)
WatchesInputs ==
    pc = "loop" =>
        LET pipelines == CollectPipelines(config)
            polled == UNION {{<<w.directory, regex>> : regex \in ToSet(w.filters)} :
                                w \in ToSet(watches)}
            wanted == {<<in.directory, in.filenames>> :
                        in \in {pipelines[p][1].input : p \in
                            {q \in DOMAIN pipelines : pipelines[q][1].input.type = "paths"}}}
        IN  polled = {w \in wanted : CanWatch(config, w[1])}

(* The loop is only entered if there is a file whose touch ends it, and    *)
(* that is not itself in a directory which is scanned for input: without   *)
(* one main ends after the initial files, although validation accepts it   *)
(* and pipelines may name paths.                                           *)
LoopCanEnd ==
    pc = "loop" =>
        /\ HasDoneFile(config)
        /\ DoneFile(config) \in DoneFiles
        /\ \A w \in ToSet(watches) : w.directory # DirectoryOf[DoneFile(config)]

(* README.md:112, "Processes all existing files specified in the script;   *)
(* Stops when all prexisting files are processed": with scripts and no     *)
(* watched directory, each initial file is one some pipeline accepts, and  *)
(* main ends after them.                                                   *)
EnumeratedFilesTaken ==
    (Running /\ CollectScripts(config) # <<>> /\ ~HasWatchDirectory(config)) =>
        /\ pc = "ended"
        /\ CollectInitialFiles(config) # <<>>
        /\ \A f \in ToSet(CollectInitialFiles(config)) :
            \E stages \in ToSet(CollectPipelines(config)) :
                P!Accepts(stages[1].input, <<f>>)

(* README.md:147 and 164, one set of variables or several: when an inporter *)
(* starts to process, some initialisation had each script of the pipeline  *)
(* made of --scripts, under its own path and with every set of variables   *)
(* the stage reads with it.  Later initialisations keep it, so the last    *)
(* has it too, unless another script has the same file name: these share a *)
(* place in the node, where only the path of the later one stays.          *)
Knows(node, s) ==
    \E name \in DOMAIN node :
        node[name].filename = s.script /\ s.variables \in ToSet(node[name].args)

NameIsItsOwn(script) ==
    \A other \in ToSet(CollectScripts(config)) :
        FileNameOf[other] = FileNameOf[script] => other = script

ScriptsInitialised ==
    (Running /\ inporter /\ LegacyPipelines(config) # <<>>) =>
        \A s \in ToSet(LegacyStage(config).process.scripts) :
            /\ \E node \in ToSet(initialised) : Knows(node, s)
            /\ NameIsItsOwn(s.script) => Knows(Last(initialised), s)

(* "options override configurations" (options.cxx:682, 722, 758): what the *)
(* tree says of a setting that is also given as an option has no influence *)
(* on whether the configuration is accepted or on what is then made of it. *)
OverriddenTree(opts, tree) ==
    [tree EXCEPT !.directory_path = IF opts.watch # "" THEN "" ELSE @,
                 !.done_watchfile = IF opts.done # "" THEN "" ELSE @,
                 !.files_regex = IF opts.files # "" THEN "" ELSE @,
                 !.initial_files = IF opts.initial # <<>> THEN <<>> ELSE @,
                 !.scripts = IF opts.scripts # <<>> THEN <<>> ELSE @,
                 !.variables = IF opts.variables # <<>> THEN <<>> ELSE @,
                 !.commands = IF opts.external_commands # <<>> THEN <<>> ELSE @,
                 !.nodes = IF opts.nodes # <<>> THEN <<>> ELSE @,
                 !.catalyst_lib = IF opts.catalyst_lib # "" THEN "" ELSE @]

Overridden(c) == [c EXCEPT !.tree = OverriddenTree(c.opts, c.tree)]

OptionsOverride ==
    pc = "validate" =>
        LET c == Overridden(config)
        IN  /\ Validated(c) = Validated(config)
            /\ Validated(c) =>
                /\ CollectPipelines(c) = CollectPipelines(config)
                /\ CollectInitialFiles(c) = CollectInitialFiles(config)
                /\ NodesInitialised(c) = NodesInitialised(config)
                /\ InporterIntervals(c) = InporterIntervals(config)
                /\ NeedsPolling(c) = NeedsPolling(config)
                /\ DoneFile(c) = DoneFile(config)
=============================================================================
