----------------------------- MODULE Configuration -----------------------------
(***************************************************************************)
(* core/options.cxx: what class Configuration makes of the command line    *)
(* and the JSON tree, and which of these it accepts.                       *)
(*                                                                         *)
(* A configuration c is [opts, tree]: the values of the options and of the *)
(* tree's paths, "" or <<>> where one is not given.  An option overrides   *)
(* the tree.  tree.pipelines is a sequence of sequences of stages          *)
(* [input, process, output], the first two records whose type may be       *)
(* missing, "", or anything else.  An input also has watch (it has that    *)
(* child), directory_path, files_regex, accept, "" if missing, and needs   *)
(* for an accept script (module Pipelines).                                *)
(* A set of variables is a sequence, the text split at the commas; a script*)
(* of a stage is the text of its node, "" for an object.  Options that only *)
(* set delays and wording are left out.                                    *)
(***************************************************************************)
EXTENDS Selections, SequencesExt

CONSTANTS
    FilesIn,        \* the files of each directory, by its name
    Matches         \* the files each regular expression matches

-----------------------------------------------------------------------------
(* The settings.  "" and <<>> count as not given. *)

HasWatchDirectory(c) == c.opts.watch # "" \/ c.tree.directory_path # ""
HasDoneFile(c) == c.opts.done # "" \/ c.tree.done_watchfile # ""
HasFileFilter(c) == c.opts.files # "" \/ c.tree.files_regex # ""
HasCatalystLib(c) == c.opts.catalyst_lib # "" \/ c.tree.catalyst_lib # ""

WatchDirectory(c) == IF c.opts.watch # "" THEN c.opts.watch ELSE c.tree.directory_path
DoneFile(c) == IF c.opts.done # "" THEN c.opts.done ELSE c.tree.done_watchfile
FileFilter(c) == IF c.opts.files # "" THEN c.opts.files ELSE c.tree.files_regex

AppendInitialFiles(c) ==    \* mutant
    c.tree.initial_files \o c.opts.initial

CollectInitialFiles(c) ==
    IF c.opts.initial # <<>> THEN c.opts.initial ELSE c.tree.initial_files

CollectScripts(c) ==
    IF c.opts.scripts # <<>> THEN c.opts.scripts ELSE c.tree.scripts

CollectVariables(c) ==
    IF c.opts.variables # <<>> THEN c.opts.variables ELSE c.tree.variables

(* A command without an executable is no command. *)
Commands(commands) == SelectSeq(commands, LAMBDA cmd : cmd.exe # "")

CollectExternalCommands(c) ==
    IF c.opts.external_commands # <<>>
    THEN c.opts.external_commands ELSE Commands(c.tree.commands)

(* The node intervals: pairs, or <<>> where the text has no number. *)
InporterIntervals(c) == IF c.opts.nodes # <<>> THEN c.opts.nodes ELSE c.tree.nodes

NodesAreIntervals(c) == <<>> \notin ToSet(InporterIntervals(c))

-----------------------------------------------------------------------------
(* The stages of the tree's pipelines.  The code throws at the first that  *)
(* is not well-formed. *)

(* An expression left empty matches every name. *)
PathsInput(directory, regex, accept) ==
    [type |-> "paths", directory |-> directory, filenames |-> regex, accept |-> accept,
     matches |-> IF regex = "" THEN FilesIn[directory]
                 ELSE FilesIn[directory] \cap Matches[regex]]

AnyInput(accept) == [type |-> "any", accept |-> accept]

(* A specification of paths may leave out what it accepts; one of any      *)
(* input must say "first" or "all".                                        *)
WellFormedInput(in) ==
    \/ /\ in.type = "InputSpecPaths"
       /\ in.watch
       /\ in.accept \in {"", "first", "all", "script"}
    \/ in.type = "InputSpecAny" /\ in.accept \in {"first", "all"}

InputSpec(in) ==
    CASE in.type = "InputSpecAny" -> AnyInput(in.accept)
      [] in.type = "InputSpecPaths" /\ in.accept = "script" ->
            PathsInput(in.directory_path, in.files_regex, "script") @@ [needs |-> in.needs]
      [] OTHER ->
            PathsInput(in.directory_path, in.files_regex,
                       IF in.accept = "" THEN "first" ELSE in.accept)

WellFormedProcess(process) ==
    \/ /\ process.type = "ProcessingSpecReadyFile"
       /\ process.match_regex # ""
       /\ process.replace_formatstr # ""
    \/ process.type = "ProcessingSpecCatalyst" /\ process.scripts # <<>>
    \/ process.type = "ProcessingSpecCommands" /\ Commands(process.commands) # <<>>

(* How commands run is configured by both types or not at all; a value     *)
(* that is not known stands for "all".                                     *)
RunBy(process, value, other) ==
    IF "" \notin {process.commandType, process.filesType} /\ value = other
    THEN other ELSE "all"

(* getScript: the text of the node is the script and the variables, the    *)
(* members an object has are not looked at.  The default is only taken for *)
(* the script, since any text is a string.                                 *)
ScriptSpec(text) ==
    [script |-> IF text = "" THEN "script" ELSE text, variables |-> <<text>>]

ProcessSpec(process) ==
    CASE process.type = "ProcessingSpecReadyFile" -> [type |-> "readyfile"]
      [] process.type = "ProcessingSpecCatalyst" ->
            [type |-> "catalyst",
             scripts |-> [n \in DOMAIN process.scripts |-> ScriptSpec(process.scripts[n])]]
      [] process.type = "ProcessingSpecCommands" ->
            [type |-> "commands", commands |-> Commands(process.commands),
             commandsBy |-> RunBy(process, process.commandType, "separate"),
             filesBy |-> RunBy(process, process.filesType, "single")]

WellFormedStage(stage) ==
    /\ WellFormedInput(stage.input)
    /\ WellFormedProcess(stage.process)
    /\ stage.output \in {"OutputSpecPipeline", "OutputSpecDone"}

Stage(stage) ==
    [input |-> InputSpec(stage.input), process |-> ProcessSpec(stage.process),
     out |-> IF stage.output = "OutputSpecDone" THEN "done" ELSE "pipeline"]

WellFormedPipeline(stages) ==
    stages # <<>> /\ \A s \in DOMAIN stages : WellFormedStage(stages[s])

PipelinesWellFormed(c) == \A stages \in ToSet(c.tree.pipelines) : WellFormedPipeline(stages)

(* The pipeline the scripts make.  It takes the files of the watched       *)
(* directory if these are filtered, and anything otherwise.                *)
LegacyInput(c) ==
    IF HasWatchDirectory(c) /\ HasFileFilter(c)
    THEN PathsInput(WatchDirectory(c), FileFilter(c), "first")
    ELSE AnyInput("first")

(* Every script with every set of variables.  Without variables there is   *)
(* the pipeline all the same, and nothing for it to read.                  *)
LegacyScripts(c) ==
    LET scripts == CollectScripts(c)
        variables == CollectVariables(c)
    IN  FlattenSeq([v \in DOMAIN variables |-> [s \in DOMAIN scripts |->
            [script |-> scripts[s], variables |-> variables[v]]]])

LegacyStage(c) ==
    [input |-> LegacyInput(c),
     process |-> [type |-> "catalyst", scripts |-> LegacyScripts(c)], out |-> "done"]

LegacyIfAlone(c) ==     \* mutant
    IF CollectScripts(c) # <<>> /\ c.tree.pipelines = <<>> THEN <<<<LegacyStage(c)>>>> ELSE <<>>

LegacyPipelines(c) ==
    IF CollectScripts(c) # <<>> THEN <<<<LegacyStage(c)>>>> ELSE <<>>

CollectPipelines(c) ==
    [p \in DOMAIN c.tree.pipelines |->
        [s \in DOMAIN c.tree.pipelines[p] |-> Stage(c.tree.pipelines[p][s])]]
    \o LegacyPipelines(c)

(* The first stages' inputs that name paths. *)
GetWatchPaths(c) ==
    LET pipelines == CollectPipelines(c)
        inputs == [p \in DOMAIN pipelines |-> pipelines[p][1].input]
    IN  Select(inputs, {in \in ToSet(inputs) : in.type = "paths"})

-----------------------------------------------------------------------------
(* The constructor's validation.  It builds the pipelines, so it throws if *)
(* one of them is not well-formed.                                         *)
WatchAndDoneFit(c) ==
    IF CollectInitialFiles(c) # <<>>
    THEN /\ HasWatchDirectory(c) <=> HasDoneFile(c)
         /\ HasFileFilter(c) => HasWatchDirectory(c)
    ELSE HasWatchDirectory(c) /\ HasDoneFile(c)

Validated(c) ==
    /\ PipelinesWellFormed(c)
    /\ WatchAndDoneFit(c)
    /\ \/ CollectScripts(c) # <<>>
       \/ CollectExternalCommands(c) # <<>>
       \/ CollectPipelines(c) # <<>>
    /\ HasCatalystLib(c)
=============================================================================
