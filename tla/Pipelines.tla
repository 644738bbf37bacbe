------------------------------- MODULE Pipelines -------------------------------
(***************************************************************************)
(* processing/pipeline.cxx: what a stage's input specification accepts,    *)
(* which commands it runs and what it hands to the next stage.             *)
(*                                                                         *)
(* A stage is [input, process, out], where                                 *)
(*   input   [type |-> "paths", matches, accept] with accept "first", "all"*)
(*           or "script" (then also needs, the files the script waits for) *)
(*           or [type |-> "any", accept] with accept "first" or "all"      *)
(*   process [type |-> "readyfile", conversion],                           *)
(*           [type |-> "catalyst", scripts] (module Adaptors) or           *)
(*           [type |-> "commands", commands, commandsBy, filesBy], with    *)
(*           commandsBy "all" or "separate" and filesBy "all" or "single"  *)
(*   out     "pipeline" or "done": the code treats both alike.             *)
(* A command is [exe, argument], the latter "none", "filename" for         *)
(* $FILENAME or "filenames" for $FILENAMES_ARRAY.                          *)
(***************************************************************************)
EXTENDS Selections, SequencesExt

(* pipeline_AcceptInput.  A script sees the files that match; it is taken  *)
(* to be one that waits for a group of files and accepts it as a whole.    *)
Matching(input, files) == Select(files, input.matches)

Candidates(input, available) ==
    IF input.type = "paths" THEN Matching(input, available) ELSE available

Accepts(input, available) ==
    LET candidates == Candidates(input, available)
    IN  CASE input.accept = "script" -> input.needs \subseteq ToSet(candidates)
          [] input.accept = "all" /\ input.type = "any" -> TRUE
          [] OTHER -> candidates # <<>>

Accepted(input, available) ==
    LET candidates == Candidates(input, available)
    IN  CASE input.accept = "script" -> Select(candidates, input.needs)
          [] input.accept = "first" -> SubSeq(candidates, 1, 1)
          [] input.accept = "all" -> candidates

-----------------------------------------------------------------------------
(* The tasks.  TaskState's stage iterator is the sequence of the stages    *)
(* still to do; outputFiles is empty between two calls of ProcessNext.     *)

NewTask(stages, files) == [stages |-> stages, inputFiles |-> files, status |-> "ok"]

(* visitorInput *)
StageInput(stage, files) ==
    IF stage.input.type = "paths" THEN Matching(stage.input, files) ELSE files

FailedInput(stage, files) ==
    stage.input.type = "paths" /\ StageInput(stage, files) = <<>>

(* ProcessingSpecReadyFile: each signal file stands for the file it        *)
(* announces; any other is dropped.                                        *)
Converted(process, files) ==
    LET signals == Select(files, DOMAIN process.conversion)
    IN  [n \in DOMAIN signals |-> process.conversion[signals[n]]]

(* ProcessingSpecCommands: the calls of processCommand, in order.          *)
Call(process, command, files) ==
    [command |-> command, files |-> files, filesBy |-> process.filesBy]

EachCommandOn(process, files) ==
    [c \in DOMAIN process.commands |-> Call(process, process.commands[c], files)]

CommandCalls(process, files) ==
    LET perCommand ==
            [c \in DOMAIN process.commands |->
                [n \in DOMAIN files |->
                    Call(process, process.commands[c], <<files[n]>>)]]
        perFile == [n \in DOMAIN files |-> EachCommandOn(process, <<files[n]>>)]
    IN  CASE process.filesBy = "single" /\ Len(files) > 1
                /\ process.commandsBy = "separate" -> FlattenSeq(perCommand)
          [] process.filesBy = "single" /\ Len(files) > 1
                /\ process.commandsBy = "all" ->
                    FlattenSeq(perFile) \o EachCommandOn(process, files)
          [] OTHER -> EachCommandOn(process, files)

(* processCommand on no files: files[0] is undefined.  The asserts before  *)
(* are not compiled in a release build, the default.                       *)
Undefined(call) == call.command.argument = "filename" /\ call.files = <<>>

-----------------------------------------------------------------------------
(* What a stage hands to the next one. *)

InputsIfRun(stage, files) ==    \* mutant
    IF stage.process.type = "readyfile"
    THEN Converted(stage.process, files)
    ELSE files

Products(stage, files) ==
    IF stage.process.type = "readyfile"
    THEN Converted(stage.process, files)
    ELSE <<>>       \* "TODO: get produced files from process"

(* nextStage: a task is done after its last stage. *)
NeverDone(task) == "ok"     \* mutant

NextStatus(task) == IF Len(task.stages) = 1 THEN "done" ELSE "ok"

(* The task after a stage whose processing succeeded or not. *)
AfterStage(task, ok) ==
    LET stage == Head(task.stages)
        input == StageInput(stage, task.inputFiles)
        output == Products(stage, input)
    IN  IF FailedInput(stage, task.inputFiles)
            \/ (stage.process.type = "readyfile" /\ output = <<>>)
        THEN [task EXCEPT !.status = "failedinput"]
        ELSE IF ~ok
        THEN [task EXCEPT !.status = "failedprocessing"]
        ELSE [stages |-> Tail(task.stages), inputFiles |-> output,
              status |-> NextStatus(task)]
=============================================================================
