------------------------------- MODULE Inporters -------------------------------
(***************************************************************************)
(* processing/inporter.cxx: Inporter::process on every inporter rank.  The *)
(* coordinator hands all of them the same ready files between two barriers *)
(* (module Rounds); each puts them to its pipelines at its own pace.  Each *)
(* loop of process is a pass: createTasks, then one task after the other.  *)
(*                                                                         *)
(* completedFiles is never filled, so the loop that deletes files does     *)
(* nothing and is left out.                                                *)
(***************************************************************************)
EXTENDS Adaptors, Pipelines

CONSTANTS
    FilesInOrder,   \* the files, a sequence in the order of their names
    PipelineSpecs,  \* collectPipelines: a sequence of sequences of stages
    Removable,      \* the files the user may remove during the run
    MaxDeliveries,  \* bound on how often the coordinator hands out files
    MaxTimeStep     \* bound on the passes with tasks of one inporter

Files == ToSet(FilesInOrder)

(* A signal announces a file; scripts and their variables are vectors. *)
ProcessAssumption(process) ==
    /\ process.type = "readyfile" => Range(process.conversion) \subseteq Files
    /\ process.type = "catalyst" =>
        /\ process.scripts \in Seq(ToSet(process.scripts))
        /\ \A script \in ToSet(process.scripts) :
            script.variables \in Seq(ToSet(script.variables))

ASSUME InportersAssumption ==
    /\ DOMAIN Format = Files
    /\ Removable \subseteq Files
    /\ MaxDeliveries \in Nat
    /\ MaxTimeStep \in Nat
    /\ FilesInOrder \in Seq(Files)
    /\ PipelineSpecs \in Seq(ToSet(PipelineSpecs))
    /\ \A pipeline \in ToSet(PipelineSpecs) :
        /\ pipeline # <<>> /\ pipeline \in Seq(ToSet(pipeline))
        /\ LET input == pipeline[1].input
           IN  /\ input.accept \in {"first", "all", "script"}
               /\ input.accept = "script" => input.needs # {}
        /\ \A stage \in ToSet(pipeline) : ProcessAssumption(stage.process)

VARIABLES
    removed,        \* the files that are gone from the disk
    pc,             \* where the inporter is in main and process
    leaving,        \* the inporters in their last call of process
    availableFiles, workingFiles, timeStep,
    asked,          \* how many pipelines createTasks has asked
    tasks,          \* the tasks of this pass that are still to do
    described,      \* how many files of the Catalyst stage are executed
    adaptors,       \* the adaptors still to process the next file
    description,    \* what they described so far
    deliveries,     \* what the coordinator handed out, oldest first
    \* history
    given,          \* how often each inporter got each file
    taken,          \* how often a task of an earlier pass took it
    executions,     \* the catalyst_execute calls: file, timestep, pass,
                    \* and the description
    passes,         \* the passes with tasks so far
    calls           \* the processCommand calls

history == <<given, taken, executions, passes, calls>>
descriptor == <<described, adaptors, description>>
vars == <<removed, pc, leaving, availableFiles, workingFiles, timeStep, asked, tasks,
          descriptor, deliveries, history>>

InProcess == {"create", "tasks", "read"}

Init ==
    /\ removed = {}
    /\ pc = [i \in Inporters |-> "main"]
    /\ leaving = {}
    /\ availableFiles = [i \in Inporters |-> <<>>]
    /\ workingFiles = [i \in Inporters |-> <<>>]
    /\ timeStep = [i \in Inporters |-> 0]
    /\ asked = [i \in Inporters |-> 0]
    /\ tasks = [i \in Inporters |-> <<>>]
    /\ described = [i \in Inporters |-> 0]
    /\ adaptors = [i \in Inporters |-> <<>>]
    /\ description = [i \in Inporters |-> NoData]
    /\ deliveries = <<>>
    /\ given = [i \in Inporters |-> [f \in Files |-> 0]]
    /\ taken = [i \in Inporters |-> [f \in Files |-> 0]]
    /\ executions = [i \in Inporters |-> <<>>]
    /\ passes = [i \in Inporters |-> 0]
    /\ calls = [i \in Inporters |-> <<>>]

-----------------------------------------------------------------------------
(* main: after an update all inporters have the same ready files, which no *)
(* earlier update made ready (Coordinator's NeverTwice), in the order of   *)
(* the filesInfo map.                                                      *)
Deliver(batch) ==
    /\ \A i \in Inporters : pc[i] = "main"
    /\ Len(deliveries) < MaxDeliveries
    /\ \A n \in DOMAIN deliveries : ToSet(deliveries[n]) \cap ToSet(batch) = {}
    /\ deliveries' = Append(deliveries, batch)
    /\ availableFiles' = [i \in Inporters |-> availableFiles[i] \o batch]
    /\ given' = [i \in Inporters |-> [f \in Files |-> given[i][f] + Count(batch, f)]]
    /\ pc' = [i \in Inporters |-> "create"]
    /\ UNCHANGED <<removed, leaving, workingFiles, timeStep, asked, tasks, descriptor,
                   taken, executions, passes, calls>>

(* A rank whose own notifier is done leaves the loop without an update and *)
(* is given the ready files of the last one again (Rounds'                 *)
(* ProcessedAgainOnLeaving).  The others follow only if they see the done  *)
(* file touched too; one that does not waits in update, here in "main".    *)
GiveAgain(i) ==
    /\ pc[i] = "main"
    /\ deliveries # <<>>
    /\ LET batch == Last(deliveries)
       IN  /\ availableFiles' = [availableFiles EXCEPT ![i] = @ \o batch]
           /\ given' = [given EXCEPT ![i] = [f \in Files |-> @[f] + Count(batch, f)]]
    /\ leaving' = leaving \cup {i}
    /\ pc' = [pc EXCEPT ![i] = "create"]
    /\ UNCHANGED <<removed, workingFiles, timeStep, asked, tasks, descriptor, deliveries,
                   taken, executions, passes, calls>>

(* The user removes a file.  While no inporter is in process, that looks   *)
(* the same as right after the next begins.                                *)
RemoveFile(f) ==
    /\ f \in Removable \ removed
    /\ \E i \in Inporters : pc[i] \in InProcess
    /\ removed' = removed \cup {f}
    /\ UNCHANGED <<pc, leaving, availableFiles, workingFiles, timeStep, asked, tasks,
                   descriptor, deliveries, history>>

-----------------------------------------------------------------------------
(* createTasks: each pipeline in turn takes what it accepts out of the     *)
(* files that are left.                                                    *)

EraseLast(files, accepted) ==    \* mutant
    IF accepted = <<>> THEN files ELSE RemoveFirst(files, Last(accepted))

Erase(files, accepted) ==
    LET left[n \in 0..Len(accepted)] ==
            IF n = 0 THEN files ELSE RemoveFirst(left[n - 1], accepted[n])
    IN  left[Len(accepted)]

(* process returns to main, which then ends if this was the last call; the *)
(* Processor's destructor then finalizes Catalyst.                         *)
Returned(i) == IF i \in leaving THEN "ended" ELSE "main"

CreateTask(i) ==
    /\ pc[i] = "create"
    /\ asked[i] < Len(PipelineSpecs)
    /\ LET pipeline == PipelineSpecs[asked[i] + 1]
           input == pipeline[1].input
       IN  IF Accepts(input, availableFiles[i])
           THEN \E accepted \in {Accepted(input, availableFiles[i])} :
                /\ availableFiles' = [availableFiles EXCEPT ![i] = Erase(@, accepted)]
                /\ workingFiles' = [workingFiles EXCEPT ![i] = @ \o accepted]
                /\ tasks' = [tasks EXCEPT ![i] = Append(@, NewTask(pipeline, accepted))]
           ELSE UNCHANGED <<availableFiles, workingFiles, tasks>>
    /\ asked' = [asked EXCEPT ![i] = @ + 1]
    /\ UNCHANGED <<removed, pc, leaving, timeStep, descriptor, deliveries, history>>

(* createTasks returns.  A pass without tasks is the last. *)
UntilFilesAreTaken(i) ==    \* mutant
    IF tasks[i] # <<>> THEN "tasks"
    ELSE IF availableFiles[i] # <<>> THEN "create" ELSE Returned(i)

AfterCreation(i) == IF tasks[i] # <<>> THEN "tasks" ELSE Returned(i)

TasksCreated(i) ==
    /\ pc[i] = "create"
    /\ asked[i] = Len(PipelineSpecs)
    /\ timeStep[i] < MaxTimeStep
    /\ asked' = [asked EXCEPT ![i] = 0]
    /\ pc' = [pc EXCEPT ![i] = AfterCreation(i)]
    /\ passes' = [passes EXCEPT ![i] = IF tasks[i] # <<>> THEN @ + 1 ELSE @]
    /\ UNCHANGED <<removed, leaving, availableFiles, workingFiles, timeStep, tasks,
                   descriptor, deliveries, given, taken, executions, calls>>

-----------------------------------------------------------------------------
(* pipeline_ProcessNext on the task at hand.                               *)

TaskOf(i) == Head(tasks[i])
StageOf(i) == Head(TaskOf(i).stages)
InputOf(i) == StageInput(StageOf(i), TaskOf(i).inputFiles)

AtStage(i, type) ==
    /\ pc[i] = "tasks"
    /\ tasks[i] # <<>>
    /\ StageOf(i).process.type = type
    /\ ~FailedInput(StageOf(i), TaskOf(i).inputFiles)

(* A Catalyst stage makes a descriptor for each of its files in turn, and  *)
(* adaptors for a file that some reader can read.                          *)
DescribedBy(i) == InputOf(i)[described[i] + 1]

MakeAdaptors(i) ==
    /\ AtStage(i, "catalyst")
    /\ described[i] < Len(InputOf(i))
    /\ adaptors' = [adaptors EXCEPT ![i] =
            IF DescribedBy(i) \in removed THEN <<>>
            ELSE AdaptorsFor(StageOf(i).process.scripts, DescribedBy(i))]
    /\ description' = [description EXCEPT ![i] = NoData]
    /\ pc' = [pc EXCEPT ![i] = "read"]
    /\ UNCHANGED <<removed, leaving, availableFiles, workingFiles, timeStep, asked, tasks,
                   described, deliveries, history>>

(* An adaptor's process.  It looks whether it can read the file before it  *)
(* opens it: if the file is gone it is skipped, like all after it, but the *)
(* file may also have gone between the two.                                *)
ReadFile(i) ==
    /\ pc[i] = "read"
    /\ adaptors[i] # <<>>
    /\ LET f == DescribedBy(i)
           gone == f \in removed
           read == Described(description[i], Head(adaptors[i]), f, i, gone)
           skipped == IF gone THEN {description[i]} ELSE {}
       IN  /\ \E d \in {read} \cup skipped : description' = [description EXCEPT ![i] = d]
           /\ adaptors' = [adaptors EXCEPT ![i] = IF gone THEN <<>> ELSE Tail(@)]
    /\ UNCHANGED <<removed, pc, leaving, availableFiles, workingFiles, timeStep, asked,
                   tasks, described, deliveries, history>>

CrashReading(i) ==
    /\ pc[i] = "read"
    /\ adaptors[i] # <<>>
    /\ Undetermined(Head(adaptors[i]), DescribedBy(i), DescribedBy(i) \in removed)
    /\ pc' = [j \in Inporters |-> "crashed"]
    /\ UNCHANGED <<removed, leaving, availableFiles, workingFiles, timeStep, asked, tasks,
                   descriptor, deliveries, history>>

(* The descriptor's destructor.  catalyst_execute is a collective of the   *)
(* inporters: it may return on one before another enters, and is certain   *)
(* to only when all have entered it (FairSpec).                            *)
Execution(i) ==
    [file |-> DescribedBy(i), timeStep |-> timeStep[i], pass |-> passes[i],
     fields |-> description[i].fields, kept |-> description[i].kept]

InExecute(i) == pc[i] = "read" /\ adaptors[i] = <<>>

Entered(i) == Len(executions[i]) + (IF InExecute(i) THEN 1 ELSE 0)

AllEnter(i) == \A j \in Inporters : Entered(j) > Len(executions[i])

Execute(i) ==
    /\ InExecute(i)
    /\ executions' = [executions EXCEPT ![i] = Append(@, Execution(i))]
    /\ described' = [described EXCEPT ![i] = @ + 1]
    /\ description' = [description EXCEPT ![i] = NoData]
    /\ pc' = [pc EXCEPT ![i] = "tasks"]
    /\ UNCHANGED <<removed, leaving, availableFiles, workingFiles, timeStep, asked, tasks,
                   adaptors, deliveries, given, taken, passes, calls>>

(* The stage ends.  Commands may fail; a task that cannot continue makes   *)
(* way for the next one.                                                   *)
StageEnds(i, ok) ==
    LET after == AfterStage(TaskOf(i), ok)
    IN  /\ tasks' = [tasks EXCEPT ![i] =
                IF after.status = "ok" THEN <<after>> \o Tail(@) ELSE Tail(@)]
        /\ described' = [described EXCEPT ![i] = 0]

ProcessNext(i) ==
    /\ pc[i] = "tasks"
    /\ tasks[i] # <<>>
    /\ AtStage(i, "catalyst") => described[i] = Len(InputOf(i))
    /\ LET newCalls == IF AtStage(i, "commands")
                       THEN CommandCalls(StageOf(i).process, InputOf(i)) ELSE <<>>
       IN  /\ \E ok \in IF newCalls = <<>> THEN {TRUE} ELSE BOOLEAN : StageEnds(i, ok)
           /\ calls' = [calls EXCEPT ![i] = @ \o newCalls]
    /\ UNCHANGED <<removed, pc, leaving, availableFiles, workingFiles, timeStep, asked,
                   adaptors, description, deliveries, given, taken, executions, passes>>

(* A command reads the first of no files: this can end the program, which  *)
(* the launcher of the ranks then ends on all of them.                     *)
Crash(i) ==
    /\ AtStage(i, "commands")
    /\ LET newCalls == CommandCalls(StageOf(i).process, InputOf(i))
       IN  \E n \in DOMAIN newCalls :
                /\ Undefined(newCalls[n])
                /\ \A m \in 1..(n - 1) : ~Undefined(newCalls[m])
                /\ calls' = [calls EXCEPT ![i] = @ \o SubSeq(newCalls, 1, n)]
    /\ pc' = [j \in Inporters |-> "crashed"]
    /\ UNCHANGED <<removed, leaving, availableFiles, workingFiles, timeStep, asked, tasks,
                   descriptor, deliveries, given, taken, executions, passes>>

(* The end of a pass with tasks.  Another follows while files are left. *)
OnePass(i) == Returned(i)       \* mutant

AfterPass(i) == IF availableFiles[i] # <<>> THEN "create" ELSE Returned(i)

NextTimeStepAtEnd(i) ==     \* mutant
    IF availableFiles[i] = <<>> THEN timeStep[i] + 1 ELSE timeStep[i]

NextTimeStep(i) == timeStep[i] + 1

EndPass(i) ==
    /\ pc[i] = "tasks"
    /\ tasks[i] = <<>>
    /\ timeStep' = [timeStep EXCEPT ![i] = NextTimeStep(i)]
    /\ taken' = [taken EXCEPT ![i] = [f \in Files |-> @[f] + Count(workingFiles[i], f)]]
    /\ workingFiles' = [workingFiles EXCEPT ![i] = <<>>]
    /\ pc' = [pc EXCEPT ![i] = AfterPass(i)]
    /\ UNCHANGED <<removed, leaving, availableFiles, asked, tasks, descriptor, deliveries,
                   given, executions, passes, calls>>

Process(i) ==
    \/ CreateTask(i) \/ TasksCreated(i)
    \/ MakeAdaptors(i) \/ ReadFile(i) \/ CrashReading(i) \/ Execute(i)
    \/ ProcessNext(i) \/ Crash(i)
    \/ EndPass(i)

Batches == {Select(FilesInOrder, S) : S \in SUBSET Files}

Next ==
    \/ \E batch \in Batches : Deliver(batch)
    \/ \E f \in Files : RemoveFile(f)
    \/ \E i \in Inporters : GiveAgain(i) \/ Process(i)

Spec == Init /\ [][Next]_vars

(* process is straight-line code between the coordinator's updates, except *)
(* that it waits in catalyst_execute for the other inporters.  Its         *)
(* commands are assumed to end.                                            *)
FairSpec ==
    Spec /\ \A i \in Inporters : WF_vars((InExecute(i) => AllEnter(i)) /\ Process(i))

-----------------------------------------------------------------------------

(* The variables keep their types. *)
TypeOK ==
    /\ removed \subseteq Removable
    /\ pc \in [Inporters -> {"main", "create", "tasks", "read", "ended", "crashed"}]
    /\ leaving \in SUBSET Inporters
    /\ \A i \in Inporters :
        /\ ToSet(availableFiles[i]) \subseteq Files
        /\ ToSet(workingFiles[i]) \subseteq Files
        /\ \A task \in ToSet(tasks[i]) :
            /\ \E pipeline \in ToSet(PipelineSpecs) : IsSuffix(task.stages, pipeline)
            /\ task.stages # <<>>
            /\ ToSet(task.inputFiles) \subseteq Files
            /\ task.status = "ok"
        /\ description[i].kept \in Nat
        /\ \A field \in Range(description[i].fields) :
                field.data \in 1..description[i].kept
        /\ adaptors[i] # <<>> => pc[i] \in {"read", "crashed"}
        /\ described[i] > 0 =>
                tasks[i] # <<>> /\ described[i] \in 1..Len(TaskOf(i).inputFiles)
    /\ timeStep \in [Inporters -> 0..MaxTimeStep]
    /\ asked \in [Inporters -> 0..Len(PipelineSpecs)]
    /\ Len(deliveries) <= MaxDeliveries

(* No file is lost or taken twice: as often as an inporter was given a     *)
(* file, it is still available or a task of this or an earlier pass took   *)
(* it, whichever of the pipelines competed for it.                         *)
FilesAccountedFor ==
    \A i \in Inporters, f \in Files :
        given[i][f] = Count(availableFiles[i], f) + Count(workingFiles[i], f)
                        + taken[i][f]

(* process does not return while a pipeline would still take a file: what  *)
(* stays available is what none accepts, until more files come.            *)
Drained ==
    \A i \in Inporters :
        pc[i] \in {"main", "ended"} /\ availableFiles[i] # <<>> =>
            \A p \in DOMAIN PipelineSpecs :
                ~Accepts(PipelineSpecs[p][1].input, availableFiles[i])

(* catalyst_execute is a collective of the inporters, so the n-th call of  *)
(* one goes with the n-th calls of the others.  These are for the same     *)
(* file and timestep, even if a command succeeds on one inporter and fails *)
(* on another, or a file is gone when one of them comes to read it.  And   *)
(* none is missing: an inporter that returned from as many calls of        *)
(* process as another began has made all the calls that one made.  So only *)
(* one that leaves while another does not can be left alone with a call.   *)
SameCall(e1, e2) == e1.file = e2.file /\ e1.timeStep = e2.timeStep

Begun(i) == Len(deliveries) + (IF i \in leaving THEN 1 ELSE 0)
Finished(i) == IF pc[i] \in {"main", "ended"} THEN Begun(i) ELSE Begun(i) - 1

CommonCallsAgree ==
    \A i, j \in Inporters :
        \A n \in DOMAIN executions[i] \cap DOMAIN executions[j] :
            SameCall(executions[i][n], executions[j][n])

NoCallMissing ==
    \A i, j \in Inporters :
        Begun(i) <= Finished(j) => Len(executions[i]) <= Len(executions[j])

CatalystInStep == CommonCallsAgree /\ NoCallMissing

(* The inporters describe the same fields to such a call, also those whose *)
(* section is empty, unless the file was removed meanwhile.                *)
SameFields ==
    \A i, j \in Inporters :
        \A n \in DOMAIN executions[i] \cap DOMAIN executions[j] :
            executions[i][n].file \notin removed =>
                DOMAIN executions[i][n].fields = DOMAIN executions[j][n].fields

(* No layer of a variable of a NetCDF file is described by two inporters,  *)
(* and if all have made the call and the file is still there, each is      *)
(* described by one.                                                       *)
Describers(n, name, layer) ==
    {i \in Inporters :
        /\ n \in DOMAIN executions[i]
        /\ name \in DOMAIN executions[i][n].fields
        /\ layer \in executions[i][n].fields[name].part}

PartsCoverFile ==
    \A i \in Inporters : \A n \in DOMAIN executions[i] :
        LET f == executions[i][n].file
            complete == f \notin removed /\ \A j \in Inporters : n \in DOMAIN executions[j]
        IN  Format[f] = "netcdf" =>
                \A name \in DOMAIN executions[i][n].fields \cap Arrays[f],
                   layer \in 0..(Layers[f] - 1) :
                    LET count == Cardinality(Describers(n, name, layer))
                    IN  count <= 1 /\ (complete => count = 1)

(* adaptorV2.cxx:164, "set the vtkobject to a local varaible so that it is *)
(* not lost when this class is destructed (ensuring 0 copy)": the fields   *)
(* of an executed description are in the object that is kept.              *)
DataKept ==
    \A i \in Inporters : \A n \in DOMAIN executions[i] :
        \A name \in DOMAIN executions[i][n].fields :
            executions[i][n].fields[name].data = executions[i][n].kept

(* Executions of one inporter share a timestep if and only if they belong  *)
(* to one pass, also when passes in between had no execution to make.      *)
TimeStepsArePasses ==
    \A i \in Inporters :
        \A m, n \in DOMAIN executions[i] :
            executions[i][m].timeStep = executions[i][n].timeStep
                <=> executions[i][m].pass = executions[i][n].pass

(* process returns to main, or crashes, although each Catalyst call waits  *)
(* for the other inporters: unless this is the last call of an inporter    *)
(* that leaves while another does not.                                     *)
ProcessReturns ==
    \A i \in Inporters :
        pc[i] \in InProcess ~> pc[i] \notin InProcess \/ (i \in leaving /\ leaving # Inporters)

(* inporter.cxx:60, assert(std::find(availableFiles, name) == end): no     *)
(* file that process is given is available already.                        *)
NewFilesAreNew == \A i \in Inporters : IsInjective(availableFiles[i])

(* pipeline.cxx:289 and 304, assert(!files.empty()): a command with an     *)
(* argument for files is given some.                                       *)
CommandsGetFiles ==
    \A i \in Inporters : \A n \in DOMAIN calls[i] :
        calls[i][n].command.argument # "none" => calls[i][n].files # <<>>
=============================================================================
