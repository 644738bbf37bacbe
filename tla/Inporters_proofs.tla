---------------------------- MODULE Inporters_proofs ----------------------------
(***************************************************************************)
(* What TLAPS proves of Inporters for any inporters, pipelines, files,     *)
(* readers and deliveries:                                                 *)
(*   - a call of process only returns when no pipeline would take anything *)
(*     more, and the timesteps given to Catalyst tell the passes apart;    *)
(*   - the types, and that no file is lost or taken twice;                 *)
(*   - the inporters make the same catalyst_execute calls with the same    *)
(*     fields, and together they describe each NetCDF file once.           *)
(***************************************************************************)
EXTENDS Inporters, Selections_proofs, Sections_proofs

-----------------------------------------------------------------------------
(* The inductive invariant. *)

(* What of the types the other parts need. *)
Types ==
    /\ pc \in [Inporters -> {"main", "create", "tasks", "read", "ended", "crashed"}]
    /\ timeStep \in [Inporters -> Nat]
    /\ asked \in [Inporters -> Nat]
    /\ passes \in [Inporters -> Nat]
    /\ DOMAIN availableFiles = Inporters
    /\ DOMAIN tasks = Inporters
    /\ DOMAIN executions = Inporters
    /\ \A i \in Inporters :
        /\ tasks[i] \in Seq(ToSet(tasks[i]))
        /\ executions[i] \in Seq(ToSet(executions[i]))

(* createTasks starts with the first pipeline, and as long as it has made  *)
(* no task none of the pipelines it has asked accepts what is available,   *)
(* which therefore has not changed since it asked them.                    *)
AsksAll ==
    \A i \in Inporters :
        /\ pc[i] \notin {"create", "crashed"} => asked[i] = 0
        /\ pc[i] = "create" /\ tasks[i] = <<>> =>
            \A p \in 1..asked[i] :
                ~Accepts(PipelineSpecs[p][1].input, availableFiles[i])

(* The timestep counts the passes with tasks that have ended. *)
CountsPasses ==
    \A i \in Inporters :
        /\ pc[i] \in {"main", "create", "ended"} => passes[i] = timeStep[i]
        /\ pc[i] \in {"tasks", "read"} => passes[i] = timeStep[i] + 1
        /\ \A n \in DOMAIN executions[i] :
            /\ executions[i][n].timeStep \in Nat
            /\ executions[i][n].pass = executions[i][n].timeStep + 1

IInv == Types /\ AsksAll /\ CountsPasses /\ Drained

-----------------------------------------------------------------------------
(* Sequences. *)

LEMMA AppendIsSequence ==
    ASSUME NEW s, s \in Seq(ToSet(s)), NEW e
    PROVE  /\ Append(s, e) \in Seq(ToSet(Append(s, e)))
           /\ Append(s, e) # <<>>
           /\ DOMAIN Append(s, e) = DOMAIN s \cup {Len(s) + 1}
           /\ \A n \in DOMAIN s : Append(s, e)[n] = s[n]
           /\ Append(s, e)[Len(s) + 1] = e
<1> DEFINE S == ToSet(s) \cup {e}
           a == Append(s, e)
<1>1. s \in Seq(S)
  OBVIOUS
<1>2. /\ a \in Seq(S)
      /\ Len(a) = Len(s) + 1
      /\ \A n \in 1..Len(s) : a[n] = s[n]
      /\ a[Len(s) + 1] = e
      /\ Len(s) \in Nat
  BY <1>1
<1>3. a \in Seq(ToSet(a))
  BY <1>2, SequenceOfItsOwn
<1> QED
  BY <1>1, <1>2, <1>3

LEMMA InitIInv == Init => IInv
<1> SUFFICES ASSUME Init PROVE IInv
  OBVIOUS
<1>1. \A i \in Inporters : tasks[i] = <<>> /\ executions[i] = <<>>
  BY DEF Init
<1>2. Types
  <2>1. \A i \in Inporters :
            tasks[i] \in Seq(ToSet(tasks[i])) /\ executions[i] \in Seq(ToSet(executions[i]))
    <3>1. <<>> \in Seq(ToSet(<<>>))
      OBVIOUS
    <3> QED
      BY <1>1, <3>1
  <2>2. /\ pc = [i \in Inporters |-> "main"]
        /\ timeStep = [i \in Inporters |-> 0]
        /\ asked = [i \in Inporters |-> 0]
        /\ passes = [i \in Inporters |-> 0]
        /\ DOMAIN availableFiles = Inporters
        /\ DOMAIN tasks = Inporters
        /\ DOMAIN executions = Inporters
    BY DEF Init
  <2> QED
    BY <2>1, <2>2 DEF Types
<1>3. AsksAll
  BY DEF Init, AsksAll
<1>4. CountsPasses
  BY <1>1 DEF Init, CountsPasses
<1>5. Drained
  BY DEF Init, Drained
<1> QED
  BY <1>2, <1>3, <1>4, <1>5 DEF IInv

-----------------------------------------------------------------------------
(* The steps of main: what the coordinator hands out is put to all the     *)
(* pipelines again.                                                        *)

LEMMA DeliverStep ==
    ASSUME IInv, NEW batch, Deliver(batch)
    PROVE  IInv'
<1> USE DEF IInv
<1>1. /\ \A i \in Inporters : pc[i] = "main"
      /\ pc' = [i \in Inporters |-> "create"]
      /\ DOMAIN availableFiles' = Inporters
      /\ UNCHANGED <<timeStep, asked, tasks, executions, passes>>
  BY DEF Deliver
<1>2. Types'
  BY <1>1 DEF Types
<1>3. AsksAll'
  <2>1. \A i \in Inporters : asked[i] = 0 /\ 1..asked[i] = {}
    BY <1>1 DEF AsksAll
  <2> QED
    BY <1>1, <2>1 DEF AsksAll
<1>4. CountsPasses'
  BY <1>1 DEF CountsPasses
<1>5. Drained'
  BY <1>1 DEF Drained
<1> QED
  BY <1>2, <1>3, <1>4, <1>5

LEMMA GiveAgainStep ==
    ASSUME IInv, NEW i \in Inporters, GiveAgain(i)
    PROVE  IInv'
<1> USE DEF IInv
<1>1. /\ pc[i] = "main"
      /\ pc' = [pc EXCEPT ![i] = "create"]
      /\ DOMAIN availableFiles' = Inporters
      /\ \A j \in Inporters \ {i} : availableFiles'[j] = availableFiles[j]
      /\ UNCHANGED <<timeStep, asked, tasks, executions, passes>>
  BY DEF GiveAgain, Types
<1>2. Types'
  BY <1>1 DEF Types
<1>3. AsksAll'
  <2>1. asked[i] = 0 /\ 1..asked[i] = {}
    BY <1>1 DEF AsksAll
  <2>2. \A j \in Inporters \ {i} : pc'[j] = pc[j]
    BY <1>1 DEF Types
  <2>3. pc'[i] = "create"
    BY <1>1 DEF Types
  <2> QED
    BY <1>1, <2>1, <2>2, <2>3 DEF AsksAll
<1>4. CountsPasses'
  BY <1>1 DEF CountsPasses, Types
<1>5. Drained'
  BY <1>1 DEF Drained, Types
<1> QED
  BY <1>2, <1>3, <1>4, <1>5

-----------------------------------------------------------------------------
(* createTasks. *)

LEMMA CreateTaskStep ==
    ASSUME IInv, NEW i \in Inporters, CreateTask(i)
    PROVE  IInv'
<1> USE DEF IInv
<1> DEFINE input == PipelineSpecs[asked[i] + 1][1].input
           accepted == Accepted(input, availableFiles[i])
           new == NewTask(PipelineSpecs[asked[i] + 1], accepted)
<1>1. /\ pc' = pc /\ timeStep' = timeStep /\ passes' = passes /\ executions' = executions
      /\ pc[i] = "create"
      /\ asked' = [asked EXCEPT ![i] = @ + 1]
  BY DEF CreateTask, history
<1>2. CASE Accepts(input, availableFiles[i])
  <2>1. /\ tasks' = [tasks EXCEPT ![i] = Append(@, new)]
        /\ DOMAIN availableFiles' = Inporters
        /\ \A j \in Inporters \ {i} : availableFiles'[j] = availableFiles[j]
    BY <1>2 DEF CreateTask, Types
  <2>2. /\ tasks'[i] = Append(tasks[i], new)
        /\ tasks[i] \in Seq(ToSet(tasks[i]))
        /\ \A j \in Inporters \ {i} : tasks'[j] = tasks[j]
        /\ DOMAIN tasks' = Inporters
    BY <2>1 DEF Types
  <2>3. tasks'[i] \in Seq(ToSet(tasks'[i])) /\ tasks'[i] # <<>>
    <3> HIDE DEF new
    <3> QED
      BY <2>2, AppendIsSequence
  <2>4. Types'
    <3>1. asked' \in [Inporters -> Nat]
      BY <1>1 DEF Types
    <3>2. \A j \in Inporters : tasks'[j] \in Seq(ToSet(tasks'[j]))
      BY <2>2, <2>3 DEF Types
    <3> QED
      BY <1>1, <2>1, <2>2, <3>1, <3>2 DEF Types
  <2>5. AsksAll'
    BY <1>1, <2>1, <2>2, <2>3 DEF AsksAll, Types
  <2>6. CountsPasses'
    BY <1>1 DEF CountsPasses
  <2>7. Drained'
    BY <1>1, <2>1 DEF Drained
  <2> QED
    BY <2>4, <2>5, <2>6, <2>7
<1>3. CASE ~Accepts(input, availableFiles[i])
  <2>1. availableFiles' = availableFiles /\ tasks' = tasks
    BY <1>3 DEF CreateTask
  <2>2. Types'
    BY <1>1, <2>1 DEF Types
  <2>3. AsksAll'
    <3> SUFFICES ASSUME NEW j \in Inporters, pc[j] = "create", tasks[j] = <<>>,
                        NEW p \in 1..asked'[j]
                 PROVE  ~Accepts(PipelineSpecs[p][1].input, availableFiles[j])
      BY <1>1, <2>1 DEF AsksAll, Types
    <3>1. CASE p \in 1..asked[j]
      BY <3>1 DEF AsksAll
    <3>2. CASE p \notin 1..asked[j]
      <4>1. j = i /\ p = asked[i] + 1
        BY <1>1, <3>2 DEF Types
      <4> QED
        BY <1>3, <4>1
    <3> QED
      BY <3>1, <3>2
  <2>4. CountsPasses'
    BY <1>1 DEF CountsPasses
  <2>5. Drained'
    BY <1>1, <2>1 DEF Drained
  <2> QED
    BY <2>2, <2>3, <2>4, <2>5
<1> QED
  BY <1>2, <1>3

LEMMA TasksCreatedStep ==
    ASSUME IInv, NEW i \in Inporters, TasksCreated(i)
    PROVE  IInv'
<1> USE DEF IInv
<1>1. /\ pc' = [pc EXCEPT ![i] = AfterCreation(i)]
      /\ pc[i] = "create"
      /\ asked[i] = Len(PipelineSpecs)
      /\ asked' = [asked EXCEPT ![i] = 0]
      /\ passes' = [passes EXCEPT ![i] = IF tasks[i] # <<>> THEN @ + 1 ELSE @]
      /\ UNCHANGED <<availableFiles, timeStep, tasks, executions>>
  BY DEF TasksCreated
<1>2. /\ tasks[i] # <<>> => AfterCreation(i) = "tasks"
      /\ tasks[i] = <<>> => AfterCreation(i) \in {"main", "ended"}
  BY DEF AfterCreation, Returned
<1>3. Types'
  BY <1>1, <1>2 DEF Types
<1>4. AsksAll'
  BY <1>1, <1>2 DEF AsksAll, Types
<1>5. CountsPasses'
  BY <1>1, <1>2 DEF CountsPasses, Types
<1>6. Drained'
  <2> SUFFICES ASSUME NEW j \in Inporters, pc'[j] \in {"main", "ended"},
                      availableFiles[j] # <<>>, NEW p \in DOMAIN PipelineSpecs
               PROVE  ~Accepts(PipelineSpecs[p][1].input, availableFiles[j])
    BY <1>1 DEF Drained
  <2>1. CASE j = i
    <3>1. tasks[i] = <<>>
      BY <1>1, <1>2, <2>1 DEF Types
    <3>2. p \in 1..asked[i]
      BY <1>1, InportersAssumption
    <3> QED
      BY <1>1, <2>1, <3>1, <3>2 DEF AsksAll
  <2>2. CASE j # i
    BY <1>1, <2>2 DEF Drained, Types
  <2> QED
    BY <2>1, <2>2
<1> QED
  BY <1>3, <1>4, <1>5, <1>6

-----------------------------------------------------------------------------
(* The tasks. *)

(* A step of an inporter in a pass with tasks, whatever becomes of its     *)
(* tasks and its executions.                                               *)
LEMMA InPassStep ==
    ASSUME IInv, NEW i \in Inporters, NEW to \in {"tasks", "read"},
           pc[i] \in {"tasks", "read"},
           pc' = [pc EXCEPT ![i] = to],
           UNCHANGED <<availableFiles, asked, timeStep, passes>>,
           DOMAIN tasks' = Inporters,
           DOMAIN executions' = Inporters,
           \A j \in Inporters \ {i} : tasks'[j] = tasks[j] /\ executions'[j] = executions[j],
           tasks'[i] \in Seq(ToSet(tasks'[i])),
           executions'[i] \in Seq(ToSet(executions'[i])),
           \A n \in DOMAIN executions'[i] :
                /\ executions'[i][n].timeStep \in Nat
                /\ executions'[i][n].pass = executions'[i][n].timeStep + 1
    PROVE  IInv'
<1> USE DEF IInv
<1>1. pc'[i] = to /\ \A j \in Inporters \ {i} : pc'[j] = pc[j]
  BY DEF Types
<1>2. Types'
  BY DEF Types
<1>3. AsksAll'
  <2>1. pc[i] \notin {"create", "crashed"} /\ pc'[i] # "create"
    BY <1>1
  <2>2. asked[i] = 0
    BY <2>1 DEF AsksAll
  <2>3. \A j \in Inporters \ {i} : pc'[j] = pc[j] /\ tasks'[j] = tasks[j]
    BY <1>1
  <2> QED
    BY <2>1, <2>2, <2>3 DEF AsksAll
<1>4. CountsPasses'
  BY <1>1 DEF CountsPasses
<1>5. Drained'
  BY <1>1 DEF Drained
<1> QED
  BY <1>2, <1>3, <1>4, <1>5

(* The same for a step that leaves the tasks and the executions alone. *)
LEMMA QuietInPassStep ==
    ASSUME IInv, NEW i \in Inporters, NEW to \in {"tasks", "read"},
           pc[i] \in {"tasks", "read"},
           pc' = [pc EXCEPT ![i] = to],
           UNCHANGED <<availableFiles, asked, timeStep, passes, tasks, executions>>
    PROVE  IInv'
<1>1. /\ DOMAIN tasks' = Inporters
      /\ DOMAIN executions' = Inporters
      /\ tasks'[i] \in Seq(ToSet(tasks'[i]))
      /\ executions'[i] \in Seq(ToSet(executions'[i]))
      /\ \A n \in DOMAIN executions'[i] :
            /\ executions'[i][n].timeStep \in Nat
            /\ executions'[i][n].pass = executions'[i][n].timeStep + 1
  BY DEF IInv, Types, CountsPasses
<1> QED
  BY <1>1, InPassStep

LEMMA MakeAdaptorsStep ==
    ASSUME IInv, NEW i \in Inporters, MakeAdaptors(i)
    PROVE  IInv'
<1>1. /\ pc[i] = "tasks"
      /\ pc' = [pc EXCEPT ![i] = "read"]
      /\ UNCHANGED <<availableFiles, asked, timeStep, passes, tasks, executions>>
  BY DEF MakeAdaptors, AtStage, history
<1> QED
  BY <1>1, QuietInPassStep

LEMMA ReadFileStep ==
    ASSUME IInv, NEW i \in Inporters, ReadFile(i)
    PROVE  IInv'
<1>1. /\ pc[i] = "read"
      /\ UNCHANGED <<pc, availableFiles, asked, timeStep, passes, tasks, executions>>
  BY DEF ReadFile, history
<1>2. pc' = [pc EXCEPT ![i] = "read"]
  BY <1>1 DEF IInv, Types
<1> QED
  BY <1>1, <1>2, QuietInPassStep

(* The execution is given the timestep and the pass of the moment. *)
LEMMA ExecuteStep ==
    ASSUME IInv, NEW i \in Inporters, Execute(i)
    PROVE  IInv'
<1> DEFINE e == Execution(i)
<1>1. /\ pc[i] = "read"
      /\ pc' = [pc EXCEPT ![i] = "tasks"]
      /\ executions' = [executions EXCEPT ![i] = Append(@, e)]
      /\ UNCHANGED <<availableFiles, asked, timeStep, passes, tasks>>
  BY DEF Execute, InExecute
<1>2. e.timeStep = timeStep[i] /\ e.pass = passes[i]
  BY DEF Execution
<1>3. timeStep[i] \in Nat /\ passes[i] = timeStep[i] + 1
  BY <1>1 DEF IInv, Types, CountsPasses
<1> HIDE DEF e
<1>4. /\ executions'[i] = Append(executions[i], e)
      /\ DOMAIN executions' = Inporters
      /\ \A j \in Inporters \ {i} : executions'[j] = executions[j]
      /\ executions[i] \in Seq(ToSet(executions[i]))
  BY <1>1 DEF IInv, Types
<1>5. /\ executions'[i] \in Seq(ToSet(executions'[i]))
      /\ DOMAIN executions'[i] = DOMAIN executions[i] \cup {Len(executions[i]) + 1}
      /\ \A n \in DOMAIN executions[i] : executions'[i][n] = executions[i][n]
      /\ executions'[i][Len(executions[i]) + 1] = e
  BY <1>4, AppendIsSequence
<1>6. \A n \in DOMAIN executions'[i] :
            /\ executions'[i][n].timeStep \in Nat
            /\ executions'[i][n].pass = executions'[i][n].timeStep + 1
  BY <1>2, <1>3, <1>5 DEF IInv, CountsPasses
<1> QED
  BY <1>1, <1>4, <1>5, <1>6, InPassStep DEF IInv, Types

LEMMA ProcessNextStep ==
    ASSUME IInv, NEW i \in Inporters, ProcessNext(i)
    PROVE  IInv'
<1>1. /\ pc[i] = "tasks"
      /\ tasks[i] # <<>>
      /\ \E ok : StageEnds(i, ok)
      /\ UNCHANGED <<pc, availableFiles, asked, timeStep, passes, executions>>
  BY DEF ProcessNext
<1>2. pc' = [pc EXCEPT ![i] = "tasks"]
  BY <1>1 DEF IInv, Types
<1>3. PICK after : tasks' = [tasks EXCEPT ![i] = <<after>> \o Tail(@)]
                    \/ tasks' = [tasks EXCEPT ![i] = Tail(@)]
  BY <1>1 DEF StageEnds
<1>4. /\ tasks[i] \in Seq(ToSet(tasks[i]))
      /\ DOMAIN tasks' = Inporters
      /\ \A j \in Inporters \ {i} : tasks'[j] = tasks[j]
      /\ tasks'[i] \in {<<after>> \o Tail(tasks[i]), Tail(tasks[i])}
  BY <1>3 DEF IInv, Types
<1>5. tasks'[i] \in Seq(ToSet(tasks'[i]))
  <2> DEFINE S == ToSet(tasks[i]) \cup {after}
             rest == Tail(tasks[i])
  <2>1. ToSet(tasks[i]) \subseteq S /\ after \in S
    OBVIOUS
  <2>2. tasks'[i] \in {<<after>> \o rest, rest}
    BY <1>4
  <2> HIDE DEF S
  <2>3. tasks[i] \in Seq(S) /\ tasks[i] # <<>>
    <3>1. tasks[i] \in Seq(ToSet(tasks[i])) /\ tasks[i] # <<>>
      BY <1>1, <1>4
    <3> QED
      BY <2>1, <3>1
  <2>4. rest \in Seq(S)
    BY <2>3, HeadTailProperties
  <2> HIDE DEF rest
  <2>5. <<after>> \o rest \in Seq(S)
    BY <2>1, <2>4
  <2>6. tasks'[i] \in Seq(S)
    BY <2>2, <2>4, <2>5
  <2> QED
    BY <2>6, SequenceOfItsOwn
<1>6. /\ DOMAIN executions' = Inporters
      /\ executions'[i] \in Seq(ToSet(executions'[i]))
      /\ \A n \in DOMAIN executions'[i] :
            /\ executions'[i][n].timeStep \in Nat
            /\ executions'[i][n].pass = executions'[i][n].timeStep + 1
  BY <1>1 DEF IInv, Types, CountsPasses
<1>7. \A j \in Inporters \ {i} : tasks'[j] = tasks[j] /\ executions'[j] = executions[j]
  BY <1>1, <1>4
<1> QED
  BY <1>1, <1>2, <1>4, <1>5, <1>6, <1>7, InPassStep

(* The next pass is that of the next timestep. *)
LEMMA EndPassStep ==
    ASSUME IInv, NEW i \in Inporters, EndPass(i)
    PROVE  IInv'
<1> USE DEF IInv
<1>1. /\ pc[i] = "tasks"
      /\ timeStep' = [timeStep EXCEPT ![i] = timeStep[i] + 1]
      /\ pc' = [pc EXCEPT ![i] = AfterPass(i)]
      /\ UNCHANGED <<availableFiles, asked, tasks, executions, passes>>
  BY DEF EndPass, NextTimeStep
<1>2. /\ AfterPass(i) \in {"create", "main", "ended"}
      /\ AfterPass(i) # "create" => availableFiles[i] = <<>>
  BY DEF AfterPass, Returned
<1>3. Types'
  BY <1>1, <1>2 DEF Types
<1>4. AsksAll'
  BY <1>1, <1>2 DEF AsksAll, Types
<1>5. CountsPasses'
  BY <1>1, <1>2 DEF CountsPasses, Types
<1>6. Drained'
  BY <1>1, <1>2 DEF Drained, Types
<1> QED
  BY <1>3, <1>4, <1>5, <1>6

LEMMA CrashSteps ==
    ASSUME IInv, NEW i \in Inporters, CrashReading(i) \/ Crash(i)
    PROVE  IInv'
<1> USE DEF IInv
<1>1. /\ pc' = [j \in Inporters |-> "crashed"]
      /\ UNCHANGED <<availableFiles, asked, timeStep, passes, tasks, executions>>
  BY DEF CrashReading, Crash, history
<1>2. Types'
  BY <1>1 DEF Types
<1> QED
  BY <1>1, <1>2 DEF AsksAll, CountsPasses, Drained

-----------------------------------------------------------------------------
(* Every step keeps the invariant. *)

LEMMA NextIInv ==
    ASSUME IInv, [Next]_vars
    PROVE  IInv'
<1>1. ASSUME NEW batch \in Batches, Deliver(batch) PROVE IInv'
  BY <1>1, DeliverStep
<1>2. CASE \/ \E f \in Files : RemoveFile(f)
           \/ UNCHANGED vars
  <2>1. UNCHANGED <<pc, availableFiles, asked, timeStep, passes, tasks, executions>>
    BY <1>2 DEF RemoveFile, vars, history
  <2> QED
    BY <2>1 DEF IInv, Types, AsksAll, CountsPasses, Drained
<1>3. ASSUME NEW i \in Inporters, GiveAgain(i) PROVE IInv'
  BY <1>3, GiveAgainStep
<1>4. ASSUME NEW i \in Inporters, Process(i) PROVE IInv'
  BY <1>4, CreateTaskStep, TasksCreatedStep, MakeAdaptorsStep, ReadFileStep,
     ExecuteStep, ProcessNextStep, EndPassStep, CrashSteps
  DEF Process
<1> QED
  BY <1>1, <1>2, <1>3, <1>4 DEF Next

(* The inductive invariant holds throughout. *)
THEOREM Invariance == Spec => []IInv
<1>1. IInv /\ [Next]_vars => IInv'
  BY NextIInv
<1> QED
  BY InitIInv, <1>1, PTL DEF Spec

(* While process does not run, no pipeline accepts what an inporter still  *)
(* has available (inporter.cxx: Inporter::process returns when createTasks *)
(* made no task, or when nothing is left).                                 *)
THEOREM NothingMoreAccepted == Spec => []Drained
<1>1. IInv => Drained
  BY DEF IInv
<1> QED
  BY Invariance, <1>1, PTL

(* Two catalyst_execute calls of an inporter have the same timestep if and *)
(* only if one pass made both.                                             *)
THEOREM TimeStepPerPass == Spec => []TimeStepsArePasses
<1>1. IInv => TimeStepsArePasses
  BY DEF IInv, CountsPasses, TimeStepsArePasses
<1> QED
  BY Invariance, <1>1, PTL

-----------------------------------------------------------------------------
(* The tasks.  What is left of a pipeline is one of its ends. *)

StagesFrom(pipeline, m) == SubSeq(pipeline, m, Len(pipeline))

RestsOf(pipeline) == {StagesFrom(pipeline, m) : m \in 1..Len(pipeline)}

Rests == UNION {RestsOf(pipeline) : pipeline \in ToSet(PipelineSpecs)}

Tasks == [stages : Rests, inputFiles : Seq(Files), status : {"ok"}]

LEMMA PipelineProperties ==
    ASSUME NEW pipeline \in ToSet(PipelineSpecs)
    PROVE  /\ pipeline # <<>>
           /\ pipeline \in Seq(ToSet(pipeline))
           /\ Len(pipeline) \in Nat \ {0}
           /\ \A stage \in ToSet(pipeline) : ProcessAssumption(stage.process)
<1>1. /\ pipeline # <<>>
      /\ pipeline \in Seq(ToSet(pipeline))
      /\ \A stage \in ToSet(pipeline) : ProcessAssumption(stage.process)
  BY InportersAssumption, Zenon
<1> QED
  BY <1>1

LEMMA FirstInput ==
    ASSUME NEW n \in 1..Len(PipelineSpecs)
    PROVE  /\ PipelineSpecs[n] \in ToSet(PipelineSpecs)
           /\ PipelineSpecs[n][1].input.accept \in {"first", "all", "script"}
           /\ PipelineSpecs[n][1].input.accept = "script"
                => PipelineSpecs[n][1].input.needs # {}
<1>1. PipelineSpecs \in Seq(ToSet(PipelineSpecs))
  BY InportersAssumption, Zenon
<1>2. PipelineSpecs[n] \in ToSet(PipelineSpecs)
  BY <1>1
<1> QED
  BY <1>2, InportersAssumption, Zenon

LEMMA EndIsSuffix ==
    ASSUME NEW T, NEW s \in Seq(T), NEW m \in 1..Len(s)
    PROVE  IsSuffix(SubSeq(s, m, Len(s)), s)
<1> DEFINE e == SubSeq(s, m, Len(s))
           L == Len(s) - m + 1
           r == Reverse(s)
           q == Reverse(e)
<1>1. Len(s) \in Nat /\ m \in Nat /\ m <= Len(s) /\ L \in Nat /\ L <= Len(s)
  OBVIOUS
<1>2. e \in Seq(T) /\ Len(e) = L /\ \A n \in 1..L : e[n] = s[m + n - 1]
  <2>1. \A n \in m..Len(s) : s[n] \in T
    OBVIOUS
  <2> QED
    BY <2>1, SubSeqProperties
<1> HIDE DEF e
<1>3. q = [n \in 1..L |-> e[(L - n) + 1]]
  BY <1>2 DEF Reverse
<1>4. r = [n \in 1..Len(s) |-> s[(Len(s) - n) + 1]]
  BY DEF Reverse
<1>5. q \in Seq(T) /\ Len(q) = L
  BY <1>1, <1>2, <1>3
<1>6. r \in Seq(T) /\ Len(r) = Len(s)
  BY <1>1, <1>4
<1>7. \A n \in 1..L : q[n] = r[n]
  <2> SUFFICES ASSUME NEW n \in 1..L PROVE q[n] = r[n]
    OBVIOUS
  <2>1. (L - n) + 1 \in 1..L /\ m + ((L - n) + 1) - 1 = (Len(s) - n) + 1
    BY <1>1
  <2>2. q[n] = e[(L - n) + 1] /\ r[n] = s[(Len(s) - n) + 1]
    BY <1>1, <1>3, <1>4
  <2> QED
    BY <1>2, <2>1, <2>2
<1> HIDE DEF q, r
<1>8. SubSeq(q, 1, Len(q)) = q
  BY <1>5, SubSeqFull
<1>9. SubSeq(r, 1, Len(q)) = q
  <2>1. /\ SubSeq(r, 1, L) \in Seq(T)
        /\ Len(SubSeq(r, 1, L)) = L
        /\ \A n \in 1..L : SubSeq(r, 1, L)[n] = r[n]
    <3>1. \A n \in 1..L : r[n] \in T
      BY <1>1, <1>6
    <3>2. /\ SubSeq(r, 1, L) \in Seq(T)
          /\ Len(SubSeq(r, 1, L)) = IF 1 <= L THEN L - 1 + 1 ELSE 0
          /\ \A n \in 1..(L - 1 + 1) : SubSeq(r, 1, L)[n] = r[1 + n - 1]
      BY <1>1, <3>1, SubSeqProperties
    <3> HIDE DEF L
    <3> QED
      BY <1>1, <3>2
  <2> QED
    BY <1>5, <1>7, <2>1
<1> QED
  BY <1>1, <1>5, <1>6, <1>8, <1>9 DEF IsSuffix, IsPrefix, e, q, r

LEMMA RestProperties ==
    ASSUME NEW stages \in Rests
    PROVE  /\ stages # <<>>
           /\ Len(stages) \in Nat
           /\ ProcessAssumption(Head(stages).process)
           /\ Len(stages) # 1 => Tail(stages) \in Rests
           /\ \E pipeline \in ToSet(PipelineSpecs) : IsSuffix(stages, pipeline)
<1>1. PICK p \in ToSet(PipelineSpecs) : stages \in RestsOf(p)
  BY DEF Rests
<1>2. PICK m \in 1..Len(p) : stages = SubSeq(p, m, Len(p))
  BY <1>1 DEF RestsOf, StagesFrom
<1> DEFINE S == ToSet(p)
<1>3. /\ p \in Seq(S)
      /\ Len(p) \in Nat \ {0}
      /\ \A stage \in S : ProcessAssumption(stage.process)
  BY PipelineProperties
<1>4. p[m] \in S
  BY <1>3
<1>5. stages # <<>> /\ Len(stages) = Len(p) - m + 1
  <2>1. \A n \in m..Len(p) : p[n] \in S
    BY <1>3
  <2> HIDE DEF S
  <2>2. Len(SubSeq(p, m, Len(p))) = IF m <= Len(p) THEN Len(p) - m + 1 ELSE 0
    BY <1>3, <2>1, SubSeqProperties
  <2>3. Len(stages) = Len(p) - m + 1 /\ Len(stages) # 0
    BY <1>2, <1>3, <2>2
  <2>4. Len(<<>>) = 0
    OBVIOUS
  <2> QED
    BY <2>3, <2>4, Zenon
<1> HIDE DEF S
<1>6. Head(stages) = p[m] /\ Tail(stages) = SubSeq(p, m + 1, Len(p))
  <2>1. Len(p) \in m..Len(p)
    BY <1>3
  <2> QED
    BY <1>2, <1>3, <2>1, HeadTailOfSubSeq
<1>7. Len(stages) # 1 => Tail(stages) \in Rests
  <2> SUFFICES ASSUME Len(stages) # 1 PROVE Tail(stages) \in Rests
    OBVIOUS
  <2>1. m + 1 \in 1..Len(p)
    BY <1>3, <1>5
  <2>2. Tail(stages) \in RestsOf(p)
    BY <1>6, <2>1 DEF RestsOf, StagesFrom
  <2> QED
    BY <2>2 DEF Rests
<1>8. IsSuffix(stages, p)
  BY <1>2, <1>3, EndIsSuffix
<1>9. Len(stages) \in Nat
  BY <1>3, <1>5
<1> QED
  BY <1>3, <1>4, <1>5, <1>6, <1>7, <1>8, <1>9

LEMMA PipelineIsRest ==
    ASSUME NEW pipeline \in ToSet(PipelineSpecs)
    PROVE  pipeline \in Rests
<1>1. pipeline \in Seq(ToSet(pipeline)) /\ 1 \in 1..Len(pipeline)
  BY PipelineProperties
<1>2. SubSeq(pipeline, 1, Len(pipeline)) = pipeline
  BY <1>1, SubSeqFull
<1>3. pipeline \in RestsOf(pipeline)
  BY <1>1, <1>2 DEF RestsOf, StagesFrom
<1> QED
  BY <1>3 DEF Rests

-----------------------------------------------------------------------------
(* What a pipeline accepts is some of what is available, and no more often *)
(* than it is.                                                             *)
LEMMA CandidatesProperties ==
    ASSUME NEW input, NEW files \in Seq(Files)
    PROVE  /\ Candidates(input, files) \in Seq(Files)
           /\ ToSet(Candidates(input, files)) \subseteq ToSet(files)
           /\ \A f : Count(Candidates(input, files), f) <= Count(files, f)
<1>1. /\ Select(files, input.matches) \in Seq(Files)
      /\ ToSet(Select(files, input.matches)) \subseteq ToSet(files)
  <2>1. Select(files, input.matches) \in Seq(Files \cap input.matches)
    BY SelectProperties
  <2>2. ToSet(Select(files, input.matches)) = ToSet(files) \cap input.matches
    BY SelectProperties
  <2> QED
    BY <2>1, <2>2
<1>2. \A f : Count(Select(files, input.matches), f) <= Count(files, f)
  <2> SUFFICES ASSUME NEW f PROVE Count(Select(files, input.matches), f) <= Count(files, f)
    OBVIOUS
  <2> QED
    BY CountOfSelect, CountType
<1>3. \A f : Count(files, f) <= Count(files, f)
  BY CountType
<1>4. Candidates(input, files) \in {Select(files, input.matches), files}
  BY DEF Candidates, Matching
<1> QED
  BY <1>1, <1>2, <1>3, <1>4

LEMMA AcceptedProperties ==
    ASSUME NEW n \in 1..Len(PipelineSpecs), NEW files \in Seq(Files),
           Accepts(PipelineSpecs[n][1].input, files)
    PROVE  /\ Accepted(PipelineSpecs[n][1].input, files) \in Seq(Files)
           /\ ToSet(Accepted(PipelineSpecs[n][1].input, files)) \subseteq ToSet(files)
           /\ \A f : Count(Accepted(PipelineSpecs[n][1].input, files), f) <= Count(files, f)
<1> DEFINE input == PipelineSpecs[n][1].input
           candidates == Candidates(input, files)
           accepted == Accepted(input, files)
<1>1. /\ input.accept \in {"first", "all", "script"}
      /\ input.accept = "script" => input.needs # {}
  BY FirstInput, Zenon
<1>2. Accepts(input, files)
  OBVIOUS
<1> HIDE DEF input
<1>3. /\ candidates \in Seq(Files)
      /\ ToSet(candidates) \subseteq ToSet(files)
      /\ \A f : Count(candidates, f) <= Count(files, f)
  BY CandidatesProperties
<1>4. /\ input.accept = "script" => accepted = Select(candidates, input.needs)
      /\ input.accept = "first" => accepted = SubSeq(candidates, 1, 1)
      /\ input.accept = "all" => accepted = candidates
  BY DEF Accepted
<1>5. input.accept = "first" => candidates # <<>>
  BY <1>2 DEF Accepts
<1>6. \A f : Count(files, f) \in Nat /\ Count(candidates, f) \in Nat
  BY <1>3, CountType
<1> HIDE DEF candidates, accepted
<1>7. CASE input.accept = "script"
  <2> DEFINE chosen == Select(candidates, input.needs)
  <2>1. /\ chosen \in Seq(Files \cap input.needs)
        /\ ToSet(chosen) = ToSet(candidates) \cap input.needs
    BY <1>3, SelectProperties
  <2>2. \A f : Count(chosen, f) = IF f \in input.needs THEN Count(candidates, f) ELSE 0
    BY <1>3, CountOfSelect
  <2>3. accepted = chosen
    BY <1>4, <1>7
  <2> HIDE DEF chosen
  <2>4. accepted \in Seq(Files) /\ ToSet(accepted) \subseteq ToSet(files)
    BY <1>3, <2>1, <2>3
  <2>5. \A f : Count(accepted, f) <= Count(files, f)
    BY <1>3, <1>6, <2>2, <2>3
  <2> QED
    BY <2>4, <2>5 DEF accepted, input
<1>8. CASE input.accept = "first"
  <2> DEFINE chosen == SubSeq(candidates, 1, 1)
  <2>1. /\ chosen \in Seq(Files)
        /\ ToSet(chosen) \subseteq ToSet(candidates)
        /\ \A f : Count(chosen, f) <= Count(candidates, f)
    BY <1>3, <1>5, <1>8, FirstOfSequence
  <2>2. accepted = chosen
    BY <1>4, <1>8
  <2>3. \A f : Count(chosen, f) \in Nat
    BY <2>1, CountType
  <2> HIDE DEF chosen
  <2>4. accepted \in Seq(Files) /\ ToSet(accepted) \subseteq ToSet(files)
    BY <1>3, <2>1, <2>2
  <2>5. \A f : Count(accepted, f) <= Count(files, f)
    BY <1>3, <1>6, <2>1, <2>2, <2>3
  <2> QED
    BY <2>4, <2>5 DEF accepted, input
<1>9. CASE input.accept = "all"
  BY <1>3, <1>4, <1>9 DEF accepted, input
<1> QED
  BY <1>1, <1>7, <1>8, <1>9

-----------------------------------------------------------------------------
(* Erasing what was accepted takes each file away as often as it was       *)
(* accepted.                                                               *)
EraseFcn(files, accepted) ==
    CHOOSE left : left = [n \in 0..Len(accepted) |->
        IF n = 0 THEN files ELSE RemoveFirst(left[n - 1], accepted[n])]

LEMMA EraseIsFcn ==
    ASSUME NEW files, NEW accepted
    PROVE  Erase(files, accepted) = EraseFcn(files, accepted)[Len(accepted)]
BY DEF Erase, EraseFcn

LEMMA RemoveFirstIsSequence ==
    ASSUME NEW T, NEW s \in Seq(T), NEW e
    PROVE  RemoveFirst(s, e) \in Seq(T)
<1>1. CASE e \in ToSet(s)
  BY <1>1, RemoveFirstProperties
<1>2. CASE e \notin ToSet(s)
  <2>1. ~\E n \in 1..Len(s) : s[n] = e
    BY <1>2 DEF ToSet
  <2> QED
    BY <2>1 DEF RemoveFirst
<1> QED
  BY <1>1, <1>2

LEMMA EraseFcnValues ==
    ASSUME NEW T, NEW files \in Seq(T), NEW accepted \in Seq(T)
    PROVE  /\ EraseFcn(files, accepted)[0] = files
           /\ \A n \in 1..Len(accepted) :
                EraseFcn(files, accepted)[n]
                    = RemoveFirst(EraseFcn(files, accepted)[n - 1], accepted[n])
<1> DEFINE D == Seq(T)
           N == Len(accepted)
           step == [n \in 1..N |-> [d \in D |-> RemoveFirst(d, accepted[n])]]
           Body(f, n) == IF n = 0 THEN files ELSE RemoveFirst(f[n - 1], accepted[n])
           left == EraseFcn(files, accepted)
<1>1. step \in [1..N -> [D -> D]] /\ N \in Nat
  <2>1. \A n \in 1..N, d \in D : RemoveFirst(d, accepted[n]) \in D
    BY RemoveFirstIsSequence
  <2> QED
    BY <2>1
<1>2. PICK f \in [0..N -> D] : Iterates(f, files, step, N)
  <2> HIDE DEF N, step
  <2> QED
    BY <1>1, RecursionOnNumbers
<1>3. \A n \in 0..N : f[n] = Body(f, n)
  <2>1. ASSUME NEW n \in 1..N PROVE f[n] = Body(f, n)
    <3> HIDE DEF D, N, step
    <3>1. n - 1 \in 0..N /\ n # 0
      BY <1>1
    <3>2. f[n - 1] \in D
      BY <3>1
    <3>3. f[n] = step[n][f[n - 1]]
      BY <1>2 DEF Iterates
    <3>4. step[n][f[n - 1]] = RemoveFirst(f[n - 1], accepted[n])
      BY <3>2, Zenon DEF step
    <3> QED
      BY <3>1, <3>3, <3>4
  <2> HIDE DEF N, D, step
  <2>2. \A n \in 0..N \ {0} : n \in 1..N
    BY <1>1
  <2> QED
    BY <1>2, <2>1, <2>2 DEF Iterates
<1>4. f = [n \in 0..N |-> Body(f, n)]
  <2> HIDE DEF N, D, step, Body
  <2> QED
    BY <1>2, <1>3
<1>5. left = [n \in 0..N |-> Body(left, n)]
  BY <1>4 DEF EraseFcn
<1> HIDE DEF Body, N, left
<1>6. \A n \in 0..N : left[n] = Body(left, n)
  BY <1>5, Zenon
<1>7. 0 \in 0..N /\ \A n \in 1..N : n \in 0..N /\ n # 0
  BY <1>1
<1>8. /\ left[0] = Body(left, 0)
      /\ \A n \in 1..N : left[n] = Body(left, n) /\ n # 0
  BY <1>6, <1>7, Zenon
<1> QED
  BY <1>8 DEF Body, N, left

LEMMA EraseOfAppend ==
    ASSUME NEW T, NEW files \in Seq(T), NEW accepted \in Seq(T), NEW e \in T
    PROVE  Erase(files, Append(accepted, e)) = RemoveFirst(Erase(files, accepted), e)
<1> DEFINE t == Append(accepted, e)
           N == Len(accepted)
           f == EraseFcn(files, accepted)
           g == EraseFcn(files, t)
<1>1. t \in Seq(T) /\ Len(t) = N + 1 /\ N \in Nat /\ t[N + 1] = e
      /\ \A n \in 1..N : t[n] = accepted[n]
  BY AppendProperties
<1>2. f[0] = files /\ \A n \in 1..N : f[n] = RemoveFirst(f[n - 1], accepted[n])
  BY EraseFcnValues
<1>3. g[0] = files /\ \A n \in 1..Len(t) : g[n] = RemoveFirst(g[n - 1], t[n])
  <2> HIDE DEF t
  <2> QED
    BY <1>1, EraseFcnValues
<1>4. Erase(files, accepted) = f[N] /\ Erase(files, t) = g[N + 1]
  BY <1>1, EraseIsFcn
<1> HIDE DEF t, N, f, g
<1>5. g[N + 1] = RemoveFirst(g[N], t[N + 1])
  <2>1. N + 1 \in 1..Len(t) /\ (N + 1) - 1 = N
    <3>1. N \in Nat /\ Len(t) = N + 1
      BY <1>1
    <3> QED
      BY <3>1
  <2> QED
    BY <1>3, <2>1
<1>6. StepAlike(f, g, N)
  <2>1. \A n \in 1..N : n \in 1..Len(t) /\ accepted[n] = t[n]
    BY <1>1
  <2> QED
    BY <1>2, <1>3, <2>1 DEF StepAlike
<1>7. f[0] = g[0]
  BY <1>2, <1>3
<1>8. AgreeOn(f, g, 0..N)
  BY <1>1, <1>6, <1>7, AgreeThroughout
<1>9. f[N] = g[N]
  BY <1>1, <1>8 DEF AgreeOn
<1> QED
  BY <1>1, <1>4, <1>5, <1>9 DEF t

(* accepted is there to be erased from files. *)
Within(accepted, files) == \A f : Count(accepted, f) <= Count(files, f)

Left(files, accepted) ==
    \A f : Count(Erase(files, accepted), f) = Count(files, f) - Count(accepted, f)

LEMMA EraseProperties ==
    ASSUME NEW T, NEW files \in Seq(T), NEW accepted \in Seq(T), Within(accepted, files)
    PROVE  Erase(files, accepted) \in Seq(T) /\ Left(files, accepted)
<1> DEFINE P == {s \in Seq(T) : Within(s, files) =>
                                    Erase(files, s) \in Seq(T) /\ Left(files, s)}
<1>0. \A f : Count(files, f) \in Nat
  BY CountType
<1>1. <<>> \in P
  <2> SUFFICES ASSUME NEW s, s = <<>> PROVE s \in P
    OBVIOUS
  <2>1. s \in Seq(T) /\ Len(s) = 0
    OBVIOUS
  <2>2. Erase(files, s) = files
    BY <2>1, EraseIsFcn, EraseFcnValues
  <2>3. \A f : Count(s, f) = 0
    BY CountOfEmpty
  <2>4. Left(files, s)
    BY <1>0, <2>2, <2>3 DEF Left
  <2> QED
    BY <2>1, <2>2, <2>4
<1>2. ASSUME NEW s \in Seq(T), NEW e \in T, s \in P PROVE Append(s, e) \in P
  <2> DEFINE a == Append(s, e)
             left == Erase(files, s)
             after == Erase(files, a)
  <2>1. a \in Seq(T)
    OBVIOUS
  <2>2. \A f : Count(a, f) = IF f = e THEN Count(s, f) + 1 ELSE Count(s, f)
    BY CountOfAppend
  <2>3. \A f : Count(s, f) \in Nat
    BY CountType
  <2>4. after = RemoveFirst(left, e)
    BY EraseOfAppend
  <2> HIDE DEF a
  <2> SUFFICES ASSUME Within(a, files) PROVE after \in Seq(T) /\ Left(files, a)
    BY <2>1 DEF a
  <2>5. Within(s, files)
    BY <1>0, <2>2, <2>3 DEF Within
  <2>6. left \in Seq(T) /\ \A f : Count(left, f) = Count(files, f) - Count(s, f)
    BY <1>2, <2>5 DEF Left
  <2> HIDE DEF left, after
  <2>7. e \in ToSet(left)
    <3>1. Count(s, e) + 1 <= Count(files, e)
      BY <2>2 DEF Within
    <3>2. Count(left, e) # 0
      BY <1>0, <2>3, <2>6, <3>1
    <3> QED
      BY <2>6, <3>2, CountType
  <2>8. /\ after \in Seq(T)
        /\ \A f : Count(after, f) = IF f = e THEN Count(left, f) - 1 ELSE Count(left, f)
    BY <2>4, <2>6, <2>7, RemoveFirstProperties
  <2>9. Left(files, a)
    <3>1. \A f : Count(after, f) = Count(files, f) - Count(a, f)
      BY <1>0, <2>2, <2>3, <2>6, <2>8
    <3> QED
      BY <3>1 DEF Left, after
  <2> QED
    BY <2>8, <2>9
<1> HIDE DEF P
<1>3. Seq(T) \subseteq P
  BY <1>1, <1>2, InductionOnSequences
<1> QED
  BY <1>3 DEF P

-----------------------------------------------------------------------------
(* What a stage sees, makes and hands on. *)

LEMMA StageInputProperties ==
    ASSUME NEW stage, NEW files \in Seq(Files)
    PROVE  /\ StageInput(stage, files) \in Seq(Files)
           /\ Len(StageInput(stage, files)) \in Nat
           /\ Len(StageInput(stage, files)) <= Len(files)
<1> DEFINE chosen == Select(files, stage.input.matches)
<1>1. chosen \in Seq(Files \cap stage.input.matches) /\ Len(chosen) <= Len(files)
  BY SelectProperties
<1>2. StageInput(stage, files) \in {chosen, files}
  BY DEF StageInput, Matching
<1> HIDE DEF chosen
<1>3. chosen \in Seq(Files) /\ Len(files) <= Len(files)
  BY <1>1
<1> QED
  BY <1>1, <1>2, <1>3

LEMMA ProductsAreFiles ==
    ASSUME NEW stage, ProcessAssumption(stage.process), NEW files \in Seq(Files)
    PROVE  Products(stage, files) \in Seq(Files)
<1>1. CASE stage.process.type = "readyfile"
  <2> DEFINE conversion == stage.process.conversion
             signals == Select(files, DOMAIN conversion)
  <2>1. signals \in Seq(Files \cap DOMAIN conversion)
    BY SelectProperties
  <2>2. Range(conversion) \subseteq Files
    BY <1>1 DEF ProcessAssumption
  <2>3. Products(stage, files) = [n \in DOMAIN signals |-> conversion[signals[n]]]
    BY <1>1 DEF Products, Converted
  <2> HIDE DEF conversion, signals
  <2>4. DOMAIN signals = 1..Len(signals) /\ Len(signals) \in Nat
    BY <2>1
  <2>5. \A n \in 1..Len(signals) : conversion[signals[n]] \in Files
    BY <2>1, <2>2, <2>4 DEF Range
  <2> QED
    BY <2>3, <2>4, <2>5
<1>2. CASE stage.process.type # "readyfile"
  <2>1. Products(stage, files) = <<>>
    BY <1>2 DEF Products
  <2>2. <<>> \in Seq(Files)
    OBVIOUS
  <2> QED
    BY <2>1, <2>2, Zenon
<1> QED
  BY <1>1, <1>2

LEMMA AfterStageIsTask ==
    ASSUME NEW task \in Tasks, NEW ok, AfterStage(task, ok).status = "ok"
    PROVE  AfterStage(task, ok) \in Tasks
<1> DEFINE stage == Head(task.stages)
           input == StageInput(stage, task.inputFiles)
           output == Products(stage, input)
           next == [stages |-> Tail(task.stages), inputFiles |-> output,
                    status |-> NextStatus(task)]
<1>1. /\ task.stages \in Rests
      /\ task.inputFiles \in Seq(Files)
  BY DEF Tasks
<1>2. output \in Seq(Files)
  <2>1. ProcessAssumption(stage.process)
    BY <1>1, RestProperties
  <2>2. input \in Seq(Files)
    BY <1>1, StageInputProperties
  <2> HIDE DEF stage, input
  <2> QED
    BY <2>1, <2>2, ProductsAreFiles
<1>3. AfterStage(task, ok) \in {[task EXCEPT !.status = "failedinput"],
                                [task EXCEPT !.status = "failedprocessing"], next}
  BY DEF AfterStage
<1>4. /\ [task EXCEPT !.status = "failedinput"].status = "failedinput"
      /\ [task EXCEPT !.status = "failedprocessing"].status = "failedprocessing"
  BY DEF Tasks
<1>5. AfterStage(task, ok) = next /\ next.status = "ok"
  BY <1>3, <1>4
<1>6. Tail(task.stages) \in Rests
  <2>1. Len(task.stages) # 1
    BY <1>5 DEF NextStatus
  <2> QED
    BY <1>1, <2>1, RestProperties
<1> HIDE DEF output
<1> QED
  BY <1>2, <1>5, <1>6 DEF Tasks

(* An adaptor for a NetCDF file hands on a single array. *)
ReadsBy(adaptor, format) ==
    /\ adaptor.reader = format
    /\ format = "netcdf" => \E name \in adaptor.arrays : adaptor.arrays = {name}

LEMMA AdaptorsForProperties ==
    ASSUME NEW f \in Files, NEW process,
           process.type = "catalyst", ProcessAssumption(process)
    PROVE  /\ AdaptorsFor(process.scripts, f) \in Seq(ToSet(AdaptorsFor(process.scripts, f)))
           /\ \A a \in ToSet(AdaptorsFor(process.scripts, f)) : ReadsBy(a, Format[f])
<1> DEFINE scripts == process.scripts
           made == AdaptorsFor(scripts, f)
           Readers == {a \in ToSet(made) : ReadsBy(a, Format[f])}
<1>1. /\ scripts \in Seq(ToSet(scripts))
      /\ \A script \in ToSet(scripts) : script.variables \in Seq(ToSet(script.variables))
  BY DEF ProcessAssumption
<1> HIDE DEF scripts
<1> SUFFICES made \in Seq(Readers)
  <2>1. made \in Seq(Readers) => made \in Seq(ToSet(made)) /\ ToSet(made) \subseteq Readers
    <3> HIDE DEF made, Readers
    <3> QED
      BY SequenceOfItsOwn
  <2> QED
    BY <2>1 DEF scripts
<1>2. CASE Format[f] = "netcdf"
  <2> DEFINE vars_ == [n \in DOMAIN scripts |-> scripts[n].variables]
             names == VariablesOf(scripts)
             Names == UNION {ToSet(scripts[n].variables) : n \in DOMAIN scripts}
  <2>1. vars_ \in Seq(Seq(Names))
    <3>1. DOMAIN scripts = 1..Len(scripts) /\ Len(scripts) \in Nat
      BY <1>1
    <3>2. ASSUME NEW n \in 1..Len(scripts) PROVE scripts[n].variables \in Seq(Names)
      <4>1. scripts[n] \in ToSet(scripts)
        BY <1>1, <3>1
      <4>2. scripts[n].variables \in Seq(ToSet(scripts[n].variables))
        BY <1>1, <4>1
      <4>3. ToSet(scripts[n].variables) \subseteq Names
        BY <3>1
      <4> HIDE DEF Names
      <4> QED
        BY <4>2, <4>3
    <3> HIDE DEF Names
    <3> QED
      BY <3>1, <3>2
  <2>2. names = FlattenSeq(vars_)
    BY DEF VariablesOf
  <2> HIDE DEF vars_, Names, names
  <2>6. names \in Seq(Names)
    BY <2>1, <2>2, FlattenSeqProperties
  <2>3. made = [n \in DOMAIN names |-> [reader |-> "netcdf", arrays |-> {names[n]}]]
    BY <1>2 DEF AdaptorsFor, XMLFormats, names
  <2>4. DOMAIN names = 1..Len(names) /\ Len(names) \in Nat
    BY <2>6
  <2> HIDE DEF made
  <2>5. \A n \in 1..Len(names) : ReadsBy(made[n], Format[f]) /\ made[n] \in ToSet(made)
    BY <1>2, <2>3, <2>4 DEF ToSet, ReadsBy
  <2>7. \A n \in 1..Len(names) : made[n] \in Readers
    BY <2>5
  <2>8. made = [n \in 1..Len(names) |-> made[n]]
    BY <2>3, <2>4
  <2> HIDE DEF Readers
  <2> QED
    BY <2>4, <2>7, <2>8
<1>3. CASE Format[f] \in XMLFormats
  <2>1. DOMAIN scripts = 1..Len(scripts) /\ Len(scripts) \in Nat
    BY <1>1
  <2>2. made = [n \in DOMAIN scripts |-> [reader |-> Format[f], arrays |-> Arrays[f]]]
    BY <1>3 DEF AdaptorsFor, XMLFormats
  <2> HIDE DEF made
  <2>3. \A n \in 1..Len(scripts) : ReadsBy(made[n], Format[f]) /\ made[n] \in ToSet(made)
    BY <1>3, <2>1, <2>2 DEF ToSet, ReadsBy, XMLFormats
  <2> QED
    BY <2>1, <2>2, <2>3
<1>4. CASE Format[f] \notin {"netcdf"} \cup XMLFormats
  <2>1. made = <<>>
    BY <1>4 DEF AdaptorsFor
  <2>2. <<>> \in Seq(Readers)
    OBVIOUS
  <2> HIDE DEF made, Readers
  <2> QED
    BY <2>1, <2>2, Zenon
<1> QED
  BY <1>2, <1>3, <1>4

-----------------------------------------------------------------------------
(* The descriptions. *)

(* The fields refer to data objects that were made. *)
DataMade(d) ==
    d.kept \in Nat /\ \A name \in DOMAIN d.fields : d.fields[name].data \in 1..d.kept

LEMMA NoDataMade == DataMade(NoData)
BY DEF DataMade, NoData

LEMMA CoprocessedMade ==
    ASSUME NEW d, DataMade(d), NEW arrays, NEW part
    PROVE  DataMade(Coprocessed(d, arrays, part))
<1> DEFINE c == Coprocessed(d, arrays, part)
<1>1. c.kept = d.kept + 1 /\ d.kept \in Nat
  BY DEF Coprocessed, DataMade
<1>2. DOMAIN c.fields = arrays \cup DOMAIN d.fields
  BY DEF Coprocessed
<1>3. \A name \in DOMAIN c.fields :
        c.fields[name] = IF name \in arrays THEN [data |-> d.kept + 1, part |-> part]
                         ELSE d.fields[name]
  BY DEF Coprocessed
<1>4. ASSUME NEW name \in DOMAIN c.fields PROVE c.fields[name].data \in 1..c.kept
  <2>1. CASE name \in arrays
    BY <1>1, <1>3, <2>1
  <2>2. CASE name \notin arrays
    <3>1. d.fields[name].data \in 1..d.kept
      BY <1>2, <2>2 DEF DataMade
    <3>2. c.fields[name].data = d.fields[name].data
      BY <1>3, <2>2
    <3> HIDE DEF c
    <3> QED
      BY <1>1, <3>1, <3>2
  <2> QED
    BY <2>1, <2>2
<1> QED
  BY <1>1, <1>4 DEF DataMade

LEMMA DescribedMade ==
    ASSUME NEW d, DataMade(d), NEW adaptor, NEW f, NEW i, NEW gone
    PROVE  DataMade(Described(d, adaptor, f, i, gone))
BY CoprocessedMade DEF Described, ReadNothing, ReadPart

-----------------------------------------------------------------------------
(* The types, and what they need: where process is says what it is about.  *)

OnCatalyst(i) ==
    /\ tasks[i] # <<>>
    /\ StageOf(i).process.type = "catalyst"
    /\ ~FailedInput(StageOf(i), TaskOf(i).inputFiles)

TypedAt(i) ==
    /\ availableFiles[i] \in Seq(Files)
    /\ workingFiles[i] \in Seq(Files)
    /\ tasks[i] \in Seq(Tasks)
    /\ adaptors[i] \in Seq(ToSet(adaptors[i]))
    /\ DataMade(description[i])
    /\ described[i] \in Nat
    /\ pc[i] \in {"tasks", "read"} => timeStep[i] < MaxTimeStep
    /\ pc[i] \notin {"tasks", "read", "crashed"} => described[i] = 0
    /\ adaptors[i] # <<>> => pc[i] \in {"read", "crashed"}
    /\ described[i] > 0 => OnCatalyst(i) /\ described[i] <= Len(InputOf(i))
    /\ pc[i] = "read" => OnCatalyst(i) /\ described[i] < Len(InputOf(i))

TypedGlobally ==
    /\ removed \subseteq Removable
    /\ leaving \subseteq Inporters
    /\ deliveries \in Seq(Seq(Files))
    /\ Len(deliveries) <= MaxDeliveries
    /\ pc \in [Inporters -> {"main", "create", "tasks", "read", "ended", "crashed"}]
    /\ timeStep \in [Inporters -> 0..MaxTimeStep]
    /\ asked \in [Inporters -> 0..Len(PipelineSpecs)]
    /\ DOMAIN availableFiles = Inporters
    /\ DOMAIN workingFiles = Inporters
    /\ DOMAIN tasks = Inporters
    /\ DOMAIN adaptors = Inporters
    /\ DOMAIN description = Inporters
    /\ DOMAIN described = Inporters

Typed == TypedGlobally /\ \A i \in Inporters : TypedAt(i)

LEMMA Bounds ==
    /\ MaxDeliveries \in Nat
    /\ MaxTimeStep \in Nat
    /\ PipelineSpecs \in Seq(ToSet(PipelineSpecs))
    /\ Len(PipelineSpecs) \in Nat
    /\ FilesInOrder \in Seq(Files)
    /\ Removable \subseteq Files
    /\ DOMAIN Format = Files
<1>1. /\ MaxDeliveries \in Nat
      /\ MaxTimeStep \in Nat
      /\ PipelineSpecs \in Seq(ToSet(PipelineSpecs))
      /\ FilesInOrder \in Seq(Files)
      /\ Removable \subseteq Files
      /\ DOMAIN Format = Files
  BY InportersAssumption, Zenon
<1> QED
  BY <1>1

LEMMA InitTyped == Init => Typed
<1> SUFFICES ASSUME Init PROVE Typed
  OBVIOUS
<1>0. <<>> \in Seq(Files) /\ <<>> \in Seq(Tasks) /\ <<>> \in Seq(Seq(Files))
      /\ <<>> \in Seq(ToSet(<<>>)) /\ Len(<<>>) = 0
  OBVIOUS
<1>1. TypedGlobally
  <2>1. deliveries \in Seq(Seq(Files)) /\ Len(deliveries) = 0
    BY <1>0, Zenon DEF Init
  <2>2. pc \in [Inporters -> {"main", "create", "tasks", "read", "ended", "crashed"}]
    BY DEF Init
  <2>3. timeStep \in [Inporters -> 0..MaxTimeStep]
    BY Bounds DEF Init
  <2>4. asked \in [Inporters -> 0..Len(PipelineSpecs)]
    BY Bounds DEF Init
  <2>5. /\ removed = {} /\ leaving = {}
        /\ DOMAIN availableFiles = Inporters
        /\ DOMAIN workingFiles = Inporters
        /\ DOMAIN tasks = Inporters
        /\ DOMAIN adaptors = Inporters
        /\ DOMAIN description = Inporters
        /\ DOMAIN described = Inporters
    BY DEF Init
  <2> QED
    BY <2>1, <2>2, <2>3, <2>4, <2>5, Bounds DEF TypedGlobally
<1>2. ASSUME NEW i \in Inporters PROVE TypedAt(i)
  <2>1. /\ availableFiles[i] = <<>> /\ workingFiles[i] = <<>> /\ tasks[i] = <<>>
        /\ adaptors[i] = <<>> /\ description[i] = NoData /\ described[i] = 0
        /\ pc[i] = "main"
    BY DEF Init
  <2>2. /\ availableFiles[i] \in Seq(Files)
        /\ workingFiles[i] \in Seq(Files)
        /\ tasks[i] \in Seq(Tasks)
        /\ adaptors[i] \in Seq(ToSet(adaptors[i]))
    BY <1>0, <2>1, Zenon
  <2> QED
    BY <2>1, <2>2, NoDataMade DEF TypedAt
<1> QED
  BY <1>1, <1>2 DEF Typed

(* What a step leaves of an inporter it is not about. *)
SameAt(i) ==
    /\ pc'[i] = pc[i] /\ timeStep'[i] = timeStep[i]
    /\ availableFiles'[i] = availableFiles[i] /\ workingFiles'[i] = workingFiles[i]
    /\ tasks'[i] = tasks[i] /\ described'[i] = described[i]
    /\ adaptors'[i] = adaptors[i] /\ description'[i] = description[i]

LEMMA SameTyped ==
    ASSUME NEW i, TypedAt(i), SameAt(i)
    PROVE  TypedAt(i)'
BY DEF TypedAt, SameAt, OnCatalyst, InputOf, StageOf, TaskOf

LEMMA StepTyped ==
    ASSUME Typed, NEW i \in Inporters, TypedGlobally', TypedAt(i)',
           \A j \in Inporters \ {i} : SameAt(j)
    PROVE  Typed'
<1>1. \A j \in Inporters \ {i} : TypedAt(j)'
  BY SameTyped DEF Typed
<1> QED
  BY <1>1 DEF Typed

(* The files the coordinator hands out. *)
LEMMA BatchesAreFiles ==
    ASSUME NEW batch \in Batches
    PROVE  batch \in Seq(Files)
<1>1. PICK S \in SUBSET Files : batch = Select(FilesInOrder, S)
  BY DEF Batches
<1>2. Select(FilesInOrder, S) \in Seq(Files \cap S)
  BY Bounds, SelectProperties
<1> QED
  BY <1>1, <1>2

LEMMA ConcatIsSequence ==
    ASSUME NEW T, NEW s \in Seq(T), NEW t \in Seq(T)
    PROVE  s \o t \in Seq(T)
OBVIOUS

LEMMA DeliverTyped ==
    ASSUME Typed, NEW batch \in Batches, Deliver(batch)
    PROVE  Typed'
<1>1. batch \in Seq(Files)
  BY BatchesAreFiles
<1>2. /\ \A i \in Inporters : pc[i] = "main"
      /\ Len(deliveries) < MaxDeliveries
      /\ deliveries' = Append(deliveries, batch)
      /\ availableFiles' = [i \in Inporters |-> availableFiles[i] \o batch]
      /\ pc' = [i \in Inporters |-> "create"]
      /\ UNCHANGED <<removed, leaving, workingFiles, timeStep, asked, tasks, described,
                     adaptors, description>>
  BY DEF Deliver, descriptor
<1>3. deliveries' \in Seq(Seq(Files)) /\ Len(deliveries') <= MaxDeliveries
  <2>1. deliveries \in Seq(Seq(Files))
    BY DEF Typed, TypedGlobally
  <2> DEFINE D == Seq(Files)
  <2> HIDE DEF D
  <2>2. deliveries \in Seq(D) /\ batch \in D
    BY <1>1, <2>1 DEF D
  <2>3. Append(deliveries, batch) \in Seq(D)
        /\ Len(Append(deliveries, batch)) = Len(deliveries) + 1
    BY <2>2
  <2> QED
    BY <1>2, <2>2, <2>3, Bounds DEF D
<1>4. TypedGlobally'
  BY <1>2, <1>3 DEF Typed, TypedGlobally
<1>5. ASSUME NEW i \in Inporters PROVE TypedAt(i)'
  <2>1. TypedAt(i) /\ pc[i] = "main" /\ pc'[i] = "create"
    BY <1>2 DEF Typed
  <2>2. availableFiles'[i] = availableFiles[i] \o batch
    BY <1>2
  <2>3. availableFiles'[i] \in Seq(Files)
    BY <1>1, <2>1, <2>2, ConcatIsSequence DEF TypedAt
  <2> QED
    BY <1>2, <2>1, <2>3 DEF TypedAt, OnCatalyst, InputOf, StageOf, TaskOf
<1> QED
  BY <1>4, <1>5 DEF Typed

LEMMA LastIsMember ==
    ASSUME NEW T, NEW s \in Seq(T), s # <<>>
    PROVE  Last(s) \in T
<1>1. Len(s) \in 1..Len(s)
  BY EmptySeq
<1> QED
  BY <1>1 DEF Last

LEMMA GiveAgainTyped ==
    ASSUME Typed, NEW i \in Inporters, GiveAgain(i)
    PROVE  Typed'
<1> DEFINE batch == Last(deliveries)
<1>1. /\ pc[i] = "main"
      /\ deliveries # <<>>
      /\ availableFiles' = [availableFiles EXCEPT ![i] = @ \o batch]
      /\ leaving' = leaving \cup {i}
      /\ pc' = [pc EXCEPT ![i] = "create"]
      /\ UNCHANGED <<removed, workingFiles, timeStep, asked, tasks, described,
                     adaptors, description, deliveries>>
  BY DEF GiveAgain, descriptor
<1>2. batch \in Seq(Files)
  <2>1. deliveries \in Seq(Seq(Files))
    BY DEF Typed, TypedGlobally
  <2> QED
    BY <1>1, <2>1, LastIsMember
<1> HIDE DEF batch
<1>3. TypedGlobally'
  BY <1>1 DEF Typed, TypedGlobally
<1>4. TypedAt(i)'
  <2>1. TypedAt(i) /\ pc'[i] = "create"
    BY <1>1 DEF Typed, TypedGlobally
  <2>2. availableFiles'[i] = availableFiles[i] \o batch
    BY <1>1 DEF Typed, TypedGlobally
  <2>3. availableFiles'[i] \in Seq(Files)
    BY <1>2, <2>1, <2>2, ConcatIsSequence DEF TypedAt
  <2> QED
    BY <1>1, <2>1, <2>3 DEF TypedAt, OnCatalyst, InputOf, StageOf, TaskOf
<1>5. \A j \in Inporters \ {i} : SameAt(j)
  BY <1>1 DEF Typed, TypedGlobally, SameAt
<1> QED
  BY <1>3, <1>4, <1>5, StepTyped

LEMMA CreateTaskTyped ==
    ASSUME Typed, NEW i \in Inporters, CreateTask(i)
    PROVE  Typed'
<1> DEFINE n == asked[i] + 1
           pipeline == PipelineSpecs[n]
           input == pipeline[1].input
           accepted == Accepted(input, availableFiles[i])
<1>1. /\ pc[i] = "create"
      /\ asked[i] < Len(PipelineSpecs)
      /\ asked' = [asked EXCEPT ![i] = @ + 1]
      /\ UNCHANGED <<removed, pc, leaving, timeStep, described, adaptors, description,
                     deliveries>>
  BY DEF CreateTask, descriptor
<1>2. \/ /\ Accepts(input, availableFiles[i])
         /\ availableFiles' = [availableFiles EXCEPT ![i] = Erase(@, accepted)]
         /\ workingFiles' = [workingFiles EXCEPT ![i] = @ \o accepted]
         /\ tasks' = [tasks EXCEPT ![i] = Append(@, NewTask(pipeline, accepted))]
      \/ UNCHANGED <<availableFiles, workingFiles, tasks>>
  BY DEF CreateTask
<1>3. n \in 1..Len(PipelineSpecs)
  BY <1>1, Bounds DEF Typed, TypedGlobally
<1>4. TypedAt(i)
  BY DEF Typed
<1> HIDE DEF n
<1>5. TypedGlobally'
  <2>1. asked' \in [Inporters -> 0..Len(PipelineSpecs)]
    BY <1>1, Bounds DEF Typed, TypedGlobally
  <2> HIDE DEF pipeline, accepted
  <2> QED
    BY <1>1, <1>2, <2>1 DEF Typed, TypedGlobally
<1>6. \A j \in Inporters \ {i} : SameAt(j)
  <2> HIDE DEF pipeline, accepted
  <2> QED
    BY <1>1, <1>2 DEF Typed, TypedGlobally, SameAt
<1>7. CASE /\ Accepts(input, availableFiles[i])
           /\ availableFiles' = [availableFiles EXCEPT ![i] = Erase(@, accepted)]
           /\ workingFiles' = [workingFiles EXCEPT ![i] = @ \o accepted]
           /\ tasks' = [tasks EXCEPT ![i] = Append(@, NewTask(pipeline, accepted))]
  <2>1. availableFiles[i] \in Seq(Files)
    BY <1>4 DEF TypedAt
  <2>2. /\ accepted \in Seq(Files)
        /\ \A f : Count(accepted, f) <= Count(availableFiles[i], f)
    BY <1>3, <1>7, <2>1, AcceptedProperties
  <2>3. pipeline \in Rests
    BY <1>3, FirstInput, PipelineIsRest
  <2> HIDE DEF pipeline, accepted
  <2>4. Erase(availableFiles[i], accepted) \in Seq(Files)
    BY <2>1, <2>2, EraseProperties DEF Within
  <2>5. NewTask(pipeline, accepted) \in Tasks
    BY <2>2, <2>3 DEF NewTask, Tasks
  <2>6. /\ availableFiles'[i] = Erase(availableFiles[i], accepted)
        /\ workingFiles'[i] = workingFiles[i] \o accepted
        /\ tasks'[i] = Append(tasks[i], NewTask(pipeline, accepted))
    BY <1>7 DEF Typed, TypedGlobally
  <2>7. workingFiles'[i] \in Seq(Files)
    BY <1>4, <2>2, <2>6, ConcatIsSequence DEF TypedAt
  <2>8. tasks'[i] \in Seq(Tasks)
    <3>1. tasks[i] \in Seq(Tasks)
      BY <1>4 DEF TypedAt
    <3> QED
      BY <2>5, <2>6, <3>1
  <2>9. availableFiles'[i] \in Seq(Files)
    BY <2>4, <2>6
  <2>10. TypedAt(i)'
    BY <1>1, <1>4, <2>7, <2>8, <2>9 DEF TypedAt
  <2> QED
    BY <1>5, <1>6, <2>10, StepTyped
<1>8. CASE UNCHANGED <<availableFiles, workingFiles, tasks>>
  <2>1. SameAt(i)
    BY <1>1, <1>8 DEF SameAt
  <2>2. TypedAt(i)'
    BY <1>4, <2>1, SameTyped
  <2> QED
    BY <1>5, <1>6, <2>2, StepTyped
<1> QED
  BY <1>2, <1>7, <1>8

LEMMA TasksCreatedTyped ==
    ASSUME Typed, NEW i \in Inporters, TasksCreated(i)
    PROVE  Typed'
<1>1. /\ pc[i] = "create"
      /\ timeStep[i] < MaxTimeStep
      /\ asked' = [asked EXCEPT ![i] = 0]
      /\ pc' = [pc EXCEPT ![i] = AfterCreation(i)]
      /\ UNCHANGED <<removed, leaving, availableFiles, workingFiles, timeStep, tasks,
                     described, adaptors, description, deliveries>>
  BY DEF TasksCreated, descriptor
<1>2. AfterCreation(i) \in {"tasks", "main", "ended"}
  BY DEF AfterCreation, Returned
<1>3. TypedGlobally'
  BY <1>1, <1>2, Bounds DEF Typed, TypedGlobally
<1>4. \A j \in Inporters \ {i} : SameAt(j)
  BY <1>1 DEF Typed, TypedGlobally, SameAt
<1>5. TypedAt(i)'
  <2>1. TypedAt(i) /\ pc'[i] = AfterCreation(i)
    BY <1>1 DEF Typed, TypedGlobally
  <2> QED
    BY <1>1, <1>2, <2>1 DEF TypedAt, OnCatalyst, InputOf, StageOf, TaskOf
<1> QED
  BY <1>3, <1>4, <1>5, StepTyped

LEMMA TaskProperties ==
    ASSUME NEW i, TypedAt(i), tasks[i] # <<>>
    PROVE  /\ TaskOf(i) \in Tasks
           /\ Tail(tasks[i]) \in Seq(Tasks)
           /\ ProcessAssumption(StageOf(i).process)
           /\ InputOf(i) \in Seq(Files)
           /\ Len(InputOf(i)) \in Nat
           /\ Len(InputOf(i)) <= Len(TaskOf(i).inputFiles)
<1>1. TaskOf(i) \in Tasks /\ Tail(tasks[i]) \in Seq(Tasks)
  BY HeadTailProperties DEF TypedAt, TaskOf
<1>2. TaskOf(i).stages \in Rests /\ TaskOf(i).inputFiles \in Seq(Files)
  BY <1>1 DEF Tasks
<1>3. ProcessAssumption(StageOf(i).process)
  BY <1>2, RestProperties DEF StageOf
<1> QED
  BY <1>1, <1>2, <1>3, StageInputProperties DEF InputOf

LEMMA MakeAdaptorsTyped ==
    ASSUME Typed, NEW i \in Inporters, MakeAdaptors(i)
    PROVE  Typed'
<1> DEFINE f == DescribedBy(i)
           made == IF f \in removed THEN <<>> ELSE AdaptorsFor(StageOf(i).process.scripts, f)
<1>1. /\ AtStage(i, "catalyst")
      /\ described[i] < Len(InputOf(i))
      /\ adaptors' = [adaptors EXCEPT ![i] = made]
      /\ description' = [description EXCEPT ![i] = NoData]
      /\ pc' = [pc EXCEPT ![i] = "read"]
      /\ UNCHANGED <<removed, leaving, availableFiles, workingFiles, timeStep, asked, tasks,
                     described, deliveries>>
  BY DEF MakeAdaptors
<1>2. TypedAt(i)
  BY DEF Typed
<1>3. OnCatalyst(i)
  BY <1>1 DEF AtStage, OnCatalyst
<1>4. /\ ProcessAssumption(StageOf(i).process)
      /\ InputOf(i) \in Seq(Files)
      /\ Len(InputOf(i)) \in Nat
  BY <1>2, <1>3, TaskProperties DEF OnCatalyst
<1>5. f \in Files
  BY <1>1, <1>2, <1>4 DEF TypedAt, DescribedBy
<1> HIDE DEF f
<1>6. made \in Seq(ToSet(made))
  <2>1. CASE f \in removed
    <3>1. <<>> \in Seq(ToSet(<<>>))
      OBVIOUS
    <3> QED
      BY <2>1, <3>1, Zenon
  <2>2. CASE f \notin removed
    <3>1. StageOf(i).process.type = "catalyst"
      BY <1>3 DEF OnCatalyst
    <3>2. AdaptorsFor(StageOf(i).process.scripts, f)
            \in Seq(ToSet(AdaptorsFor(StageOf(i).process.scripts, f)))
      BY <1>4, <1>5, <3>1, AdaptorsForProperties
    <3> QED
      BY <2>2, <3>2
  <2> QED
    BY <2>1, <2>2
<1> HIDE DEF made
<1>7. TypedGlobally'
  BY <1>1 DEF Typed, TypedGlobally
<1>8. \A j \in Inporters \ {i} : SameAt(j)
  BY <1>1 DEF Typed, TypedGlobally, SameAt
<1>9. TypedAt(i)'
  <2>1. /\ pc[i] = "tasks" /\ pc'[i] = "read"
        /\ adaptors'[i] = made /\ description'[i] = NoData
    BY <1>1 DEF Typed, TypedGlobally, AtStage
  <2>2. adaptors'[i] \in Seq(ToSet(adaptors'[i])) /\ DataMade(description'[i])
    BY <1>6, <2>1, NoDataMade
  <2>3. OnCatalyst(i)' /\ InputOf(i)' = InputOf(i)
    BY <1>1, <1>3 DEF OnCatalyst, InputOf, StageOf, TaskOf
  <2>4. described'[i] = described[i] /\ described'[i] < Len(InputOf(i)')
    BY <1>1, <2>3
  <2>5. described[i] \in Nat
    BY <1>2 DEF TypedAt
  <2>6. DataMade(description[i])'
    BY <2>2 DEF DataMade
  <2> QED
    BY <1>1, <1>2, <1>4, <2>1, <2>2, <2>3, <2>4, <2>5, <2>6 DEF TypedAt
<1> QED
  BY <1>7, <1>8, <1>9, StepTyped

LEMMA ReadFileTyped ==
    ASSUME Typed, NEW i \in Inporters, ReadFile(i)
    PROVE  Typed'
<1>1. /\ pc[i] = "read"
      /\ adaptors[i] # <<>>
      /\ UNCHANGED <<removed, pc, leaving, availableFiles, workingFiles, timeStep, asked,
                     tasks, described, deliveries>>
  BY DEF ReadFile
<1>2. /\ \E d \in {description[i],
                   Described(description[i], Head(adaptors[i]), DescribedBy(i), i,
                             DescribedBy(i) \in removed)} :
            description' = [description EXCEPT ![i] = d]
      /\ \/ adaptors' = [adaptors EXCEPT ![i] = <<>>]
         \/ adaptors' = [adaptors EXCEPT ![i] = Tail(@)]
  BY DEF ReadFile
<1>3. TypedAt(i)
  BY DEF Typed
<1>4. DataMade(description'[i])
  <2>1. DataMade(description[i])
    BY <1>3 DEF TypedAt
  <2>2. PICK d \in {description[i],
                    Described(description[i], Head(adaptors[i]), DescribedBy(i), i,
                              DescribedBy(i) \in removed)} :
            description' = [description EXCEPT ![i] = d]
    BY <1>2
  <2>3. DataMade(d)
    BY <2>1, DescribedMade
  <2>4. description'[i] = d
    BY <2>2 DEF Typed, TypedGlobally
  <2> QED
    BY <2>3, <2>4
<1>5. adaptors'[i] \in Seq(ToSet(adaptors'[i]))
  <2>1. adaptors'[i] \in {<<>>, Tail(adaptors[i])}
    BY <1>2 DEF Typed, TypedGlobally
  <2>2. <<>> \in Seq(ToSet(<<>>))
    OBVIOUS
  <2>3. adaptors[i] \in Seq(ToSet(adaptors[i]))
    BY <1>3 DEF TypedAt
  <2>4. Tail(adaptors[i]) \in Seq(ToSet(adaptors[i]))
    BY <1>1, <2>3, HeadTailProperties
  <2> DEFINE rest == Tail(adaptors[i])
  <2>5. rest \in Seq(ToSet(rest))
    BY <2>4, SequenceOfItsOwn
  <2> HIDE DEF rest
  <2>6. CASE adaptors'[i] = <<>>
    BY <2>2, <2>6, Zenon
  <2>7. CASE adaptors'[i] = rest
    BY <2>5, <2>7
  <2> QED
    BY <2>1, <2>6, <2>7 DEF rest
<1>6. TypedGlobally'
  <2>1. DOMAIN adaptors' = Inporters /\ DOMAIN description' = Inporters
    BY <1>2 DEF Typed, TypedGlobally
  <2> QED
    BY <1>1, <2>1 DEF Typed, TypedGlobally
<1>7. \A j \in Inporters \ {i} : SameAt(j)
  <2>1. \A j \in Inporters \ {i} :
            adaptors'[j] = adaptors[j] /\ description'[j] = description[j]
    BY <1>2 DEF Typed, TypedGlobally
  <2> QED
    BY <1>1, <2>1 DEF SameAt
<1>8. TypedAt(i)'
  <2>1. DataMade(description[i])'
    BY <1>4 DEF DataMade
  <2>2. (OnCatalyst(i)' <=> OnCatalyst(i)) /\ InputOf(i)' = InputOf(i)
    BY <1>1 DEF OnCatalyst, InputOf, StageOf, TaskOf
  <2> QED
    BY <1>1, <1>3, <1>5, <2>1, <2>2 DEF TypedAt
<1> QED
  BY <1>6, <1>7, <1>8, StepTyped

LEMMA ExecuteTyped ==
    ASSUME Typed, NEW i \in Inporters, Execute(i)
    PROVE  Typed'
<1>1. /\ pc[i] = "read"
      /\ adaptors[i] = <<>>
      /\ described' = [described EXCEPT ![i] = @ + 1]
      /\ description' = [description EXCEPT ![i] = NoData]
      /\ pc' = [pc EXCEPT ![i] = "tasks"]
      /\ UNCHANGED <<removed, leaving, availableFiles, workingFiles, timeStep, asked, tasks,
                     adaptors, deliveries>>
  BY DEF Execute, InExecute
<1>2. TypedAt(i)
  BY DEF Typed
<1>3. TypedGlobally'
  BY <1>1 DEF Typed, TypedGlobally
<1>4. \A j \in Inporters \ {i} : SameAt(j)
  BY <1>1 DEF Typed, TypedGlobally, SameAt
<1>5. TypedAt(i)'
  <2>1. /\ pc'[i] = "tasks" /\ described'[i] = described[i] + 1
        /\ description'[i] = NoData
    BY <1>1 DEF Typed, TypedGlobally
  <2>2. OnCatalyst(i) /\ described[i] < Len(InputOf(i)) /\ described[i] \in Nat
    BY <1>1, <1>2 DEF TypedAt
  <2>3. Len(InputOf(i)) \in Nat
    BY <1>2, <2>2, TaskProperties DEF OnCatalyst
  <2>4. OnCatalyst(i)' /\ InputOf(i)' = InputOf(i)
    BY <1>1, <2>2 DEF OnCatalyst, InputOf, StageOf, TaskOf
  <2>5. DataMade(description[i])'
    BY <2>1, NoDataMade DEF DataMade
  <2>6. adaptors'[i] \in Seq(ToSet(adaptors'[i]))
    BY <1>1, <1>2, Zenon DEF TypedAt
  <2>7. ~(adaptors'[i] # <<>>)
    BY <1>1
  <2>8. /\ availableFiles'[i] \in Seq(Files)
        /\ workingFiles'[i] \in Seq(Files)
        /\ tasks'[i] \in Seq(Tasks)
    BY <1>1, <1>2 DEF TypedAt
  <2>9. timeStep'[i] < MaxTimeStep
    BY <1>1, <1>2 DEF TypedAt
  <2>10. described'[i] \in Nat /\ described'[i] <= Len(InputOf(i))
    BY <2>1, <2>2, <2>3
  <2> QED
    BY <2>1, <2>4, <2>5, <2>6, <2>7, <2>8, <2>9, <2>10 DEF TypedAt
<1> QED
  BY <1>3, <1>4, <1>5, StepTyped

LEMMA ConsIsSequence ==
    ASSUME NEW T, NEW e \in T, NEW s \in Seq(T)
    PROVE  <<e>> \o s \in Seq(T)
<1>1. <<e>> \in Seq(T)
  OBVIOUS
<1> DEFINE h == <<e>>
<1> HIDE DEF h
<1>2. h \o s \in Seq(T)
  BY <1>1, ConcatIsSequence DEF h
<1> QED
  BY <1>2 DEF h

LEMMA ProcessNextTyped ==
    ASSUME Typed, NEW i \in Inporters, ProcessNext(i)
    PROVE  Typed'
<1>1. /\ pc[i] = "tasks"
      /\ tasks[i] # <<>>
      /\ \E ok : StageEnds(i, ok)
      /\ UNCHANGED <<removed, pc, leaving, availableFiles, workingFiles, timeStep, asked,
                     adaptors, description, deliveries>>
  BY DEF ProcessNext
<1>2. PICK ok : StageEnds(i, ok)
  BY <1>1
<1> DEFINE after == AfterStage(TaskOf(i), ok)
<1>3. /\ tasks' = [tasks EXCEPT ![i] =
                IF after.status = "ok" THEN <<after>> \o Tail(@) ELSE Tail(@)]
      /\ described' = [described EXCEPT ![i] = 0]
  BY <1>2 DEF StageEnds
<1>4. TypedAt(i)
  BY DEF Typed
<1>5. TaskOf(i) \in Tasks /\ Tail(tasks[i]) \in Seq(Tasks)
  BY <1>1, <1>4, TaskProperties
<1>6. after.status = "ok" => after \in Tasks
  BY <1>5, AfterStageIsTask
<1> HIDE DEF after
<1>7. TypedGlobally'
  BY <1>1, <1>3 DEF Typed, TypedGlobally
<1>8. \A j \in Inporters \ {i} : SameAt(j)
  BY <1>1, <1>3 DEF Typed, TypedGlobally, SameAt
<1>9. TypedAt(i)'
  <2>1. tasks'[i] = IF after.status = "ok" THEN <<after>> \o Tail(tasks[i])
                    ELSE Tail(tasks[i])
    BY <1>3 DEF Typed, TypedGlobally
  <2>2. tasks'[i] \in Seq(Tasks)
    BY <1>5, <1>6, <2>1, ConsIsSequence
  <2>3. described'[i] = 0
    BY <1>3 DEF Typed, TypedGlobally
  <2>4. DataMade(description[i])'
    BY <1>1, <1>4 DEF TypedAt, DataMade
  <2> QED
    BY <1>1, <1>4, <2>2, <2>3, <2>4 DEF TypedAt
<1> QED
  BY <1>7, <1>8, <1>9, StepTyped

LEMMA EndPassTyped ==
    ASSUME Typed, NEW i \in Inporters, EndPass(i)
    PROVE  Typed'
<1>1. /\ pc[i] = "tasks"
      /\ tasks[i] = <<>>
      /\ timeStep' = [timeStep EXCEPT ![i] = timeStep[i] + 1]
      /\ workingFiles' = [workingFiles EXCEPT ![i] = <<>>]
      /\ pc' = [pc EXCEPT ![i] = AfterPass(i)]
      /\ UNCHANGED <<removed, leaving, availableFiles, asked, tasks, described, adaptors,
                     description, deliveries>>
  BY DEF EndPass, NextTimeStep, descriptor
<1>2. AfterPass(i) \in {"create", "main", "ended"}
  BY DEF AfterPass, Returned
<1>3. TypedAt(i)
  BY DEF Typed
<1>4. TypedGlobally'
  <2>1. timeStep[i] \in 0..MaxTimeStep /\ timeStep[i] < MaxTimeStep
    BY <1>1, <1>3 DEF TypedAt, Typed, TypedGlobally
  <2>2. timeStep[i] + 1 \in 0..MaxTimeStep
    BY <2>1, Bounds
  <2> QED
    BY <1>1, <1>2, <2>2 DEF Typed, TypedGlobally
<1>5. \A j \in Inporters \ {i} : SameAt(j)
  BY <1>1 DEF Typed, TypedGlobally, SameAt
<1>6. TypedAt(i)'
  <2>1. workingFiles'[i] = <<>> /\ pc'[i] = AfterPass(i)
    BY <1>1 DEF Typed, TypedGlobally
  <2>2. <<>> \in Seq(Files)
    OBVIOUS
  <2>3. workingFiles'[i] \in Seq(Files)
    BY <2>1, <2>2, Zenon
  <2>4. described[i] = 0 /\ adaptors[i] = <<>>
    BY <1>1, <1>3 DEF TypedAt, OnCatalyst
  <2>5. described'[i] = 0 /\ ~(adaptors'[i] # <<>>)
    BY <1>1, <2>4
  <2>6. /\ availableFiles'[i] \in Seq(Files)
        /\ adaptors'[i] \in Seq(ToSet(adaptors'[i]))
        /\ DataMade(description[i])'
    BY <1>1, <1>3, Zenon DEF TypedAt, DataMade
  <2>7. tasks'[i] \in Seq(Tasks)
    BY <1>1, <1>3, Zenon DEF TypedAt
  <2> QED
    BY <1>2, <2>1, <2>3, <2>5, <2>6, <2>7 DEF TypedAt
<1> QED
  BY <1>4, <1>5, <1>6, StepTyped

LEMMA CrashTyped ==
    ASSUME Typed, NEW i \in Inporters, CrashReading(i) \/ Crash(i)
    PROVE  Typed'
<1>1. /\ pc' = [j \in Inporters |-> "crashed"]
      /\ UNCHANGED <<removed, leaving, availableFiles, workingFiles, timeStep, asked, tasks,
                     described, adaptors, description, deliveries>>
  BY DEF CrashReading, Crash, descriptor
<1>2. TypedGlobally'
  BY <1>1 DEF Typed, TypedGlobally
<1>3. ASSUME NEW j \in Inporters PROVE TypedAt(j)'
  <2>1. TypedAt(j) /\ pc'[j] = "crashed"
    BY <1>1 DEF Typed
  <2> QED
    BY <1>1, <2>1 DEF TypedAt, OnCatalyst, InputOf, StageOf, TaskOf, DataMade
<1> QED
  BY <1>2, <1>3 DEF Typed

LEMMA NextTyped ==
    ASSUME Typed, [Next]_vars
    PROVE  Typed'
<1>1. ASSUME NEW batch \in Batches, Deliver(batch) PROVE Typed'
  BY <1>1, DeliverTyped
<1>2. ASSUME NEW f \in Files, RemoveFile(f) PROVE Typed'
  <2>1. /\ removed' = removed \cup {f} /\ f \in Removable
        /\ UNCHANGED <<pc, leaving, availableFiles, workingFiles, timeStep, asked, tasks,
                       described, adaptors, description, deliveries>>
    BY <1>2 DEF RemoveFile, descriptor
  <2>2. TypedGlobally'
    BY <2>1 DEF Typed, TypedGlobally
  <2>3. \A i \in Inporters : SameAt(i)
    BY <2>1 DEF SameAt
  <2> QED
    BY <2>2, <2>3, SameTyped DEF Typed
<1>3. CASE UNCHANGED vars
  <2>1. UNCHANGED <<removed, pc, leaving, availableFiles, workingFiles, timeStep, asked,
                    tasks, described, adaptors, description, deliveries>>
    BY <1>3 DEF vars, descriptor
  <2>2. TypedGlobally'
    BY <2>1 DEF Typed, TypedGlobally
  <2>3. \A i \in Inporters : SameAt(i)
    BY <2>1 DEF SameAt
  <2> QED
    BY <2>2, <2>3, SameTyped DEF Typed
<1>4. ASSUME NEW i \in Inporters, GiveAgain(i) PROVE Typed'
  BY <1>4, GiveAgainTyped
<1>5. ASSUME NEW i \in Inporters, Process(i) PROVE Typed'
  BY <1>5, CreateTaskTyped, TasksCreatedTyped, MakeAdaptorsTyped, ReadFileTyped,
     ExecuteTyped, ProcessNextTyped, EndPassTyped, CrashTyped
  DEF Process
<1> QED
  BY <1>1, <1>2, <1>3, <1>4, <1>5 DEF Next

LEMMA AlwaysTyped == Spec => []Typed
<1>1. Typed /\ [Next]_vars => Typed'
  BY NextTyped
<1> QED
  BY InitTyped, <1>1, PTL DEF Spec

LEMMA TypedIsTypeOK == Typed => TypeOK
<1> SUFFICES ASSUME Typed PROVE TypeOK
  OBVIOUS
<1>1. /\ removed \subseteq Removable
      /\ pc \in [Inporters -> {"main", "create", "tasks", "read", "ended", "crashed"}]
      /\ leaving \in SUBSET Inporters
      /\ timeStep \in [Inporters -> 0..MaxTimeStep]
      /\ asked \in [Inporters -> 0..Len(PipelineSpecs)]
      /\ Len(deliveries) <= MaxDeliveries
  BY DEF Typed, TypedGlobally
<1>2. ASSUME NEW i \in Inporters
      PROVE  /\ ToSet(availableFiles[i]) \subseteq Files
             /\ ToSet(workingFiles[i]) \subseteq Files
  BY SequenceOfItsOwn DEF Typed, TypedAt
<1>3. ASSUME NEW i \in Inporters, NEW task \in ToSet(tasks[i])
      PROVE  /\ \E pipeline \in ToSet(PipelineSpecs) : IsSuffix(task.stages, pipeline)
             /\ task.stages # <<>>
             /\ ToSet(task.inputFiles) \subseteq Files
             /\ task.status = "ok"
  <2>1. task \in Tasks
    BY SequenceOfItsOwn DEF Typed, TypedAt
  <2>2. /\ task.stages \in Rests /\ task.inputFiles \in Seq(Files)
        /\ task.status = "ok"
    BY <2>1 DEF Tasks
  <2> QED
    BY <2>2, RestProperties, SequenceOfItsOwn
<1>4. ASSUME NEW i \in Inporters
      PROVE  /\ description[i].kept \in Nat
             /\ \A field \in Range(description[i].fields) :
                    field.data \in 1..description[i].kept
             /\ adaptors[i] # <<>> => pc[i] \in {"read", "crashed"}
  BY DEF Typed, TypedAt, DataMade, Range
<1>5. ASSUME NEW i \in Inporters, described[i] > 0
      PROVE  tasks[i] # <<>> /\ described[i] \in 1..Len(TaskOf(i).inputFiles)
  <2>1. /\ TypedAt(i) /\ OnCatalyst(i) /\ described[i] \in Nat
        /\ described[i] <= Len(InputOf(i))
    BY <1>5 DEF Typed, TypedAt
  <2>2. tasks[i] # <<>>
    BY <2>1 DEF OnCatalyst
  <2>3. /\ Len(InputOf(i)) \in Nat
        /\ Len(InputOf(i)) <= Len(TaskOf(i).inputFiles)
        /\ TaskOf(i) \in Tasks
    BY <2>1, <2>2, TaskProperties
  <2>4. Len(TaskOf(i).inputFiles) \in Nat
    BY <2>3 DEF Tasks
  <2> QED
    BY <1>5, <2>1, <2>2, <2>3, <2>4
<1> QED
  BY <1>1, <1>2, <1>3, <1>4, <1>5 DEF TypeOK

(* The variables keep their types: a task holds files, and the stages that *)
(* are left of a configured pipeline, a described field refers to a data   *)
(* object that was made, and adaptors and executed files only remain       *)
(* within a Catalyst stage.                                                *)
THEOREM TypeCorrect == Spec => []TypeOK
BY AlwaysTyped, TypedIsTypeOK, PTL

-----------------------------------------------------------------------------
(* The files are accounted for. *)

Accounted ==
    /\ given \in [Inporters -> [Files -> Nat]]
    /\ taken \in [Inporters -> [Files -> Nat]]
    /\ FilesAccountedFor

LEMMA HasNowIsNumber ==
    ASSUME Typed, NEW i \in Inporters, NEW f
    PROVE  /\ Count(availableFiles[i], f) \in Nat
           /\ Count(workingFiles[i], f) \in Nat
BY CountType DEF Typed, TypedAt

LEMMA InitAccounted == Init => Accounted
<1> SUFFICES ASSUME Init PROVE Accounted
  OBVIOUS
<1>1. /\ given = [i \in Inporters |-> [f \in Files |-> 0]]
      /\ taken = [i \in Inporters |-> [f \in Files |-> 0]]
      /\ \A i \in Inporters : availableFiles[i] = <<>> /\ workingFiles[i] = <<>>
  BY DEF Init
<1>2. \A f : Count(<<>>, f) = 0
  BY CountOfEmpty
<1>3. FilesAccountedFor
  BY <1>1, <1>2 DEF FilesAccountedFor
<1> QED
  BY <1>1, <1>3 DEF Accounted

LEMMA DeliverAccounted ==
    ASSUME Typed, Accounted, NEW batch \in Batches, Deliver(batch)
    PROVE  Accounted'
<1>0. \A j \in Inporters, f \in Files :
        Count(availableFiles[j], f) \in Nat /\ Count(workingFiles[j], f) \in Nat
  BY HasNowIsNumber, Zenon
<1>1. /\ availableFiles' = [i \in Inporters |-> availableFiles[i] \o batch]
      /\ given' = [i \in Inporters |-> [f \in Files |-> given[i][f] + Count(batch, f)]]
      /\ UNCHANGED <<workingFiles, taken>>
  BY DEF Deliver
<1>2. batch \in Seq(Files)
  BY BatchesAreFiles
<1>3. \A f : Count(batch, f) \in Nat
  BY <1>2, CountType
<1>4. given' \in [Inporters -> [Files -> Nat]]
  BY <1>1, <1>3 DEF Accounted
<1>5. ASSUME NEW i \in Inporters, NEW f \in Files
      PROVE  given'[i][f] = Count(availableFiles'[i], f) + Count(workingFiles'[i], f)
                                + taken'[i][f]
  <2>1. Count(availableFiles'[i], f) = Count(availableFiles[i], f) + Count(batch, f)
    <3>1. availableFiles[i] \in Seq(Files) /\ availableFiles'[i] = availableFiles[i] \o batch
      BY <1>1 DEF Typed, TypedAt
    <3> QED
      BY <1>2, <3>1, CountOfConcat
  <2>2. given'[i][f] = given[i][f] + Count(batch, f)
    BY <1>1
  <2>3. given[i][f] = Count(availableFiles[i], f) + Count(workingFiles[i], f) + taken[i][f]
    BY DEF Accounted, FilesAccountedFor
  <2>4. taken[i][f] \in Nat
    BY DEF Accounted
  <2> QED
    BY <1>1, <1>3, <2>1, <2>2, <2>3, <2>4, <1>0
<1>6. FilesAccountedFor'
  BY <1>5 DEF FilesAccountedFor, Count
<1> QED
  BY <1>1, <1>4, <1>6 DEF Accounted

LEMMA GiveAgainAccounted ==
    ASSUME Typed, Accounted, NEW i \in Inporters, GiveAgain(i)
    PROVE  Accounted'
<1>0. \A j \in Inporters, f \in Files :
        Count(availableFiles[j], f) \in Nat /\ Count(workingFiles[j], f) \in Nat
  BY HasNowIsNumber, Zenon
<1> DEFINE batch == Last(deliveries)
<1>1. /\ availableFiles' = [availableFiles EXCEPT ![i] = @ \o batch]
      /\ given' = [given EXCEPT ![i] = [f \in Files |-> @[f] + Count(batch, f)]]
      /\ UNCHANGED <<workingFiles, taken>>
  BY DEF GiveAgain
<1>2. batch \in Seq(Files)
  <2>1. deliveries \in Seq(Seq(Files)) /\ deliveries # <<>>
    BY DEF Typed, TypedGlobally, GiveAgain
  <2> QED
    BY <2>1, LastIsMember
<1> HIDE DEF batch
<1>3. \A f : Count(batch, f) \in Nat
  BY <1>2, CountType
<1>4. given' \in [Inporters -> [Files -> Nat]]
  BY <1>1, <1>3 DEF Accounted
<1>5. ASSUME NEW j \in Inporters, NEW f \in Files
      PROVE  given'[j][f] = Count(availableFiles'[j], f) + Count(workingFiles'[j], f)
                                + taken'[j][f]
  <2>1. given[j][f] = Count(availableFiles[j], f) + Count(workingFiles[j], f) + taken[j][f]
    BY DEF Accounted, FilesAccountedFor
  <2>2. taken[j][f] \in Nat
    BY DEF Accounted
  <2>3. CASE j = i
    <3>1. Count(availableFiles'[i], f) = Count(availableFiles[i], f) + Count(batch, f)
      <4>1. availableFiles[i] \in Seq(Files)
            /\ availableFiles'[i] = availableFiles[i] \o batch
        BY <1>1 DEF Typed, TypedGlobally, TypedAt
      <4> QED
        BY <1>2, <4>1, CountOfConcat
    <3>2. given'[i][f] = given[i][f] + Count(batch, f)
      BY <1>1 DEF Accounted
    <3> QED
      BY <1>1, <1>3, <2>1, <2>2, <2>3, <3>1, <3>2, <1>0
  <2>4. CASE j # i
    <3>1. availableFiles'[j] = availableFiles[j] /\ given'[j] = given[j]
      BY <1>1, <2>4 DEF Typed, TypedGlobally, Accounted
    <3> QED
      BY <1>1, <2>1, <3>1
  <2> QED
    BY <2>3, <2>4
<1>6. FilesAccountedFor'
  BY <1>5 DEF FilesAccountedFor, Count
<1> QED
  BY <1>1, <1>4, <1>6 DEF Accounted

(* What a task takes is no longer available. *)
LEMMA CreateTaskAccounted ==
    ASSUME Typed, Accounted, NEW i \in Inporters, CreateTask(i)
    PROVE  Accounted'
<1>0. \A j \in Inporters, f \in Files :
        Count(availableFiles[j], f) \in Nat /\ Count(workingFiles[j], f) \in Nat
  BY HasNowIsNumber, Zenon
<1> DEFINE n == asked[i] + 1
           input == PipelineSpecs[n][1].input
           accepted == Accepted(input, availableFiles[i])
<1>1. given' = given /\ taken' = taken /\ asked[i] < Len(PipelineSpecs)
  BY DEF CreateTask, history
<1>2. \/ /\ Accepts(input, availableFiles[i])
         /\ availableFiles' = [availableFiles EXCEPT ![i] = Erase(@, accepted)]
         /\ workingFiles' = [workingFiles EXCEPT ![i] = @ \o accepted]
      \/ UNCHANGED <<availableFiles, workingFiles>>
  BY DEF CreateTask
<1>3. n \in 1..Len(PipelineSpecs)
  BY <1>1, Bounds DEF Typed, TypedGlobally
<1> HIDE DEF n
<1>4. CASE /\ Accepts(input, availableFiles[i])
           /\ availableFiles' = [availableFiles EXCEPT ![i] = Erase(@, accepted)]
           /\ workingFiles' = [workingFiles EXCEPT ![i] = @ \o accepted]
  <2>1. availableFiles[i] \in Seq(Files) /\ workingFiles[i] \in Seq(Files)
    BY DEF Typed, TypedAt
  <2>2. /\ accepted \in Seq(Files)
        /\ \A f : Count(accepted, f) <= Count(availableFiles[i], f)
    BY <1>3, <1>4, <2>1, AcceptedProperties
  <2> HIDE DEF accepted
  <2>3. /\ availableFiles'[i] = Erase(availableFiles[i], accepted)
        /\ workingFiles'[i] = workingFiles[i] \o accepted
        /\ \A j \in Inporters \ {i} :
                availableFiles'[j] = availableFiles[j] /\ workingFiles'[j] = workingFiles[j]
    BY <1>4 DEF Typed, TypedGlobally
  <2>4. \A f : Count(availableFiles'[i], f)
                    = Count(availableFiles[i], f) - Count(accepted, f)
    <3>1. Left(availableFiles[i], accepted)
      BY <2>1, <2>2, EraseProperties DEF Within
    <3> QED
      BY <2>3, <3>1 DEF Left
  <2>5. \A f : Count(workingFiles'[i], f) = Count(workingFiles[i], f) + Count(accepted, f)
    BY <2>1, <2>2, <2>3, CountOfConcat
  <2>6. \A f : Count(accepted, f) \in Nat
    BY <2>2, CountType
  <2>7. ASSUME NEW j \in Inporters, NEW f \in Files
        PROVE  given'[j][f] = Count(availableFiles'[j], f) + Count(workingFiles'[j], f)
                                + taken'[j][f]
    <3>1. given[j][f] = Count(availableFiles[j], f) + Count(workingFiles[j], f)
                            + taken[j][f]
      BY DEF Accounted, FilesAccountedFor
    <3>2. taken[j][f] \in Nat
      BY DEF Accounted
    <3>3. CASE j = i
      BY <1>1, <2>4, <2>5, <2>6, <3>1, <3>2, <3>3, <1>0
    <3>4. CASE j # i
      BY <1>1, <2>3, <3>1, <3>4
    <3> QED
      BY <3>3, <3>4
  <2>8. FilesAccountedFor'
    BY <2>7 DEF FilesAccountedFor, Count
  <2> QED
    BY <1>1, <2>8 DEF Accounted
<1>5. CASE UNCHANGED <<availableFiles, workingFiles>>
  BY <1>1, <1>5 DEF Accounted, FilesAccountedFor, Count
<1> QED
  BY <1>2, <1>4, <1>5

LEMMA EndPassAccounted ==
    ASSUME Typed, Accounted, NEW i \in Inporters, EndPass(i)
    PROVE  Accounted'
<1>0. \A j \in Inporters, f \in Files :
        Count(availableFiles[j], f) \in Nat /\ Count(workingFiles[j], f) \in Nat
  BY HasNowIsNumber, Zenon
<1>1. /\ taken' = [taken EXCEPT ![i] = [f \in Files |-> @[f] + Count(workingFiles[i], f)]]
      /\ workingFiles' = [workingFiles EXCEPT ![i] = <<>>]
      /\ UNCHANGED <<availableFiles, given>>
  BY DEF EndPass
<1>2. taken' \in [Inporters -> [Files -> Nat]]
  BY <1>1, <1>0 DEF Accounted
<1>3. ASSUME NEW j \in Inporters, NEW f \in Files
      PROVE  given'[j][f] = Count(availableFiles'[j], f) + Count(workingFiles'[j], f)
                                + taken'[j][f]
  <2>1. given[j][f] = Count(availableFiles[j], f) + Count(workingFiles[j], f) + taken[j][f]
    BY DEF Accounted, FilesAccountedFor
  <2>2. taken[j][f] \in Nat
    BY DEF Accounted
  <2>3. CASE j = i
    <3>1. workingFiles'[i] = <<>>
      BY <1>1 DEF Typed, TypedGlobally
    <3>2. Count(workingFiles'[i], f) = 0
      BY <3>1, CountOfEmpty, Zenon
    <3>3. taken'[i][f] = taken[i][f] + Count(workingFiles[i], f)
      BY <1>1 DEF Accounted
    <3> QED
      BY <1>1, <2>1, <2>2, <2>3, <3>2, <3>3, <1>0
  <2>4. CASE j # i
    <3>1. workingFiles'[j] = workingFiles[j] /\ taken'[j] = taken[j]
      BY <1>1, <2>4 DEF Typed, TypedGlobally, Accounted
    <3> QED
      BY <1>1, <2>1, <3>1
  <2> QED
    BY <2>3, <2>4
<1>4. FilesAccountedFor'
  BY <1>3 DEF FilesAccountedFor, Count
<1> QED
  BY <1>1, <1>2, <1>4 DEF Accounted

LEMMA NextAccounted ==
    ASSUME Typed, Accounted, [Next]_vars
    PROVE  Accounted'
<1>1. ASSUME NEW batch \in Batches, Deliver(batch) PROVE Accounted'
  BY <1>1, DeliverAccounted
<1>2. ASSUME NEW i \in Inporters, GiveAgain(i) PROVE Accounted'
  BY <1>2, GiveAgainAccounted
<1>3. ASSUME NEW i \in Inporters, CreateTask(i) \/ EndPass(i) PROVE Accounted'
  BY <1>3, CreateTaskAccounted, EndPassAccounted
<1>4. CASE UNCHANGED <<availableFiles, workingFiles, given, taken>>
  BY <1>4 DEF Accounted, FilesAccountedFor, Count
<1>5. ASSUME NEW i \in Inporters, Process(i), ~CreateTask(i), ~EndPass(i)
      PROVE  UNCHANGED <<availableFiles, workingFiles, given, taken>>
  BY <1>5 DEF Process, TasksCreated, MakeAdaptors, ReadFile, CrashReading, Execute, InExecute,
              ProcessNext, Crash, history
<1>6. ASSUME NEW f \in Files, RemoveFile(f)
      PROVE  UNCHANGED <<availableFiles, workingFiles, given, taken>>
  BY <1>6 DEF RemoveFile, history
<1>7. UNCHANGED vars => UNCHANGED <<availableFiles, workingFiles, given, taken>>
  BY DEF vars, history
<1> QED
  BY <1>1, <1>2, <1>3, <1>4, <1>5, <1>6, <1>7 DEF Next

(* As often as an inporter was given a file, it is available to a pipeline *)
(* or was taken by a task: createTasks takes what a pipeline accepts out   *)
(* of the available files, each as often as it was accepted.               *)
THEOREM NoFileLost == Spec => []FilesAccountedFor
<1>1. Accounted /\ Typed /\ [Next]_vars => Accounted'
  BY NextAccounted
<1>2. Accounted => FilesAccountedFor
  BY DEF Accounted
<1> QED
  BY InitAccounted, AlwaysTyped, <1>1, <1>2, PTL DEF Spec

-----------------------------------------------------------------------------
(* The inporters in step.  Between two updates of the coordinator every    *)
(* inporter goes through the same states of a machine without choices,     *)
(* each at its own pace.  It leaves out what can differ between inporters: *)
(* tasks without input files, as they are after commands whether or not    *)
(* these succeeded, and what is read of the files.                         *)
(* A state is [at, leaving, available, asked, tasks, described, timeStep,  *)
(* executed], with executed the sequence of the catalyst_execute calls,    *)
(* each [file, timeStep, fields].                                          *)

(* The fields a Catalyst stage describes of a file that is there. *)
FieldsOf(scripts, f) == UNION {a.arrays : a \in ToSet(AdaptorsFor(scripts, f))}

LiveTasks == {task \in Tasks : task.inputFiles # <<>>}

Live(s) == Select(s, LiveTasks)

Back(a) == IF a.leaving THEN "ended" ELSE "main"

AfterMain(a, batch) ==
    [at |-> "create", leaving |-> TRUE, available |-> a.available \o batch,
     asked |-> a.asked, tasks |-> a.tasks, described |-> a.described,
     timeStep |-> a.timeStep, executed |-> a.executed]

AfterAsking(a) ==
    LET pipeline == PipelineSpecs[a.asked + 1]
        accepts == Accepts(pipeline[1].input, a.available)
        accepted == Accepted(pipeline[1].input, a.available)
    IN  [at |-> "create", leaving |-> a.leaving,
         available |-> IF accepts THEN Erase(a.available, accepted) ELSE a.available,
         asked |-> a.asked + 1,
         tasks |-> IF accepts THEN Append(a.tasks, NewTask(pipeline, accepted)) ELSE a.tasks,
         described |-> a.described, timeStep |-> a.timeStep, executed |-> a.executed]

AfterAskingAll(a) ==
    [at |-> IF a.tasks # <<>> THEN "tasks" ELSE Back(a), leaving |-> a.leaving,
     available |-> a.available, asked |-> 0, tasks |-> Live(a.tasks),
     described |-> a.described, timeStep |-> a.timeStep, executed |-> a.executed]

InputOfTask(task) == StageInput(Head(task.stages), task.inputFiles)

Executes(a) ==
    LET task == Head(a.tasks)
    IN  /\ Head(task.stages).process.type = "catalyst"
        /\ ~FailedInput(Head(task.stages), task.inputFiles)
        /\ a.described < Len(InputOfTask(task))

AfterExecution(a) ==
    LET task == Head(a.tasks)
        f == InputOfTask(task)[a.described + 1]
        call == [file |-> f, timeStep |-> a.timeStep,
                 fields |-> FieldsOf(Head(task.stages).process.scripts, f)]
    IN  [at |-> "tasks", leaving |-> a.leaving, available |-> a.available,
         asked |-> a.asked, tasks |-> a.tasks, described |-> a.described + 1,
         timeStep |-> a.timeStep, executed |-> Append(a.executed, call)]

(* The first task goes on if it has something left to do it with. *)
AfterTask(a) ==
    LET after == AfterStage(Head(a.tasks), TRUE)
    IN  [at |-> "tasks", leaving |-> a.leaving, available |-> a.available,
         asked |-> a.asked,
         tasks |-> IF after \in LiveTasks THEN <<after>> \o Tail(a.tasks) ELSE Tail(a.tasks),
         described |-> 0, timeStep |-> a.timeStep, executed |-> a.executed]

AfterAllTasks(a) ==
    [at |-> IF a.available # <<>> THEN "create" ELSE Back(a), leaving |-> a.leaving,
     available |-> a.available, asked |-> a.asked, tasks |-> a.tasks,
     described |-> a.described, timeStep |-> a.timeStep + 1, executed |-> a.executed]

After(a, batch) ==
    IF a.at = "main" THEN AfterMain(a, batch)
    ELSE IF a.at = "create"
    THEN IF a.asked < Len(PipelineSpecs) THEN AfterAsking(a) ELSE AfterAskingAll(a)
    ELSE IF a.at = "tasks"
    THEN IF a.tasks = <<>> THEN AfterAllTasks(a)
         ELSE IF Executes(a) THEN AfterExecution(a) ELSE AfterTask(a)
    ELSE a

(* b comes some steps after a. *)
Chain(c, m, a, b, batch) ==
    c[0] = a /\ c[m] = b /\ \A k \in 0..(m - 1) : c[k + 1] = After(c[k], batch)

Reaches(a, b, batch) == \E m \in Nat : \E c : Chain(c, m, a, b, batch)

LEMMA ReachesSelf ==
    ASSUME NEW a, NEW batch
    PROVE  Reaches(a, a, batch)
<1> DEFINE c == [k \in 0..0 |-> a]
<1>1. c[0] = a /\ \A k \in 0..(0 - 1) : c[k + 1] = After(c[k], batch)
  OBVIOUS
<1> HIDE DEF c
<1>2. Chain(c, 0, a, a, batch)
  BY <1>1 DEF Chain
<1> QED
  BY <1>2 DEF Reaches

LEMMA ReachesFurther ==
    ASSUME NEW a, NEW b, NEW batch, Reaches(a, b, batch)
    PROVE  Reaches(a, After(b, batch), batch)
<1>0. PICK m \in Nat : \E c : Chain(c, m, a, b, batch)
  BY DEF Reaches
<1>1. PICK c : Chain(c, m, a, b, batch)
  BY <1>0
<1> DEFINE next == After(b, batch)
           d == [k \in 0..(m + 1) |-> IF k = m + 1 THEN next ELSE c[k]]
<1> HIDE DEF next
<1>2. d[0] = a /\ d[m + 1] = next
  BY <1>1 DEF Chain
<1>3. ASSUME NEW k \in 0..((m + 1) - 1) PROVE d[k + 1] = After(d[k], batch)
  <2>1. d[k] = c[k]
    OBVIOUS
  <2>2. CASE k = m
    BY <1>1, <2>1, <2>2 DEF Chain, next
  <2>3. CASE k # m
    <3>1. k \in 0..(m - 1) /\ d[k + 1] = c[k + 1]
      BY <2>3
    <3> QED
      BY <1>1, <2>1, <3>1 DEF Chain
  <2> QED
    BY <2>2, <2>3
<1> HIDE DEF d
<1>4. Chain(d, m + 1, a, next, batch)
  BY <1>2, <1>3 DEF Chain
<1> QED
  BY <1>4 DEF Reaches, next

LEMMA ReachesFromNext ==
    ASSUME NEW a, NEW b, NEW batch, Reaches(a, b, batch), a # b
    PROVE  Reaches(After(a, batch), b, batch)
<1>0. PICK m \in Nat : \E c : Chain(c, m, a, b, batch)
  BY DEF Reaches
<1>1. PICK c : Chain(c, m, a, b, batch)
  BY <1>0
<1>2. m # 0 /\ m - 1 \in Nat
  BY <1>1 DEF Chain
<1> DEFINE next == After(a, batch)
           d == [k \in 0..(m - 1) |-> c[k + 1]]
<1>3. d[0] = next
  <2>1. 0 \in 0..(m - 1)
    BY <1>2
  <2>2. c[0 + 1] = After(c[0], batch) /\ c[0] = a
    BY <1>1, <2>1 DEF Chain
  <2> HIDE DEF next
  <2>3. d[0] = c[0 + 1]
    BY <2>1
  <2> QED
    BY <2>2, <2>3 DEF next
<1> HIDE DEF next
<1>4. d[m - 1] = b
  <2>1. m - 1 \in 0..(m - 1) /\ (m - 1) + 1 = m
    BY <1>2
  <2> QED
    BY <1>1, <2>1 DEF Chain
<1>5. ASSUME NEW k \in 0..((m - 1) - 1) PROVE d[k + 1] = After(d[k], batch)
  <2>1. k + 1 \in 0..(m - 1) /\ k \in 0..(m - 1)
    BY <1>2
  <2>2. d[k + 1] = c[(k + 1) + 1] /\ d[k] = c[k + 1]
    BY <2>1
  <2>3. c[(k + 1) + 1] = After(c[k + 1], batch)
    BY <1>1, <2>1 DEF Chain
  <2> HIDE DEF d
  <2> QED
    BY <2>2, <2>3
<1> HIDE DEF d
<1>6. Chain(d, m - 1, next, b, batch)
  BY <1>3, <1>4, <1>5 DEF Chain
<1> QED
  BY <1>2, <1>6 DEF Reaches, next

-----------------------------------------------------------------------------
(* What the steps of the machine keep. *)

IsSequence(s) == s \in Seq(ToSet(s))

Starts(s, t) == DOMAIN s \subseteq DOMAIN t /\ \A n \in DOMAIN s : t[n] = s[n]

(* An inporter that leaves is not back in main, and comes there no more. *)
Gone(a) == a.leaving = TRUE /\ a.at # "main"

LEMMA AfterExecuted ==
    ASSUME NEW a, NEW batch, IsSequence(a.executed)
    PROVE  /\ IsSequence(After(a, batch).executed)
           /\ Starts(a.executed, After(a, batch).executed)
<1>1. Starts(a.executed, a.executed)
  BY DEF Starts
<1>2. \A e : /\ IsSequence(Append(a.executed, e))
             /\ Starts(a.executed, Append(a.executed, e))
  BY AppendIsSequence DEF IsSequence, Starts
<1>3. /\ AfterMain(a, batch).executed = a.executed
      /\ AfterAsking(a).executed = a.executed
      /\ AfterAskingAll(a).executed = a.executed
      /\ AfterTask(a).executed = a.executed
      /\ AfterAllTasks(a).executed = a.executed
  BY DEF AfterMain, AfterAsking, AfterAskingAll, AfterTask, AfterAllTasks
<1>4. \E e : AfterExecution(a).executed = Append(a.executed, e)
  BY DEF AfterExecution
<1>5. \/ After(a, batch).executed = a.executed
      \/ \E e : After(a, batch).executed = Append(a.executed, e)
  BY <1>3, <1>4 DEF After
<1> QED
  BY <1>1, <1>2, <1>5

LEMMA AfterGone ==
    ASSUME NEW a, NEW batch, Gone(a) \/ a.at = "main"
    PROVE  Gone(After(a, batch))
<1>1. AfterMain(a, batch).leaving = TRUE /\ AfterMain(a, batch).at = "create"
  BY DEF AfterMain
<1>2. ASSUME Gone(a)
      PROVE  /\ Gone(AfterAsking(a)) /\ Gone(AfterAskingAll(a)) /\ Gone(AfterExecution(a))
             /\ Gone(AfterTask(a)) /\ Gone(AfterAllTasks(a))
  BY <1>2 DEF Gone, AfterAsking, AfterAskingAll, AfterExecution, AfterTask, AfterAllTasks, Back
<1> QED
  BY <1>1, <1>2 DEF After, Gone

LEMMA ReachedExecuted ==
    ASSUME NEW a, NEW b, NEW batch, IsSequence(a.executed), Reaches(a, b, batch)
    PROVE  Starts(a.executed, b.executed)
<1>0. PICK m \in Nat : \E c : Chain(c, m, a, b, batch)
  BY DEF Reaches
<1>1. PICK c : Chain(c, m, a, b, batch)
  BY <1>0
<1> DEFINE Kept(k) == IsSequence(c[k].executed) /\ Starts(a.executed, c[k].executed)
           P == {k \in Nat : k <= m => Kept(k)}
<1>2. 0 \in P
  BY <1>1 DEF Chain, Starts
<1>3. ASSUME NEW k \in Nat, k \in P PROVE k + 1 \in P
  <2> SUFFICES ASSUME k + 1 <= m PROVE Kept(k + 1)
    OBVIOUS
  <2>1. Kept(k)
    BY <1>3
  <2>2. k \in 0..(m - 1)
    OBVIOUS
  <2>3. c[k + 1] = After(c[k], batch)
    BY <1>1, <2>2 DEF Chain
  <2>4. /\ IsSequence(c[k + 1].executed)
        /\ Starts(c[k].executed, c[k + 1].executed)
    BY <2>1, <2>3, AfterExecuted
  <2>5. Starts(a.executed, c[k + 1].executed)
    BY <2>1, <2>4 DEF Starts
  <2> QED
    BY <2>4, <2>5
<1> HIDE DEF P
<1>4. m \in P
  BY <1>2, <1>3, InductionOnNumbers
<1>5. Kept(m)
  BY <1>4 DEF P
<1> QED
  BY <1>1, <1>5 DEF Chain

LEMMA ReachedGone ==
    ASSUME NEW a, NEW b, NEW batch, a.at = "main", Reaches(a, b, batch), a # b
    PROVE  Gone(b)
<1>0. PICK m \in Nat : \E c : Chain(c, m, a, b, batch)
  BY DEF Reaches
<1>1. PICK c : Chain(c, m, a, b, batch)
  BY <1>0
<1> DEFINE P == {k \in Nat : k + 1 <= m => Gone(c[k + 1])}
<1>2. 0 \in P
  <2> SUFFICES ASSUME 0 + 1 <= m PROVE Gone(c[0 + 1])
    OBVIOUS
  <2>1. 0 \in 0..(m - 1)
    OBVIOUS
  <2>2. c[0 + 1] = After(a, batch)
    BY <1>1, <2>1 DEF Chain
  <2> QED
    BY <2>2, AfterGone
<1>3. ASSUME NEW k \in Nat, k \in P PROVE k + 1 \in P
  <2> SUFFICES ASSUME (k + 1) + 1 <= m PROVE Gone(c[(k + 1) + 1])
    OBVIOUS
  <2>1. Gone(c[k + 1])
    BY <1>3
  <2>2. k + 1 \in 0..(m - 1)
    OBVIOUS
  <2>3. c[(k + 1) + 1] = After(c[k + 1], batch)
    BY <1>1, <2>2 DEF Chain
  <2> QED
    BY <2>1, <2>3, AfterGone
<1>4. m # 0 /\ m - 1 \in Nat /\ (m - 1) + 1 = m
  BY <1>1 DEF Chain
<1> HIDE DEF P
<1>5. m - 1 \in P
  BY <1>2, <1>3, <1>4, InductionOnNumbers
<1>6. Gone(c[m])
  BY <1>4, <1>5 DEF P
<1> QED
  BY <1>1, <1>6 DEF Chain

(* An inporter that is leaving stays so, and nothing follows its end. *)
LEMMA ReachedLeaving ==
    ASSUME NEW a, NEW b, NEW batch, Reaches(a, b, batch)
    PROVE  (a.leaving = TRUE => b.leaving = TRUE) /\ (a.at = "ended" => b = a)
<1>0. PICK m \in Nat : \E c : Chain(c, m, a, b, batch)
  BY DEF Reaches
<1>1. PICK c : Chain(c, m, a, b, batch)
  BY <1>0
<1> DEFINE Kept(k) == /\ a.leaving = TRUE => c[k].leaving = TRUE
                      /\ a.at = "ended" => c[k] = a
           P == {k \in Nat : k <= m => Kept(k)}
<1>a. \A k \in Nat : k \in P <=> (k <= m => Kept(k))
  OBVIOUS
<1>2. 0 \in P
  BY <1>1 DEF Chain
<1> HIDE DEF P
<1>3. ASSUME NEW k \in Nat, k \in P PROVE k + 1 \in P
  <2> SUFFICES ASSUME k + 1 <= m PROVE Kept(k + 1)
    BY <1>a, k + 1 \in Nat, Zenon
  <2>1. Kept(k)
    BY <1>3, <1>a, k <= m
  <2>2. k \in 0..(m - 1)
    OBVIOUS
  <2>3. c[k + 1] = After(c[k], batch)
    BY <1>1, <2>2 DEF Chain
  <2>4. \A d : d.leaving = TRUE => After(d, batch).leaving = TRUE
    BY DEF After, AfterMain, AfterAsking, AfterAskingAll, AfterExecution, AfterTask,
       AfterAllTasks
  <2>5. \A d : d.at = "ended" => After(d, batch) = d
    BY DEF After
  <2> QED
    BY <2>1, <2>3, <2>4, <2>5
<1>4. m \in P
  BY <1>2, <1>3, InductionOnNumbers
<1>5. Kept(m)
  BY <1>4, <1>a, m <= m
<1> QED
  BY <1>1, <1>5 DEF Chain

-----------------------------------------------------------------------------
(* A step of one inporter leaves the others where they are. *)

Works(i) ==
    \/ CreateTask(i) \/ TasksCreated(i)
    \/ MakeAdaptors(i) \/ ReadFile(i) \/ Execute(i)
    \/ ProcessNext(i)
    \/ EndPass(i)

StaysAt(j) ==
    /\ SameAt(j)
    /\ asked'[j] = asked[j]
    /\ executions'[j] = executions[j]
    /\ j \in leaving' <=> j \in leaving

LEMMA OthersStay ==
    ASSUME Typed, DOMAIN executions = Inporters,
           NEW i \in Inporters, Works(i) \/ GiveAgain(i),
           NEW j \in Inporters, j # i
    PROVE  StaysAt(j)
<1> USE DEF Typed, TypedGlobally, StaysAt, SameAt, descriptor, history
<1>1. CreateTask(i) => StaysAt(j)
  <2> SUFFICES ASSUME CreateTask(i) PROVE StaysAt(j)
    OBVIOUS
  <2>1. /\ UNCHANGED <<pc, leaving, timeStep, described, adaptors, description, executions>>
        /\ asked'[j] = asked[j]
    BY DEF CreateTask
  <2>2. \E left, working, new :
            \/ /\ availableFiles' = [availableFiles EXCEPT ![i] = left]
               /\ workingFiles' = [workingFiles EXCEPT ![i] = working]
               /\ tasks' = [tasks EXCEPT ![i] = new]
            \/ UNCHANGED <<availableFiles, workingFiles, tasks>>
    BY DEF CreateTask
  <2> QED
    BY <2>1, <2>2
<1>2. TasksCreated(i) => StaysAt(j)
  BY DEF TasksCreated
<1>3. MakeAdaptors(i) => StaysAt(j)
  BY DEF MakeAdaptors
<1>4. ReadFile(i) => StaysAt(j)
  BY DEF ReadFile
<1>5. Execute(i) => StaysAt(j)
  BY DEF Execute, InExecute
<1>6. ProcessNext(i) => StaysAt(j)
  <2> SUFFICES ASSUME ProcessNext(i) PROVE StaysAt(j)
    OBVIOUS
  <2>1. UNCHANGED <<pc, leaving, availableFiles, workingFiles, timeStep, asked, adaptors,
                    description, executions>>
    BY DEF ProcessNext
  <2>2. \E ok : StageEnds(i, ok)
    BY DEF ProcessNext
  <2>3. tasks'[j] = tasks[j] /\ described'[j] = described[j]
    BY <2>2 DEF StageEnds
  <2> QED
    BY <2>1, <2>3
<1>7. EndPass(i) => StaysAt(j)
  BY DEF EndPass
<1>8. GiveAgain(i) => StaysAt(j)
  BY DEF GiveAgain
<1> QED
  BY <1>1, <1>2, <1>3, <1>4, <1>5, <1>6, <1>7, <1>8 DEF Works

LEMMA NothingElseMoves ==
    ASSUME NEW i \in Inporters, Works(i)
    PROVE  UNCHANGED <<removed, leaving, deliveries>>
BY DEF Works, CreateTask, TasksCreated, MakeAdaptors, ReadFile, Execute, InExecute, ProcessNext, EndPass

-----------------------------------------------------------------------------
(* The fields of a description.  While a file is there, the adaptors that  *)
(* are left add what is missing of the fields of its stage.                *)

ArraysOf(s) == UNION {a.arrays : a \in ToSet(s)}

FieldsReadAt(i) ==
    pc[i] = "read" /\ DescribedBy(i) \notin removed =>
        DOMAIN description[i].fields \cup ArraysOf(adaptors[i])
            = FieldsOf(StageOf(i).process.scripts, DescribedBy(i))

FieldsRead == \A i \in Inporters : FieldsReadAt(i)

LEMMA SameFieldsRead ==
    ASSUME NEW i, FieldsReadAt(i), SameAt(i), removed \subseteq removed'
    PROVE  FieldsReadAt(i)'
BY DEF FieldsReadAt, SameAt, DescribedBy, InputOf, StageOf, TaskOf, ArraysOf

(* What an adaptor makes of the description while the file is there. *)
PartRead(adaptor, f, i) ==
    IF adaptor.reader = "netcdf" /\ ~(adaptor.arrays \subseteq Arrays[f]) THEN {}
    ELSE LayersRead(adaptor.reader, f, i)

ReadThere(d, adaptor, f, i) == Coprocessed(d, adaptor.arrays, PartRead(adaptor, f, i))

LEMMA DescribedThere ==
    ASSUME NEW d, NEW adaptor, NEW f, NEW i, NEW S, f \notin S
    PROVE  Described(d, adaptor, f, i, f \in S) = ReadThere(d, adaptor, f, i)
<1>1. CASE adaptor.reader = "netcdf" /\ ~(adaptor.arrays \subseteq Arrays[f])
  <2>1. Described(d, adaptor, f, i, f \in S) = Coprocessed(d, adaptor.arrays, {})
    BY <1>1 DEF Described, Undetermined, ReadNothing
  <2> QED
    BY <1>1, <2>1 DEF ReadThere, PartRead
<1>2. CASE ~(adaptor.reader = "netcdf" /\ ~(adaptor.arrays \subseteq Arrays[f]))
  <2>1. Described(d, adaptor, f, i, f \in S)
            = Coprocessed(d, adaptor.arrays, LayersRead(adaptor.reader, f, i))
    BY <1>2 DEF Described, Undetermined, ReadPart
  <2> QED
    BY <1>2, <2>1 DEF ReadThere, PartRead
<1> QED
  BY <1>1, <1>2

LEMMA ReadFileThere ==
    ASSUME NEW i \in Inporters, Typed, ReadFile(i), DescribedBy(i) \notin removed
    PROVE  /\ description'[i] = ReadThere(description[i], Head(adaptors[i]), DescribedBy(i), i)
           /\ adaptors'[i] = Tail(adaptors[i])
<1> DEFINE f == DescribedBy(i)
           first == Head(adaptors[i])
           read == Described(description[i], first, f, i, f \in removed)
<1>1. /\ \E d \in {read} : description' = [description EXCEPT ![i] = d]
      /\ adaptors' = [adaptors EXCEPT ![i] = Tail(@)]
  BY DEF ReadFile
<1>2. read = ReadThere(description[i], first, f, i)
  BY DescribedThere
<1> HIDE DEF read
<1>3. description'[i] = read /\ adaptors'[i] = Tail(adaptors[i])
  BY <1>1 DEF Typed, TypedGlobally
<1> QED
  BY <1>2, <1>3

LEMMA NextFieldsRead ==
    ASSUME IInv, Typed, FieldsRead, [Next]_vars
    PROVE  FieldsRead'
<1>0. DOMAIN executions = Inporters
  BY DEF IInv, Types
<1>1. ASSUME NEW batch \in Batches, Deliver(batch) PROVE FieldsRead'
  <2>1. \A i \in Inporters : pc'[i] = "create"
    BY <1>1 DEF Deliver
  <2> QED
    BY <2>1 DEF FieldsRead, FieldsReadAt
<1>2. ASSUME NEW f \in Files, RemoveFile(f) PROVE FieldsRead'
  <2>1. \A i \in Inporters : SameAt(i)
    BY <1>2 DEF RemoveFile, SameAt, descriptor
  <2>2. removed \subseteq removed'
    BY <1>2 DEF RemoveFile
  <2> QED
    BY <2>1, <2>2, SameFieldsRead DEF FieldsRead
<1>3. CASE UNCHANGED vars
  <2>1. \A i \in Inporters : SameAt(i)
    BY <1>3 DEF vars, SameAt, descriptor
  <2>2. removed \subseteq removed'
    BY <1>3 DEF vars
  <2> QED
    BY <2>1, <2>2, SameFieldsRead DEF FieldsRead
<1>4. ASSUME NEW i \in Inporters, Works(i) \/ GiveAgain(i), FieldsReadAt(i)'
      PROVE  FieldsRead'
  <2>1. \A j \in Inporters \ {i} : SameAt(j)
    BY <1>0, <1>4, OthersStay DEF StaysAt
  <2>2. removed \subseteq removed'
    BY <1>4, NothingElseMoves DEF GiveAgain
  <2>3. \A j \in Inporters \ {i} : FieldsReadAt(j)'
    BY <2>1, <2>2, SameFieldsRead DEF FieldsRead
  <2> QED
    BY <1>4, <2>3 DEF FieldsRead
<1>5. ASSUME NEW i \in Inporters,
             GiveAgain(i) \/ CreateTask(i) \/ TasksCreated(i) \/ Execute(i)
                \/ ProcessNext(i) \/ EndPass(i)
      PROVE  FieldsReadAt(i)'
  <2>1. pc'[i] # "read"
    <3>1. GiveAgain(i) => pc'[i] = "create"
      BY DEF GiveAgain, Typed, TypedGlobally
    <3>2. CreateTask(i) => pc'[i] = "create"
      BY DEF CreateTask
    <3>3. TasksCreated(i) => pc'[i] \in {"tasks", "main", "ended"}
      BY DEF TasksCreated, AfterCreation, Returned, Typed, TypedGlobally
    <3>4. Execute(i) => pc'[i] = "tasks"
      BY DEF Execute, InExecute, Typed, TypedGlobally
    <3>5. ProcessNext(i) => pc'[i] = "tasks"
      BY DEF ProcessNext
    <3>6. EndPass(i) => pc'[i] \in {"create", "main", "ended"}
      BY DEF EndPass, AfterPass, Returned, Typed, TypedGlobally
    <3> QED
      BY <1>5, <3>1, <3>2, <3>3, <3>4, <3>5, <3>6
  <2> QED
    BY <2>1 DEF FieldsReadAt
<1>6. ASSUME NEW i \in Inporters, MakeAdaptors(i) PROVE FieldsReadAt(i)'
  <2> DEFINE f == DescribedBy(i)
             scripts == StageOf(i).process.scripts
  <2>1. /\ adaptors'[i] = IF f \in removed THEN <<>> ELSE AdaptorsFor(scripts, f)
        /\ description'[i] = NoData
        /\ UNCHANGED <<removed, tasks, described>>
    BY <1>6 DEF MakeAdaptors, Typed, TypedGlobally
  <2>2. DescribedBy(i)' = f /\ StageOf(i)' = StageOf(i)
    BY <2>1 DEF DescribedBy, InputOf, StageOf, TaskOf
  <2> SUFFICES ASSUME f \notin removed
               PROVE  DOMAIN description'[i].fields \cup ArraysOf(adaptors'[i])
                        = FieldsOf(scripts, f)
    BY <2>1, <2>2 DEF FieldsReadAt, ArraysOf
  <2>3. DOMAIN description'[i].fields = {}
    BY <2>1 DEF NoData
  <2>4. ArraysOf(adaptors'[i]) = FieldsOf(scripts, f)
    BY <2>1 DEF ArraysOf, FieldsOf
  <2> QED
    BY <2>3, <2>4
<1>7. ASSUME NEW i \in Inporters, ReadFile(i) PROVE FieldsReadAt(i)'
  <2> DEFINE f == DescribedBy(i)
             scripts == StageOf(i).process.scripts
             first == Head(adaptors[i])
  <2>1. /\ pc[i] = "read"
        /\ adaptors[i] # <<>>
        /\ UNCHANGED <<removed, pc, tasks, described>>
    BY <1>7 DEF ReadFile
  <2>2. DescribedBy(i)' = f /\ StageOf(i)' = StageOf(i)
    BY <2>1 DEF DescribedBy, InputOf, StageOf, TaskOf
  <2> SUFFICES ASSUME f \notin removed
               PROVE  DOMAIN description'[i].fields \cup ArraysOf(adaptors'[i])
                        = FieldsOf(scripts, f)
    BY <2>1, <2>2 DEF FieldsReadAt, ArraysOf
  <2>3. /\ description'[i] = ReadThere(description[i], first, f, i)
        /\ adaptors'[i] = Tail(adaptors[i])
    BY <1>7, ReadFileThere
  <2>4. DOMAIN description'[i].fields = DOMAIN description[i].fields \cup first.arrays
    BY <2>3 DEF ReadThere, Coprocessed
  <2>5. ArraysOf(adaptors[i]) = first.arrays \cup ArraysOf(adaptors'[i])
    <3>1. adaptors[i] \in Seq(ToSet(adaptors[i]))
      BY DEF Typed, TypedAt
    <3>2. ToSet(adaptors[i]) = {first} \cup ToSet(Tail(adaptors[i]))
      BY <2>1, <3>1, ToSetOfTail
    <3> QED
      BY <2>3, <3>2 DEF ArraysOf
  <2>6. DOMAIN description[i].fields \cup ArraysOf(adaptors[i]) = FieldsOf(scripts, f)
    BY <2>1 DEF FieldsRead, FieldsReadAt
  <2> QED
    BY <2>4, <2>5, <2>6
<1>8. ASSUME NEW i \in Inporters, CrashReading(i) \/ Crash(i) PROVE FieldsRead'
  BY <1>8 DEF CrashReading, Crash, FieldsRead, FieldsReadAt
<1> QED
  BY <1>1, <1>2, <1>3, <1>4, <1>5, <1>6, <1>7, <1>8 DEF Next, Process, Works

-----------------------------------------------------------------------------
(* Where an inporter is, with the calls executed. *)

AtOf(i) == IF pc[i] = "read" THEN "tasks" ELSE pc[i]

TasksLeft(i) == IF pc[i] \in {"tasks", "read"} THEN Live(tasks[i]) ELSE tasks[i]

StateOf(i, x) ==
    [at |-> AtOf(i), leaving |-> (i \in leaving), available |-> availableFiles[i],
     asked |-> asked[i], tasks |-> TasksLeft(i), described |-> described[i],
     timeStep |-> timeStep[i], executed |-> x]

(* The executions are those of x, with the same fields unless the file was *)
(* removed.                                                                *)
Corresponds(call, e) ==
    /\ call.file = e.file
    /\ call.timeStep = e.timeStep
    /\ e.file \notin removed => call.fields = DOMAIN e.fields

Agrees(i, x) ==
    /\ IsSequence(x)
    /\ IsSequence(executions[i])
    /\ Len(x) = Len(executions[i])
    /\ \A n \in DOMAIN x : Corresponds(x[n], executions[i][n])

HandedOut == Last(deliveries)

Moves(i, x) ==
    \E y : /\ Agrees(i, y)'
           /\ \/ StateOf(i, y)' = StateOf(i, x)
              \/ StateOf(i, y)' = After(StateOf(i, x), HandedOut)

OneWay(a, b, batch) == Reaches(a, b, batch) \/ Reaches(b, a, batch)

AgreesAll(X) == \A i \in Inporters : Agrees(i, X[i])

InStepBy(X) ==
    \A i, j \in Inporters : OneWay(StateOf(i, X[i]), StateOf(j, X[j]), HandedOut)

Lock == \E X : AgreesAll(X) /\ InStepBy(X)

LEMMA QuietAgrees ==
    ASSUME NEW i, NEW x, Agrees(i, x), executions'[i] = executions[i],
           removed \subseteq removed'
    PROVE  Agrees(i, x)'
<1>1. \A n \in DOMAIN x : Corresponds(x[n], executions[i][n])'
  BY DEF Agrees, Corresponds
<1> QED
  BY <1>1 DEF Agrees

LEMMA OneWayFurther ==
    ASSUME NEW a, NEW b, NEW batch, OneWay(a, b, batch)
    PROVE  OneWay(After(a, batch), b, batch)
<1>1. CASE Reaches(b, a, batch)
  BY <1>1, ReachesFurther DEF OneWay
<1>2. CASE Reaches(a, b, batch) /\ a # b
  BY <1>2, ReachesFromNext DEF OneWay
<1>3. CASE a = b
  BY <1>3, ReachesSelf, ReachesFurther DEF OneWay
<1> QED
  BY <1>1, <1>2, <1>3 DEF OneWay

LEMMA StateStays ==
    ASSUME NEW j, NEW x, StaysAt(j)
    PROVE  StateOf(j, x)' = StateOf(j, x)
<1>1. /\ AtOf(j)' = AtOf(j)
      /\ TasksLeft(j)' = TasksLeft(j)
  BY DEF StaysAt, SameAt, AtOf, TasksLeft
<1>2. (j \in leaving)' = (j \in leaving)
  BY DEF StaysAt
<1> QED
  BY <1>1, <1>2 DEF StaysAt, SameAt, StateOf

LEMMA LockKept ==
    ASSUME NEW X, AgreesAll(X), InStepBy(X),
           NEW i \in Inporters, Moves(i, X[i]),
           \A j \in Inporters : j # i => StaysAt(j),
           removed \subseteq removed', deliveries' = deliveries
    PROVE  Lock'
<1>1. PICK y : /\ Agrees(i, y)'
               /\ \/ StateOf(i, y)' = StateOf(i, X[i])
                  \/ StateOf(i, y)' = After(StateOf(i, X[i]), HandedOut)
  BY DEF Moves
<1> DEFINE Y == [j \in Inporters |-> IF j = i THEN y ELSE X[j]]
           a == StateOf(i, X[i])
           b == StateOf(i, y)'
<1>2. Y[i] = y /\ \A j \in Inporters : j # i => Y[j] = X[j]
  OBVIOUS
<1> HIDE DEF Y
<1>3. AgreesAll(Y)'
  <2> SUFFICES ASSUME NEW j \in Inporters PROVE Agrees(j, Y[j])'
    BY DEF AgreesAll
  <2>1. CASE j = i
    BY <1>1, <1>2, <2>1
  <2>2. CASE j # i
    <3>1. Agrees(j, X[j]) /\ executions'[j] = executions[j] /\ Y[j] = X[j]
      BY <1>2, <2>2 DEF AgreesAll, StaysAt
    <3>2. Agrees(j, X[j])'
      BY <3>1, QuietAgrees
    <3> QED
      BY <3>1, <3>2
  <2> QED
    BY <2>1, <2>2
<1>4. HandedOut' = HandedOut
  BY DEF HandedOut
<1>5. \A j \in Inporters : j # i => StateOf(j, Y[j])' = StateOf(j, X[j])
  BY <1>2, StateStays
<1>6. StateOf(i, Y[i])' = b
  BY <1>2
<1>7. \A j \in Inporters : OneWay(a, StateOf(j, X[j]), HandedOut)
  BY DEF InStepBy
<1>8. b = a \/ b = After(a, HandedOut)
  BY <1>1
<1> HIDE DEF a, b
<1>9. \A j \in Inporters : OneWay(b, StateOf(j, X[j]), HandedOut)
  BY <1>7, <1>8, OneWayFurther
<1>10. \A c, d : OneWay(c, d, HandedOut) => OneWay(d, c, HandedOut)
  BY DEF OneWay
<1>11. OneWay(b, b, HandedOut)
  BY ReachesSelf DEF OneWay
<1>12. InStepBy(Y)'
  <2> SUFFICES ASSUME NEW j \in Inporters, NEW k \in Inporters
               PROVE  OneWay(StateOf(j, Y[j])', StateOf(k, Y[k])', HandedOut)
    BY <1>4 DEF InStepBy
  <2>1. CASE j # i /\ k # i
    <3>1. OneWay(StateOf(j, X[j]), StateOf(k, X[k]), HandedOut)
      BY DEF InStepBy
    <3> QED
      BY <1>5, <2>1, <3>1
  <2>2. CASE j = i /\ k # i
    BY <1>5, <1>6, <1>9, <2>2
  <2>3. CASE j # i /\ k = i
    BY <1>5, <1>6, <1>9, <1>10, <2>3
  <2>4. CASE j = i /\ k = i
    BY <1>6, <1>11, <2>4
  <2> QED
    BY <2>1, <2>2, <2>3, <2>4
<1> QED
  BY <1>3, <1>12 DEF Lock

-----------------------------------------------------------------------------
(* Every step of an inporter is one of the machine or none. *)

LEMMA GiveAgainMoves ==
    ASSUME Typed, NEW i \in Inporters, NEW x, Agrees(i, x), GiveAgain(i)
    PROVE  Moves(i, x)
<1> DEFINE a == StateOf(i, x)
<1>1. /\ pc[i] = "main"
      /\ availableFiles' = [availableFiles EXCEPT ![i] = @ \o HandedOut]
      /\ leaving' = leaving \cup {i}
      /\ pc' = [pc EXCEPT ![i] = "create"]
      /\ UNCHANGED <<removed, timeStep, asked, tasks, described, executions>>
  BY DEF GiveAgain, descriptor, HandedOut
<1>2. Agrees(i, x)'
  BY <1>1, QuietAgrees
<1>3. After(a, HandedOut) = AfterMain(a, HandedOut)
  BY <1>1 DEF After, StateOf, AtOf
<1>4. /\ pc'[i] = "create"
      /\ availableFiles'[i] = availableFiles[i] \o HandedOut
  BY <1>1 DEF Typed, TypedGlobally
<1>5. /\ AtOf(i)' = "create" /\ (i \in leaving)' = TRUE
      /\ TasksLeft(i)' = tasks[i] /\ TasksLeft(i) = tasks[i]
  BY <1>1, <1>4 DEF AtOf, TasksLeft
<1>6. StateOf(i, x)' = AfterMain(a, HandedOut)
  BY <1>1, <1>4, <1>5 DEF StateOf, AfterMain
<1> QED
  BY <1>2, <1>3, <1>6 DEF Moves

LEMMA CreateTaskMoves ==
    ASSUME Typed, NEW i \in Inporters, NEW x, Agrees(i, x), CreateTask(i)
    PROVE  Moves(i, x)
<1> DEFINE a == StateOf(i, x)
           pipeline == PipelineSpecs[asked[i] + 1]
           accepts == Accepts(pipeline[1].input, availableFiles[i])
           accepted == Accepted(pipeline[1].input, availableFiles[i])
<1>1. /\ pc[i] = "create" /\ pc' = pc
      /\ asked[i] < Len(PipelineSpecs)
      /\ asked' = [asked EXCEPT ![i] = @ + 1]
      /\ UNCHANGED <<removed, leaving, timeStep, described, executions>>
  BY DEF CreateTask, descriptor, history
<1>2. Agrees(i, x)'
  BY <1>1, QuietAgrees
<1>3. After(a, HandedOut) = AfterAsking(a)
  BY <1>1 DEF After, StateOf, AtOf
<1>4. /\ accepts => /\ availableFiles' = [availableFiles EXCEPT ![i] = Erase(@, accepted)]
                    /\ tasks' = [tasks EXCEPT ![i] = Append(@, NewTask(pipeline, accepted))]
      /\ ~accepts => UNCHANGED <<availableFiles, tasks>>
  BY DEF CreateTask
<1>5. AfterAsking(a) =
        [at |-> "create", leaving |-> (i \in leaving),
         available |-> IF accepts THEN Erase(availableFiles[i], accepted)
                       ELSE availableFiles[i],
         asked |-> asked[i] + 1,
         tasks |-> IF accepts THEN Append(tasks[i], NewTask(pipeline, accepted))
                   ELSE tasks[i],
         described |-> described[i], timeStep |-> timeStep[i], executed |-> x]
  <2>1. TasksLeft(i) = tasks[i]
    BY <1>1 DEF TasksLeft
  <2>2. /\ a.leaving = (i \in leaving) /\ a.available = availableFiles[i]
        /\ a.asked = asked[i] /\ a.tasks = tasks[i] /\ a.described = described[i]
        /\ a.timeStep = timeStep[i] /\ a.executed = x
    BY <2>1 DEF StateOf
  <2> HIDE DEF a
  <2> QED
    BY <2>2 DEF AfterAsking
<1> HIDE DEF accepts, accepted, pipeline
<1>6. /\ availableFiles'[i] = IF accepts THEN Erase(availableFiles[i], accepted)
                              ELSE availableFiles[i]
      /\ tasks'[i] = IF accepts THEN Append(tasks[i], NewTask(pipeline, accepted))
                     ELSE tasks[i]
      /\ asked'[i] = asked[i] + 1
  BY <1>1, <1>4 DEF Typed, TypedGlobally
<1>7. /\ AtOf(i)' = "create" /\ (i \in leaving)' = (i \in leaving)
      /\ TasksLeft(i)' = tasks'[i]
  BY <1>1 DEF AtOf, TasksLeft
<1>8. StateOf(i, x)' = AfterAsking(a)
  BY <1>1, <1>5, <1>6, <1>7 DEF StateOf
<1> QED
  BY <1>2, <1>3, <1>8 DEF Moves

LEMMA LiveOfEmpty == Live(<<>>) = <<>>
BY SelectOfEmpty DEF Live

LEMMA TasksCreatedMoves ==
    ASSUME Typed, NEW i \in Inporters, NEW x, Agrees(i, x), TasksCreated(i)
    PROVE  Moves(i, x)
<1> DEFINE a == StateOf(i, x)
           at == IF tasks[i] # <<>> THEN "tasks" ELSE Returned(i)
<1>1. /\ pc[i] = "create"
      /\ asked[i] = Len(PipelineSpecs)
      /\ asked' = [asked EXCEPT ![i] = 0]
      /\ pc' = [pc EXCEPT ![i] = AfterCreation(i)]
      /\ UNCHANGED <<removed, leaving, availableFiles, timeStep, tasks, described,
                     executions>>
  BY DEF TasksCreated, descriptor
<1>2. Agrees(i, x)'
  BY <1>1, QuietAgrees
<1>3. After(a, HandedOut) = AfterAskingAll(a)
  BY <1>1, Bounds DEF After, StateOf, AtOf
<1>4. /\ pc'[i] = at /\ asked'[i] = 0
  BY <1>1 DEF AfterCreation, Typed, TypedGlobally
<1>5. at \in {"tasks", "main", "ended"} /\ (at = "tasks" <=> tasks[i] # <<>>)
  BY DEF Returned
<1>6. AtOf(i)' = at /\ (i \in leaving)' = (i \in leaving)
  BY <1>1, <1>4, <1>5 DEF AtOf
<1>7. TasksLeft(i)' = Live(tasks[i])
  <2>1. CASE tasks[i] # <<>>
    BY <1>1, <1>4, <2>1 DEF TasksLeft
  <2>2. CASE tasks[i] = <<>>
    <3>1. TasksLeft(i)' = tasks[i]
      BY <1>1, <1>4, <1>5, <2>2 DEF TasksLeft
    <3> QED
      BY <2>2, <3>1, LiveOfEmpty
  <2> QED
    BY <2>1, <2>2
<1>8. TasksLeft(i) = tasks[i]
  BY <1>1 DEF TasksLeft
<1>9. AfterAskingAll(a) =
        [at |-> at, leaving |-> (i \in leaving), available |-> availableFiles[i],
         asked |-> 0, tasks |-> Live(tasks[i]), described |-> described[i],
         timeStep |-> timeStep[i], executed |-> x]
  <2>1. /\ a.leaving = (i \in leaving) /\ a.available = availableFiles[i]
        /\ a.tasks = tasks[i] /\ a.described = described[i]
        /\ a.timeStep = timeStep[i] /\ a.executed = x
    BY <1>8 DEF StateOf
  <2>2. Back(a) = Returned(i)
    BY DEF Back, Returned, StateOf
  <2> HIDE DEF a
  <2> QED
    BY <2>1, <2>2 DEF AfterAskingAll
<1> HIDE DEF at
<1>10. StateOf(i, x)' = AfterAskingAll(a)
  BY <1>1, <1>4, <1>6, <1>7, <1>9 DEF StateOf
<1> QED
  BY <1>2, <1>3, <1>10 DEF Moves

(* What the adaptors do does not show. *)
LEMMA ReadingMoves ==
    ASSUME Typed, NEW i \in Inporters, NEW x, Agrees(i, x), MakeAdaptors(i) \/ ReadFile(i)
    PROVE  Moves(i, x)
<1>1. /\ pc[i] \in {"tasks", "read"} /\ pc'[i] = "read"
      /\ UNCHANGED <<removed, leaving, availableFiles, timeStep, asked, tasks, described,
                     executions>>
  BY DEF MakeAdaptors, ReadFile, AtStage, history, Typed, TypedGlobally
<1>2. Agrees(i, x)'
  BY <1>1, QuietAgrees
<1>3. /\ AtOf(i)' = AtOf(i) /\ TasksLeft(i)' = TasksLeft(i)
      /\ (i \in leaving)' = (i \in leaving)
  BY <1>1 DEF AtOf, TasksLeft
<1>4. StateOf(i, x)' = StateOf(i, x)
  BY <1>1, <1>3 DEF StateOf
<1> QED
  BY <1>2, <1>4 DEF Moves

(* The first task is among the live ones if it has files. *)
LEMMA LiveHead ==
    ASSUME NEW s \in Seq(Tasks), s # <<>>
    PROVE  /\ s = <<Head(s)>> \o Tail(s)
           /\ Head(s) \in Tasks /\ Tail(s) \in Seq(Tasks)
           /\ Head(s).inputFiles # <<>> => /\ Live(s) = <<Head(s)>> \o Live(Tail(s))
                                           /\ Live(s) # <<>>
                                           /\ Head(Live(s)) = Head(s)
                                           /\ Tail(Live(s)) = Live(Tail(s))
           /\ Head(s).inputFiles = <<>> => Live(s) = Live(Tail(s))
<1>1. /\ Head(s) \in Tasks /\ Tail(s) \in Seq(Tasks)
      /\ s = <<Head(s)>> \o Tail(s)
  BY HeadTailProperties
<1> DEFINE h == Head(s)
           r == Tail(s)
           q == Live(r)
<1>2. Live(<<h>> \o r) = IF h \in LiveTasks THEN <<h>> \o q ELSE q
  BY <1>1, SelectOfCons DEF Live
<1>3. h \in LiveTasks <=> h.inputFiles # <<>>
  BY <1>1 DEF LiveTasks
<1>4. q \in Seq(Tasks)
  <2>1. q \in Seq(Tasks \cap LiveTasks)
    BY <1>1, SelectProperties DEF Live
  <2> HIDE DEF q
  <2> QED
    BY <2>1
<1>5. Live(s) = IF h \in LiveTasks THEN <<h>> \o q ELSE q
  BY <1>1, <1>2
<1> HIDE DEF h, r, q
<1>6. /\ <<h>> \o q # <<>>
      /\ Head(<<h>> \o q) = h
      /\ Tail(<<h>> \o q) = q
  BY <1>4
<1> QED
  BY <1>1, <1>3, <1>5, <1>6 DEF h, r, q

LEMMA ExecuteMoves ==
    ASSUME Typed, FieldsRead, DOMAIN executions = Inporters,
           NEW i \in Inporters, NEW x, Agrees(i, x), Execute(i)
    PROVE  Moves(i, x)
<1> DEFINE a == StateOf(i, x)
           f == DescribedBy(i)
           fields == FieldsOf(StageOf(i).process.scripts, f)
           call == [file |-> f, timeStep |-> timeStep[i], fields |-> fields]
           e == Execution(i)
<1>0. PICK y : y = Append(x, call)
  OBVIOUS
<1>1. /\ pc[i] = "read"
      /\ adaptors[i] = <<>>
      /\ executions' = [executions EXCEPT ![i] = Append(@, e)]
      /\ described' = [described EXCEPT ![i] = @ + 1]
      /\ pc' = [pc EXCEPT ![i] = "tasks"]
      /\ UNCHANGED <<removed, leaving, availableFiles, timeStep, asked, tasks>>
  BY DEF Execute, InExecute
<1>2. /\ TypedAt(i) /\ OnCatalyst(i) /\ described[i] \in Nat
      /\ described[i] < Len(InputOf(i)) /\ tasks[i] # <<>>
  BY <1>1 DEF Typed, TypedAt, OnCatalyst
<1>3. TaskOf(i).inputFiles # <<>>
  <2>1. /\ Len(InputOf(i)) \in Nat /\ Len(InputOf(i)) <= Len(TaskOf(i).inputFiles)
        /\ TaskOf(i) \in Tasks
    BY <1>2, TaskProperties
  <2>2. Len(TaskOf(i).inputFiles) \in Nat
    BY <2>1 DEF Tasks
  <2>3. Len(TaskOf(i).inputFiles) # 0
    BY <1>2, <2>1, <2>2
  <2>4. Len(<<>>) = 0
    OBVIOUS
  <2> QED
    BY <2>3, <2>4, Zenon
<1>4. /\ Live(tasks[i]) # <<>>
      /\ Head(Live(tasks[i])) = TaskOf(i)
  <2>1. tasks[i] \in Seq(Tasks)
    BY <1>2 DEF TypedAt
  <2> QED
    BY <1>2, <1>3, <2>1, LiveHead DEF TaskOf
<1>5. /\ a.at = "tasks" /\ a.tasks = Live(tasks[i]) /\ a.leaving = (i \in leaving)
      /\ a.available = availableFiles[i] /\ a.asked = asked[i]
      /\ a.described = described[i] /\ a.timeStep = timeStep[i] /\ a.executed = x
  BY <1>1 DEF StateOf, AtOf, TasksLeft
<1> HIDE DEF a
<1>6. InputOfTask(TaskOf(i)) = InputOf(i)
  BY DEF InputOfTask, InputOf, StageOf
<1>7. Executes(a)
  BY <1>2, <1>4, <1>5, <1>6 DEF Executes, OnCatalyst, StageOf
<1>8. After(a, HandedOut) = AfterExecution(a)
  BY <1>4, <1>5, <1>7 DEF After
<1>9. AfterExecution(a) =
        [at |-> "tasks", leaving |-> (i \in leaving), available |-> availableFiles[i],
         asked |-> asked[i], tasks |-> Live(tasks[i]), described |-> described[i] + 1,
         timeStep |-> timeStep[i], executed |-> y]
  BY <1>0, <1>4, <1>5, <1>6 DEF AfterExecution, DescribedBy, StageOf
<1>10. StateOf(i, y)' = AfterExecution(a)
  <2>1. /\ pc'[i] = "tasks" /\ described'[i] = described[i] + 1
    BY <1>1 DEF Typed, TypedGlobally
  <2>2. AtOf(i)' = "tasks" /\ TasksLeft(i)' = Live(tasks[i])
        /\ (i \in leaving)' = (i \in leaving)
    BY <1>1, <2>1 DEF AtOf, TasksLeft
  <2> QED
    BY <1>1, <1>9, <2>1, <2>2 DEF StateOf
<1>11. /\ e.file = f /\ e.timeStep = timeStep[i]
       /\ f \notin removed => DOMAIN e.fields = fields
  <2>1. e.file = f /\ e.timeStep = timeStep[i] /\ e.fields = description[i].fields
    BY DEF Execution
  <2>2. ArraysOf(adaptors[i]) = {}
    BY <1>1, ToSetOfEmpty DEF ArraysOf
  <2>3. f \notin removed => DOMAIN description[i].fields = fields
    BY <1>1, <2>2 DEF FieldsRead, FieldsReadAt
  <2> QED
    BY <2>1, <2>3
<1> HIDE DEF e, call
<1>12. executions'[i] = Append(executions[i], e)
  BY <1>1
<1>13. Agrees(i, y)'
  <2>1. /\ x \in Seq(ToSet(x)) /\ executions[i] \in Seq(ToSet(executions[i]))
        /\ Len(x) = Len(executions[i])
        /\ \A n \in DOMAIN x : Corresponds(x[n], executions[i][n])
    BY DEF Agrees, IsSequence
  <2>2. /\ y \in Seq(ToSet(y))
        /\ DOMAIN y = DOMAIN x \cup {Len(x) + 1}
        /\ \A n \in DOMAIN x : y[n] = x[n]
        /\ y[Len(x) + 1] = call
    BY <1>0, <2>1, AppendIsSequence
  <2>3. /\ executions'[i] \in Seq(ToSet(executions'[i]))
        /\ DOMAIN executions'[i] = DOMAIN executions[i] \cup {Len(executions[i]) + 1}
        /\ \A n \in DOMAIN executions[i] : executions'[i][n] = executions[i][n]
        /\ executions'[i][Len(executions[i]) + 1] = e
    BY <1>12, <2>1, AppendIsSequence
  <2>4. DOMAIN x = 1..Len(x) /\ DOMAIN executions[i] = 1..Len(executions[i])
        /\ Len(x) \in Nat
    BY <2>1
  <2>5. Len(y) = Len(executions'[i])
    BY <1>0, <1>12, <2>1
  <2>6. \A n \in DOMAIN y : Corresponds(y[n], executions[i][n])'
    <3> SUFFICES ASSUME NEW n \in DOMAIN y PROVE Corresponds(y[n], executions[i][n])'
      OBVIOUS
    <3>1. CASE n \in DOMAIN x
      <4>1. Corresponds(x[n], executions[i][n]) /\ n \in DOMAIN executions[i]
        BY <2>1, <2>4, <3>1
      <4>2. y[n] = x[n] /\ executions'[i][n] = executions[i][n] /\ removed' = removed
        BY <1>1, <2>2, <2>3, <3>1, <4>1
      <4> QED
        BY <4>1, <4>2 DEF Corresponds
    <3>2. CASE n = Len(x) + 1
      <4>1. y[n] = call /\ executions'[i][n] = e /\ removed' = removed
        BY <1>1, <2>1, <2>2, <2>3, <3>2
      <4>2. call.file = f /\ call.timeStep = timeStep[i] /\ call.fields = fields
        BY DEF call
      <4> HIDE DEF f, fields
      <4> QED
        BY <1>11, <4>1, <4>2 DEF Corresponds
    <3> QED
      BY <2>2, <3>1, <3>2
  <2> QED
    BY <2>2, <2>3, <2>5, <2>6 DEF Agrees, IsSequence
<1> QED
  BY <1>8, <1>10, <1>13 DEF Moves, a

(* Nothing comes of nothing. *)
LEMMA EmptyProducts ==
    ASSUME NEW stage, NEW files, files = <<>>
    PROVE  /\ StageInput(stage, files) = <<>>
           /\ Products(stage, files) = <<>>
<1>1. \A S : Select(files, S) = <<>>
  BY SelectOfEmpty
<1>2. StageInput(stage, files) = <<>>
  BY <1>1 DEF StageInput, Matching
<1>3. Products(stage, files) = <<>>
  <2>1. CASE stage.process.type = "readyfile"
    <3> DEFINE conversion == stage.process.conversion
               signals == Select(files, DOMAIN conversion)
    <3>1. Products(stage, files) = [n \in DOMAIN signals |-> conversion[signals[n]]]
      BY <2>1 DEF Products, Converted
    <3>2. DOMAIN signals = {}
      BY <1>1
    <3> HIDE DEF signals, conversion
    <3>3. [n \in DOMAIN signals |-> conversion[signals[n]]] \in Seq({})
          /\ Len([n \in DOMAIN signals |-> conversion[signals[n]]]) = 0
      <4>1. DOMAIN signals = 1..0
        BY <3>2
      <4> QED
        BY <4>1
    <3> QED
      BY <3>1, <3>3, EmptySeq
  <2>2. CASE stage.process.type # "readyfile"
    BY <2>2 DEF Products
  <2> QED
    BY <2>1, <2>2
<1> QED
  BY <1>2, <1>3

LEMMA DeadStaysDead ==
    ASSUME NEW task \in Tasks, task.inputFiles = <<>>, NEW ok
    PROVE  AfterStage(task, ok) \notin LiveTasks
<1> DEFINE stage == Head(task.stages)
           output == Products(stage, StageInput(stage, task.inputFiles))
           next == [stages |-> Tail(task.stages), inputFiles |-> output,
                    status |-> NextStatus(task)]
<1>1. output = <<>>
  <2>1. StageInput(stage, task.inputFiles) = <<>>
    BY EmptyProducts
  <2> QED
    BY <2>1, EmptyProducts
<1>2. AfterStage(task, ok) \in {[task EXCEPT !.status = "failedinput"],
                                [task EXCEPT !.status = "failedprocessing"], next}
  BY DEF AfterStage
<1> HIDE DEF output
<1>3. \A s : [task EXCEPT !.status = s].inputFiles = <<>>
  BY DEF Tasks
<1>4. next.inputFiles = <<>>
  BY <1>1
<1> QED
  BY <1>2, <1>3, <1>4 DEF LiveTasks

(* Whether commands succeed makes no difference to what is alive. *)
LEMMA CommandsLeaveNothing ==
    ASSUME NEW task \in Tasks, Head(task.stages).process.type = "commands", NEW ok
    PROVE  AfterStage(task, ok) \notin LiveTasks
<1> DEFINE stage == Head(task.stages)
           output == Products(stage, StageInput(stage, task.inputFiles))
           next == [stages |-> Tail(task.stages), inputFiles |-> output,
                    status |-> NextStatus(task)]
<1>1. output = <<>>
  BY DEF Products
<1>2. AfterStage(task, ok) \in {[task EXCEPT !.status = "failedinput"],
                                [task EXCEPT !.status = "failedprocessing"], next}
  BY DEF AfterStage
<1> HIDE DEF output
<1>3. /\ [task EXCEPT !.status = "failedinput"].status = "failedinput"
      /\ [task EXCEPT !.status = "failedprocessing"].status = "failedprocessing"
      /\ next.inputFiles = <<>>
  BY <1>1 DEF Tasks
<1>4. \A t \in LiveTasks : t.status = "ok" /\ t.inputFiles # <<>>
  BY DEF LiveTasks, Tasks
<1> HIDE DEF next
<1> QED
  BY <1>2, <1>3, <1>4

LEMMA ProcessNextMoves ==
    ASSUME Typed, NEW i \in Inporters, NEW x, Agrees(i, x), ProcessNext(i)
    PROVE  Moves(i, x)
<1> DEFINE a == StateOf(i, x)
           h == TaskOf(i)
           r == Tail(tasks[i])
<1>1. /\ pc[i] = "tasks" /\ pc' = pc
      /\ tasks[i] # <<>>
      /\ AtStage(i, "catalyst") => described[i] = Len(InputOf(i))
      /\ UNCHANGED <<removed, leaving, availableFiles, timeStep, asked, executions>>
  BY DEF ProcessNext
<1>2. PICK ok : StageEnds(i, ok) /\ (ok = TRUE \/ AtStage(i, "commands"))
  <2>1. \E ok \in IF AtStage(i, "commands") THEN BOOLEAN ELSE {TRUE} : StageEnds(i, ok)
    BY DEF ProcessNext
  <2> QED
    BY <2>1
<1> DEFINE after == AfterStage(h, ok)
           best == AfterStage(h, TRUE)
<1>3. Agrees(i, x)'
  BY <1>1, QuietAgrees
<1>4. /\ tasks[i] \in Seq(Tasks) /\ described[i] \in Nat
      /\ described[i] > 0 => OnCatalyst(i) /\ described[i] <= Len(InputOf(i))
  BY DEF Typed, TypedAt
<1>5. /\ h \in Tasks /\ r \in Seq(Tasks)
      /\ h.inputFiles # <<>> => /\ Live(tasks[i]) # <<>>
                                /\ Head(Live(tasks[i])) = h
                                /\ Tail(Live(tasks[i])) = Live(r)
      /\ h.inputFiles = <<>> => Live(tasks[i]) = Live(r)
  BY <1>1, <1>4, LiveHead DEF TaskOf
<1>6. /\ tasks'[i] = IF after.status = "ok" THEN <<after>> \o r ELSE r
      /\ described'[i] = 0
  BY <1>2 DEF StageEnds, Typed, TypedGlobally
<1>7. Live(tasks'[i]) = IF after \in LiveTasks THEN <<after>> \o Live(r) ELSE Live(r)
  <2>1. CASE after.status = "ok"
    <3>1. after \in Tasks
      BY <1>5, <2>1, AfterStageIsTask
    <3> HIDE DEF after, r
    <3> QED
      BY <1>5, <1>6, <2>1, <3>1, SelectOfCons DEF Live
  <2>2. CASE after.status # "ok"
    <3>1. after \notin LiveTasks
      <4> HIDE DEF after
      <4> QED
        BY <2>2 DEF LiveTasks, Tasks
    <3> HIDE DEF after
    <3> QED
      BY <1>6, <2>2, <3>1
  <2> QED
    BY <2>1, <2>2
<1>8. (after \in LiveTasks <=> best \in LiveTasks) /\ (after \in LiveTasks => after = best)
  <2>1. CASE ok = TRUE
    BY <2>1
  <2>2. CASE AtStage(i, "commands")
    <3>1. Head(h.stages).process.type = "commands"
      BY <2>2 DEF AtStage, StageOf
    <3>2. after \notin LiveTasks /\ best \notin LiveTasks
      BY <1>5, <3>1, CommandsLeaveNothing
    <3> QED
      BY <3>2
  <2> QED
    BY <1>2, <2>1, <2>2
<1>9. h.inputFiles = <<>> => after \notin LiveTasks
  BY <1>5, DeadStaysDead
<1>10. AtOf(i)' = "tasks" /\ TasksLeft(i)' = Live(tasks'[i])
       /\ (i \in leaving)' = (i \in leaving)
  BY <1>1 DEF AtOf, TasksLeft
<1>11. /\ a.at = "tasks" /\ a.tasks = Live(tasks[i]) /\ a.leaving = (i \in leaving)
       /\ a.available = availableFiles[i] /\ a.asked = asked[i]
       /\ a.described = described[i] /\ a.timeStep = timeStep[i] /\ a.executed = x
  BY <1>1 DEF StateOf, AtOf, TasksLeft
<1>12. a = [at |-> "tasks", leaving |-> (i \in leaving), available |-> availableFiles[i],
            asked |-> asked[i], tasks |-> Live(tasks[i]), described |-> described[i],
            timeStep |-> timeStep[i], executed |-> x]
  BY <1>1 DEF StateOf, AtOf, TasksLeft
<1>13. StateOf(i, x)' =
        [at |-> "tasks", leaving |-> (i \in leaving), available |-> availableFiles[i],
         asked |-> asked[i], tasks |-> Live(tasks'[i]), described |-> 0,
         timeStep |-> timeStep[i], executed |-> x]
  BY <1>1, <1>6, <1>10 DEF StateOf
<1> HIDE DEF a, after, best, r
<1>14. CASE h.inputFiles = <<>>
  <2>1. Live(tasks'[i]) = Live(tasks[i])
    BY <1>5, <1>7, <1>9, <1>14
  <2>2. described[i] = 0
    <3>1. Len(InputOf(i)) = 0
      <4>1. InputOf(i) = <<>>
        BY <1>14, EmptyProducts DEF InputOf
      <4> QED
        BY <4>1
    <3> QED
      BY <1>4, <3>1
  <2>3. StateOf(i, x)' = a
    BY <1>12, <1>13, <2>1, <2>2
  <2> QED
    BY <1>3, <2>3 DEF Moves, a
<1>15. CASE h.inputFiles # <<>>
  <2>1. InputOfTask(h) = InputOf(i)
    BY DEF InputOfTask, InputOf, StageOf
  <2>2. Len(InputOf(i)) \in Nat
    BY <1>1, TaskProperties DEF Typed
  <2>3. ~Executes(a)
    <3> SUFFICES ASSUME Executes(a) PROVE FALSE
      OBVIOUS
    <3>1. AtStage(i, "catalyst") /\ described[i] < Len(InputOf(i))
      BY <1>1, <1>5, <1>11, <1>15, <2>1 DEF Executes, AtStage, StageOf
    <3> QED
      BY <1>1, <1>4, <2>2, <3>1
  <2>4. a.tasks # <<>> /\ Head(a.tasks) = h /\ Tail(a.tasks) = Live(r)
    BY <1>5, <1>11, <1>15
  <2>5. After(a, HandedOut) = AfterTask(a)
    BY <1>11, <2>3, <2>4 DEF After
  <2>6. AfterTask(a) =
        [at |-> "tasks", leaving |-> (i \in leaving), available |-> availableFiles[i],
         asked |-> asked[i],
         tasks |-> IF best \in LiveTasks THEN <<best>> \o Live(r) ELSE Live(r),
         described |-> 0, timeStep |-> timeStep[i], executed |-> x]
    BY <1>11, <2>4 DEF AfterTask, best
  <2>7. Live(tasks'[i]) = IF best \in LiveTasks THEN <<best>> \o Live(r) ELSE Live(r)
    BY <1>7, <1>8
  <2>8. StateOf(i, x)' = AfterTask(a)
    BY <1>13, <2>6, <2>7
  <2> QED
    BY <1>3, <2>5, <2>8 DEF Moves, a
<1> QED
  BY <1>14, <1>15

LEMMA EndPassMoves ==
    ASSUME Typed, NEW i \in Inporters, NEW x, Agrees(i, x), EndPass(i)
    PROVE  Moves(i, x)
<1> DEFINE a == StateOf(i, x)
           at == AfterPass(i)
<1>1. /\ pc[i] = "tasks"
      /\ tasks[i] = <<>>
      /\ timeStep' = [timeStep EXCEPT ![i] = timeStep[i] + 1]
      /\ pc' = [pc EXCEPT ![i] = at]
      /\ UNCHANGED <<removed, leaving, availableFiles, asked, tasks, described, executions>>
  BY DEF EndPass, NextTimeStep, descriptor
<1>2. Agrees(i, x)'
  BY <1>1, QuietAgrees
<1>3. /\ pc'[i] = at /\ timeStep'[i] = timeStep[i] + 1
  BY <1>1 DEF Typed, TypedGlobally
<1>4. at \in {"create", "main", "ended"}
  BY DEF AfterPass, Returned
<1>5. /\ AtOf(i)' = at /\ (i \in leaving)' = (i \in leaving)
      /\ TasksLeft(i)' = <<>>
  BY <1>1, <1>3, <1>4 DEF AtOf, TasksLeft
<1>6. /\ a.at = "tasks" /\ a.tasks = <<>> /\ a.leaving = (i \in leaving)
      /\ a.available = availableFiles[i] /\ a.asked = asked[i]
      /\ a.described = described[i] /\ a.timeStep = timeStep[i] /\ a.executed = x
  BY <1>1, LiveOfEmpty DEF StateOf, AtOf, TasksLeft
<1>7. Back(a) = Returned(i)
  BY <1>6 DEF Back, Returned
<1> HIDE DEF a
<1>8. After(a, HandedOut) = AfterAllTasks(a)
  BY <1>6 DEF After
<1>9. AfterAllTasks(a) =
        [at |-> at, leaving |-> (i \in leaving), available |-> availableFiles[i],
         asked |-> asked[i], tasks |-> <<>>, described |-> described[i],
         timeStep |-> timeStep[i] + 1, executed |-> x]
  BY <1>6, <1>7 DEF AfterAllTasks, AfterPass
<1> HIDE DEF at
<1>10. StateOf(i, x)' = AfterAllTasks(a)
  BY <1>1, <1>3, <1>5, <1>9 DEF StateOf
<1> QED
  BY <1>2, <1>8, <1>10 DEF Moves, a

-----------------------------------------------------------------------------
(* The steps of the others, the initial states and the result. *)

LEMMA InitFieldsRead == Init => FieldsRead
BY DEF Init, FieldsRead, FieldsReadAt

LEMMA AlwaysFieldsRead == Spec => []FieldsRead
<1>1. IInv /\ Typed /\ FieldsRead /\ [Next]_vars => FieldsRead'
  BY NextFieldsRead
<1> QED
  BY Invariance, AlwaysTyped, InitFieldsRead, <1>1, PTL DEF Spec

LEMMA InitLock == Init => Lock
<1> SUFFICES ASSUME Init PROVE Lock
  OBVIOUS
<1> DEFINE X == [i \in Inporters |-> <<>>]
<1>1. \A i \in Inporters : executions[i] = <<>> /\ X[i] = <<>>
  BY DEF Init
<1>2. IsSequence(<<>>)
  <2>1. <<>> \in Seq(ToSet(<<>>))
    OBVIOUS
  <2> QED
    BY <2>1, Zenon DEF IsSequence
<1>3. DOMAIN <<>> = {}
  OBVIOUS
<1>4. AgreesAll(X)
  BY <1>1, <1>2, <1>3, Zenon DEF AgreesAll, Agrees
<1> HIDE DEF X
<1>5. ASSUME NEW i \in Inporters, NEW j \in Inporters
      PROVE  StateOf(i, X[i]) = StateOf(j, X[j])
  <2>1. /\ AtOf(i) = "main" /\ AtOf(j) = "main"
        /\ TasksLeft(i) = <<>> /\ TasksLeft(j) = <<>>
        /\ (i \in leaving) = FALSE /\ (j \in leaving) = FALSE
    BY DEF Init, AtOf, TasksLeft
  <2>2. /\ availableFiles[i] = <<>> /\ availableFiles[j] = <<>>
        /\ asked[i] = 0 /\ asked[j] = 0
        /\ described[i] = 0 /\ described[j] = 0
        /\ timeStep[i] = 0 /\ timeStep[j] = 0
    BY DEF Init
  <2> QED
    BY <1>1, <2>1, <2>2 DEF StateOf
<1>6. InStepBy(X)
  BY <1>5, ReachesSelf DEF InStepBy, OneWay
<1> QED
  BY <1>4, <1>6 DEF Lock

(* All are in main, so none is ahead of another. *)
LEMMA DeliverLock ==
    ASSUME Typed, Lock, NEW batch, Deliver(batch)
    PROVE  Lock'
<1>1. PICK X : AgreesAll(X) /\ InStepBy(X)
  BY DEF Lock
<1>2. /\ \A i \in Inporters : pc[i] = "main"
      /\ availableFiles' = [i \in Inporters |-> availableFiles[i] \o batch]
      /\ pc' = [i \in Inporters |-> "create"]
      /\ UNCHANGED <<removed, leaving, timeStep, asked, tasks, described, executions>>
  BY DEF Deliver, descriptor
<1>3. ASSUME NEW i \in Inporters, NEW j \in Inporters
      PROVE  StateOf(i, X[i]) = StateOf(j, X[j])
  <2> DEFINE a == StateOf(i, X[i])
             b == StateOf(j, X[j])
  <2>1. a.at = "main" /\ b.at = "main"
    BY <1>2 DEF StateOf, AtOf
  <2>2. OneWay(a, b, HandedOut)
    BY <1>1 DEF InStepBy
  <2> HIDE DEF a, b
  <2>3. a = b
    BY <2>1, <2>2, ReachedGone DEF OneWay, Gone
  <2> QED
    BY <2>3 DEF a, b
<1>4. ASSUME NEW i \in Inporters, NEW j \in Inporters
      PROVE  StateOf(i, X[i])' = StateOf(j, X[j])'
  <2>1. /\ (i \in leaving) = (j \in leaving)
        /\ availableFiles[i] = availableFiles[j] /\ asked[i] = asked[j]
        /\ TasksLeft(i) = TasksLeft(j) /\ described[i] = described[j]
        /\ timeStep[i] = timeStep[j] /\ X[i] = X[j]
    BY <1>3 DEF StateOf
  <2>2. TasksLeft(i) = tasks[i] /\ TasksLeft(j) = tasks[j]
    BY <1>2 DEF TasksLeft
  <2>3. /\ AtOf(i)' = "create" /\ AtOf(j)' = "create"
        /\ TasksLeft(i)' = tasks[i] /\ TasksLeft(j)' = tasks[j]
        /\ (i \in leaving)' = (i \in leaving) /\ (j \in leaving)' = (j \in leaving)
        /\ availableFiles'[i] = availableFiles[i] \o batch
        /\ availableFiles'[j] = availableFiles[j] \o batch
    BY <1>2 DEF AtOf, TasksLeft
  <2> QED
    BY <1>2, <2>1, <2>2, <2>3 DEF StateOf
<1>5. InStepBy(X)'
  BY <1>4, ReachesSelf DEF InStepBy, OneWay
<1>6. AgreesAll(X)'
  BY <1>1, <1>2, QuietAgrees DEF AgreesAll
<1> QED
  BY <1>5, <1>6 DEF Lock

LEMMA QuietLock ==
    ASSUME Lock, \A i \in Inporters : StaysAt(i), removed \subseteq removed',
           deliveries' = deliveries
    PROVE  Lock'
<1>1. PICK X : AgreesAll(X) /\ InStepBy(X)
  BY DEF Lock
<1>2. \A i \in Inporters : StateOf(i, X[i])' = StateOf(i, X[i])
  BY StateStays
<1>3. HandedOut' = HandedOut
  BY DEF HandedOut
<1>4. InStepBy(X)'
  BY <1>1, <1>2, <1>3 DEF InStepBy
<1>5. AgreesAll(X)'
  BY <1>1, QuietAgrees DEF AgreesAll, StaysAt
<1> QED
  BY <1>4, <1>5 DEF Lock

LEMMA InporterLock ==
    ASSUME Typed, FieldsRead, DOMAIN executions = Inporters, Lock,
           NEW i \in Inporters, Works(i) \/ GiveAgain(i)
    PROVE  Lock'
<1>1. PICK X : AgreesAll(X) /\ InStepBy(X)
  BY DEF Lock
<1>2. Agrees(i, X[i])
  BY <1>1 DEF AgreesAll
<1>3. Moves(i, X[i])
  BY <1>2, GiveAgainMoves, CreateTaskMoves, TasksCreatedMoves, ReadingMoves, ExecuteMoves,
     ProcessNextMoves, EndPassMoves
  DEF Works
<1>4. \A j \in Inporters : j # i => StaysAt(j)
  BY OthersStay
<1>5. removed \subseteq removed' /\ deliveries' = deliveries
  BY NothingElseMoves DEF GiveAgain
<1> QED
  BY <1>1, <1>3, <1>4, <1>5, LockKept

(* An inporter in its last call does not come back to main from it. *)
NoneLeavingInMain == \A i \in Inporters : pc[i] = "main" => i \notin leaving

LEMMA NextNoneLeaving ==
    ASSUME Typed, NoneLeavingInMain, [Next]_vars
    PROVE  NoneLeavingInMain'
<1> SUFFICES ASSUME NEW j \in Inporters PROVE (pc[j] = "main" => j \notin leaving)'
  BY DEF NoneLeavingInMain
<1> USE DEF Typed, TypedGlobally, NoneLeavingInMain
<1>1. ASSUME NEW batch, Deliver(batch) PROVE pc'[j] # "main"
  BY <1>1 DEF Deliver
<1>2. ASSUME NEW i \in Inporters, GiveAgain(i)
      PROVE  (pc[j] = "main" => j \notin leaving)'
  BY <1>2 DEF GiveAgain
<1>3. ASSUME NEW i \in Inporters, TasksCreated(i) \/ EndPass(i)
      PROVE  (pc[j] = "main" => j \notin leaving)'
  BY <1>3 DEF TasksCreated, AfterCreation, EndPass, AfterPass, Returned
<1>4. ASSUME NEW i \in Inporters, CrashReading(i) \/ Crash(i) PROVE pc'[j] # "main"
  BY <1>4 DEF CrashReading, Crash
<1>5. ASSUME NEW i \in Inporters, MakeAdaptors(i) \/ Execute(i)
      PROVE  (pc[j] = "main" => j \notin leaving)'
  BY <1>5 DEF MakeAdaptors, Execute
<1>6. CASE UNCHANGED <<pc, leaving>>
  BY <1>6
<1> QED
  BY <1>1, <1>2, <1>3, <1>4, <1>5, <1>6
  DEF Next, vars, Process, RemoveFile, CreateTask, ReadFile, ProcessNext

LEMMA LockIsInStep ==
    ASSUME Typed, NoneLeavingInMain, Lock
    PROVE  CatalystInStep /\ SameFields
<1>1. PICK X : AgreesAll(X) /\ InStepBy(X)
  BY DEF Lock
<1>2. ASSUME NEW i \in Inporters
      PROVE  /\ IsSequence(X[i])
             /\ DOMAIN X[i] = DOMAIN executions[i]
             /\ \A n \in DOMAIN X[i] : Corresponds(X[i][n], executions[i][n])
             /\ StateOf(i, X[i]).executed = X[i]
             /\ Len(X[i]) = Len(executions[i]) /\ Len(X[i]) \in Nat
             /\ DOMAIN X[i] = 1..Len(X[i])
  <2>1. Agrees(i, X[i])
    BY <1>1 DEF AgreesAll
  <2>2. DOMAIN X[i] = 1..Len(X[i]) /\ DOMAIN executions[i] = 1..Len(executions[i])
    BY <2>1 DEF Agrees, IsSequence
  <2> QED
    BY <2>1, <2>2 DEF Agrees, StateOf
<1>3. ASSUME NEW i \in Inporters, NEW j \in Inporters,
             NEW n \in DOMAIN executions[i] \cap DOMAIN executions[j]
      PROVE  X[i][n] = X[j][n]
  <2>1. OneWay(StateOf(i, X[i]), StateOf(j, X[j]), HandedOut)
    BY <1>1 DEF InStepBy
  <2>2. Starts(X[i], X[j]) \/ Starts(X[j], X[i])
    BY <1>2, <2>1, ReachedExecuted DEF OneWay
  <2> QED
    BY <1>2, <2>2 DEF Starts
<1>4. ASSUME NEW i \in Inporters, NEW j \in Inporters,
             NEW n \in DOMAIN executions[i] \cap DOMAIN executions[j]
      PROVE  /\ SameCall(executions[i][n], executions[j][n])
             /\ executions[i][n].file \notin removed =>
                    DOMAIN executions[i][n].fields = DOMAIN executions[j][n].fields
  <2>1. /\ Corresponds(X[i][n], executions[i][n])
        /\ Corresponds(X[j][n], executions[j][n])
        /\ X[i][n] = X[j][n]
    BY <1>2, <1>3
  <2> QED
    BY <2>1 DEF Corresponds, SameCall
<1>5. ASSUME NEW i \in Inporters, NEW j \in Inporters, Begun(i) <= Finished(j)
      PROVE  Len(executions[i]) <= Len(executions[j])
  <2> DEFINE a == StateOf(i, X[i])
             b == StateOf(j, X[j])
  <2>1. /\ a.leaving = (i \in leaving) /\ b.leaving = (j \in leaving)
        /\ a.executed = X[i] /\ b.executed = X[j]
        /\ b.at = AtOf(j)
    BY DEF StateOf
  <2>2. OneWay(a, b, HandedOut)
    BY <1>1 DEF InStepBy
  <2>3. Len(deliveries) \in Nat
    BY DEF Typed, TypedGlobally
  <2>4. CASE Reaches(a, b, HandedOut)
    <3>1. Starts(X[i], X[j])
      BY <1>2, <2>1, <2>4, ReachedExecuted
    <3>2. /\ DOMAIN X[i] \subseteq DOMAIN X[j]
          /\ Len(X[i]) = Len(executions[i]) /\ Len(X[j]) = Len(executions[j])
          /\ DOMAIN X[i] = 1..Len(X[i]) /\ DOMAIN X[j] = 1..Len(X[j])
          /\ Len(X[i]) \in Nat /\ Len(X[j]) \in Nat
      BY <1>2, <3>1, Zenon DEF Starts
    <3>3. \A m, n \in Nat : 1..m \subseteq 1..n => m <= n
      OBVIOUS
    <3> QED
      BY <3>2, <3>3
  <2>5. CASE Reaches(b, a, HandedOut)
    <3>1. j \in leaving => i \in leaving
      <4> HIDE DEF a, b
      <4>1. b.leaving = TRUE => a.leaving = TRUE
        BY <2>5, ReachedLeaving
      <4> QED
        BY <2>1, <4>1
    <3>2. i \in leaving => j \in leaving
      BY <1>5, <2>3 DEF Begun, Finished
    <3>3. pc[j] \in {"main", "ended"}
      BY <1>5, <2>3, <3>1, <3>2 DEF Begun, Finished
    <3>4. ASSUME pc[j] = "ended" PROVE a = b
      <4>1. b.at = "ended"
        BY <2>1, <3>4 DEF AtOf
      <4> HIDE DEF a, b
      <4> QED
        BY <2>5, <4>1, ReachedLeaving
    <3>5. ASSUME pc[j] = "main" PROVE a = b
      <4>1. b.at = "main" /\ a.leaving # TRUE
        BY <2>1, <3>2, <3>5 DEF AtOf, NoneLeavingInMain
      <4> HIDE DEF a, b
      <4> QED
        BY <2>5, <4>1, ReachedGone DEF Gone
    <3>6. a = b
      BY <3>3, <3>4, <3>5
    <3> QED
      BY <1>2, <2>1, <3>6
  <2> QED
    BY <2>2, <2>4, <2>5 DEF OneWay
<1> QED
  BY <1>4, <1>5
  DEF CatalystInStep, CommonCallsAgree, NoCallMissing, SameFields

(* A crash ends all inporters where they are. *)
Crashed == Inporters # {} /\ \A i \in Inporters : pc[i] = "crashed"

InStep == CatalystInStep /\ SameFields

Together == NoneLeavingInMain /\ (Lock \/ (Crashed /\ InStep))

LEMMA CrashStepInStep ==
    ASSUME Typed, InStep, NEW i \in Inporters, CrashReading(i) \/ Crash(i)
    PROVE  Crashed' /\ InStep'
<1>1. /\ UNCHANGED <<executions, removed, leaving, deliveries>>
      /\ \A j \in Inporters : pc'[j] = "crashed"
  BY DEF CrashReading, Crash, history
<1>2. CommonCallsAgree' /\ SameFields'
  BY <1>1 DEF InStep, CatalystInStep, CommonCallsAgree, SameFields, SameCall
<1>3. ASSUME NEW j \in Inporters, NEW k \in Inporters, (Begun(j) <= Finished(k))'
      PROVE  Begun(j) <= Finished(k)
  <2>1. Begun(j)' = Begun(j) /\ Begun(k)' = Begun(k)
    BY <1>1 DEF Begun
  <2>2. Begun(j) \in Int /\ Begun(k) \in Int
    BY DEF Begun, Typed, TypedGlobally
  <2>3. Finished(k)' = Begun(k) - 1 /\ Finished(k) \in {Begun(k), Begun(k) - 1}
    BY <1>1, <2>1 DEF Finished
  <2> HIDE DEF Begun, Finished
  <2> QED
    BY <1>3, <2>1, <2>2, <2>3
<1>4. NoCallMissing'
  BY <1>1, <1>3 DEF InStep, CatalystInStep, NoCallMissing
<1> QED
  BY <1>1, <1>2, <1>4 DEF Crashed, InStep, CatalystInStep

LEMMA CrashedStays ==
    ASSUME Crashed, [Next]_vars
    PROVE  UNCHANGED vars
<1>1. PICK k \in Inporters : pc[k] = "crashed"
  BY DEF Crashed
<1>2. ~ \E batch \in Batches : Deliver(batch)
  BY <1>1 DEF Deliver
<1>3. ~ \E f \in Files : RemoveFile(f)
  BY DEF RemoveFile, Crashed, InProcess
<1>4. \A i \in Inporters : pc[i] = "crashed"
  BY DEF Crashed
<1>5. ASSUME NEW i \in Inporters PROVE ~GiveAgain(i) /\ ~Process(i)
  BY <1>4 DEF GiveAgain, Process, CreateTask, TasksCreated, MakeAdaptors, ReadFile,
     CrashReading, Execute, InExecute, ProcessNext, Crash, EndPass, AtStage
<1> QED
  BY <1>2, <1>3, <1>5 DEF Next

LEMMA SameCrashed ==
    ASSUME Crashed, InStep, UNCHANGED vars
    PROVE  Crashed' /\ InStep'
BY DEF Crashed, InStep, CatalystInStep, CommonCallsAgree, NoCallMissing, Begun, Finished,
   SameFields, SameCall, vars, history

LEMMA NextTogether ==
    ASSUME IInv, Typed, FieldsRead, Together, [Next]_vars
    PROVE  Together'
<1>0. NoneLeavingInMain'
  BY NextNoneLeaving DEF Together
<1>1. CASE Crashed /\ InStep
  BY <1>0, <1>1, CrashedStays, SameCrashed DEF Together
<1>2. CASE Lock
  <2>0. DOMAIN executions = Inporters
    BY DEF IInv, Types
  <2>1. ASSUME NEW batch \in Batches, Deliver(batch) PROVE Lock'
    BY <1>2, <2>1, DeliverLock
  <2>2. ASSUME NEW f \in Files, RemoveFile(f) PROVE Lock'
    <3>1. \A i \in Inporters : StaysAt(i)
      BY <2>2 DEF RemoveFile, StaysAt, SameAt, descriptor, history
    <3>2. removed \subseteq removed' /\ deliveries' = deliveries
      BY <2>2 DEF RemoveFile
    <3> QED
      BY <1>2, <3>1, <3>2, QuietLock
  <2>3. ASSUME UNCHANGED vars PROVE Lock'
    <3>1. \A i \in Inporters : StaysAt(i)
      BY <2>3 DEF vars, StaysAt, SameAt, descriptor, history
    <3>2. removed \subseteq removed' /\ deliveries' = deliveries
      BY <2>3 DEF vars
    <3> QED
      BY <1>2, <3>1, <3>2, QuietLock
  <2>4. ASSUME NEW i \in Inporters, Works(i) \/ GiveAgain(i) PROVE Lock'
    BY <1>2, <2>0, <2>4, InporterLock
  <2>5. ASSUME NEW i \in Inporters, CrashReading(i) \/ Crash(i) PROVE Crashed' /\ InStep'
    <3>1. InStep
      BY <1>2, LockIsInStep DEF InStep, Together
    <3> QED
      BY <2>5, <3>1, CrashStepInStep
  <2> QED
    BY <1>0, <2>1, <2>2, <2>3, <2>4, <2>5 DEF Next, Process, Works, Together
<1> QED
  BY <1>1, <1>2 DEF Together

LEMMA AlwaysTogether == Spec => []Together
<1>1. Init => Together
  BY InitLock DEF Together, NoneLeavingInMain, Init
<1>2. IInv /\ Typed /\ FieldsRead /\ Together /\ [Next]_vars => Together'
  BY NextTogether
<1> QED
  BY Invariance, AlwaysTyped, AlwaysFieldsRead, <1>1, <1>2, PTL DEF Spec

(* The n-th catalyst_execute calls of two inporters are for the same file  *)
(* and timestep, and an inporter that returned from as many calls of       *)
(* process as another began has made all its calls: what of process        *)
(* depends on the files and on the results of commands                     *)
(* (pipeline_ProcessNext, the adaptors) never decides which files a        *)
(* Catalyst stage executes, so that each inporter goes through the same    *)
(* states as the others.  An inporter that leaves begins one call more.    *)
THEOREM CallsInStep == Spec => []CatalystInStep
<1>1. Typed /\ Together => CatalystInStep
  BY LockIsInStep DEF Together, InStep
<1> QED
  BY AlwaysTyped, AlwaysTogether, <1>1, PTL

(* ... and they describe the same fields to these calls, whatever section  *)
(* of the file each of them reads, unless the file was removed.            *)
THEOREM FieldsInStep == Spec => []SameFields
<1>1. Typed /\ Together => SameFields
  BY LockIsInStep DEF Together, InStep
<1> QED
  BY AlwaysTyped, AlwaysTogether, <1>1, PTL

-----------------------------------------------------------------------------
(* The parts of the NetCDF files.  A field has the layers of the section   *)
(* of the inporter that reads it, or none if its variable is not in the    *)
(* file or the file is gone.                                               *)

Section(f, i) == Extent(Layers[f], SectionSize, SectionIndex(i))

PartsOf(d, f, i) ==
    Format[f] = "netcdf" =>
        \A name \in DOMAIN d.fields :
            /\ d.fields[name].part \in {{}, Section(f, i)}
            /\ f \notin removed /\ name \in Arrays[f] => d.fields[name].part = Section(f, i)

ExecutedParts(i) ==
    \A n \in DOMAIN executions[i] :
        LET e == executions[i][n] IN e.file \in Files /\ PartsOf(e, e.file, i)

DescribedParts(i) ==
    pc[i] = "read" =>
        /\ PartsOf(description[i], DescribedBy(i), i)
        /\ \A a \in ToSet(adaptors[i]) : ReadsBy(a, Format[DescribedBy(i)])

PartsAt(i) == ExecutedParts(i) /\ DescribedParts(i)

PartsRead == \A i \in Inporters : PartsAt(i)

LEMMA InitPartsRead == Init => PartsRead
<1> SUFFICES ASSUME Init, NEW i \in Inporters PROVE PartsAt(i)
  BY DEF PartsRead
<1>1. pc[i] = "main" /\ executions[i] = <<>>
  BY DEF Init
<1> QED
  BY <1>1 DEF PartsAt, ExecutedParts, DescribedParts

LEMMA SamePartsOf ==
    ASSUME NEW d, NEW f, NEW i, PartsOf(d, f, i), removed \subseteq removed'
    PROVE  PartsOf(d, f, i)'
BY DEF PartsOf, Section

LEMMA SameExecutedParts ==
    ASSUME NEW i, ExecutedParts(i), executions'[i] = executions[i], removed \subseteq removed'
    PROVE  ExecutedParts(i)'
BY SamePartsOf DEF ExecutedParts

LEMMA SamePartsAt ==
    ASSUME NEW i, PartsAt(i), StaysAt(i), removed \subseteq removed'
    PROVE  PartsAt(i)'
<1>1. ExecutedParts(i)'
  BY SameExecutedParts DEF PartsAt, StaysAt
<1>2. /\ pc'[i] = pc[i] /\ description'[i] = description[i] /\ adaptors'[i] = adaptors[i]
      /\ DescribedBy(i)' = DescribedBy(i)
  BY DEF StaysAt, SameAt, DescribedBy, InputOf, StageOf, TaskOf
<1>3. DescribedParts(i)'
  BY <1>2, SamePartsOf DEF PartsAt, DescribedParts
<1> QED
  BY <1>1, <1>3 DEF PartsAt

(* A file of the stage is described. *)
LEMMA DescribedIsFile ==
    ASSUME NEW i, TypedAt(i), OnCatalyst(i), described[i] < Len(InputOf(i))
    PROVE  DescribedBy(i) \in Files /\ ProcessAssumption(StageOf(i).process)
<1>1. /\ InputOf(i) \in Seq(Files) /\ Len(InputOf(i)) \in Nat
      /\ ProcessAssumption(StageOf(i).process)
  BY TaskProperties DEF OnCatalyst
<1>2. described[i] \in Nat
  BY DEF TypedAt
<1> QED
  BY <1>1, <1>2 DEF DescribedBy

LEMMA MakeAdaptorsParts ==
    ASSUME Typed, NEW i \in Inporters, PartsAt(i), MakeAdaptors(i)
    PROVE  PartsAt(i)'
<1>0. PICK f : f = DescribedBy(i)
  OBVIOUS
<1> DEFINE scripts == StageOf(i).process.scripts
<1>1. /\ AtStage(i, "catalyst") /\ described[i] < Len(InputOf(i))
      /\ adaptors'[i] = IF f \in removed THEN <<>> ELSE AdaptorsFor(scripts, f)
      /\ description'[i] = NoData
      /\ UNCHANGED <<removed, tasks, described, executions>>
  BY <1>0 DEF MakeAdaptors, Typed, TypedGlobally, history
<1>2. ExecutedParts(i)'
  BY <1>1, SameExecutedParts DEF PartsAt
<1>3. DescribedBy(i)' = f
  BY <1>0, <1>1 DEF DescribedBy, InputOf, StageOf, TaskOf
<1>4. PartsOf(description[i], f, i)'
  BY <1>1 DEF PartsOf, NoData
<1>5. \A a \in ToSet(adaptors'[i]) : ReadsBy(a, Format[f])
  <2>1. OnCatalyst(i) /\ TypedAt(i)
    BY <1>1 DEF AtStage, OnCatalyst, Typed
  <2>2. f \in Files /\ ProcessAssumption(StageOf(i).process)
    BY <1>0, <1>1, <2>1, DescribedIsFile
  <2>3. StageOf(i).process.type = "catalyst"
    BY <2>1 DEF OnCatalyst
  <2>4. \A a \in ToSet(AdaptorsFor(scripts, f)) : ReadsBy(a, Format[f])
    BY <2>2, <2>3, AdaptorsForProperties
  <2> QED
    BY <1>1, <2>4, ToSetOfEmpty
<1> QED
  BY <1>2, <1>3, <1>4, <1>5 DEF PartsAt, DescribedParts

LEMMA CoprocessedParts ==
    ASSUME NEW d, NEW f, NEW i, PartsOf(d, f, i), NEW arrays, NEW part,
           Format[f] = "netcdf" => part \in {{}, Section(f, i)},
           \A name \in arrays :
                Format[f] = "netcdf" /\ f \notin removed /\ name \in Arrays[f]
                    => part = Section(f, i)
    PROVE  PartsOf(Coprocessed(d, arrays, part), f, i)
<1> DEFINE c == Coprocessed(d, arrays, part)
<1>1. /\ DOMAIN c.fields = arrays \cup DOMAIN d.fields
      /\ \A name \in DOMAIN c.fields :
            /\ name \in arrays => c.fields[name].part = part
            /\ name \notin arrays => c.fields[name] = d.fields[name]
  BY DEF Coprocessed
<1> HIDE DEF c
<1>2. PartsOf(c, f, i)
  BY <1>1 DEF PartsOf
<1> QED
  BY <1>2 DEF c

LEMMA DescribedPartsOf ==
    ASSUME NEW d, NEW f, NEW i, PartsOf(d, f, i), NEW adaptor, ReadsBy(adaptor, Format[f])
    PROVE  PartsOf(Described(d, adaptor, f, i, f \in removed), f, i)
<1> DEFINE gone == f \in removed
           arrays == IF adaptor.reader = "netcdf" THEN adaptor.arrays ELSE {}
           layers == LayersRead(adaptor.reader, f, i)
<1>1. CASE gone \/ Undetermined(adaptor, f, gone)
  <2>1. Described(d, adaptor, f, i, gone) = Coprocessed(d, arrays, {})
    BY <1>1 DEF Described, ReadNothing
  <2>2. ASSUME NEW name \in arrays, Format[f] = "netcdf", f \notin removed, name \in Arrays[f]
        PROVE  FALSE
    BY <1>1, <2>2 DEF Undetermined, ReadsBy
  <2>3. PartsOf(Coprocessed(d, arrays, {}), f, i)
    BY <2>2, CoprocessedParts
  <2> QED
    BY <2>1, <2>3
<1>2. CASE ~(gone \/ Undetermined(adaptor, f, gone))
  <2>1. Described(d, adaptor, f, i, gone) = Coprocessed(d, adaptor.arrays, layers)
    BY <1>2 DEF Described, ReadPart
  <2>2. Format[f] = "netcdf" => layers = Section(f, i)
    BY DEF LayersRead, Section, ReadsBy
  <2> HIDE DEF layers
  <2>3. PartsOf(Coprocessed(d, adaptor.arrays, layers), f, i)
    BY <2>2, CoprocessedParts
  <2> QED
    BY <2>1, <2>3
<1> QED
  BY <1>1, <1>2

LEMMA ReadFileParts ==
    ASSUME Typed, NEW i \in Inporters, PartsAt(i), ReadFile(i)
    PROVE  PartsAt(i)'
<1>0. PICK f : f = DescribedBy(i)
  OBVIOUS
<1> DEFINE first == Head(adaptors[i])
           read == Described(description[i], first, f, i, f \in removed)
<1>1. /\ pc[i] = "read" /\ adaptors[i] # <<>>
      /\ UNCHANGED <<removed, tasks, described, executions>>
  BY DEF ReadFile, history
<1>2. ExecutedParts(i)'
  BY <1>1, SameExecutedParts DEF PartsAt
<1>3. DescribedBy(i)' = f
  BY <1>0, <1>1 DEF DescribedBy, InputOf, StageOf, TaskOf
<1>4. /\ description'[i] \in {description[i], read}
      /\ adaptors'[i] \in {<<>>, Tail(adaptors[i])}
  BY <1>0 DEF ReadFile, Typed, TypedGlobally
<1>5. /\ PartsOf(description[i], f, i)
      /\ \A a \in ToSet(adaptors[i]) : ReadsBy(a, Format[f])
  BY <1>0, <1>1 DEF PartsAt, DescribedParts
<1>6. ToSet(adaptors[i]) = {first} \cup ToSet(Tail(adaptors[i]))
  <2>1. adaptors[i] \in Seq(ToSet(adaptors[i]))
    BY DEF Typed, TypedAt
  <2> QED
    BY <1>1, <2>1, ToSetOfTail
<1>7. PartsOf(read, f, i)
  BY <1>5, <1>6, DescribedPartsOf
<1>8. PartsOf(description'[i], f, i)
  BY <1>4, <1>5, <1>7
<1>9. PartsOf(description[i], f, i)'
  BY <1>1, <1>3, <1>8 DEF PartsOf, Section
<1>10. \A a \in ToSet(adaptors'[i]) : ReadsBy(a, Format[f])
  BY <1>4, <1>5, <1>6, ToSetOfEmpty
<1> QED
  BY <1>2, <1>3, <1>9, <1>10 DEF PartsAt, DescribedParts

LEMMA ExecuteParts ==
    ASSUME Typed, DOMAIN executions = Inporters, NEW i \in Inporters,
           IsSequence(executions[i]), PartsAt(i), Execute(i)
    PROVE  PartsAt(i)'
<1> DEFINE e == Execution(i)
           f == DescribedBy(i)
<1>1. /\ pc[i] = "read"
      /\ executions' = [executions EXCEPT ![i] = Append(@, e)]
      /\ pc' = [pc EXCEPT ![i] = "tasks"]
      /\ removed' = removed
  BY DEF Execute, InExecute
<1>2. f \in Files
  <2>1. TypedAt(i) /\ OnCatalyst(i) /\ described[i] < Len(InputOf(i))
    BY <1>1 DEF Typed, TypedAt
  <2> QED
    BY <2>1, DescribedIsFile
<1>3. PartsOf(description[i], f, i)
  BY <1>1 DEF PartsAt, DescribedParts
<1>4. e.file = f /\ e.fields = description[i].fields
  BY DEF Execution
<1> HIDE DEF e, f
<1>5. e.file \in Files /\ PartsOf(e, e.file, i)
  BY <1>2, <1>3, <1>4 DEF PartsOf
<1>6. pc'[i] = "tasks" /\ executions'[i] = Append(executions[i], e)
  BY <1>1 DEF Typed, TypedGlobally
<1>7. /\ DOMAIN executions'[i] = DOMAIN executions[i] \cup {Len(executions[i]) + 1}
      /\ \A n \in DOMAIN executions[i] : executions'[i][n] = executions[i][n]
      /\ executions'[i][Len(executions[i]) + 1] = e
  BY <1>6, AppendIsSequence DEF IsSequence
<1>8. \A n \in DOMAIN executions'[i] :
        /\ executions'[i][n].file \in Files
        /\ PartsOf(executions'[i][n], executions'[i][n].file, i)
  BY <1>5, <1>7 DEF PartsAt, ExecutedParts
<1>9. ExecutedParts(i)'
  BY <1>1, <1>8, SamePartsOf DEF ExecutedParts
<1> QED
  BY <1>6, <1>9 DEF PartsAt, DescribedParts

LEMMA QuietParts ==
    ASSUME Typed, NEW i \in Inporters, PartsAt(i),
           GiveAgain(i) \/ CreateTask(i) \/ TasksCreated(i) \/ ProcessNext(i) \/ EndPass(i)
    PROVE  PartsAt(i)'
<1>1. UNCHANGED <<removed, executions>>
  BY DEF GiveAgain, CreateTask, TasksCreated, ProcessNext, EndPass, history
<1>2. pc'[i] # "read"
  <2>1. GiveAgain(i) => pc'[i] = "create"
    BY DEF GiveAgain, Typed, TypedGlobally
  <2>2. CreateTask(i) => pc'[i] = "create"
    BY DEF CreateTask
  <2>3. TasksCreated(i) => pc'[i] \in {"tasks", "main", "ended"}
    BY DEF TasksCreated, AfterCreation, Returned, Typed, TypedGlobally
  <2>4. ProcessNext(i) => pc'[i] = "tasks"
    BY DEF ProcessNext
  <2>5. EndPass(i) => pc'[i] \in {"create", "main", "ended"}
    BY DEF EndPass, AfterPass, Returned, Typed, TypedGlobally
  <2> QED
    BY <2>1, <2>2, <2>3, <2>4, <2>5
<1> QED
  BY <1>1, <1>2, SameExecutedParts DEF PartsAt, DescribedParts

LEMMA NextPartsRead ==
    ASSUME IInv, Typed, PartsRead, [Next]_vars
    PROVE  PartsRead'
<1>0. /\ DOMAIN executions = Inporters
      /\ \A i \in Inporters : IsSequence(executions[i]) /\ PartsAt(i)
  BY DEF IInv, Types, IsSequence, PartsRead
<1>1. ASSUME UNCHANGED executions, removed \subseteq removed',
             \A i \in Inporters : pc'[i] # "read"
      PROVE  PartsRead'
  BY <1>0, <1>1, SameExecutedParts DEF PartsRead, PartsAt, DescribedParts
<1>2. ASSUME NEW batch \in Batches, Deliver(batch) PROVE PartsRead'
  BY <1>1, <1>2 DEF Deliver
<1>3. ASSUME NEW i \in Inporters, CrashReading(i) \/ Crash(i) PROVE PartsRead'
  BY <1>1, <1>3 DEF CrashReading, Crash, history
<1>4. ASSUME (\E f \in Files : RemoveFile(f)) \/ UNCHANGED vars PROVE PartsRead'
  <2>1. removed \subseteq removed' /\ \A i \in Inporters : StaysAt(i)
    BY <1>4 DEF RemoveFile, vars, StaysAt, SameAt, descriptor, history
  <2> QED
    BY <1>0, <2>1, SamePartsAt DEF PartsRead
<1>5. ASSUME NEW i \in Inporters, Works(i) \/ GiveAgain(i) PROVE PartsRead'
  <2>1. PartsAt(i)'
    BY <1>0, <1>5, QuietParts, MakeAdaptorsParts, ReadFileParts, ExecuteParts DEF Works
  <2>2. \A j \in Inporters : j # i => StaysAt(j)
    BY <1>0, <1>5, OthersStay
  <2>3. removed \subseteq removed'
    BY <1>5, NothingElseMoves DEF GiveAgain
  <2> QED
    BY <1>0, <2>1, <2>2, <2>3, SamePartsAt DEF PartsRead
<1> QED
  BY <1>2, <1>3, <1>4, <1>5 DEF Next, Process, Works

LEMMA AlwaysPartsRead == Spec => []PartsRead
<1>1. IInv /\ Typed /\ PartsRead /\ [Next]_vars => PartsRead'
  BY NextPartsRead
<1> QED
  BY Invariance, AlwaysTyped, InitPartsRead, <1>1, PTL DEF Spec

(* The sections of the inporters that made the call do not overlap, and    *)
(* together they are the file.                                             *)
LEMMA PartsCover ==
    ASSUME DOMAIN executions = Inporters, PartsRead, CatalystInStep, SameFields
    PROVE  PartsCoverFile
<1> SUFFICES ASSUME NEW i \in Inporters, NEW n \in DOMAIN executions[i],
                    Format[executions[i][n].file] = "netcdf",
                    NEW name \in DOMAIN executions[i][n].fields \cap Arrays[executions[i][n].file],
                    NEW layer \in 0..(Layers[executions[i][n].file] - 1)
             PROVE  /\ Cardinality(Describers(n, name, layer)) <= 1
                    /\ executions[i][n].file \notin removed
                       /\ (\A j \in Inporters : n \in DOMAIN executions[j])
                            => Cardinality(Describers(n, name, layer)) = 1
  BY DEF PartsCoverFile
<1>1. PICK f : f = executions[i][n].file
  OBVIOUS
<1> DEFINE who == Describers(n, name, layer)
<1>2. f \in Files /\ Layers[f] \in Nat
  <2>1. f \in Files
    BY <1>1 DEF PartsRead, PartsAt, ExecutedParts
  <2>2. DOMAIN Format = Files
    BY Bounds
  <2>3. Layers \in [DOMAIN Format -> Nat]
    BY AdaptorsAssumption, Zenon
  <2> QED
    BY <2>1, <2>2, <2>3
<1>3. ASSUME NEW j \in Inporters, n \in DOMAIN executions[j]
      PROVE  executions[j][n].file = f /\ PartsOf(executions[j][n], f, j)
  <2>1. executions[j][n].file = f
    BY <1>1, <1>3 DEF CatalystInStep, CommonCallsAgree, SameCall
  <2>2. PartsOf(executions[j][n], executions[j][n].file, j)
    BY <1>3 DEF PartsRead, PartsAt, ExecutedParts
  <2> QED
    BY <2>1, <2>2
<1>4. PICK r \in Inporters :
        layer \in Section(f, r) /\ \A s \in Inporters \ {r} : layer \notin Section(f, s)
  BY <1>1, <1>2, LayersReadOnce DEF Section
<1>5. who \subseteq {r}
  <2> SUFFICES ASSUME NEW j \in who PROVE layer \in Section(f, j) /\ j \in Inporters
    BY <1>4
  <2>1. /\ j \in Inporters /\ n \in DOMAIN executions[j]
        /\ name \in DOMAIN executions[j][n].fields
        /\ layer \in executions[j][n].fields[name].part
    BY DEF Describers
  <2>2. executions[j][n].fields[name].part \in {{}, Section(f, j)}
    BY <1>1, <1>3, <2>1 DEF PartsOf
  <2> QED
    BY <2>1, <2>2
<1>6. ASSUME f \notin removed, \A j \in Inporters : n \in DOMAIN executions[j]
      PROVE  r \in who
  <2>1. n \in DOMAIN executions[r] /\ n \in DOMAIN executions[i]
    BY <1>6
  <2>2. DOMAIN executions[r][n].fields = DOMAIN executions[i][n].fields
    BY <1>1, <1>6, <2>1 DEF SameFields
  <2>3. executions[r][n].fields[name].part = Section(f, r)
    BY <1>1, <1>3, <1>6, <2>1, <2>2 DEF PartsOf
  <2> QED
    BY <1>4, <2>1, <2>2, <2>3 DEF Describers
<1> HIDE DEF who
<1>7. Cardinality({}) = 0 /\ Cardinality({r}) = 1
  BY FS_EmptySet, FS_Singleton
<1>8. Cardinality(who) <= 1
  <2>1. who = {} \/ who = {r}
    BY <1>5
  <2> QED
    BY <1>7, <2>1
<1>9. f \notin removed /\ (\A j \in Inporters : n \in DOMAIN executions[j])
        => Cardinality(who) = 1
  <2> SUFFICES ASSUME f \notin removed, \A j \in Inporters : n \in DOMAIN executions[j]
               PROVE  Cardinality(who) = 1
    OBVIOUS
  <2>1. who = {r}
    BY <1>5, <1>6
  <2> QED
    BY <1>7, <2>1
<1> QED
  BY <1>1, <1>8, <1>9 DEF who

(* The inporters together describe a NetCDF file once: no layer of a       *)
(* variable is in the fields of two of them in the same call               *)
(* (Adaptor::getExtent, the sections of Application), and if all have made *)
(* it and the file is still there, each layer is in those of one.          *)
THEOREM FileCovered == Spec => []PartsCoverFile
<1>1. IInv => DOMAIN executions = Inporters
  BY DEF IInv, Types
<1>2. IInv /\ PartsRead /\ CatalystInStep /\ SameFields => PartsCoverFile
  BY <1>1, PartsCover
<1> QED
  BY Invariance, AlwaysPartsRead, CallsInStep, FieldsInStep, <1>2, PTL
=============================================================================
