------------------------------- MODULE Rounds -------------------------------
(***************************************************************************)
(* The main loop of inshimtu.cxx on every rank, with Coordinator::update   *)
(* taken apart into what the ranks really exchange: two collectives that   *)
(* open a round (getTotalFiles, isDone), the messages that carry each new  *)
(* file to the root, the broadcast of the ready files to the inporters and *)
(* the closing barrier.  Ranks run at their own pace between these.        *)
(*                                                                         *)
(* A collective over MPI_COMM_WORLD is one joint action of all ranks: none *)
(* leaves it before all have entered, and what a rank does next is a step  *)
(* of its own.  A rank that has left main never enters a collective again. *)
(***************************************************************************)
EXTENDS FilesInfo, Sequences, FiniteSets

CONSTANTS
    Inporters,      \* MPICatalystApplication: the ranks with an inporter
    SendBuffer,     \* how many messages MPI_Send may leave in transit per rank
    MaxDoneTime,    \* bound on how often the done file is touched
    MaxRewrites     \* bound on how often files are written again

ASSUME RoundsAssumption ==
    /\ IsFiniteSet(Ranks)
    /\ IsFiniteSet(Files)
    /\ Inporters \subseteq Ranks
    /\ SendBuffer \in Nat
    /\ MaxDoneTime \in Nat
    /\ MaxRewrites \in Nat

VARIABLES
    \* the simulation and the file system
    disk,           \* the files in the watched directory
    rewrites,       \* how often a file was written again
    doneTime,       \* modification time of the done file
    \* the notifier of each rank
    known,          \* PollingNotify::known_files
    lastDoneTime,   \* checkDone's static last_done_time
    doneFlag,       \* Notify::isDone
    \* main on each rank
    pc,             \* where the rank is
    newfiles,       \* files to report in this round
    isFinished,     \* main's isFinished
    readyFiles,     \* Coordinator::readyFiles
    \* the round in progress
    ftype,          \* the root's FileNotificationType
    total,          \* the sum every rank got from getTotalFiles
    doneGlobal,     \* the maximum every rank got from isDone
    unsent,         \* newfiles the rank has still to send
    channel,        \* messages sent to the root: <<rank, file>>
    received,       \* what the root has gathered, by rank
    remaining,      \* messages the root still expects
    broadcasts,     \* ready files on their way to each inporter
    \* the coordinator on the root
    filesInfo, writers, collectTick,
    \* history
    preexisting,    \* the files found before monitoring started
    delivered,      \* every file the root has handed out
    processed       \* the files each inporter has processed

world == <<disk, rewrites, doneTime>>
notifier == <<known, lastDoneTime, doneFlag>>
exchange == <<unsent, channel, received, remaining>>
coordinator == <<filesInfo, writers, collectTick>>
vars == <<world, notifier, pc, newfiles, isFinished, readyFiles, ftype, total,
          doneGlobal, exchange, broadcasts, coordinator, preexisting, delivered,
          processed>>

NoTime == -1    \* last_done_time before the first call of checkDone

Others == Ranks \ {Root}

(* Any files may exist at the start, and the root may be given some of     *)
(* them as initial files.  A notifier may be done from the start: a plain  *)
(* Notify always is, a PollingNotify is if it found no done file.          *)
Init ==
    /\ \E n \in {0} \cup Files : disk = {f \in Files : f <= n}
    /\ preexisting = disk
    /\ rewrites = 0
    /\ doneTime = 0
    /\ known = [r \in Ranks |-> disk]
    /\ lastDoneTime = [r \in Ranks |-> NoTime]
    /\ doneFlag \in [Ranks -> BOOLEAN]
    /\ pc = [r \in Ranks |-> "update"]
    /\ \E initial \in SUBSET disk :
          newfiles = [r \in Ranks |-> IF r = Root THEN initial ELSE {}]
    /\ isFinished = [r \in Ranks |-> FALSE]
    /\ readyFiles = [r \in Ranks |-> {}]
    /\ ftype = "InitialFiles"
    /\ total = 0
    /\ doneGlobal = FALSE
    /\ unsent = [r \in Ranks |-> {}]
    /\ channel = {}
    /\ received = [r \in Ranks |-> {}]
    /\ remaining = 0
    /\ broadcasts = [r \in Ranks |-> <<>>]
    /\ filesInfo = [f \in {} |-> NewFileInfo]
    /\ writers = {}
    /\ collectTick = 0
    /\ delivered = {}
    /\ processed = [r \in Ranks |-> {}]

Goto(r, label) == pc' = [pc EXCEPT ![r] = label]

AllAt(label) == \A r \in Ranks : pc[r] = label

-----------------------------------------------------------------------------
(* The simulation: it writes its files in name order and touches the done  *)
(* file when it is over.                                                   *)

WriteFile ==
    /\ doneTime = 0
    /\ \E f \in Files \ disk :
          /\ \A g \in Files : g < f => g \in disk
          /\ disk' = disk \cup {f}
    /\ UNCHANGED <<rewrites, doneTime, notifier, pc, newfiles, isFinished, readyFiles, ftype,
                   total, doneGlobal, exchange, broadcasts, coordinator,
                   preexisting, delivered, processed>>

(* It writes a file again that was handed out: every rank finds it changed,*)
(* each in its own time.  (Repeated reports of files that were not handed  *)
(* out are left to Coordinator, where a rank reports any files.)           *)
RewriteFile ==
    /\ doneTime = 0
    /\ rewrites < MaxRewrites
    /\ rewrites' = rewrites + 1
    /\ \E f \in delivered : known' = [r \in Ranks |-> known[r] \ {f}]
    /\ UNCHANGED <<disk, doneTime, lastDoneTime, doneFlag, pc, newfiles, isFinished,
                   readyFiles, ftype, total, doneGlobal, exchange, broadcasts,
                   coordinator, preexisting, delivered, processed>>

TouchDone ==
    /\ doneTime < MaxDoneTime
    /\ doneTime' = doneTime + 1
    /\ UNCHANGED <<disk, rewrites, notifier, pc, newfiles, isFinished, readyFiles, ftype,
                   total, doneGlobal, exchange, broadcasts, coordinator,
                   preexisting, delivered, processed>>

-----------------------------------------------------------------------------
(* notify->processEvents on rank r: the scan of the watched directory, and *)
(* later the look at the done file.  main then leaves the loop without a   *)
(* call of update if the notifier is done.                                 *)

Scan(r) ==
    /\ pc[r] = "poll"
    /\ newfiles' = [newfiles EXCEPT ![r] = disk \ known[r]]
    /\ known' = [known EXCEPT ![r] = disk]
    /\ Goto(r, "checkDone")
    /\ UNCHANGED <<world, lastDoneTime, doneFlag, isFinished, readyFiles, ftype,
                   total, doneGlobal, exchange, broadcasts, coordinator,
                   preexisting, delivered, processed>>

DoneOrUpdate(done) == IF done THEN "process" ELSE "update"

CheckDone(r) ==
    /\ pc[r] = "checkDone"
    /\ lastDoneTime' = [lastDoneTime EXCEPT ![r] = IF @ = NoTime THEN doneTime ELSE @]
    /\ doneFlag' = [doneFlag EXCEPT ![r] = doneTime > lastDoneTime'[r]]
    /\ isFinished' = [isFinished EXCEPT ![r] = doneFlag'[r]]
    /\ Goto(r, DoneOrUpdate(doneFlag'[r]))
    /\ UNCHANGED <<world, known, newfiles, readyFiles, ftype, total, doneGlobal,
                   exchange, broadcasts, coordinator, preexisting, delivered,
                   processed>>

-----------------------------------------------------------------------------
(* Coordinator::update.                                                    *)

(* getTotalFiles: barrier and sum over all ranks. *)
TotalOfOthers == Cardinality({m \in Others \X Files : m[2] \in newfiles[m[1]]}) \* mutant

LargestTotal == \* mutant
    CHOOSE n \in {Cardinality(newfiles[r]) : r \in Ranks} :
        \A r \in Ranks : Cardinality(newfiles[r]) <= n

TotalGlobal == Cardinality({m \in Ranks \X Files : m[2] \in newfiles[m[1]]})

GetTotalFiles ==
    /\ AllAt("update")
    /\ total' = TotalGlobal
    /\ pc' = [r \in Ranks |-> "isDone"]
    /\ UNCHANGED <<world, notifier, newfiles, isFinished, readyFiles, ftype,
                   doneGlobal, exchange, broadcasts, coordinator, preexisting,
                   delivered, processed>>

(* isDone: barrier and maximum over all ranks. *)
IsDone ==
    /\ AllAt("isDone")
    /\ doneGlobal' = \E r \in Ranks : doneFlag[r]
    /\ pc' = [r \in Ranks |-> "updateProcessed"]
    /\ UNCHANGED <<world, notifier, newfiles, isFinished, readyFiles, ftype, total,
                   exchange, broadcasts, coordinator, preexisting, delivered,
                   processed>>

(* readyFiles.clear(), on every rank. *)
ClearedAtRootOnly(r) == IF r = Root THEN [readyFiles EXCEPT ![r] = {}] ELSE readyFiles \* mutant

Cleared(r) == [readyFiles EXCEPT ![r] = {}]

(* total_global_remaining: the root sends no message to itself. *)
ExpectedOwnToo == total \* mutant

Expected == total - Cardinality(newfiles[Root])

(* update_updateProcessedFiles, then the early return or the beginning of  *)
(* update_gatherNewFiles: the root counts its own files first.             *)
UpdateProcessed(r) ==
    /\ pc[r] = "updateProcessed"
    /\ readyFiles' = Cleared(r)
    /\ filesInfo' = IF r = Root THEN Processed(filesInfo, readyFiles[r]) ELSE filesInfo
    /\ UNCHANGED <<world, notifier, newfiles, ftype, total, doneGlobal, channel,
                   broadcasts, writers, preexisting, delivered, processed>>
    /\ \/ /\ total = 0 /\ ~doneGlobal
          /\ isFinished' = [isFinished EXCEPT ![r] = FALSE]
          /\ Goto(r, "process")
          /\ UNCHANGED <<unsent, received, remaining, collectTick>>
       \/ /\ total > 0 \/ doneGlobal
          /\ r # Root
          /\ unsent' = [unsent EXCEPT ![r] = newfiles[r]]
          /\ Goto(r, "send")
          /\ UNCHANGED <<isFinished, received, remaining, collectTick>>
       \/ /\ total > 0 \/ doneGlobal
          /\ r = Root
          /\ collectTick' = collectTick + 1
          /\ received' = [s \in Ranks |-> IF s = Root THEN newfiles[s] ELSE {}]
          /\ remaining' = Expected
          /\ Goto(r, "gather")
          /\ UNCHANGED <<isFinished, unsent>>

(* MPI_Send while the message can be left in transit. *)
SendBuffered(r) ==
    /\ pc[r] = "send"
    /\ Cardinality({m \in channel : m[1] = r}) < SendBuffer
    /\ \E f \in unsent[r] :
          /\ channel' = channel \cup {<<r, f>>}
          /\ unsent' = [unsent EXCEPT ![r] = @ \ {f}]
    /\ UNCHANGED <<world, notifier, pc, newfiles, isFinished, readyFiles, ftype,
                   total, doneGlobal, received, remaining, broadcasts, coordinator,
                   preexisting, delivered, processed>>

(* MPI_Send that waits for the matching MPI_Recv. *)
SendMatched(r) ==
    /\ pc[r] = "send"
    /\ pc[Root] = "gather"
    /\ remaining > 0
    /\ \A m \in channel : m[1] # r
    /\ \E f \in unsent[r] :
          /\ unsent' = [unsent EXCEPT ![r] = @ \ {f}]
          /\ received' = [received EXCEPT ![r] = @ \cup {f}]
    /\ remaining' = remaining - 1
    /\ UNCHANGED <<world, notifier, pc, newfiles, isFinished, readyFiles, ftype,
                   total, doneGlobal, channel, broadcasts, coordinator,
                   preexisting, delivered, processed>>

(* A rank that is no inporter skips the broadcast. *)
SendDone(r) ==
    /\ pc[r] = "send"
    /\ unsent[r] = {}
    /\ Goto(r, IF r \in Inporters THEN "broadcast" ELSE "barrier")
    /\ UNCHANGED <<world, notifier, newfiles, isFinished, readyFiles, ftype, total,
                   doneGlobal, exchange, broadcasts, coordinator, preexisting,
                   delivered, processed>>

(* MPI_Recv from MPI_ANY_SOURCE at the root. *)
Receive ==
    /\ pc[Root] = "gather"
    /\ remaining > 0
    /\ \E m \in channel :
          /\ channel' = channel \ {m}
          /\ received' = [received EXCEPT ![m[1]] = @ \cup {m[2]}]
    /\ remaining' = remaining - 1
    /\ UNCHANGED <<world, notifier, pc, newfiles, isFinished, readyFiles, ftype,
                   total, doneGlobal, unsent, broadcasts, coordinator, preexisting,
                   delivered, processed>>

(* With as many messages as the ranks announced, the root works out the    *)
(* ready files and broadcasts them.                                        *)
Calculate ==
    /\ pc[Root] = "gather"
    /\ remaining = 0
    /\ filesInfo' = Collected(filesInfo, {}, writers, received,
                              ftype = "InitialFiles", doneGlobal, collectTick)
    /\ writers' = GatheredWriters(writers, received)
    /\ readyFiles' = [readyFiles EXCEPT ![Root] = ReadyFiles(filesInfo')]
    /\ delivered' = delivered \cup readyFiles'[Root]
    /\ broadcasts' = [r \in Ranks |->
                         IF r \in Inporters \cap Others
                         THEN Append(broadcasts[r], readyFiles'[Root])
                         ELSE broadcasts[r]]
    /\ received' = [r \in Ranks |-> {}]
    /\ Goto(Root, "barrier")
    /\ UNCHANGED <<world, notifier, newfiles, isFinished, ftype, total, doneGlobal,
                   unsent, channel, remaining, collectTick, preexisting, processed>>

(* update_broadcastReadyFiles at an inporter. *)
AllButLast(batch) == {f \in batch : \E g \in batch : f < g} \* mutant

WholeBroadcast(batch) == batch

ReceiveBroadcast(r) ==
    /\ pc[r] = "broadcast"
    /\ broadcasts[r] # <<>>
    /\ readyFiles' = [readyFiles EXCEPT ![r] = @ \cup WholeBroadcast(Head(broadcasts[r]))]
    /\ broadcasts' = [broadcasts EXCEPT ![r] = Tail(@)]
    /\ Goto(r, "barrier")
    /\ UNCHANGED <<world, notifier, newfiles, isFinished, ftype, total, doneGlobal,
                   exchange, coordinator, preexisting, delivered, processed>>

(* The barrier that ends update, and its return to main. *)
ReturnFalse == FALSE \* mutant

ReturnDone == doneGlobal

FinalBarrier ==
    /\ AllAt("barrier")
    /\ pc' = [r \in Ranks |-> "process"]
    /\ isFinished' = [r \in Ranks |-> ReturnDone]
    /\ UNCHANGED <<world, notifier, newfiles, readyFiles, ftype, total, doneGlobal,
                   exchange, broadcasts, coordinator, preexisting, delivered,
                   processed>>

(* main after update, or instead of it: the inporter processes whatever    *)
(* readyFiles holds.                                                       *)
SameFtype == ftype \* mutant

NextFtype == "WatchedFiles"

Process(r) ==
    /\ pc[r] = "process"
    /\ newfiles' = [newfiles EXCEPT ![r] = {}]
    /\ processed' = IF r \in Inporters
                    THEN [processed EXCEPT ![r] = @ \cup readyFiles[r]]
                    ELSE processed
    /\ ftype' = IF r = Root THEN NextFtype ELSE ftype
    /\ Goto(r, IF isFinished[r] THEN "exit" ELSE "poll")
    /\ UNCHANGED <<world, notifier, isFinished, readyFiles, total, doneGlobal,
                   exchange, broadcasts, coordinator, preexisting, delivered>>

RankStep(r) ==
    \/ Scan(r)
    \/ CheckDone(r)
    \/ UpdateProcessed(r)
    \/ SendBuffered(r)
    \/ SendMatched(r)
    \/ SendDone(r)
    \/ ReceiveBroadcast(r)
    \/ Process(r)

RootStep == Receive \/ Calculate

Collective == GetTotalFiles \/ IsDone \/ FinalBarrier

Next ==
    \/ WriteFile
    \/ RewriteFile
    \/ TouchDone
    \/ \E r \in Ranks : RankStep(r)
    \/ RootStep
    \/ Collective

Spec == Init /\ [][Next]_vars

(* Every rank that can take a step takes it: MPI makes progress, polling   *)
(* sleeps a bounded time.  Nothing makes the simulation write or stop.     *)
FairSpec ==
    /\ Spec
    /\ \A r \in Ranks : WF_vars(RankStep(r))
    /\ WF_vars(RootStep)
    /\ WF_vars(Collective)

-----------------------------------------------------------------------------

Labels == {"poll", "checkDone", "update", "isDone", "updateProcessed", "send",
           "gather", "broadcast", "barrier", "process", "exit"}

(* The variables keep their types, on every rank. *)
TypeOK ==
    /\ disk \in SUBSET Files
    /\ rewrites \in 0..MaxRewrites
    /\ doneTime \in 0..MaxDoneTime
    /\ known \in [Ranks -> SUBSET Files]
    /\ lastDoneTime \in [Ranks -> {NoTime} \cup 0..MaxDoneTime]
    /\ doneFlag \in [Ranks -> BOOLEAN]
    /\ pc \in [Ranks -> Labels]
    /\ newfiles \in [Ranks -> SUBSET Files]
    /\ isFinished \in [Ranks -> BOOLEAN]
    /\ readyFiles \in [Ranks -> SUBSET Files]
    /\ ftype \in {"InitialFiles", "WatchedFiles"}
    /\ total \in Nat
    /\ doneGlobal \in BOOLEAN
    /\ unsent \in [Ranks -> SUBSET Files]
    /\ channel \in SUBSET (Ranks \X Files)
    /\ received \in [Ranks -> SUBSET Files]
    /\ remaining \in Nat
    /\ broadcasts \in [Ranks -> Seq(SUBSET Files)]
    /\ DOMAIN filesInfo \subseteq Files
    /\ filesInfo \in [DOMAIN filesInfo -> FileInfo]
    /\ writers \in SUBSET Ranks
    /\ collectTick \in Nat
    /\ preexisting \in SUBSET Files
    /\ delivered \in SUBSET Files
    /\ processed \in [Ranks -> SUBSET Files]

(* The counting of messages works: the root expects exactly what is still  *)
(* unsent or in transit, so when it stops receiving it has every file that *)
(* every rank reported in this round, and nothing of another round.        *)
Gathering == pc[Root] = "gather"

NothingLost ==
    Gathering =>
        /\ received[Root] = newfiles[Root]
        /\ \A r \in Others :
              LET onItsWay == {f \in Files : <<r, f>> \in channel}
                  held == IF pc[r] = "updateProcessed" THEN newfiles[r] ELSE unsent[r]
              IN  newfiles[r] = received[r] \cup onItsWay \cup held
        /\ remaining = 0 => \A r \in Ranks : received[r] = newfiles[r]

(* No message or broadcast outlives its round: a rank that has passed the  *)
(* closing barrier, or has not entered the exchange, never sees one left.  *)
RoundsDoNotMix ==
    (\E r \in Ranks : pc[r] \notin {"updateProcessed", "send", "gather",
                                    "broadcast", "barrier"})
        => channel = {} /\ \A r \in Ranks : unsent[r] = {} /\ broadcasts[r] = <<>>

(* Whenever an inporter and the root both have their ready files, they are *)
(* the same files: every inporter processes what the root decided.         *)
HaveReadyFiles == {"barrier", "process", "poll", "checkDone", "update", "isDone"}

InportersAgree ==
    \A r \in Inporters :
        pc[r] \in HaveReadyFiles /\ pc[Root] \in HaveReadyFiles
            => readyFiles[r] = readyFiles[Root]

(* An inporter processes nothing the root has not handed out, and the      *)
(* inporters stay within one round of each other: what one has processed   *)
(* and another has not is in the round both are in.                        *)
InportersInStep ==
    \A r, s \in Inporters :
        /\ processed[r] \subseteq delivered
        /\ processed[r] \ processed[s] \subseteq readyFiles[r]

-----------------------------------------------------------------------------
(* Coordinator as one step per update: the step is the early return, or    *)
(* the root's calculation.  (When there is something to collect the root   *)
(* has by then marked the previous files processed, which is an early      *)
(* return of Coordinator, or no step of it if there were none.)            *)

InUpdate == pc[Root] \in {"update", "isDone", "updateProcessed", "gather"}

Atomic ==
    INSTANCE Coordinator WITH
        MaxTick <- Cardinality(Ranks) * (Cardinality(Files) + MaxRewrites) + 1,
        collectTick <- IF Gathering THEN collectTick - 1 ELSE collectTick,
        readyFiles <- readyFiles[Root],
        started <- ~(ftype = "InitialFiles" /\ InUpdate),
        finished <- doneGlobal /\ ~InUpdate

(* The distributed update implements the atomic one: the interleaving of   *)
(* the ranks adds no behaviour to the coordinator.                         *)
ImplementsCoordinator == Atomic!Spec

-----------------------------------------------------------------------------

(* While no notifier is done every round ends and another follows: a file  *)
(* written during the run that is followed by another one reaches every    *)
(* inporter.                                                               *)
OlderFilesProcessed ==
    \A f, g \in Files \ DOMAIN ReadyConversion :
        f < g =>
            ({f, g} \subseteq disk \ preexisting)
                ~> \/ \A r \in Inporters : f \in processed[r]
                   \/ \E r \in Ranks : doneFlag[r]

(* If every rank finds the simulation done, every rank leaves main.        *)
AllDoneAllExit ==
    (\A r \in Ranks : doneFlag[r]) ~> AllAt("exit")

(* README.md:89, "Stops when build/testing.done file is touched": once a   *)
(* rank has seen that, all ranks leave main.                               *)
AnyDoneAllExit ==
    (\E r \in Ranks : doneFlag[r]) ~> AllAt("exit")

(* coordinator.cxx:266-271: with the done notification the remaining files *)
(* are completely written and become ready, so all ranks leave main with   *)
(* every file that was reported to the root processed by the inporters.    *)
ExitWithAllProcessed ==
    AllAt("exit") =>
        \A r \in Inporters :
            \A f \in DOMAIN filesInfo \ DOMAIN ReadyConversion : f \in processed[r]

(* coordinator.cxx:113, "assume all previously ready ready files are now   *)
(* processed": an inporter is given a file to process once, however often  *)
(* it is reported; but the ready files of the last update again in its     *)
(* last call of process, if it leaves because its own notifier is done.    *)
ProcessedAgainOnLeaving ==
    [][\A r \in Inporters :
          pc[r] = "process" /\ pc'[r] # "process"
              /\ readyFiles[r] \cap processed[r] # {}
          => doneFlag[r] /\ pc'[r] = "exit"]_vars
=============================================================================
