----------------------------- MODULE Rounds_proofs -----------------------------
(***************************************************************************)
(* What the main loop and the distributed update guarantee for every       *)
(* finite set of ranks and files, every set of inporters and any message   *)
(* buffers; that the update implements Coordinator's, and what follows     *)
(* from that with the theorems of Coordinator_proofs.                      *)
(***************************************************************************)
EXTENDS Rounds, FilesInfo_proofs, FiniteSetTheorems

-----------------------------------------------------------------------------
(***************************************************************************)
(* The inductive invariant, by theme.                                      *)
(***************************************************************************)

(* There is something to collect in this round. *)
Collecting == total > 0 \/ doneGlobal

Exchange == {"send", "gather", "broadcast", "barrier"}
InCollection == Exchange \cup {"updateProcessed"}

(* Only the root gathers, and only the others send and are sent to.        *)
Roles ==
    /\ pc[Root] \notin {"send", "broadcast"}
    /\ \A r \in Others : pc[r] # "gather"
    /\ \A r \in Ranks : pc[r] = "broadcast" => r \in Inporters

(* The collectives hold the ranks together: no rank is anywhere else while *)
(* one is in the collection of a round.                                    *)
InStep ==
    /\ \A r, s \in Ranks : pc[r] = "isDone" => pc[s] = "isDone"
    /\ \A r, s \in Ranks : Collecting /\ pc[r] \in InCollection => pc[s] \in InCollection
    /\ \A r \in Ranks : pc[r] \in Exchange => Collecting

(* The sum that getTotalFiles returned stays the number of new files.      *)
TotalExact ==
    (\A r \in Ranks : pc[r] \in {"isDone"} \cup InCollection) => total = TotalGlobal

(* The reports of a rank: received, in transit, and held back.             *)
InTransit(r) == {f \in Files : <<r, f>> \in channel}
Held(r) == IF pc[r] = "updateProcessed" THEN newfiles[r] ELSE unsent[r]

Outstanding == {m \in Others \X Files : m[2] \in newfiles[m[1]] \ received[m[1]]}

BeforeCalculation == Collecting /\ pc[Root] \in {"updateProcessed", "gather"}

(* No report is lost or sent twice, and the root counts them right.        *)
Accounting ==
    /\ \A r \in Ranks : unsent[r] # {} => pc[r] = "send"
    /\ \A m \in channel : m[1] # Root /\ BeforeCalculation /\ pc[m[1]] \in Exchange
    /\ pc[Root] # "gather" => \A r \in Ranks : received[r] = {}
    /\ pc[Root] = "gather" =>
            received[Root] = newfiles[Root] /\ remaining = Cardinality(Outstanding)
    /\ BeforeCalculation =>
            \A r \in Others :
                /\ newfiles[r] = received[r] \cup InTransit(r) \cup Held(r)
                /\ received[r] \cap InTransit(r) = {}
                /\ received[r] \cap Held(r) = {}
                /\ InTransit(r) \cap Held(r) = {}
    /\ pc[Root] = "barrier" => \A r \in Others : Held(r) = {}

(* A broadcast is under way to an inporter that has not received it, and   *)
(* no other; from then on the inporters and the root agree.                *)
Receivers == Inporters \cap Others

Agreeing == HaveReadyFiles \cup {"exit"}

Broadcasting ==
    /\ \A r \in Ranks :
            broadcasts[r] =
                IF /\ r \in Receivers
                   /\ pc[Root] = "barrier"
                   /\ pc[r] \in {"updateProcessed", "send", "broadcast"}
                THEN <<readyFiles[Root]>> ELSE <<>>
    /\ BeforeCalculation => \A r \in Receivers : pc[r] # "barrier"
    /\ \A r \in Ranks : pc[r] \in {"send", "gather", "broadcast"} => readyFiles[r] = {}
    /\ \A r, s \in Inporters \cup {Root} :
            pc[r] \in Agreeing /\ pc[s] \in Agreeing => readyFiles[r] = readyFiles[s]
    /\ \A r, s \in Ranks :
            pc[r] = "updateProcessed" /\ ~Collecting /\ pc[s] # "updateProcessed"
                => readyFiles[s] = {}

(* Only the first update finds a notifier done, and then all ranks leave:  *)
(* in the loop a rank whose notifier is done does not enter update, so     *)
(* what calculateReadyFiles does for is_done_global is never done there.   *)
DoneFirst ==
    /\ \A r \in Ranks :
            pc[r] \in {"update", "isDone"} /\ doneFlag[r] =>
                ftype = "InitialFiles" /\ (AllAt("update") \/ AllAt("isDone"))
    /\ doneGlobal =>
            \/ ftype = "InitialFiles" /\ \A r \in Ranks : pc[r] \in InCollection
            \/ \A r \in Ranks : pc[r] \in {"process", "exit"} /\ isFinished[r]

(* The first update starts with nothing known, and only the root reports.  *)
FirstUpdate ==
    /\ ftype = "InitialFiles" =>
          /\ pc[Root] \notin {"poll", "checkDone", "exit"}
          /\ pc[Root] = "update" => AllAt("update")
    /\ ftype = "InitialFiles" /\ InUpdate =>
          /\ DOMAIN filesInfo = {} /\ writers = {} /\ delivered = {}
          /\ readyFiles[Root] = {}
          /\ collectTick = IF Gathering THEN 1 ELSE 0
          /\ \/ pc[Root] = "updateProcessed" /\ ~Collecting
             \/ \A r \in Others : newfiles[r] = {}

(* What was handed out is ready, and processed by the next round.          *)
HandedOut ==
    /\ Coherent(filesInfo)
    /\ \A r \in Ranks : readyFiles[r] \subseteq delivered
    /\ \A f \in delivered :
            /\ f \in DOMAIN filesInfo
            /\ filesInfo[f].is_ready
            /\ filesInfo[f].was_processed \/ f \in readyFiles[Root]

(* An inporter has processed what it was handed, and what any other has    *)
(* processed, unless it is about to; and it processes nothing again, but   *)
(* when it leaves.                                                         *)
Processing ==
    /\ \A r \in Inporters :
            pc[r] \notin {"barrier", "process"} => readyFiles[r] \subseteq processed[r]
    /\ \A r, s \in Inporters :
            processed[r] \subseteq
                processed[s] \cup (IF pc[s] = "process" THEN readyFiles[s] ELSE {})
    /\ \A r \in Inporters : processed[r] \subseteq delivered
    /\ pc[Root] = "barrier" =>
            \A r \in Inporters : readyFiles[Root] \cap processed[r] = {}
    /\ \A r \in Inporters :
            pc[r] = "process" /\ readyFiles[r] \cap processed[r] # {} =>
                doneFlag[r] /\ isFinished[r]

(* Every collecting round but the first uses up a report, and a rank can   *)
(* report a file once, and once more for each time it is written again.    *)
NotCounted(r) ==
    \/ pc[r] \in {"checkDone", "update", "isDone"}
    \/ pc[r] \in InCollection /\ pc[Root] = "updateProcessed"

Pending == {m \in Ranks \X Files : m[2] \in newfiles[m[1]] /\ NotCounted(m[1])}
KnownPairs == {m \in Ranks \X Files : m[2] \in known[m[1]]}

TicksBounded ==
    /\ \A r \in Ranks : known[r] \subseteq disk
    /\ collectTick + Cardinality(Pending)
            <= 1 + Cardinality(KnownPairs) + Cardinality(Ranks) * rewrites

IInv ==
    /\ TypeOK
    /\ Roles
    /\ InStep
    /\ TotalExact
    /\ Accounting
    /\ Broadcasting
    /\ DoneFirst
    /\ FirstUpdate
    /\ HandedOut
    /\ Processing
    /\ TicksBounded

-----------------------------------------------------------------------------
(***************************************************************************)
(* The steps, theme by theme.                                              *)
(***************************************************************************)

(* What a rank does after update_updateProcessedFiles.                     *)
EarlyReturn(r) ==
    /\ ~Collecting
    /\ pc' = [pc EXCEPT ![r] = "process"]
    /\ isFinished' = [isFinished EXCEPT ![r] = FALSE]
    /\ UNCHANGED <<unsent, received, remaining, collectTick>>

BeginSending(r) ==
    /\ Collecting /\ r # Root
    /\ pc' = [pc EXCEPT ![r] = "send"]
    /\ unsent' = [unsent EXCEPT ![r] = newfiles[r]]
    /\ UNCHANGED <<isFinished, received, remaining, collectTick>>

BeginGathering(r) ==
    /\ Collecting /\ r = Root
    /\ pc' = [pc EXCEPT ![r] = "gather"]
    /\ collectTick' = collectTick + 1
    /\ received' = [s \in Ranks |-> IF s = Root THEN newfiles[s] ELSE {}]
    /\ remaining' = Expected
    /\ UNCHANGED <<isFinished, unsent>>

LEMMA UpdateProcessedCases ==
    ASSUME NEW r \in Ranks, UpdateProcessed(r)
    PROVE  EarlyReturn(r) \/ BeginSending(r) \/ BeginGathering(r)
BY DEF UpdateProcessed, Collecting, Goto, EarlyReturn, BeginSending, BeginGathering

LEMMA InStepStep ==
    ASSUME TypeOK, Roles, InStep, [Next]_vars
    PROVE  Roles' /\ InStep'
<1> DEFINE Kept == Roles' /\ InStep'
<1> USE FilesInfoAssumption
    DEF Roles, InStep, Collecting, Exchange, InCollection, TypeOK, Labels, Others, AllAt, Goto
<1>1. CASE UNCHANGED <<pc, total, doneGlobal>>
  BY <1>1
<1>2. ASSUME NEW r \in Ranks, Scan(r) PROVE Kept
  BY <1>2 DEF Scan
<1>3. ASSUME NEW r \in Ranks, CheckDone(r) PROVE Kept
  BY <1>3 DEF CheckDone, DoneOrUpdate
<1>4. CASE GetTotalFiles
  BY <1>4 DEF GetTotalFiles
<1>5. CASE IsDone
  BY <1>5 DEF IsDone
<1>6. ASSUME NEW r \in Ranks, UpdateProcessed(r) PROVE Kept
  <2>1. pc[r] = "updateProcessed" /\ UNCHANGED <<total, doneGlobal>>
    BY <1>6 DEF UpdateProcessed
  <2>2. CASE EarlyReturn(r)
    BY <2>1, <2>2 DEF EarlyReturn
  <2>3. CASE BeginSending(r)
    BY <2>1, <2>3 DEF BeginSending
  <2>4. CASE BeginGathering(r)
    BY <2>1, <2>4 DEF BeginGathering
  <2> QED
    BY <1>6, <2>2, <2>3, <2>4, UpdateProcessedCases
<1>7. ASSUME NEW r \in Ranks, SendDone(r) PROVE Kept
  BY <1>7 DEF SendDone
<1>8. CASE Calculate
  BY <1>8 DEF Calculate
<1>9. ASSUME NEW r \in Ranks, ReceiveBroadcast(r) PROVE Kept
  BY <1>9 DEF ReceiveBroadcast
<1>10. CASE FinalBarrier
  BY <1>10 DEF FinalBarrier
<1>11. ASSUME NEW r \in Ranks, Process(r) PROVE Kept
  BY <1>11 DEF Process
<1> QED
  BY <1>1, <1>2, <1>3, <1>4, <1>5, <1>6, <1>7, <1>8, <1>9, <1>10, <1>11
  DEF Next, vars, RankStep, RootStep, Collective, WriteFile, RewriteFile, TouchDone,
      SendBuffered, SendMatched, Receive

-----------------------------------------------------------------------------
(***************************************************************************)
(* Counting.                                                               *)
(***************************************************************************)

(* Every set of reports is finite. *)
LEMMA FiniteReports ==
    ASSUME NEW S \in SUBSET (Ranks \X Files)
    PROVE  IsFiniteSet(S) /\ Cardinality(S) \in Nat
<1>1. IsFiniteSet(Ranks \X Files)
  BY FS_Product, RoundsAssumption
<1> QED
  BY <1>1, FS_Subset, FS_CardinalityType

LEMMA FiniteFiles ==
    ASSUME NEW S \in SUBSET Files
    PROVE  IsFiniteSet(S) /\ Cardinality(S) \in Nat
BY FS_Subset, FS_CardinalityType, RoundsAssumption

(* The total is the root's own share and that of the others.               *)
FromOthers == {m \in Others \X Files : m[2] \in newfiles[m[1]]}

LEMMA RootsShare ==
    ASSUME newfiles \in [Ranks -> SUBSET Files]
    PROVE  /\ Cardinality(FromOthers) \in Nat
           /\ TotalGlobal = Cardinality(newfiles[Root]) + Cardinality(FromOthers)
<1> DEFINE own == {Root} \X newfiles[Root]
           others == {m \in Others \X Files : m[2] \in newfiles[m[1]]}
           all == {m \in Ranks \X Files : m[2] \in newfiles[m[1]]}
<1> USE FilesInfoAssumption DEF Others
<1>1. own \in SUBSET (Ranks \X Files) /\ others \in SUBSET (Ranks \X Files)
  OBVIOUS
<1>2. all = own \cup others
  <2>1. ASSUME NEW m \in all PROVE m \in own \cup others
    BY <2>1
  <2>2. ASSUME NEW m \in own \cup others PROVE m \in all
    BY <2>2
  <2> QED
    BY <2>1, <2>2
<1>3. own \cap others = {}
  OBVIOUS
<1>4. IsFiniteSet(newfiles[Root]) /\ Cardinality(newfiles[Root]) \in Nat
  BY FiniteFiles
<1>5. Cardinality(own) = Cardinality(newfiles[Root])
  <2>1. IsFiniteSet({Root}) /\ Cardinality({Root}) = 1
    BY FS_Singleton
  <2>2. Cardinality(own) = 1 * Cardinality(newfiles[Root])
    BY <1>4, <2>1, FS_Product
  <2> QED
    BY <1>4, <2>2
<1>6. /\ IsFiniteSet(own) /\ IsFiniteSet(others)
      /\ Cardinality(own) \in Nat /\ Cardinality(others) \in Nat
  BY <1>1, FiniteReports
<1>7. Cardinality(own \cap others) = 0
  BY <1>3, FS_EmptySet
<1>8. Cardinality(all) = Cardinality(own) + Cardinality(others)
  <2> HIDE DEF own, others, all
  <2>1. Cardinality(own \cup others)
            = Cardinality(own) + Cardinality(others) - Cardinality(own \cap others)
    BY <1>6, FS_Union
  <2> QED
    BY <1>2, <1>6, <1>7, <2>1
<1> QED
  BY <1>5, <1>6, <1>8 DEF TotalGlobal, FromOthers

(* The number of messages that the root expects is not negative. *)
LEMMA ExpectedExact ==
    ASSUME TypeOK, InStep, TotalExact, Collecting, pc[Root] = "updateProcessed"
    PROVE  Expected = Cardinality(FromOthers) /\ Expected \in Nat
<1>1. \A r \in Ranks : pc[r] \in InCollection
  BY FilesInfoAssumption DEF InStep, InCollection
<1>2. total = TotalGlobal
  BY <1>1 DEF TotalExact
<1>3. /\ Cardinality(FromOthers) \in Nat
      /\ TotalGlobal = Cardinality(newfiles[Root]) + Cardinality(FromOthers)
  BY RootsShare DEF TypeOK
<1>4. Cardinality(newfiles[Root]) \in Nat
  BY FiniteFiles, FilesInfoAssumption DEF TypeOK
<1> QED
  BY <1>2, <1>3, <1>4 DEF Expected

-----------------------------------------------------------------------------

(* What the root makes of a round. *)
LEMMA CalculateEffect ==
    ASSUME TypeOK, Coherent(filesInfo), Calculate
    PROVE  CollectedAs(filesInfo', filesInfo, {}, writers', received, doneGlobal,
                       collectTick)
<1>1. IsInfo(filesInfo) /\ received \in Batches
  BY DEF TypeOK, IsInfo, Batches
<1>2. CollectedAs(Collected(filesInfo, {}, writers, received,
                            ftype = "InitialFiles", doneGlobal, collectTick),
                  filesInfo, {}, GatheredWriters(writers, received), received,
                  doneGlobal, collectTick)
  <2> DEFINE initial == (ftype = "InitialFiles")
  <2>1. /\ doneGlobal \in BOOLEAN /\ initial \in BOOLEAN /\ collectTick \in Nat
        /\ {} \in SUBSET DOMAIN filesInfo
    BY DEF TypeOK
  <2> HIDE DEF initial
  <2>2. CollectedAs(Collected(filesInfo, {}, writers, received, initial, doneGlobal,
                              collectTick),
                    filesInfo, {}, GatheredWriters(writers, received), received,
                    doneGlobal, collectTick)
    BY <1>1, <2>1, CollectedEffect
  <2> QED
    BY <2>2 DEF initial
<1> QED
  BY <1>2 DEF Calculate

(* The variables keep their types: the count of the messages the root      *)
(* still expects never drops below zero.                                   *)
LEMMA TypeStep ==
    ASSUME IInv, [Next]_vars
    PROVE  TypeOK'
<1> USE FilesInfoAssumption, RoundsAssumption
    DEF IInv, TypeOK, Goto, world, notifier, exchange, coordinator, Labels
<1>1. IsInfo(filesInfo) /\ Coherent(filesInfo)
  BY DEF IsInfo, HandedOut
<1>2. CASE UNCHANGED vars
  BY <1>2 DEF vars
<1>3. CASE WriteFile
  BY <1>3 DEF WriteFile
<1>4. CASE RewriteFile
  BY <1>4 DEF RewriteFile
<1>5. CASE TouchDone
  BY <1>5 DEF TouchDone
<1>6. ASSUME NEW r \in Ranks, Scan(r) PROVE TypeOK'
  BY <1>6 DEF Scan
<1>7. ASSUME NEW r \in Ranks, CheckDone(r) PROVE TypeOK'
  BY <1>7 DEF CheckDone, DoneOrUpdate
<1>8. CASE GetTotalFiles
  <2>1. total' \in Nat
    BY <1>8, FiniteReports DEF GetTotalFiles, TotalGlobal
  <2> QED
    BY <1>8, <2>1 DEF GetTotalFiles
<1>9. CASE IsDone
  BY <1>9 DEF IsDone
<1>10. ASSUME NEW r \in Ranks, UpdateProcessed(r) PROVE TypeOK'
  <2>1. IsInfo(filesInfo')
    BY <1>1, <1>10, ProcessedEffect DEF UpdateProcessed, ProcessedAs
  <2>2. pc[r] = "updateProcessed" /\ readyFiles' = Cleared(r)
    BY <1>10 DEF UpdateProcessed
  <2>3. /\ pc' \in [Ranks -> Labels]
        /\ isFinished' \in [Ranks -> BOOLEAN]
        /\ unsent' \in [Ranks -> SUBSET Files]
        /\ received' \in [Ranks -> SUBSET Files]
        /\ remaining' \in Nat
        /\ collectTick' \in Nat
    <3>1. CASE EarlyReturn(r)
      BY <3>1 DEF EarlyReturn
    <3>2. CASE BeginSending(r)
      BY <3>2 DEF BeginSending
    <3>3. CASE BeginGathering(r)
      <4>1. remaining' \in Nat
        BY <2>2, <3>3, ExpectedExact DEF BeginGathering
      <4> QED
        BY <3>3, <4>1 DEF BeginGathering
    <3> QED
      BY <1>10, <3>1, <3>2, <3>3, UpdateProcessedCases
  <2> QED
    BY <1>10, <2>1, <2>2, <2>3 DEF UpdateProcessed, Cleared, IsInfo
<1>11. ASSUME NEW r \in Ranks, SendBuffered(r) PROVE TypeOK'
  BY <1>11 DEF SendBuffered
<1>12. ASSUME NEW r \in Ranks, SendMatched(r) PROVE TypeOK'
  BY <1>12 DEF SendMatched
<1>13. ASSUME NEW r \in Ranks, SendDone(r) PROVE TypeOK'
  BY <1>13 DEF SendDone
<1>14. CASE Receive
  <2>1. PICK m \in channel : received' = [received EXCEPT ![m[1]] = @ \cup {m[2]}]
    BY <1>14 DEF Receive
  <2>2. received' \in [Ranks -> SUBSET Files]
    BY <2>1
  <2>3. channel' \in SUBSET (Ranks \X Files) /\ remaining' \in Nat
    BY <1>14 DEF Receive
  <2> QED
    BY <1>14, <2>2, <2>3 DEF Receive
<1>15. CASE Calculate
  <2>1. IsInfo(filesInfo')
    BY <1>1, <1>15, CalculateEffect DEF CollectedAs
  <2>2. readyFiles' \in [Ranks -> SUBSET Files] /\ delivered' \in SUBSET Files
    BY <1>15, <2>1 DEF Calculate, ReadyFiles, IsInfo
  <2>3. broadcasts' \in [Ranks -> Seq(SUBSET Files)]
    BY <1>15, <2>2 DEF Calculate
  <2> QED
    BY <1>15, <2>1, <2>2, <2>3 DEF Calculate, IsInfo, GatheredWriters
<1>16. ASSUME NEW r \in Ranks, ReceiveBroadcast(r) PROVE TypeOK'
  <2>1. Head(broadcasts[r]) \in SUBSET Files
        /\ Tail(broadcasts[r]) \in Seq(SUBSET Files)
    BY <1>16 DEF ReceiveBroadcast
  <2> QED
    BY <1>16, <2>1 DEF ReceiveBroadcast, WholeBroadcast
<1>17. CASE FinalBarrier
  BY <1>17 DEF FinalBarrier, ReturnDone
<1>18. ASSUME NEW r \in Ranks, Process(r) PROVE TypeOK'
  BY <1>18 DEF Process, NextFtype
<1> QED
  BY <1>2, <1>3, <1>4, <1>5, <1>6, <1>7, <1>8, <1>9, <1>10, <1>11, <1>12, <1>13,
     <1>14, <1>15, <1>16, <1>17, <1>18
  DEF Next, RankStep, RootStep, Collective

-----------------------------------------------------------------------------

(* Nobody reports a new file between the sum and the end of the exchange.  *)
LEMMA TotalExactStep ==
    ASSUME IInv, [Next]_vars
    PROVE  TotalExact'
<1> USE FilesInfoAssumption
    DEF IInv, TypeOK, TotalExact, TotalGlobal, InCollection, Exchange, Goto
<1>1. CASE UNCHANGED <<pc, total, newfiles>>
  BY <1>1
<1>2. CASE GetTotalFiles
  BY <1>2 DEF GetTotalFiles
<1>3. ASSUME NEW r \in Ranks,
             pc' = [pc EXCEPT ![r] = pc'[r]],
             pc'[r] \notin {"isDone"} \cup InCollection
      PROVE  TotalExact'
  BY <1>3
<1>4. ASSUME NEW r \in Ranks,
             pc' = [pc EXCEPT ![r] = pc'[r]],
             pc[r] \in InCollection, UNCHANGED <<total, newfiles>>
      PROVE  TotalExact'
  BY <1>4
<1>5. CASE IsDone \/ FinalBarrier
  BY <1>5 DEF IsDone, FinalBarrier, AllAt
<1>6. ASSUME NEW r \in Ranks, UpdateProcessed(r)
      PROVE  /\ pc' = [pc EXCEPT ![r] = pc'[r]]
             /\ pc[r] \in InCollection
             /\ UNCHANGED <<total, newfiles>>
  BY <1>6 DEF UpdateProcessed
<1>7. ASSUME NEW r \in Ranks, SendDone(r) \/ ReceiveBroadcast(r)
      PROVE  TotalExact'
  <2>1. /\ pc' = [pc EXCEPT ![r] = pc'[r]]
        /\ pc[r] \in InCollection
        /\ UNCHANGED <<total, newfiles>>
    BY <1>7 DEF SendDone, ReceiveBroadcast
  <2> QED
    BY <2>1, <1>4
<1>8. CASE Calculate
  <2>1. /\ pc' = [pc EXCEPT ![Root] = pc'[Root]]
        /\ pc[Root] \in InCollection
        /\ UNCHANGED <<total, newfiles>>
    BY <1>8 DEF Calculate
  <2> QED
    BY <2>1, <1>4
<1>9. ASSUME NEW r \in Ranks, Scan(r) \/ CheckDone(r) \/ Process(r)
      PROVE  TotalExact'
  <2>1. /\ pc' = [pc EXCEPT ![r] = pc'[r]]
        /\ pc'[r] \notin {"isDone"} \cup InCollection
    BY <1>9 DEF Scan, CheckDone, DoneOrUpdate, Process
  <2> QED
    BY <2>1, <1>3
<1> QED
  BY <1>1, <1>2, <1>4, <1>5, <1>6, <1>7, <1>8, <1>9
  DEF Next, vars, RankStep, RootStep, Collective, WriteFile, RewriteFile, TouchDone,
      SendBuffered, SendMatched, Receive

(* When the root expects no more messages it has all reports.              *)
LEMMA AllReceived ==
    ASSUME IInv, pc[Root] = "gather", remaining = 0
    PROVE  /\ channel = {}
           /\ \A r \in Others : Held(r) = {}
           /\ \A r \in Ranks : received[r] = newfiles[r]
<1> USE FilesInfoAssumption
<1>1. Outstanding \in SUBSET (Ranks \X Files)
  BY DEF Outstanding, Others
<1>2. Outstanding = {}
  <2>1. Cardinality(Outstanding) = 0
    BY DEF IInv, Accounting
  <2>2. IsFiniteSet(Outstanding)
    BY <1>1, FiniteReports
  <2> HIDE DEF Outstanding
  <2> QED
    BY <2>1, <2>2, FS_EmptySet
<1>3. BeforeCalculation
  BY DEF BeforeCalculation, IInv, InStep, Exchange
<1>4. ASSUME NEW r \in Others
      PROVE  received[r] = newfiles[r] /\ InTransit(r) = {} /\ Held(r) = {}
  <2>1. newfiles[r] \subseteq Files /\ r \in Ranks
    BY DEF IInv, TypeOK, Others
  <2>2. newfiles[r] \subseteq received[r]
    <3> SUFFICES ASSUME NEW f \in newfiles[r], f \notin received[r] PROVE FALSE
      OBVIOUS
    <3>1. <<r, f>> \in Outstanding
      BY <2>1 DEF Outstanding
    <3> QED
      BY <1>2, <3>1
  <2>3. /\ newfiles[r] = received[r] \cup InTransit(r) \cup Held(r)
        /\ received[r] \cap InTransit(r) = {}
        /\ received[r] \cap Held(r) = {}
    BY <1>3 DEF IInv, Accounting
  <2> HIDE DEF InTransit, Held
  <2> QED
    BY <2>2, <2>3
<1>5. ASSUME NEW m \in channel PROVE FALSE
  <2>1. m \in Ranks \X Files /\ m[1] # Root
    BY DEF IInv, TypeOK, Accounting
  <2>2. m[1] \in Others /\ m[2] \in InTransit(m[1])
    BY <2>1 DEF Others, InTransit
  <2> QED
    BY <1>4, <2>2
<1>6. received[Root] = newfiles[Root]
  BY DEF IInv, Accounting
<1> QED
  BY <1>4, <1>5, <1>6 DEF Others

(* The root receives one more of the reports.                              *)
LEMMA OneReceived ==
    ASSUME IInv, pc[Root] = "gather", remaining' = remaining - 1,
           UNCHANGED newfiles,
           NEW r \in Others, NEW f \in newfiles[r], f \notin received[r],
           received' = [received EXCEPT ![r] = @ \cup {f}]
    PROVE  remaining' = Cardinality(Outstanding')
<1> USE DEF IInv, TypeOK
<1>1. f \in Files /\ r \in Ranks
  BY DEF Others
<1>2. <<r, f>> \in Outstanding
  BY <1>1 DEF Outstanding
<1>3. Outstanding' = Outstanding \ {<<r, f>>}
  <2>1. ASSUME NEW m \in Others \X Files
        PROVE  m[2] \in newfiles[m[1]] \ received'[m[1]]
                  <=> m[2] \in newfiles[m[1]] \ received[m[1]] /\ m # <<r, f>>
    <3>1. m = <<m[1], m[2]>> /\ m[1] \in Ranks
      BY DEF Others
    <3>2. CASE m[1] = r
      BY <1>1, <3>1, <3>2
    <3>3. CASE m[1] # r
      BY <1>1, <3>1, <3>3
    <3> QED
      BY <3>2, <3>3
  <2> QED
    BY <2>1 DEF Outstanding
<1>4. Outstanding \in SUBSET (Ranks \X Files)
  BY DEF Outstanding, Others
<1>5. remaining = Cardinality(Outstanding) /\ remaining \in Nat
  BY DEF Accounting
<1> HIDE DEF Outstanding
<1>6. IsFiniteSet(Outstanding)
  BY <1>4, FiniteReports
<1>7. Cardinality(Outstanding \ {<<r, f>>}) = Cardinality(Outstanding) - 1
  <2> DEFINE m == <<r, f>>
  <2>1. m \in Outstanding
    BY <1>2
  <2> HIDE DEF m
  <2>2. Cardinality(Outstanding \ {m}) = Cardinality(Outstanding) - 1
    BY <1>6, <2>1, FS_RemoveElement
  <2> QED
    BY <2>2 DEF m
<1> QED
  BY <1>3, <1>5, <1>7

(* Outside the exchange nothing is on its way and nothing is counted.      *)
LEMMA Idle ==
    ASSUME IInv, NEW r \in Ranks,
           ~Collecting \/ pc[r] \notin InCollection
    PROVE  /\ ~Collecting \/ \A s \in Ranks : pc[s] \notin InCollection
           /\ \A s \in Ranks : pc[s] \notin Exchange /\ unsent[s] = {} /\ received[s] = {}
           /\ channel = {}
<1> USE FilesInfoAssumption
<1>1. ~Collecting \/ \A s \in Ranks : pc[s] \notin InCollection
  BY DEF IInv, InStep
<1>2. ASSUME NEW s \in Ranks PROVE pc[s] \notin Exchange
  BY <1>1 DEF IInv, InStep, InCollection
<1>3. ASSUME NEW s \in Ranks PROVE unsent[s] = {} /\ received[s] = {}
  <2>1. pc[s] # "send" /\ pc[Root] # "gather"
    BY <1>2 DEF Exchange
  <2> QED
    BY <2>1 DEF IInv, Accounting
<1>4. ASSUME NEW m \in channel PROVE FALSE
  <2>1. m[1] \in Ranks
    BY DEF IInv, TypeOK
  <2> QED
    BY <1>2, <2>1 DEF IInv, Accounting
<1> QED
  BY <1>1, <1>2, <1>3, <1>4

(* A step of one rank outside the exchange. *)
LEMMA IdleStep ==
    ASSUME IInv, NEW r \in Ranks,
           ~Collecting \/ pc[r] \notin InCollection,
           UNCHANGED <<total, doneGlobal, unsent, channel, received>>,
           pc' = [pc EXCEPT ![r] = pc'[r]],
           pc'[r] \in {"checkDone", "update", "process", "poll", "exit"}
    PROVE  Accounting'
<1> USE FilesInfoAssumption
<1>1. /\ ~Collecting \/ \A s \in Ranks : pc[s] \notin InCollection
      /\ \A s \in Ranks : pc[s] \notin Exchange /\ unsent[s] = {} /\ received[s] = {}
      /\ channel = {}
  BY Idle
<1>2. \A s \in Ranks : pc'[s] \notin Exchange
  BY <1>1 DEF IInv, TypeOK, Exchange
<1>3. ~BeforeCalculation'
  BY <1>1, <1>2 DEF BeforeCalculation, Collecting, IInv, TypeOK, Exchange, InCollection
<1> QED
  BY <1>1, <1>2, <1>3 DEF Accounting, Exchange

(* The reports that are received, in transit and held back stay apart.     *)
LEMMA AccountingStep ==
    ASSUME IInv, [Next]_vars
    PROVE  Accounting'
<1> USE FilesInfoAssumption
<1>1. CASE UNCHANGED <<pc, total, doneGlobal, newfiles, exchange>>
  BY <1>1 DEF IInv, Accounting, exchange, Outstanding, InTransit, Held,
              BeforeCalculation, Collecting
<1>2. ASSUME NEW r \in Ranks, Scan(r) \/ CheckDone(r) \/ Process(r)
      PROVE  Accounting'
  <2>1. /\ pc[r] \notin InCollection
        /\ UNCHANGED <<total, doneGlobal, unsent, channel, received>>
        /\ pc' = [pc EXCEPT ![r] = pc'[r]]
        /\ pc'[r] \in {"checkDone", "update", "process", "poll", "exit"}
    BY <1>2 DEF Scan, CheckDone, DoneOrUpdate, Process, Goto, InCollection, Exchange,
                exchange, IInv, TypeOK
  <2> QED
    BY <2>1, IdleStep
<1>3. CASE GetTotalFiles
  <2>1. /\ pc[Root] \notin InCollection
        /\ \A r \in Ranks : pc'[r] = "isDone"
        /\ UNCHANGED <<unsent, channel, received>>
    BY <1>3 DEF GetTotalFiles, AllAt, InCollection, Exchange, exchange
  <2>2. channel = {} /\ \A s \in Ranks : unsent[s] = {} /\ received[s] = {}
    BY <2>1, Idle
  <2> QED
    BY <2>1, <2>2 DEF Accounting, BeforeCalculation
<1>4. CASE IsDone
  <2>1. /\ pc[Root] \notin InCollection
        /\ \A r \in Ranks : pc'[r] = "updateProcessed"
        /\ UNCHANGED <<unsent, channel, received>>
    BY <1>4 DEF IsDone, AllAt, InCollection, Exchange, exchange
  <2>2. channel = {} /\ \A s \in Ranks : unsent[s] = {} /\ received[s] = {}
    BY <2>1, Idle
  <2> QED
    BY <2>1, <2>2 DEF Accounting, InTransit, Held, Others
<1>5. ASSUME NEW r \in Ranks, UpdateProcessed(r) PROVE Accounting'
  <2>1. pc[r] = "updateProcessed" /\ UNCHANGED <<total, doneGlobal, newfiles, channel>>
    BY <1>5 DEF UpdateProcessed
  <2>2. CASE EarlyReturn(r)
    <3>1. /\ ~Collecting /\ UNCHANGED <<unsent, received>>
          /\ pc' = [pc EXCEPT ![r] = pc'[r]] /\ pc'[r] = "process"
      BY <2>2 DEF EarlyReturn, IInv, TypeOK
    <3> QED
      BY <2>1, <3>1, IdleStep
  <2>3. CASE BeginSending(r)
    <3> USE <2>1, <2>3 DEF BeginSending, IInv, TypeOK, Others
    <3>1. /\ pc'[Root] = pc[Root] /\ pc'[r] = "send"
          /\ \A s \in Ranks \ {r} : pc'[s] = pc[s] /\ unsent'[s] = unsent[s]
          /\ BeforeCalculation' <=> BeforeCalculation
      BY DEF BeforeCalculation, Collecting
    <3>2. \A s \in Ranks : Held(s)' = Held(s)
      BY <3>1 DEF Held
    <3>3. Outstanding' = Outstanding
      BY DEF Outstanding
    <3>4. \A s \in Ranks : InTransit(s)' = InTransit(s)
      BY DEF InTransit
    <3>5. \A m \in channel : pc'[m[1]] \in Exchange
      BY <3>1 DEF Accounting, Exchange
    <3> HIDE DEF Held, InTransit, Outstanding, BeforeCalculation
    <3> QED
      BY <3>1, <3>2, <3>3, <3>4, <3>5 DEF Accounting
  <2>4. CASE BeginGathering(r)
    <3> USE <2>1, <2>4 DEF BeginGathering, IInv, TypeOK, Others
    <3>1. /\ r = Root /\ pc'[Root] = "gather"
          /\ \A s \in Others : pc'[s] = pc[s]
          /\ received'[Root] = newfiles[Root]
          /\ \A s \in Others : received[s] = {} /\ received'[s] = {}
          /\ BeforeCalculation' /\ BeforeCalculation
      BY DEF BeforeCalculation, Collecting, Accounting
    <3>2. \A s \in Others : Held(s)' = Held(s)
      BY <3>1 DEF Held
    <3>3. remaining' = Cardinality(Outstanding')
      <4>1. Outstanding' = FromOthers
        BY <3>1 DEF Outstanding, FromOthers
      <4> QED
        BY <4>1, ExpectedExact
    <3>4. \A s \in Ranks : InTransit(s)' = InTransit(s)
      BY DEF InTransit
    <3>5. \A m \in channel : m[1] # Root /\ pc'[m[1]] \in Exchange
      BY <3>1 DEF Accounting, Exchange
    <3>6. \A s \in Ranks : unsent'[s] # {} => pc'[s] = "send"
      BY <3>1 DEF Accounting
    <3> HIDE DEF Held, InTransit, Outstanding, BeforeCalculation
    <3> QED
      BY <3>1, <3>2, <3>3, <3>4, <3>5, <3>6 DEF Accounting
  <2> QED
    BY <1>5, <2>2, <2>3, <2>4, UpdateProcessedCases
<1>6. ASSUME NEW r \in Ranks, SendBuffered(r) PROVE Accounting'
  <2> USE <1>6 DEF SendBuffered, IInv, TypeOK, Others
  <2>1. PICK f \in unsent[r] : /\ channel' = channel \cup {<<r, f>>}
                               /\ unsent' = [unsent EXCEPT ![r] = @ \ {f}]
    OBVIOUS
  <2>2. /\ pc[r] = "send" /\ r \in Others /\ f \in Files
        /\ UNCHANGED <<pc, total, doneGlobal, newfiles, received, remaining>>
    BY DEF Roles
  <2>3. BeforeCalculation /\ BeforeCalculation' /\ pc[Root] # "barrier"
    <3>1. Collecting /\ pc[Root] \in InCollection
      BY <2>2 DEF InStep, Exchange, InCollection
    <3>2. pc[Root] # "barrier"
      BY <2>1, <2>2 DEF Accounting, Held
    <3> QED
      BY <2>2, <3>1, <3>2 DEF Roles, InCollection, Exchange, BeforeCalculation, Collecting
  <2>4. ASSUME NEW s \in Others
        PROVE  /\ newfiles[s] = received[s] \cup InTransit(s)' \cup Held(s)'
               /\ received[s] \cap InTransit(s)' = {}
               /\ received[s] \cap Held(s)' = {}
               /\ InTransit(s)' \cap Held(s)' = {}
    <3>1. /\ newfiles[s] = received[s] \cup InTransit(s) \cup Held(s)
          /\ received[s] \cap InTransit(s) = {}
          /\ received[s] \cap Held(s) = {}
          /\ InTransit(s) \cap Held(s) = {}
      BY <2>3 DEF Accounting
    <3>2. CASE s = r
      <4>1. /\ Held(s) = unsent[s] /\ Held(s)' = Held(s) \ {f}
            /\ InTransit(s)' = InTransit(s) \cup {f}
        BY <2>1, <2>2, <3>2 DEF Held, InTransit
      <4> HIDE DEF Held, InTransit
      <4> QED
        BY <2>1, <3>1, <3>2, <4>1
    <3>3. CASE s # r
      <4>1. Held(s)' = Held(s) /\ InTransit(s)' = InTransit(s)
        BY <2>1, <2>2, <3>3 DEF Held, InTransit
      <4> QED
        BY <3>1, <4>1
    <3> QED
      BY <3>2, <3>3
  <2>5. \A s \in Ranks : unsent'[s] # {} => pc[s] = "send"
    BY <2>1, <2>2 DEF Accounting
  <2>6. \A m \in channel' : m[1] # Root /\ pc[m[1]] \in Exchange
    BY <2>1, <2>2 DEF Accounting, Exchange
  <2>7. Outstanding' = Outstanding
    BY <2>2 DEF Outstanding
  <2> HIDE DEF Held, InTransit, Outstanding, BeforeCalculation
  <2> QED
    BY <2>2, <2>3, <2>4, <2>5, <2>6, <2>7 DEF Accounting
<1>7. ASSUME NEW r \in Ranks, SendMatched(r) PROVE Accounting'
  <2> USE <1>7 DEF SendMatched, IInv, TypeOK, Others
  <2>1. PICK f \in unsent[r] : /\ unsent' = [unsent EXCEPT ![r] = @ \ {f}]
                               /\ received' = [received EXCEPT ![r] = @ \cup {f}]
    OBVIOUS
  <2>2. /\ pc[r] = "send" /\ r \in Others /\ f \in Files /\ pc[Root] = "gather"
        /\ UNCHANGED <<pc, total, doneGlobal, newfiles, channel>>
    BY DEF Roles
  <2>3. BeforeCalculation /\ BeforeCalculation'
    BY <2>2 DEF InStep, Exchange, BeforeCalculation, Collecting
  <2>4. ASSUME NEW s \in Others
        PROVE  /\ newfiles[s] = received[s] \cup InTransit(s) \cup Held(s)
               /\ received[s] \cap InTransit(s) = {}
               /\ received[s] \cap Held(s) = {}
               /\ InTransit(s) \cap Held(s) = {}
    BY <2>3 DEF Accounting
  <2>5. ASSUME NEW s \in Others
        PROVE  /\ newfiles[s] = received'[s] \cup InTransit(s)' \cup Held(s)'
               /\ received'[s] \cap InTransit(s)' = {}
               /\ received'[s] \cap Held(s)' = {}
               /\ InTransit(s)' \cap Held(s)' = {}
    <3>1. InTransit(s)' = InTransit(s)
      BY <2>2 DEF InTransit
    <3>2. CASE s = r
      <4>1. /\ Held(s) = unsent[s] /\ Held(s)' = Held(s) \ {f}
            /\ received'[s] = received[s] \cup {f}
        BY <2>1, <2>2, <3>2 DEF Held
      <4> HIDE DEF Held, InTransit
      <4> QED
        BY <2>1, <2>4, <3>1, <3>2, <4>1
    <3>3. CASE s # r
      <4>1. Held(s)' = Held(s) /\ received'[s] = received[s]
        BY <2>1, <2>2, <3>3 DEF Held
      <4> QED
        BY <2>4, <3>1, <4>1
    <3> QED
      BY <3>2, <3>3
  <2>6. remaining' = Cardinality(Outstanding')
    <3>1. f \in newfiles[r] /\ f \notin received[r]
      BY <2>1, <2>2, <2>4 DEF Held
    <3> QED
      BY <2>1, <2>2, <3>1, OneReceived
  <2>7. /\ \A s \in Ranks : unsent'[s] # {} => pc[s] = "send"
        /\ received'[Root] = received[Root]
    BY <2>1, <2>2 DEF Accounting
  <2> HIDE DEF Held, InTransit, Outstanding, BeforeCalculation
  <2> QED
    BY <2>2, <2>3, <2>5, <2>6, <2>7 DEF Accounting
<1>8. ASSUME NEW r \in Ranks, SendDone(r) \/ ReceiveBroadcast(r) PROVE Accounting'
  <2> USE <1>8 DEF SendDone, ReceiveBroadcast, Goto, exchange, IInv, TypeOK, Others
  <2>1. /\ UNCHANGED <<total, doneGlobal, newfiles, exchange>>
        /\ r \in Others /\ pc'[Root] = pc[Root]
        /\ pc' = [pc EXCEPT ![r] = pc'[r]]
        /\ pc[r] \in {"send", "broadcast"} /\ pc'[r] \in {"broadcast", "barrier"}
        /\ unsent[r] = {}
    BY DEF Roles, Accounting
  <2>2. \A s \in Ranks : Held(s)' = Held(s) /\ InTransit(s)' = InTransit(s)
    BY <2>1 DEF Held, InTransit
  <2>3. Outstanding' = Outstanding /\ (BeforeCalculation' <=> BeforeCalculation)
    BY <2>1 DEF Outstanding, BeforeCalculation, Collecting
  <2>4. \A s \in Ranks : unsent[s] # {} => pc'[s] = "send"
    BY <2>1 DEF Accounting
  <2>5. \A m \in channel : pc'[m[1]] \in Exchange
    <3> SUFFICES ASSUME NEW m \in channel PROVE pc'[m[1]] \in Exchange
      OBVIOUS
    <3>1. m[1] \in Ranks /\ pc[m[1]] \in Exchange
      BY DEF Accounting
    <3> QED
      BY <2>1, <3>1 DEF Exchange
  <2> HIDE DEF Held, InTransit, Outstanding, BeforeCalculation
  <2> QED
    BY <2>1, <2>2, <2>3, <2>4, <2>5 DEF Accounting
<1>9. CASE Receive
  <2> USE <1>9 DEF Receive, IInv, TypeOK
  <2>1. PICK m \in channel : /\ channel' = channel \ {m}
                             /\ received' = [received EXCEPT ![m[1]] = @ \cup {m[2]}]
    OBVIOUS
  <2> DEFINE r == m[1]
             f == m[2]
  <2>2. /\ m = <<r, f>> /\ r \in Others /\ f \in Files /\ pc[Root] = "gather"
        /\ UNCHANGED <<pc, total, doneGlobal, newfiles, unsent>>
    BY <2>1 DEF Accounting, Others
  <2> HIDE DEF r, f
  <2>3. BeforeCalculation /\ BeforeCalculation'
    BY <2>2 DEF InStep, Exchange, BeforeCalculation, Collecting
  <2>4. ASSUME NEW s \in Others
        PROVE  /\ newfiles[s] = received[s] \cup InTransit(s) \cup Held(s)
               /\ received[s] \cap InTransit(s) = {}
               /\ received[s] \cap Held(s) = {}
               /\ InTransit(s) \cap Held(s) = {}
    BY <2>3 DEF Accounting
  <2>5. received' = [received EXCEPT ![r] = @ \cup {f}]
    BY <2>1 DEF r, f
  <2>6. ASSUME NEW s \in Others
        PROVE  /\ newfiles[s] = received'[s] \cup InTransit(s)' \cup Held(s)'
               /\ received'[s] \cap InTransit(s)' = {}
               /\ received'[s] \cap Held(s)' = {}
               /\ InTransit(s)' \cap Held(s)' = {}
    <3>1. Held(s)' = Held(s) /\ s \in Ranks
      BY <2>2 DEF Held, Others
    <3>2. CASE s = r
      <4>1. /\ f \in InTransit(s) /\ InTransit(s)' = InTransit(s) \ {f}
            /\ received'[s] = received[s] \cup {f}
        BY <2>1, <2>2, <2>5, <3>1, <3>2 DEF InTransit
      <4> HIDE DEF Held, InTransit
      <4> QED
        BY <2>4, <3>1, <4>1
    <3>3. CASE s # r
      <4>1. InTransit(s)' = InTransit(s) /\ received'[s] = received[s]
        BY <2>1, <2>2, <2>5, <3>1, <3>3 DEF InTransit
      <4> QED
        BY <2>4, <3>1, <4>1
    <3> QED
      BY <3>2, <3>3
  <2>7. remaining' = Cardinality(Outstanding')
    <3>1. f \in newfiles[r] /\ f \notin received[r]
      BY <2>1, <2>2, <2>4 DEF InTransit
    <3> QED
      BY <2>2, <2>5, <3>1, OneReceived
  <2>8. received'[Root] = received[Root]
    BY <2>2, <2>5 DEF Others
  <2>9. \A n \in channel' : n \in channel
    BY <2>1
  <2> HIDE DEF Held, InTransit, Outstanding, BeforeCalculation
  <2> QED
    BY <2>2, <2>3, <2>6, <2>7, <2>8, <2>9 DEF Accounting
<1>10. CASE Calculate
  <2> USE <1>10 DEF Calculate, Goto, IInv, TypeOK, Others
  <2>1. channel = {} /\ \A r \in Others : Held(r) = {}
    BY AllReceived
  <2>2. /\ pc'[Root] = "barrier" /\ \A r \in Others : pc'[r] = pc[r]
        /\ pc[Root] = "gather"
        /\ UNCHANGED <<channel, unsent, newfiles>>
    OBVIOUS
  <2>3. \A r \in Others : Held(r)' = Held(r)
    BY <2>2 DEF Held
  <2>4. ~BeforeCalculation'
    BY <2>2 DEF BeforeCalculation
  <2>5. \A r \in Ranks : unsent[r] # {} => pc'[r] = "send"
    BY <2>2 DEF Accounting
  <2> HIDE DEF Held, BeforeCalculation
  <2> QED
    BY <2>1, <2>2, <2>3, <2>4, <2>5 DEF Accounting
<1>11. CASE FinalBarrier
  <2> USE <1>11 DEF FinalBarrier, AllAt, exchange
  <2>1. /\ \A r \in Ranks : pc[r] = "barrier" /\ pc'[r] = "process"
        /\ UNCHANGED exchange
    OBVIOUS
  <2>2. ~BeforeCalculation /\ ~BeforeCalculation'
    BY <2>1 DEF BeforeCalculation
  <2> HIDE DEF BeforeCalculation
  <2> QED
    BY <2>1, <2>2 DEF Accounting, IInv
<1> QED
  BY <1>1, <1>2, <1>3, <1>4, <1>5, <1>6, <1>7, <1>8, <1>9, <1>10, <1>11
  DEF Next, vars, RankStep, RootStep, Collective, WriteFile, RewriteFile, TouchDone

-----------------------------------------------------------------------------

(* A step of one rank that leaves the ready files and broadcasts alone and *)
(* does not go through the exchange.                                       *)
LEMMA BroadcastingUndisturbed ==
    ASSUME IInv, NEW r \in Ranks, pc[r] \in Agreeing, pc[r] \notin InCollection,
           pc'[r] \in Agreeing, pc'[r] \notin InCollection,
           pc' = [pc EXCEPT ![r] = pc'[r]],
           UNCHANGED <<readyFiles, broadcasts, total, doneGlobal>>
    PROVE  Broadcasting'
<1> USE FilesInfoAssumption
<1>1. \A s \in Ranks : pc[s] \notin Exchange
  BY Idle
<1>2. \A s \in Ranks : pc'[s] \notin Exchange
  BY <1>1 DEF IInv, TypeOK, InCollection
<1>3. \A s \in Ranks : pc[s] \in Agreeing <=> pc'[s] \in Agreeing
  BY DEF IInv, TypeOK
<1>4. \A s \in Ranks : pc[s] = "updateProcessed" <=> pc'[s] = "updateProcessed"
  BY DEF IInv, TypeOK, InCollection
<1>5. Inporters \cup {Root} \subseteq Ranks
  BY RoundsAssumption
<1>6. /\ pc[Root] # "barrier" /\ pc'[Root] # "barrier"
      /\ \A s \in Ranks : pc'[s] \notin {"send", "gather", "broadcast", "barrier"}
  BY <1>1, <1>2 DEF Exchange
<1>7. (\A s \in Ranks : broadcasts[s] = <<>>)'
  BY <1>6 DEF IInv, Broadcasting
<1> HIDE DEF Agreeing
<1> QED
  BY <1>3, <1>4, <1>5, <1>6, <1>7 DEF IInv, Broadcasting, Collecting, Receivers

(* Each inporter is sent what the root decided once, and from then on both *)
(* hold the same ready files.                                              *)
LEMMA BroadcastingStep ==
    ASSUME IInv, [Next]_vars
    PROVE  Broadcasting'
<1> USE FilesInfoAssumption, RoundsAssumption
<1>1. CASE UNCHANGED <<pc, total, doneGlobal, readyFiles, broadcasts>>
  BY <1>1 DEF IInv, Broadcasting, BeforeCalculation, Collecting
<1>2. ASSUME NEW r \in Ranks, Scan(r) \/ CheckDone(r) \/ Process(r)
      PROVE  Broadcasting'
  <2>1. /\ pc[r] \in Agreeing /\ pc[r] \notin InCollection
        /\ pc'[r] \in Agreeing /\ pc'[r] \notin InCollection
        /\ pc' = [pc EXCEPT ![r] = pc'[r]]
        /\ UNCHANGED <<readyFiles, broadcasts, total, doneGlobal>>
    BY <1>2 DEF Scan, CheckDone, DoneOrUpdate, Process, Goto, InCollection, Exchange,
                Agreeing, HaveReadyFiles, IInv, TypeOK
  <2> QED
    BY <2>1, BroadcastingUndisturbed
<1>3. CASE GetTotalFiles
  <2>1. /\ \A r \in Ranks : pc[r] = "update" /\ pc'[r] = "isDone"
        /\ UNCHANGED <<readyFiles, broadcasts>>
    BY <1>3 DEF GetTotalFiles, AllAt
  <2> QED
    BY <2>1 DEF IInv, Broadcasting, BeforeCalculation, Agreeing, HaveReadyFiles
<1>4. CASE IsDone
  <2>1. /\ \A r \in Ranks : pc[r] = "isDone" /\ pc'[r] = "updateProcessed"
        /\ UNCHANGED <<readyFiles, broadcasts>>
    BY <1>4 DEF IsDone, AllAt
  <2> QED
    BY <2>1 DEF IInv, Broadcasting, Agreeing, HaveReadyFiles, Receivers, Others
<1>5. ASSUME NEW r \in Ranks, UpdateProcessed(r) PROVE Broadcasting'
  <2> USE DEF IInv, TypeOK
  <2>1. /\ pc[r] = "updateProcessed" /\ UNCHANGED <<total, doneGlobal, broadcasts>>
        /\ readyFiles' = [readyFiles EXCEPT ![r] = {}]
    BY <1>5 DEF UpdateProcessed, Cleared
  <2>2. /\ readyFiles'[r] = {}
        /\ \A s \in Ranks \ {r} : readyFiles'[s] = readyFiles[s]
    BY <2>1
  <2>3. CASE EarlyReturn(r)
    <3>1. /\ ~Collecting /\ ~Collecting' /\ pc'[r] = "process"
          /\ \A s \in Ranks \ {r} : pc'[s] = pc[s]
      BY <2>1, <2>3 DEF EarlyReturn, Collecting
    <3>2. \A s \in Ranks : pc[s] \notin Exchange /\ pc'[s] \notin Exchange
      BY <3>1 DEF InStep, Exchange
    <3>3. \A s \in Ranks : broadcasts'[s] = <<>>
      BY <2>1, <3>2 DEF Broadcasting, Exchange
    <3>4. \A s \in Ranks : pc[s] # "updateProcessed" => readyFiles[s] = {}
      BY <2>1, <3>1 DEF Broadcasting
    <3>5. \A s \in Ranks : pc'[s] # "updateProcessed" => readyFiles'[s] = {}
      BY <2>2, <3>1, <3>4
    <3>6. \A s \in Inporters \cup {Root} : pc'[s] \in Agreeing => readyFiles'[s] = {}
      BY <3>5 DEF Agreeing, HaveReadyFiles
    <3>7. ~BeforeCalculation' /\ pc'[Root] # "barrier"
      BY <3>1, <3>2 DEF BeforeCalculation, Exchange
    <3> HIDE DEF BeforeCalculation, Agreeing
    <3> QED
      BY <3>3, <3>5, <3>6, <3>7 DEF Broadcasting
  <2>4. CASE BeginSending(r)
    <3>1. /\ Collecting /\ Collecting' /\ r # Root /\ pc'[r] = "send"
          /\ \A s \in Ranks \ {r} : pc'[s] = pc[s]
      BY <2>1, <2>4 DEF BeginSending, Collecting
    <3>2. /\ readyFiles'[Root] = readyFiles[Root] /\ pc'[Root] = pc[Root]
          /\ BeforeCalculation <=> BeforeCalculation'
      BY <2>2, <3>1 DEF BeforeCalculation
    <3>3. \A s \in Ranks :
             pc[s] \in {"updateProcessed", "send", "broadcast"}
                <=> pc'[s] \in {"updateProcessed", "send", "broadcast"}
      BY <2>1, <3>1
    <3>4. \A s \in Inporters \cup {Root} : pc'[s] \in Agreeing => s # r
      BY <3>1 DEF Agreeing, HaveReadyFiles
    <3>5. \A s \in Ranks : pc'[s] = "barrier" => pc[s] = "barrier"
      BY <3>1
    <3> HIDE DEF BeforeCalculation, Agreeing, Collecting
    <3> QED
      BY <2>1, <2>2, <3>1, <3>2, <3>3, <3>4, <3>5 DEF Broadcasting, Receivers
  <2>5. CASE BeginGathering(r)
    <3>1. /\ Collecting /\ Collecting' /\ r = Root /\ pc'[r] = "gather"
          /\ \A s \in Ranks \ {r} : pc'[s] = pc[s]
      BY <2>1, <2>5 DEF BeginGathering, Collecting
    <3>2. BeforeCalculation
      BY <2>1, <3>1 DEF BeforeCalculation
    <3>3. \A s \in Ranks : broadcasts'[s] = <<>>
      BY <2>1, <3>1 DEF Broadcasting
    <3>4. \A s \in Inporters \cup {Root} : pc'[s] \in Agreeing => s # r
      BY <3>1 DEF Agreeing, HaveReadyFiles
    <3> HIDE DEF BeforeCalculation, Agreeing, Collecting
    <3> QED
      BY <2>1, <2>2, <3>1, <3>2, <3>3, <3>4 DEF Broadcasting, Receivers, Others
  <2> QED
    BY <1>5, <2>3, <2>4, <2>5, UpdateProcessedCases
<1>6. ASSUME NEW r \in Ranks, SendDone(r) PROVE Broadcasting'
  <2> USE DEF IInv, TypeOK
  <2>1. /\ pc[r] = "send" /\ r # Root
        /\ UNCHANGED <<total, doneGlobal, broadcasts, readyFiles>>
        /\ pc'[r] = IF r \in Inporters THEN "broadcast" ELSE "barrier"
        /\ \A s \in Ranks \ {r} : pc'[s] = pc[s]
    BY <1>6 DEF SendDone, Goto, Roles
  <2>2. Collecting /\ (BeforeCalculation' <=> BeforeCalculation)
    BY <2>1 DEF InStep, Exchange, BeforeCalculation, Collecting
  <2>3. Collecting'
    BY <2>1, <2>2 DEF Collecting
  <2>4. \A s \in Receivers :
           /\ pc[s] \in {"updateProcessed", "send", "broadcast"}
                <=> pc'[s] \in {"updateProcessed", "send", "broadcast"}
           /\ pc'[s] = "barrier" => pc[s] = "barrier"
    BY <2>1 DEF Receivers, Others
  <2>5. \A s \in Inporters \cup {Root} : pc'[s] \in Agreeing => s # r
    BY <2>1 DEF Agreeing, HaveReadyFiles
  <2>6. pc'[Root] = pc[Root] /\ readyFiles[r] = {}
    BY <2>1 DEF Broadcasting
  <2> HIDE DEF BeforeCalculation, Agreeing, Collecting
  <2> QED
    BY <2>1, <2>2, <2>3, <2>4, <2>5, <2>6 DEF Broadcasting
<1>7. CASE Calculate
  <2> USE DEF IInv, TypeOK
  <2> DEFINE ready == ReadyFiles(filesInfo')
  <2>1. /\ pc[Root] = "gather" /\ pc'[Root] = "barrier"
        /\ \A s \in Others : pc'[s] = pc[s] /\ readyFiles'[s] = readyFiles[s]
        /\ readyFiles'[Root] = ready
        /\ UNCHANGED <<total, doneGlobal>>
    BY <1>7 DEF Calculate, Goto, Others
  <2>2. broadcasts' = [s \in Ranks |-> IF s \in Receivers
                                       THEN Append(broadcasts[s], ready)
                                       ELSE broadcasts[s]]
    BY <1>7, <2>1 DEF Calculate, Receivers
  <2> HIDE DEF ready
  <2>3. Collecting /\ Collecting' /\ BeforeCalculation /\ ~BeforeCalculation'
    BY <2>1 DEF InStep, Exchange, BeforeCalculation, Collecting
  <2>4. \A s \in Receivers : pc'[s] \in {"updateProcessed", "send", "broadcast"}
    BY <2>1, <2>3 DEF Receivers, Others, Broadcasting, InStep, Roles, InCollection, Exchange
  <2>5. \A s \in Ranks : broadcasts[s] = <<>>
    BY <2>1 DEF Broadcasting
  <2>6. Append(<<>>, ready) = <<ready>>
    OBVIOUS
  <2>7. \A s \in Ranks : broadcasts'[s] = IF s \in Receivers THEN <<ready>> ELSE <<>>
    BY <2>2, <2>5, <2>6
  <2>8. \A s \in Inporters \cup {Root} : pc'[s] \in Agreeing => s = Root
    <3> SUFFICES ASSUME NEW s \in Inporters, s # Root PROVE pc'[s] \notin Agreeing
      OBVIOUS
    <3>1. s \in Receivers
      BY DEF Receivers, Others
    <3>2. pc'[s] \in {"updateProcessed", "send", "broadcast"}
      BY <2>4, <3>1
    <3> QED
      BY <3>2 DEF Agreeing, HaveReadyFiles
  <2> HIDE DEF BeforeCalculation, Agreeing, Collecting
  <2> QED
    BY <2>1, <2>3, <2>4, <2>7, <2>8 DEF Broadcasting, Others
<1>8. ASSUME NEW r \in Ranks, ReceiveBroadcast(r) PROVE Broadcasting'
  <2> USE DEF IInv, TypeOK
  <2>1. /\ pc[r] = "broadcast" /\ r \in Receivers /\ r # Root /\ broadcasts[r] # <<>>
        /\ UNCHANGED <<total, doneGlobal>>
        /\ pc'[r] = "barrier"
        /\ \A s \in Ranks \ {r} :
              pc'[s] = pc[s] /\ readyFiles'[s] = readyFiles[s] /\ broadcasts'[s] = broadcasts[s]
        /\ readyFiles'[r] = readyFiles[r] \cup Head(broadcasts[r])
        /\ broadcasts'[r] = Tail(broadcasts[r])
    BY <1>8 DEF ReceiveBroadcast, WholeBroadcast, Goto, Roles, Receivers, Others
  <2>2. /\ pc[Root] = "barrier" /\ broadcasts[r] = <<readyFiles[Root]>>
        /\ readyFiles[r] = {}
    BY <2>1 DEF Broadcasting
  <2>3. readyFiles'[r] = readyFiles[Root] /\ broadcasts'[r] = <<>>
    BY <2>1, <2>2
  <2>4. pc'[Root] = "barrier" /\ readyFiles'[Root] = readyFiles[Root]
    BY <2>1, <2>2
  <2>5. Collecting' /\ ~BeforeCalculation'
    BY <2>1, <2>4 DEF InStep, Exchange, BeforeCalculation, Collecting
  <2>6. \A s \in Inporters \cup {Root} :
           pc'[s] \in Agreeing => readyFiles'[s] = readyFiles'[Root]
    <3> SUFFICES ASSUME NEW s \in Inporters \cup {Root}, pc'[s] \in Agreeing, s # r
                 PROVE  readyFiles[s] = readyFiles[Root]
      BY <2>1, <2>3, <2>4
    <3>1. pc[s] \in Agreeing /\ pc[Root] \in Agreeing
      BY <2>1, <2>2 DEF Agreeing, HaveReadyFiles
    <3> QED
      BY <3>1 DEF Broadcasting
  <2>7. \A s \in Ranks :
           broadcasts[s] =
               IF /\ s \in Receivers
                  /\ pc[Root] = "barrier"
                  /\ pc[s] \in {"updateProcessed", "send", "broadcast"}
               THEN <<readyFiles[Root]>> ELSE <<>>
    BY DEF Broadcasting
  <2> HIDE DEF IInv, TypeOK, BeforeCalculation, Agreeing, Collecting
  <2>8. \A s \in Ranks :
            broadcasts'[s] =
                IF /\ s \in Receivers
                   /\ pc'[Root] = "barrier"
                   /\ pc'[s] \in {"updateProcessed", "send", "broadcast"}
                THEN <<readyFiles'[Root]>> ELSE <<>>
    BY <2>1, <2>2, <2>3, <2>4, <2>7
  <2>9. \A s \in Ranks : pc'[s] \in {"send", "gather", "broadcast"} => readyFiles'[s] = {}
    <3> SUFFICES ASSUME NEW s \in Ranks \ {r}, pc[s] \in {"send", "gather", "broadcast"}
                 PROVE  readyFiles[s] = {}
      BY <2>1
    <3> QED
      BY DEF IInv, Broadcasting
  <2>10. \A s, t \in Inporters \cup {Root} :
            pc'[s] \in Agreeing /\ pc'[t] \in Agreeing => readyFiles'[s] = readyFiles'[t]
    BY <2>6
  <2> QED
    BY <2>5, <2>8, <2>9, <2>10 DEF Broadcasting
<1>9. CASE FinalBarrier
  <2>1. /\ \A r \in Ranks : pc[r] = "barrier" /\ pc'[r] = "process"
        /\ UNCHANGED <<total, doneGlobal, readyFiles, broadcasts>>
    BY <1>9 DEF FinalBarrier, AllAt
  <2> QED
    BY <2>1 DEF IInv, Broadcasting, BeforeCalculation, Agreeing, HaveReadyFiles
<1> QED
  BY <1>1, <1>2, <1>3, <1>4, <1>5, <1>6, <1>7, <1>8, <1>9
  DEF Next, vars, RankStep, RootStep, Collective, WriteFile, RewriteFile, TouchDone,
      SendBuffered, SendMatched, Receive

-----------------------------------------------------------------------------

(* A notifier that is done keeps its rank out of update, but for the first *)
(* one.                                                                    *)
LEMMA DoneFirstStep ==
    ASSUME IInv, [Next]_vars
    PROVE  DoneFirst'
<1> USE FilesInfoAssumption DEF IInv, TypeOK, DoneFirst, AllAt, Goto
<1>1. CASE UNCHANGED <<pc, ftype, doneFlag, doneGlobal, isFinished>>
  BY <1>1
<1>2. ASSUME NEW r \in Ranks, Scan(r) PROVE DoneFirst'
  BY <1>2 DEF Scan, InCollection, Exchange
<1>3. ASSUME NEW r \in Ranks, CheckDone(r) PROVE DoneFirst'
  BY <1>3 DEF CheckDone, DoneOrUpdate, InCollection, Exchange
<1>4. CASE GetTotalFiles
  BY <1>4 DEF GetTotalFiles, InCollection, Exchange, notifier
<1>5. CASE IsDone
  BY <1>5 DEF IsDone, InCollection, notifier
<1>6. ASSUME NEW r \in Ranks,
             pc[r] \in InCollection, pc'[r] \in InCollection,
             pc' = [pc EXCEPT ![r] = pc'[r]],
             UNCHANGED <<ftype, doneFlag, doneGlobal, isFinished>>
      PROVE  DoneFirst'
  BY <1>6 DEF InCollection, Exchange
<1>7. ASSUME NEW r \in Ranks, UpdateProcessed(r) PROVE DoneFirst'
  <2>1. pc[r] = "updateProcessed" /\ UNCHANGED <<ftype, doneGlobal, doneFlag>>
    BY <1>7 DEF UpdateProcessed, notifier
  <2>2. CASE EarlyReturn(r)
    BY <2>1, <2>2 DEF EarlyReturn, Collecting
  <2>3. CASE BeginSending(r) \/ BeginGathering(r)
    <3>1. /\ pc'[r] \in InCollection /\ pc' = [pc EXCEPT ![r] = pc'[r]]
          /\ UNCHANGED isFinished
      BY <2>3 DEF BeginSending, BeginGathering, InCollection, Exchange
    <3> QED
      BY <2>1, <3>1, <1>6 DEF InCollection
  <2> QED
    BY <1>7, <2>2, <2>3, UpdateProcessedCases
<1>8. ASSUME NEW r \in Ranks, SendDone(r) \/ ReceiveBroadcast(r) PROVE DoneFirst'
  <2>1. /\ pc[r] \in InCollection /\ pc'[r] \in InCollection
        /\ pc' = [pc EXCEPT ![r] = pc'[r]]
        /\ UNCHANGED <<ftype, doneFlag, doneGlobal, isFinished>>
    BY <1>8 DEF SendDone, ReceiveBroadcast, InCollection, Exchange, notifier
  <2> QED
    BY <2>1, <1>6
<1>9. CASE Calculate
  <2>1. /\ pc[Root] \in InCollection /\ pc'[Root] \in InCollection
        /\ pc' = [pc EXCEPT ![Root] = pc'[Root]]
        /\ UNCHANGED <<ftype, doneFlag, doneGlobal, isFinished>>
    BY <1>9 DEF Calculate, InCollection, Exchange, notifier
  <2> QED
    BY <2>1, <1>6
<1>10. CASE FinalBarrier
  BY <1>10 DEF FinalBarrier, ReturnDone
<1>11. ASSUME NEW r \in Ranks, Process(r) PROVE DoneFirst'
  BY <1>11 DEF Process, InCollection, Exchange, notifier
<1> QED
  BY <1>1, <1>2, <1>3, <1>4, <1>5, <1>7, <1>8, <1>9, <1>10, <1>11
  DEF Next, vars, notifier, RankStep, RootStep, Collective, WriteFile, RewriteFile,
      TouchDone, SendBuffered, SendMatched, Receive

(* The first update starts from nothing.                                   *)
LEMMA FirstUpdateStep ==
    ASSUME IInv, [Next]_vars
    PROVE  FirstUpdate'
<1> USE FilesInfoAssumption DEF IInv, TypeOK, FirstUpdate, AllAt, Goto, InUpdate, Gathering
<1>1. CASE UNCHANGED <<pc, ftype, coordinator, delivered, readyFiles, total, doneGlobal,
                       newfiles>>
  BY <1>1 DEF Collecting, coordinator
<1>2. ASSUME NEW r \in Ranks, Scan(r) \/ CheckDone(r) \/ Process(r)
      PROVE  FirstUpdate'
  <2>1. /\ pc[r] \in {"poll", "checkDone", "process"}
        /\ pc'[r] \in {"checkDone", "update", "process", "poll", "exit"}
        /\ pc' = [pc EXCEPT ![r] = pc'[r]]
        /\ newfiles' = [newfiles EXCEPT ![r] = newfiles'[r]]
        /\ UNCHANGED <<filesInfo, writers, collectTick, delivered, readyFiles, total,
                       doneGlobal>>
        /\ ftype' = ftype \/ ftype' # "InitialFiles"
    BY <1>2 DEF Scan, CheckDone, DoneOrUpdate, Process, NextFtype, coordinator
  <2>2. CASE r = Root
    <3>1. ftype' # "InitialFiles"
      BY <1>2, <2>2 DEF Scan, CheckDone, Process, NextFtype
    <3> QED
      BY <3>1
  <2>3. CASE r # Root /\ ftype' = "InitialFiles"
    <3>1. /\ pc'[Root] = pc[Root] /\ ftype = "InitialFiles"
          /\ pc[Root] # "update" /\ pc[Root] # "isDone"
      BY <2>1, <2>3 DEF InStep
    <3>2. pc[Root] \in {"updateProcessed", "gather"} => ~Collecting
      BY <2>1 DEF InStep, InCollection, Exchange
    <3>3. pc[Root] = "gather" => Collecting
      BY DEF InStep, Exchange
    <3>4. Collecting' <=> Collecting
      BY <2>1 DEF Collecting
    <3> HIDE DEF Collecting
    <3> QED
      BY <2>1, <3>1, <3>2, <3>3, <3>4
  <2> QED
    BY <2>2, <2>3
<1>3. CASE GetTotalFiles
  BY <1>3 DEF GetTotalFiles, coordinator
<1>4. CASE IsDone
  BY <1>4 DEF IsDone, coordinator
<1>5. ASSUME NEW r \in Ranks, UpdateProcessed(r) PROVE FirstUpdate'
  <2>1. /\ pc[r] = "updateProcessed"
        /\ UNCHANGED <<ftype, doneGlobal, total, newfiles, writers, delivered>>
        /\ readyFiles' = [readyFiles EXCEPT ![r] = {}]
        /\ DOMAIN filesInfo' = DOMAIN filesInfo
    BY <1>5 DEF UpdateProcessed, Cleared, Processed
  <2>2. CASE EarlyReturn(r)
    BY <2>1, <2>2 DEF EarlyReturn, Collecting
  <2>3. CASE BeginSending(r)
    BY <2>1, <2>3 DEF BeginSending, Collecting
  <2>4. CASE BeginGathering(r)
    BY <2>1, <2>4 DEF BeginGathering, Collecting
  <2> QED
    BY <1>5, <2>2, <2>3, <2>4, UpdateProcessedCases
<1>6. ASSUME NEW r \in Ranks, SendDone(r) PROVE FirstUpdate'
  BY <1>6 DEF SendDone, coordinator, Collecting, Roles
<1>7. CASE Calculate
  BY <1>7 DEF Calculate
<1>8. ASSUME NEW r \in Ranks, ReceiveBroadcast(r) PROVE FirstUpdate'
  BY <1>8 DEF ReceiveBroadcast, coordinator, Collecting, Roles
<1>9. CASE FinalBarrier
  BY <1>9 DEF FinalBarrier
<1> QED
  BY <1>1, <1>2, <1>3, <1>4, <1>5, <1>6, <1>7, <1>8, <1>9
  DEF Next, vars, RankStep, RootStep, Collective, WriteFile, RewriteFile, TouchDone,
      SendBuffered, SendMatched, Receive

(* What was handed out stays ready, and is processed when the next round   *)
(* makes its files ready.                                                  *)
LEMMA HandedOutStep ==
    ASSUME IInv, [Next]_vars
    PROVE  /\ HandedOut'
           /\ Calculate => readyFiles'[Root] \cap delivered = {}
<1> USE FilesInfoAssumption DEF IInv, TypeOK
<1>1. CASE UNCHANGED <<filesInfo, readyFiles, delivered>> /\ ~Calculate
  BY <1>1 DEF HandedOut
<1>2. ASSUME NEW r \in Ranks, UpdateProcessed(r), ~Calculate PROVE HandedOut'
  <2>1. /\ \A s \in Ranks \ {r} : readyFiles'[s] = readyFiles[s]
        /\ readyFiles'[r] = {} /\ UNCHANGED delivered
    BY <1>2 DEF UpdateProcessed, Cleared
  <2>2. CASE r # Root
    BY <1>2, <2>1, <2>2 DEF UpdateProcessed, HandedOut
  <2>3. CASE r = Root
    <3>1. ProcessedAs(filesInfo', filesInfo, readyFiles[Root])
      BY <1>2, <2>3, ProcessedEffect DEF UpdateProcessed, IsInfo
    <3>2. \A f \in readyFiles[Root] : f \in DOMAIN filesInfo /\ filesInfo[f].is_ready
      BY DEF HandedOut
    <3>3. Coherent(filesInfo)'
      BY <3>1, <3>2 DEF HandedOut, ProcessedAs, Coherent
    <3> QED
      BY <2>1, <2>3, <3>1, <3>3 DEF HandedOut, ProcessedAs
  <2> QED
    BY <2>2, <2>3
<1>3. CASE Calculate
  <2>1. CollectedAs(filesInfo', filesInfo, {}, writers', received, doneGlobal, collectTick)
    BY <1>3, CalculateEffect DEF HandedOut
  <2>2. /\ readyFiles'[Root] = ReadyFiles(filesInfo')
        /\ \A r \in Others : readyFiles'[r] = readyFiles[r]
        /\ delivered' = delivered \cup readyFiles'[Root]
        /\ readyFiles[Root] = {}
    BY <1>3 DEF Calculate, Others, Broadcasting
  <2>3. \A f \in delivered :
           f \in DOMAIN filesInfo' /\ filesInfo'[f].is_ready /\ filesInfo'[f].was_processed
    BY <2>1, <2>2 DEF CollectedAs, HandedOut
  <2>4. \A f \in readyFiles'[Root] :
           /\ f \in DOMAIN filesInfo' /\ filesInfo'[f].is_ready
           /\ ~filesInfo'[f].was_processed
    BY <2>2 DEF ReadyFiles
  <2>5. Coherent(filesInfo)'
    BY <2>1 DEF CollectedAs
  <2> QED
    BY <2>2, <2>3, <2>4, <2>5 DEF HandedOut, Others
<1>4. ASSUME NEW r \in Ranks, ReceiveBroadcast(r), ~Calculate PROVE HandedOut'
  <2>1. /\ broadcasts[r] # <<>> /\ UNCHANGED <<filesInfo, delivered>>
        /\ readyFiles' = [readyFiles EXCEPT ![r] = @ \cup Head(broadcasts[r])]
        /\ r # Root
    BY <1>4 DEF ReceiveBroadcast, WholeBroadcast, coordinator, Roles
  <2>2. Head(broadcasts[r]) = readyFiles[Root]
    BY <2>1 DEF Broadcasting
  <2> QED
    BY <2>1, <2>2 DEF HandedOut
<1> QED
  BY <1>1, <1>2, <1>3, <1>4
  DEF Next, vars, RankStep, RootStep, Collective, WriteFile, RewriteFile, TouchDone, Scan,
      CheckDone, SendBuffered, SendMatched, SendDone, Receive, Process, GetTotalFiles,
      IsDone, FinalBarrier, coordinator

-----------------------------------------------------------------------------

(* The inporters stay within one round of each other, and none processes a *)
(* file again but when it leaves.                                          *)
LEMMA ProcessingStep ==
    ASSUME IInv, [Next]_vars
    PROVE  Processing'
<1> USE FilesInfoAssumption, RoundsAssumption DEF IInv, TypeOK
<1>1. ASSUME UNCHANGED <<pc, readyFiles, processed, delivered, doneFlag, isFinished>>
      PROVE  Processing'
  BY <1>1 DEF Processing
<1>2. ASSUME NEW r \in Ranks, Scan(r) PROVE Processing'
  BY <1>2 DEF Scan, Goto, Processing
<1>3. ASSUME NEW r \in Ranks, CheckDone(r) PROVE Processing'
  BY <1>3 DEF CheckDone, DoneOrUpdate, Goto, Processing
<1>4. CASE GetTotalFiles \/ IsDone
  <2>1. /\ \A r \in Ranks : /\ pc[r] \in {"update", "isDone"}
                            /\ pc'[r] \in {"isDone", "updateProcessed"}
        /\ UNCHANGED <<readyFiles, processed, delivered>>
    BY <1>4 DEF GetTotalFiles, IsDone, AllAt
  <2> QED
    BY <2>1 DEF Processing
<1>5. ASSUME NEW r \in Ranks, UpdateProcessed(r) PROVE Processing'
  <2>1. /\ pc[r] = "updateProcessed" /\ pc'[r] \in {"process", "send", "gather"}
        /\ \A s \in Ranks \ {r} : /\ pc'[s] = pc[s] /\ readyFiles'[s] = readyFiles[s]
                                  /\ isFinished'[s] = isFinished[s]
        /\ readyFiles'[r] = {}
        /\ UNCHANGED <<processed, delivered, doneFlag>>
    BY <1>5 DEF UpdateProcessed, Cleared, Goto, notifier
  <2> QED
    BY <2>1 DEF Processing
<1>6. ASSUME NEW r \in Ranks, SendDone(r) PROVE Processing'
  <2>1. /\ pc[r] = "send" /\ r # Root /\ pc'[r] \in {"broadcast", "barrier"}
        /\ \A s \in Ranks \ {r} : pc'[s] = pc[s]
        /\ UNCHANGED <<readyFiles, processed, delivered, doneFlag, isFinished>>
    BY <1>6 DEF SendDone, Goto, Roles, notifier
  <2> QED
    BY <2>1 DEF Processing
<1>7. CASE Calculate
  <2>1. /\ pc[Root] = "gather" /\ pc'[Root] = "barrier"
        /\ \A s \in Others : pc'[s] = pc[s] /\ readyFiles'[s] = readyFiles[s]
        /\ delivered \subseteq delivered'
        /\ UNCHANGED <<processed, doneFlag, isFinished>>
    BY <1>7 DEF Calculate, Goto, Others, notifier
  <2>2. readyFiles'[Root] \cap delivered = {}
    BY <1>7, HandedOutStep
  <2> QED
    BY <2>1, <2>2 DEF Processing, Others
<1>8. ASSUME NEW r \in Ranks, ReceiveBroadcast(r) PROVE Processing'
  <2>1. /\ pc[r] = "broadcast" /\ r # Root /\ pc'[r] = "barrier"
        /\ \A s \in Ranks \ {r} : pc'[s] = pc[s] /\ readyFiles'[s] = readyFiles[s]
        /\ UNCHANGED <<processed, delivered, doneFlag, isFinished>>
    BY <1>8 DEF ReceiveBroadcast, Goto, Roles, notifier
  <2> QED
    BY <2>1 DEF Processing
<1>9. CASE FinalBarrier
  <2>1. /\ \A r \in Ranks : pc[r] = "barrier" /\ pc'[r] = "process"
        /\ UNCHANGED <<readyFiles, processed, delivered>>
    BY <1>9 DEF FinalBarrier, AllAt
  <2>2. \A r \in Inporters : readyFiles[r] = readyFiles[Root]
    BY <2>1 DEF Broadcasting, Agreeing, HaveReadyFiles
  <2> QED
    BY <2>1, <2>2 DEF Processing
<1>10. ASSUME NEW r \in Ranks, Process(r) PROVE Processing'
  <2>1. /\ pc[r] = "process" /\ pc'[r] \in {"poll", "exit"}
        /\ \A s \in Ranks \ {r} : pc'[s] = pc[s] /\ processed'[s] = processed[s]
        /\ processed'[r] = processed[r] \cup (IF r \in Inporters THEN readyFiles[r] ELSE {})
        /\ UNCHANGED <<readyFiles, delivered, doneFlag, isFinished>>
    BY <1>10 DEF Process, Goto, notifier
  <2>2. \A s \in Ranks : pc[s] \notin Exchange
    BY <2>1, Idle DEF InCollection, Exchange
  <2>3. ASSUME NEW s \in Inporters, r \in Inporters
        PROVE  readyFiles[r] \subseteq
                  processed[s] \cup (IF pc[s] = "process" THEN readyFiles[s] ELSE {})
    <3>1. CASE pc[s] = "updateProcessed"
      <4>1. ~Collecting
        BY <2>1, <3>1 DEF InStep, InCollection, Exchange
      <4> QED
        BY <2>1, <3>1, <4>1 DEF Broadcasting
    <3>2. CASE pc[s] # "updateProcessed"
      <4>1. pc[s] \in Agreeing /\ pc[r] \in Agreeing /\ pc[s] # "barrier"
        BY <2>1, <2>2, <3>2 DEF Labels, Exchange, Agreeing, HaveReadyFiles
      <4>2. \A p, q \in Inporters \cup {Root} :
               pc[p] \in Agreeing /\ pc[q] \in Agreeing => readyFiles[p] = readyFiles[q]
        BY DEF Broadcasting
      <4>3. readyFiles[r] = readyFiles[s]
        BY <2>3, <4>1, <4>2
      <4> QED
        BY <3>2, <4>1, <4>3 DEF Processing
    <3> QED
      BY <3>1, <3>2
  <2>4. ASSUME NEW q \in Inporters, NEW s \in Inporters
        PROVE  processed'[q] \subseteq
                  processed'[s] \cup (IF pc'[s] = "process" THEN readyFiles[s] ELSE {})
    <3>1. /\ processed[q] \subseteq
                processed[s] \cup (IF pc[s] = "process" THEN readyFiles[s] ELSE {})
          /\ q \in Ranks /\ s \in Ranks
      BY DEF Processing
    <3>2. CASE s = r
      BY <2>1, <2>3, <3>1, <3>2
    <3>3. CASE s # r /\ q = r
      BY <2>1, <2>3, <3>1, <3>3
    <3>4. CASE s # r /\ q # r
      BY <2>1, <3>1, <3>4
    <3> QED
      BY <3>2, <3>3, <3>4
  <2>5. \A s \in Inporters : processed'[s] \subseteq delivered
    BY <2>1 DEF Processing, HandedOut
  <2>6. pc'[Root] # "barrier"
    BY <2>1, <2>2 DEF Exchange
  <2>7. \A s \in Inporters :
           pc'[s] \notin {"barrier", "process"} => readyFiles[s] \subseteq processed'[s]
    <3> SUFFICES ASSUME NEW s \in Inporters, pc'[s] \notin {"barrier", "process"}
                 PROVE  readyFiles[s] \subseteq processed'[s]
      OBVIOUS
    <3>1. CASE s = r
      BY <2>1, <3>1
    <3>2. CASE s # r
      BY <2>1, <3>2 DEF Processing
    <3> QED
      BY <3>1, <3>2
  <2>8. \A s \in Inporters :
           pc'[s] = "process" /\ readyFiles[s] \cap processed'[s] # {} =>
              doneFlag[s] /\ isFinished[s]
    BY <2>1 DEF Processing
  <2> QED
    BY <2>1, <2>4, <2>5, <2>6, <2>7, <2>8 DEF Processing
<1> QED
  <2>1. WriteFile \/ RewriteFile \/ TouchDone \/ Receive \/ UNCHANGED vars
           \/ (\E r \in Ranks : SendBuffered(r) \/ SendMatched(r))
        => UNCHANGED <<pc, readyFiles, processed, delivered, doneFlag, isFinished>>
    BY DEF WriteFile, RewriteFile, TouchDone, Receive, SendBuffered, SendMatched, vars, notifier
  <2> QED
    BY <2>1, <1>1, <1>2, <1>3, <1>4, <1>5, <1>6, <1>7, <1>8, <1>9, <1>10
    DEF Next, RankStep, RootStep, Collective

-----------------------------------------------------------------------------

LEMMA Product ==
    ASSUME NEW n \in Nat, NEW k \in Nat
    PROVE  n * k \in Nat /\ n * (k + 1) = n * k + n
OBVIOUS

LEMMA PairsFinite ==
    /\ IsFiniteSet(Pending) /\ Cardinality(Pending) \in Nat
    /\ IsFiniteSet(KnownPairs) /\ Cardinality(KnownPairs) \in Nat
    /\ IsFiniteSet(Pending') /\ Cardinality(Pending') \in Nat
    /\ IsFiniteSet(KnownPairs') /\ Cardinality(KnownPairs') \in Nat
    /\ Cardinality(Ranks) \in Nat
<1>1. /\ Pending \in SUBSET (Ranks \X Files)
      /\ Pending' \in SUBSET (Ranks \X Files)
      /\ KnownPairs \in SUBSET (Ranks \X Files)
      /\ KnownPairs' \in SUBSET (Ranks \X Files)
  BY DEF Pending, KnownPairs
<1>2. Cardinality(Ranks) \in Nat
  BY FS_CardinalityType, RoundsAssumption
<1> HIDE DEF Pending, KnownPairs
<1> QED
  BY <1>1, <1>2, FiniteReports

(* A step that gathers nothing and finds nothing new. *)
LEMMA NothingNew ==
    ASSUME IInv, TypeOK',
           \A r \in Ranks : newfiles'[r] \subseteq newfiles[r],
           \A r \in Ranks : NotCounted(r)' => NotCounted(r) \/ newfiles'[r] = {},
           UNCHANGED <<collectTick, known, disk, rewrites>>
    PROVE  TicksBounded'
<1>1. Pending' \in SUBSET Pending
  <2> SUFFICES ASSUME NEW m \in Pending' PROVE m \in Pending
    OBVIOUS
  <2>1. /\ m \in Ranks \X Files /\ m[1] \in Ranks
        /\ m[2] \in newfiles'[m[1]] /\ NotCounted(m[1])'
    BY DEF Pending
  <2> HIDE DEF NotCounted
  <2> QED
    BY <2>1 DEF Pending
<1>2. KnownPairs' = KnownPairs
  BY DEF KnownPairs
<1>3. Cardinality(Pending') <= Cardinality(Pending)
  BY <1>1, PairsFinite, FS_Subset DEF IInv
<1>4. Cardinality(Pending') \in Nat
  BY PairsFinite
<1> HIDE DEF Pending, KnownPairs
<1> QED
  BY <1>2, <1>3, <1>4, PairsFinite DEF IInv, TypeOK, TicksBounded

(* What a scan finds is reported and known from then on.                   *)
LEMMA ScanCounted ==
    ASSUME IInv, TypeOK', NEW r \in Ranks, Scan(r)
    PROVE  TicksBounded'
<1> USE DEF IInv, TypeOK, Scan, Goto
<1> DEFINE found == {r} \X (disk \ known[r])
<1>1. /\ found \in SUBSET (Ranks \X Files)
      /\ IsFiniteSet(found) /\ Cardinality(found) \in Nat
  <2>1. found \in SUBSET (Ranks \X Files)
    OBVIOUS
  <2> HIDE DEF found
  <2> QED
    BY <2>1, FiniteReports
<1>2. Pending' \subseteq Pending \cup found
  <2> SUFFICES ASSUME NEW m \in Pending', m \notin found PROVE m \in Pending
    OBVIOUS
  <2>1. m \in Ranks \X Files /\ m[2] \in newfiles'[m[1]] /\ NotCounted(m[1])'
    BY DEF Pending
  <2>2. m[1] # r
    <3> SUFFICES ASSUME m[1] = r PROVE FALSE
      OBVIOUS
    <3>1. m[2] \in disk \ known[r] /\ m = <<r, m[2]>>
      BY <2>1
    <3> QED
      BY <3>1
  <2>3. pc'[m[1]] = pc[m[1]] /\ newfiles'[m[1]] = newfiles[m[1]]
    BY <2>1, <2>2
  <2>4. pc'[Root] = "updateProcessed" => pc[Root] = "updateProcessed"
    BY FilesInfoAssumption
  <2> QED
    BY <2>1, <2>3, <2>4 DEF Pending, NotCounted
<1>3. KnownPairs' = KnownPairs \cup found
  <2>1. ASSUME NEW m \in Ranks \X Files
        PROVE  m[2] \in known'[m[1]] <=> m[2] \in known[m[1]] \/ m \in found
    <3>1. m = <<m[1], m[2]>> /\ known[m[1]] \subseteq disk
      BY DEF TicksBounded
    <3>2. CASE m[1] = r
      BY <3>1, <3>2
    <3>3. CASE m[1] # r
      BY <3>1, <3>3
    <3> QED
      BY <3>2, <3>3
  <2>2. found \subseteq Ranks \X Files
    BY <1>1
  <2> HIDE DEF found
  <2> QED
    BY <2>1, <2>2 DEF KnownPairs
<1>4. KnownPairs \cap found = {}
  BY DEF KnownPairs
<1>5. UNCHANGED <<collectTick, rewrites, disk>> /\ \A s \in Ranks : known'[s] \subseteq disk
  BY DEF coordinator, world, TicksBounded
<1> HIDE DEF found, Pending, KnownPairs
<1>6. Cardinality(KnownPairs') = Cardinality(KnownPairs) + Cardinality(found)
  <2>1. Cardinality(KnownPairs \cap found) = 0
    BY <1>4, FS_EmptySet
  <2>2. Cardinality(KnownPairs \cup found)
            = Cardinality(KnownPairs) + Cardinality(found) - Cardinality(KnownPairs \cap found)
    BY <1>1, PairsFinite, FS_Union
  <2> QED
    BY <1>1, <1>3, <2>1, <2>2, PairsFinite
<1>7. Cardinality(Pending') <= Cardinality(Pending) + Cardinality(found)
  <2>1. /\ IsFiniteSet(Pending \cup found)
        /\ Cardinality(Pending \cup found)
               = Cardinality(Pending) + Cardinality(found) - Cardinality(Pending \cap found)
    BY <1>1, PairsFinite, FS_Union
  <2>2. IsFiniteSet(Pending \cap found) /\ Cardinality(Pending \cap found) \in Nat
    BY PairsFinite, FS_Intersection, FS_CardinalityType
  <2>3. Pending' \in SUBSET (Pending \cup found)
    BY <1>2
  <2>4. Cardinality(Pending') <= Cardinality(Pending \cup found)
    BY <2>1, <2>3, FS_Subset
  <2>5. Cardinality(Pending') \in Nat
    BY PairsFinite
  <2> QED
    BY SMTT(60), <1>1, <2>1, <2>2, <2>4, <2>5, PairsFinite
<1>8. Cardinality(Pending') \in Nat /\ Cardinality(KnownPairs') \in Nat
  BY PairsFinite
<1>9. Cardinality(Ranks) * rewrites \in Nat
  <2>1. rewrites \in Nat
    BY RoundsAssumption
  <2> QED
    BY <2>1, PairsFinite, Product
<1> DEFINE again == Cardinality(Ranks) * rewrites
<1>10. again \in Nat /\ again' = again
  BY <1>5, <1>9
<1>11. collectTick + Cardinality(Pending) <= 1 + Cardinality(KnownPairs) + again
  BY DEF TicksBounded
<1> HIDE DEF again
<1>12. collectTick' + Cardinality(Pending') <= 1 + Cardinality(KnownPairs') + again'
  <2>1. /\ Cardinality(Pending) \in Nat /\ Cardinality(KnownPairs) \in Nat
        /\ Cardinality(found) \in Nat /\ collectTick \in Nat
    BY <1>1, PairsFinite
  <2> HIDE DEF IInv, TypeOK, Scan
  <2>2. collectTick + Cardinality(Pending') <= 1 + Cardinality(KnownPairs') + again
    BY <1>6, <1>7, <1>8, <1>10, <1>11, <2>1
  <2> QED
    BY <1>5, <1>10, <2>2
<1> QED
  BY <1>5, <1>12 DEF TicksBounded, again

(* A file that is written again can be reported again by every rank.       *)
LEMMA RewriteCounted ==
    ASSUME IInv, TypeOK', RewriteFile
    PROVE  TicksBounded'
<1> USE DEF IInv, TypeOK
<1>1. PICK f \in delivered : known' = [r \in Ranks |-> known[r] \ {f}]
  BY DEF RewriteFile
<1> DEFINE lost == Ranks \X {f}
           n == Cardinality(Ranks)
<1>2. /\ UNCHANGED <<collectTick, disk, pc, newfiles>>
      /\ rewrites' = rewrites + 1
      /\ rewrites \in Nat
  BY RoundsAssumption DEF RewriteFile, coordinator
<1>3. Pending' = Pending
  BY <1>2 DEF Pending, NotCounted
<1>4. KnownPairs \subseteq KnownPairs' \cup lost
  <2> SUFFICES ASSUME NEW m \in KnownPairs, m \notin lost PROVE m \in KnownPairs'
    OBVIOUS
  <2>1. m = <<m[1], m[2]>> /\ m[1] \in Ranks /\ m[2] # f
    BY DEF KnownPairs
  <2> QED
    BY <1>1, <2>1 DEF KnownPairs
<1>5. \A r \in Ranks : known'[r] \subseteq disk
  BY <1>1 DEF TicksBounded
<1>6. IsFiniteSet(lost) /\ Cardinality(lost) = n /\ n \in Nat
  <2>1. IsFiniteSet({f}) /\ Cardinality({f}) = 1
    BY FS_Singleton
  <2>2. /\ IsFiniteSet(Ranks \X {f})
        /\ Cardinality(Ranks \X {f}) = Cardinality(Ranks) * Cardinality({f})
    BY <2>1, FS_Product, RoundsAssumption
  <2>3. n \in Nat
    BY PairsFinite
  <2>4. Cardinality(lost) = n * 1
    BY <2>1, <2>2
  <2>5. IsFiniteSet(lost)
    BY <2>2
  <2> HIDE DEF lost, n
  <2> QED
    BY <2>3, <2>4, <2>5
<1> HIDE DEF lost, n, Pending, KnownPairs
<1>7. Cardinality(KnownPairs) <= Cardinality(KnownPairs') + n
  <2>1. /\ IsFiniteSet(KnownPairs') /\ Cardinality(KnownPairs') \in Nat
        /\ Cardinality(KnownPairs) \in Nat
    BY PairsFinite
  <2>2. /\ IsFiniteSet(KnownPairs' \cup lost)
        /\ Cardinality(KnownPairs' \cup lost)
               = Cardinality(KnownPairs') + n - Cardinality(KnownPairs' \cap lost)
    BY <1>6, <2>1, FS_Union
  <2>3. Cardinality(KnownPairs' \cap lost) \in Nat
    BY <2>1, FS_Intersection, FS_CardinalityType
  <2>4. Cardinality(KnownPairs) <= Cardinality(KnownPairs' \cup lost)
    <3>1. KnownPairs \in SUBSET (KnownPairs' \cup lost)
      BY <1>4
    <3> QED
      BY <2>2, <3>1, FS_Subset
  <2> QED
    BY <1>6, <2>1, <2>2, <2>3, <2>4
<1>8. n * rewrites' = n * rewrites + n /\ n * rewrites \in Nat
  <2>1. n * (rewrites + 1) = n * rewrites + n /\ n * rewrites \in Nat
    BY <1>2, <1>6, Product
  <2> QED
    BY <1>2, <2>1
<1>9. collectTick + Cardinality(Pending) <= 1 + Cardinality(KnownPairs) + n * rewrites
  BY DEF TicksBounded, n
<1>10. collectTick' + Cardinality(Pending') <= 1 + Cardinality(KnownPairs') + n * rewrites'
  <2>1. Cardinality(Pending) \in Nat /\ Cardinality(KnownPairs) \in Nat
        /\ Cardinality(KnownPairs') \in Nat
    BY PairsFinite
  <2> DEFINE before == n * rewrites
             after == n * rewrites'
  <2>2. before \in Nat /\ after = before + n
    BY <1>8
  <2>3. collectTick + Cardinality(Pending) <= 1 + Cardinality(KnownPairs) + before
    BY <1>9
  <2> HIDE DEF before, after
  <2>4. collectTick' + Cardinality(Pending') <= 1 + Cardinality(KnownPairs') + after
    BY SMTT(60), <1>2, <1>3, <1>6, <1>7, <2>1, <2>2, <2>3
  <2> QED
    BY <2>4 DEF after
<1> QED
  BY <1>2, <1>5, <1>10 DEF TicksBounded, n

(* A round that gathers uses up a report, unless it is the first.          *)
LEMMA GatheringCounted ==
    ASSUME IInv, TypeOK', UpdateProcessed(Root), BeginGathering(Root)
    PROVE  TicksBounded'
<1> USE FilesInfoAssumption DEF IInv, TypeOK
<1>1. /\ pc[Root] = "updateProcessed" /\ Collecting
      /\ pc' = [pc EXCEPT ![Root] = "gather"]
      /\ collectTick' = collectTick + 1
      /\ UNCHANGED <<known, disk, rewrites, newfiles>>
  BY DEF UpdateProcessed, BeginGathering, world, notifier
<1>2. \A r \in Ranks : pc[r] \in InCollection
  BY <1>1 DEF InStep, InCollection
<1>3. Pending' = {}
  <2>1. \A r \in Ranks : ~NotCounted(r)'
    BY <1>1, <1>2 DEF NotCounted, InCollection, Exchange
  <2> HIDE DEF NotCounted
  <2> QED
    BY <2>1 DEF Pending
<1>4. Cardinality(Pending') = 0
  BY <1>3, FS_EmptySet
<1>5. KnownPairs' = KnownPairs
  BY <1>1 DEF KnownPairs
<1>6. Cardinality(Pending) = total
  <2>1. total = TotalGlobal
    BY <1>2 DEF TotalExact
  <2>2. \A r \in Ranks : NotCounted(r)
    BY <1>1, <1>2 DEF NotCounted
  <2>3. Pending = {m \in Ranks \X Files : m[2] \in newfiles[m[1]]}
    BY <2>2 DEF Pending
  <2> QED
    BY <2>1, <2>3 DEF TotalGlobal
<1>7. total > 0 \/ collectTick = 0
  <2> SUFFICES ASSUME doneGlobal PROVE collectTick = 0
    BY <1>1 DEF Collecting
  <2>1. ftype = "InitialFiles"
    BY <1>1 DEF DoneFirst
  <2> QED
    BY <1>1, <2>1 DEF FirstUpdate, InUpdate, Gathering
<1> DEFINE again == Cardinality(Ranks) * rewrites
<1>8. again \in Nat
  <2>1. rewrites \in Nat
    BY RoundsAssumption
  <2> QED
    BY <2>1, PairsFinite, Product
<1>9. collectTick + Cardinality(Pending) <= 1 + Cardinality(KnownPairs) + again
  BY DEF TicksBounded
<1> HIDE DEF Pending, KnownPairs, again
<1>10. collectTick' + 0 <= 1 + Cardinality(KnownPairs) + again
  BY SMTT(60), <1>1, <1>6, <1>7, <1>8, <1>9, PairsFinite
<1> QED
  BY <1>1, <1>4, <1>5, <1>10 DEF TicksBounded, again

(* The number of rounds that collect is bounded by the number of reports.  *)
LEMMA TicksBoundedStep ==
    ASSUME IInv, [Next]_vars, TypeOK'
    PROVE  TicksBounded'
<1> USE FilesInfoAssumption DEF IInv, TypeOK
<1>1. ASSUME UNCHANGED <<pc, newfiles, collectTick, known, rewrites>>, disk \subseteq disk'
      PROVE  TicksBounded'
  <2>1. /\ Pending' = Pending /\ KnownPairs' = KnownPairs
        /\ \A r \in Ranks : known'[r] \subseteq disk'
    BY <1>1 DEF Pending, KnownPairs, NotCounted, TicksBounded
  <2> HIDE DEF Pending, KnownPairs
  <2> QED
    BY <1>1, <2>1 DEF TicksBounded
<1>2. ASSUME NEW r \in Ranks, CheckDone(r) \/ SendDone(r) \/ ReceiveBroadcast(r) \/ Process(r)
      PROVE  TicksBounded'
  <2>1. /\ pc[r] \in {"checkDone", "process"} \cup InCollection
        /\ pc'[r] \notin {"checkDone", "isDone", "updateProcessed"}
        /\ pc'[r] = "update" => pc[r] = "checkDone"
        /\ pc'[r] \in InCollection => pc[r] \in InCollection
        /\ \A s \in Ranks \ {r} : pc'[s] = pc[s]
        /\ \A s \in Ranks : newfiles'[s] \subseteq newfiles[s]
        /\ UNCHANGED <<collectTick, known, disk, rewrites>>
    <3> USE DEF Goto, InCollection, Exchange, world, notifier, coordinator
    <3>1. CASE CheckDone(r)
      BY <3>1 DEF CheckDone, DoneOrUpdate
    <3>2. CASE SendDone(r)
      BY <3>2 DEF SendDone
    <3>3. CASE ReceiveBroadcast(r)
      BY <3>3 DEF ReceiveBroadcast
    <3>4. CASE Process(r)
      BY <3>4 DEF Process
    <3> QED
      BY <1>2, <3>1, <3>2, <3>3, <3>4
  <2>2. \A s \in Ranks : NotCounted(s)' => NotCounted(s)
    BY <2>1 DEF NotCounted
  <2> QED
    BY <2>1, <2>2, NothingNew
<1>3. CASE GetTotalFiles \/ IsDone \/ FinalBarrier
  <2>1. /\ \A r \in Ranks : NotCounted(r)' => NotCounted(r)
        /\ UNCHANGED <<newfiles, collectTick, known, disk, rewrites>>
    BY <1>3 DEF GetTotalFiles, IsDone, FinalBarrier, AllAt, NotCounted, InCollection, Exchange,
                world, notifier, coordinator
  <2> QED
    BY <2>1, NothingNew
<1>4. CASE Calculate
  <2>1. /\ \A r \in Ranks : NotCounted(r)' => NotCounted(r)
        /\ UNCHANGED <<newfiles, collectTick, known, disk, rewrites>>
    BY <1>4 DEF Calculate, Goto, NotCounted, world, notifier
  <2> QED
    BY <2>1, NothingNew
<1>5. ASSUME NEW r \in Ranks, UpdateProcessed(r) PROVE TicksBounded'
  <2>1. pc[r] = "updateProcessed" /\ UNCHANGED <<newfiles, known, disk, rewrites>>
    BY <1>5 DEF UpdateProcessed, world, notifier
  <2>2. CASE EarlyReturn(r) \/ BeginSending(r)
    <3>1. \A s \in Ranks : NotCounted(s)' => NotCounted(s)
      BY <2>1, <2>2 DEF EarlyReturn, BeginSending, NotCounted, InCollection, Exchange
    <3> QED
      BY <2>1, <2>2, <3>1, NothingNew DEF EarlyReturn, BeginSending
  <2>3. CASE BeginGathering(r)
    BY <1>5, <2>3, GatheringCounted DEF BeginGathering
  <2> QED
    BY <1>5, <2>2, <2>3, UpdateProcessedCases
<1> QED
  <2>1. WriteFile \/ TouchDone \/ Receive \/ UNCHANGED vars
           \/ (\E r \in Ranks : SendBuffered(r) \/ SendMatched(r))
        => UNCHANGED <<pc, newfiles, collectTick, known, rewrites>> /\ disk \subseteq disk'
    BY DEF WriteFile, TouchDone, Receive, SendBuffered, SendMatched, vars, notifier, world,
           coordinator
  <2> QED
    BY <2>1, <1>1, <1>2, <1>3, <1>4, <1>5, ScanCounted, RewriteCounted
    DEF Next, RankStep, RootStep, Collective

-----------------------------------------------------------------------------
(***************************************************************************)
(* What the main loop guarantees.                                          *)
(***************************************************************************)

(* All ranks start in the first update, at most the root with new files.   *)
LEMMA InitIInv == Init => IInv
<1> SUFFICES ASSUME Init PROVE IInv
  OBVIOUS
<1> USE FilesInfoAssumption, RoundsAssumption
<1>1. PICK initial \in SUBSET disk :
         newfiles = [r \in Ranks |-> IF r = Root THEN initial ELSE {}]
  BY DEF Init
<1>2. /\ disk \in SUBSET Files /\ known = [r \in Ranks |-> disk]
      /\ pc = [r \in Ranks |-> "update"]
      /\ readyFiles = [r \in Ranks |-> {}]
      /\ unsent = [r \in Ranks |-> {}] /\ channel = {}
      /\ received = [r \in Ranks |-> {}]
      /\ processed = [r \in Ranks |-> {}] /\ delivered = {}
      /\ ftype = "InitialFiles" /\ doneGlobal = FALSE /\ total = 0
      /\ collectTick = 0 /\ writers = {} /\ rewrites = 0
      /\ broadcasts = [r \in Ranks |-> <<>>]
  BY DEF Init
<1>3. DOMAIN filesInfo = {} /\ filesInfo \in [DOMAIN filesInfo -> FileInfo]
  <2>1. filesInfo = [f \in {} |-> NewFileInfo]
    BY DEF Init
  <2> QED
    BY <2>1
<1>4. newfiles \in [Ranks -> SUBSET Files] /\ \A r \in Others : newfiles[r] = {}
  BY <1>1, <1>2 DEF Others
<1>5. TypeOK
  <2>1. lastDoneTime \in [Ranks -> {NoTime} \cup 0..MaxDoneTime]
    BY DEF Init
  <2>2. doneTime \in 0..MaxDoneTime /\ rewrites \in 0..MaxRewrites /\ remaining \in Nat
    BY DEF Init
  <2>3. pc \in [Ranks -> Labels]
    BY <1>2 DEF Labels
  <2>4. /\ doneFlag \in [Ranks -> BOOLEAN] /\ isFinished \in [Ranks -> BOOLEAN]
        /\ preexisting \in SUBSET Files
    BY <1>2 DEF Init
  <2>5. broadcasts \in [Ranks -> Seq(SUBSET Files)]
    BY <1>2
  <2> QED
    BY <1>2, <1>3, <1>4, <2>1, <2>2, <2>3, <2>4, <2>5 DEF TypeOK
<1>6. Roles /\ InStep /\ TotalExact
  BY <1>2 DEF Roles, InStep, TotalExact, Others, InCollection, Exchange
<1>7. Accounting /\ Broadcasting
  BY <1>2 DEF Accounting, Broadcasting, BeforeCalculation, Agreeing, HaveReadyFiles
<1>8. DoneFirst /\ FirstUpdate
  BY <1>2, <1>3, <1>4 DEF DoneFirst, FirstUpdate, AllAt, Gathering
<1>9. HandedOut /\ Processing
  BY <1>2, <1>3 DEF HandedOut, Processing, Coherent
<1>10. TicksBounded
  <2>1. Pending \in SUBSET KnownPairs
    BY <1>1, <1>2 DEF Pending, KnownPairs
  <2>2. \A r \in Ranks : known[r] \subseteq disk
    BY <1>2
  <2> HIDE DEF Pending, KnownPairs
  <2>3. Cardinality(Pending) <= Cardinality(KnownPairs)
    BY <2>1, PairsFinite, FS_Subset
  <2>4. Cardinality(Ranks) * 0 = 0
    BY PairsFinite
  <2>5. collectTick + Cardinality(Pending) <= 1 + Cardinality(KnownPairs) + 0
    BY <1>2, <2>3, PairsFinite
  <2> QED
    BY <1>2, <2>2, <2>4, <2>5 DEF TicksBounded
<1> QED
  BY <1>5, <1>6, <1>7, <1>8, <1>9, <1>10 DEF IInv

LEMMA NextIInv == IInv /\ [Next]_vars => IInv'
<1> SUFFICES ASSUME IInv, [Next]_vars PROVE IInv'
  OBVIOUS
<1>1. TypeOK' /\ TotalExact' /\ Accounting' /\ Broadcasting'
  BY TypeStep, TotalExactStep, AccountingStep, BroadcastingStep
<1>2. Roles' /\ InStep'
  BY InStepStep DEF IInv
<1>3. DoneFirst' /\ FirstUpdate' /\ HandedOut' /\ Processing'
  BY DoneFirstStep, FirstUpdateStep, HandedOutStep, ProcessingStep
<1>4. TicksBounded'
  BY <1>1, TicksBoundedStep
<1> QED
  BY <1>1, <1>2, <1>3, <1>4 DEF IInv

(* The inductive invariant holds in every reachable state.                 *)
THEOREM Invariance == Spec => []IInv
<1>1. IInv /\ UNCHANGED vars => IInv'
  BY NextIInv
<1> QED
  BY InitIInv, NextIInv, <1>1, PTL DEF Spec

(* The variables keep their types on every rank; in particular the count   *)
(* of messages that update_gatherNewFiles waits for is never negative.     *)
THEOREM TypeCorrect == Spec => []TypeOK
<1>1. IInv => TypeOK
  BY DEF IInv
<1> QED
  BY Invariance, <1>1, PTL

(* Every file a rank reports in a round reaches the root in that round, in *)
(* whatever order ranks send and whatever MPI buffers.                     *)
THEOREM AllReportsArrive == Spec => []NothingLost
<1>1. IInv => NothingLost
  <2> SUFFICES ASSUME IInv, Gathering PROVE NothingLost
    BY DEF NothingLost
  <2>1. pc[Root] = "gather" /\ Root \in Ranks
    BY FilesInfoAssumption DEF Gathering
  <2>2. BeforeCalculation
    BY <2>1 DEF IInv, InStep, Exchange, BeforeCalculation
  <2>3. received[Root] = newfiles[Root]
    BY <2>1 DEF IInv, Accounting
  <2>4. \A r \in Others : newfiles[r] = received[r] \cup InTransit(r) \cup Held(r)
    BY <2>2 DEF IInv, Accounting
  <2>5. remaining = 0 => \A r \in Ranks : received[r] = newfiles[r]
    BY <2>1, AllReceived
  <2> QED
    BY <2>3, <2>4, <2>5 DEF NothingLost, InTransit, Held
<1> QED
  BY Invariance, <1>1, PTL

(* No message and no broadcast of a round is received in another.          *)
THEOREM RoundsSeparate == Spec => []RoundsDoNotMix
<1>1. IInv => RoundsDoNotMix
  <2> SUFFICES ASSUME IInv, NEW r \in Ranks, pc[r] \notin InCollection
               PROVE  channel = {} /\ \A s \in Ranks : unsent[s] = {} /\ broadcasts[s] = <<>>
    BY DEF RoundsDoNotMix, InCollection, Exchange
  <2>1. /\ \A s \in Ranks : pc[s] \notin Exchange /\ unsent[s] = {}
        /\ channel = {}
    BY Idle
  <2>2. pc[Root] # "barrier"
    BY <2>1, FilesInfoAssumption DEF Exchange
  <2>3. \A s \in Ranks : broadcasts[s] = <<>>
    BY <2>2 DEF IInv, Broadcasting
  <2> QED
    BY <2>1, <2>3
<1> QED
  BY Invariance, <1>1, PTL

(* Every inporter is left with the ready files that the root decided.      *)
THEOREM Agreement == Spec => []InportersAgree
<1>1. IInv => InportersAgree
  BY DEF IInv, Broadcasting, Agreeing, InportersAgree
<1> QED
  BY Invariance, <1>1, PTL

(* The inporters never get further apart than the round they are in, and   *)
(* process nothing that was not handed out.                                *)
THEOREM KeepInStep == Spec => []InportersInStep
<1>1. IInv => InportersInStep
  <2> SUFFICES ASSUME IInv, NEW r \in Inporters, NEW s \in Inporters,
                      NEW f \in processed[r], f \notin processed[s]
               PROVE  f \in readyFiles[r]
    BY DEF IInv, Processing, InportersInStep
  <2>1. pc[s] = "process" /\ f \in readyFiles[s] /\ r \in Ranks /\ s \in Ranks
    BY RoundsAssumption DEF IInv, Processing
  <2>2. pc[r] \notin Exchange
    BY <2>1, Idle DEF InCollection, Exchange
  <2>3. pc[r] # "updateProcessed"
    <3> SUFFICES ASSUME pc[r] = "updateProcessed" PROVE FALSE
      OBVIOUS
    <3>1. ~Collecting
      BY <2>1 DEF IInv, InStep, InCollection, Exchange
    <3> QED
      BY <2>1, <3>1 DEF IInv, Broadcasting
  <2>4. pc[r] \in Agreeing /\ pc[s] \in Agreeing
    BY <2>1, <2>2, <2>3 DEF IInv, TypeOK, Labels, Exchange, Agreeing, HaveReadyFiles
  <2>5. \A p, q \in Inporters \cup {Root} :
           pc[p] \in Agreeing /\ pc[q] \in Agreeing => readyFiles[p] = readyFiles[q]
    BY DEF IInv, Broadcasting
  <2> QED
    BY <2>1, <2>4, <2>5
<1> QED
  BY Invariance, <1>1, PTL

(* An inporter is given a file once, and the last ready files again only   *)
(* when it leaves because its own notifier is done.                        *)
THEOREM ProcessedOnce == Spec => ProcessedAgainOnLeaving
<1> DEFINE Step ==
        \A r \in Inporters :
            pc[r] = "process" /\ pc'[r] # "process"
                /\ readyFiles[r] \cap processed[r] # {}
            => doneFlag[r] /\ pc'[r] = "exit"
<1>1. IInv /\ [Next]_vars => [Step]_vars
  <2> SUFFICES ASSUME IInv, Next, NEW r \in Inporters, pc[r] = "process", pc'[r] # "process",
                      readyFiles[r] \cap processed[r] # {}
               PROVE  doneFlag[r] /\ pc'[r] = "exit"
    OBVIOUS
  <2>1. r \in Ranks /\ doneFlag[r] /\ isFinished[r]
    BY RoundsAssumption DEF IInv, Processing
  <2>2. Process(r)
    <3>1. ASSUME NEW s \in Ranks, RankStep(s), ~Process(s) PROVE pc'[r] = pc[r]
      <4>1. pc[s] # "process" /\ (pc' = pc \/ pc' = [pc EXCEPT ![s] = pc'[s]])
        BY <3>1 DEF IInv, TypeOK, RankStep, Scan, CheckDone, UpdateProcessed, SendBuffered,
                    SendMatched, SendDone, ReceiveBroadcast, Goto
      <4> QED
        BY <2>1, <4>1 DEF IInv, TypeOK
    <3>2. ASSUME Process(r) \/ \E s \in Ranks : Process(s) PROVE pc'[r] = pc[r] \/ Process(r)
      BY <2>1, <3>2 DEF IInv, TypeOK, Process, Goto
    <3>3. RootStep \/ WriteFile \/ RewriteFile \/ TouchDone => pc'[r] = pc[r]
      BY <2>1 DEF IInv, TypeOK, RootStep, Receive, Calculate, WriteFile, RewriteFile,
                  TouchDone, Goto
    <3>4. ~Collective
      BY <2>1 DEF Collective, GetTotalFiles, IsDone, FinalBarrier, AllAt
    <3> QED
      BY <3>1, <3>2, <3>3, <3>4 DEF Next
  <2> QED
    BY <2>1, <2>2 DEF IInv, TypeOK, Process, Goto
<1>2. ProcessedAgainOnLeaving <=> [][Step]_vars
  BY DEF ProcessedAgainOnLeaving
<1> QED
  BY Invariance, <1>1, <1>2, PTL DEF Spec

-----------------------------------------------------------------------------
(***************************************************************************)
(* The refinement: the distributed update is Coordinator's atomic one.     *)
(***************************************************************************)
UpdateTick == IF Gathering THEN collectTick - 1 ELSE collectTick
Started == ~(ftype = "InitialFiles" /\ InUpdate)
Finished == doneGlobal /\ ~InUpdate

LEMMA AtomicVars ==
    Atomic!vars = <<filesInfo, writers, UpdateTick, readyFiles[Root], Started, Finished,
                    delivered>>
BY DEF Atomic!vars, UpdateTick, Started, Finished

LEMMA AtomicInit == Init => Atomic!Init
<1> SUFFICES ASSUME Init PROVE Atomic!Init
  OBVIOUS
<1>1. /\ pc[Root] = "update" /\ readyFiles[Root] = {} /\ ftype = "InitialFiles"
      /\ doneGlobal = FALSE /\ collectTick = 0 /\ writers = {} /\ delivered = {}
      /\ filesInfo = [f \in {} |-> NewFileInfo]
  BY FilesInfoAssumption DEF Init
<1> QED
  BY <1>1 DEF Atomic!Init, Atomic!NoFilesInfo, Atomic!NewFileInfo, NewFileInfo,
               Gathering, InUpdate

(* Both modules apply the same functions to filesInfo. *)
LEMMA SameFunctions ==
    ASSUME NEW info, NEW ready, NEW seen, NEW batch, NEW initial, NEW done, NEW tick
    PROVE  /\ Atomic!Processed(info, ready) = Processed(info, ready)
           /\ Atomic!ReadyFiles(info) = ReadyFiles(info)
           /\ Atomic!GatheredWriters(seen, batch) = GatheredWriters(seen, batch)
           /\ Atomic!Collected(info, ready, seen, batch, initial, done, tick)
                = Collected(info, ready, seen, batch, initial, done, tick)
<1>1. Atomic!Processed(info, ready) = Processed(info, ready)
  BY DEF Atomic!Processed, Processed
<1>2. Atomic!ReadyFiles(info) = ReadyFiles(info)
  BY DEF Atomic!ReadyFiles, ReadyFiles
<1>3. Atomic!GatheredWriters(seen, batch) = GatheredWriters(seen, batch)
  BY DEF Atomic!GatheredWriters, GatheredWriters
<1>4. Atomic!Collected(info, ready, seen, batch, initial, done, tick)
        = Collected(info, ready, seen, batch, initial, done, tick)
  BY Zenon
  DEF Atomic!Collected, Collected, Atomic!Readied, Readied, Atomic!BecomesReady, BecomesReady,
      Atomic!MoreThanOneFile, MoreThanOneFile, Atomic!SeenByAllWriters, SeenByAllWriters,
      Atomic!IsOlderFile, IsOlderFile, Atomic!Signalled, Signalled, Atomic!NewSignals,
      NewSignals, Atomic!OutputsOf, OutputsOf, Atomic!AsSignal, AsSignal, Atomic!Gathered,
      Gathered, Atomic!Reporters, Reporters, Atomic!InfoOf, InfoOf, Atomic!NewFileInfo,
      NewFileInfo, Atomic!Modified, Modified, Atomic!InvalidTimeInterval,
      InvalidTimeInterval, Atomic!Processed, Processed, Atomic!GatheredWriters,
      GatheredWriters
<1> QED
  BY <1>1, <1>2, <1>3, <1>4

(* A round in which nobody reports anything. *)
LEMMA NothingIsAtomic ==
    ASSUME IInv, Started' = TRUE, ~Finished,
           filesInfo' = Processed(filesInfo, readyFiles[Root]),
           readyFiles'[Root] = {}, ~Finished',
           UNCHANGED <<writers, UpdateTick, delivered>>
    PROVE  Atomic!Next
<1> DEFINE none == [r \in Ranks |-> {}]
<1>1. Atomic!UpdateNothing
  <2>1. (doneGlobal /\ ~InUpdate)' = FALSE
    BY DEF Finished
  <2>2. UNCHANGED (IF Gathering THEN collectTick - 1 ELSE collectTick)
    BY DEF UpdateTick
  <2> QED
    BY <2>1, <2>2, SameFunctions DEF Atomic!UpdateNothing
<1>2. none \in [Ranks -> SUBSET Files] /\ none = [r \in Ranks |-> IF r = Root THEN {} ELSE {}]
  OBVIOUS
<1>3. \A initial \in BOOLEAN : Atomic!Update(none, initial, FALSE)
  BY <1>1 DEF Atomic!Update, Atomic!Nothing
<1>4. CASE Started
  <2>1. Atomic!UpdateWatched
    BY <1>2, <1>3, <1>4 DEF Atomic!UpdateWatched, Started, Finished
  <2> QED
    BY <2>1 DEF Atomic!Next
<1>5. CASE ~Started
  <2>1. Atomic!Update([r \in Ranks |-> IF r = Root THEN {} ELSE {}], TRUE, FALSE)
    BY <1>2, <1>3
  <2>2. Atomic!UpdateInitial
    BY <1>5, <2>1 DEF Atomic!UpdateInitial, Started
  <2> QED
    BY <2>2 DEF Atomic!Next
<1> QED
  BY <1>4, <1>5

(* The bound on the reports, and with it Coordinator's bound on the ticks. *)
LEMMA TicksWithinBound ==
    ASSUME IInv
    PROVE  collectTick <= Cardinality(Ranks) * (Cardinality(Files) + MaxRewrites) + 1
<1> DEFINE n == Cardinality(Ranks)
           m == Cardinality(Files)
<1>1. n \in Nat /\ m \in Nat /\ rewrites \in Nat /\ rewrites <= MaxRewrites
      /\ MaxRewrites \in Nat
  BY FS_CardinalityType, RoundsAssumption DEF IInv, TypeOK
<1>2. Cardinality(KnownPairs) <= n * m
  <2>1. IsFiniteSet(Ranks \X Files) /\ Cardinality(Ranks \X Files) = n * m
    BY FS_Product, RoundsAssumption
  <2>2. KnownPairs \in SUBSET (Ranks \X Files)
    BY DEF KnownPairs
  <2> QED
    BY <2>1, <2>2, FS_Subset
<1>3. collectTick + Cardinality(Pending) <= 1 + Cardinality(KnownPairs) + n * rewrites
  BY DEF IInv, TicksBounded
<1>4. collectTick \in Nat
  BY DEF IInv, TypeOK
<1> HIDE DEF n, m, Pending, KnownPairs
<1>5. n * rewrites <= n * MaxRewrites
  BY <1>1
<1>6. n * (m + MaxRewrites) = n * m + n * MaxRewrites
  BY <1>1
<1>7. n * m \in Nat /\ n * rewrites \in Nat /\ n * MaxRewrites \in Nat
  BY <1>1, Product
<1>8. collectTick <= n * (m + MaxRewrites) + 1
  BY <1>2, <1>3, <1>4, <1>5, <1>6, <1>7, PairsFinite
<1> QED
  BY <1>8 DEF n, m

(* The calculation of the ready files is the collecting update.            *)
LEMMA CalculateIsAtomic ==
    ASSUME IInv, Calculate
    PROVE  Atomic!Next
<1> USE FilesInfoAssumption
<1> DEFINE initial == (ftype = "InitialFiles")
<1>1. /\ pc[Root] = "gather" /\ remaining = 0 /\ pc'[Root] = "barrier"
      /\ UNCHANGED <<ftype, doneGlobal, collectTick>>
      /\ collectTick \in Nat
      /\ received \in [Ranks -> SUBSET Files]
      /\ initial \in BOOLEAN /\ doneGlobal \in BOOLEAN
  BY DEF Calculate, Goto, IInv, TypeOK
<1>2. /\ Gathering /\ InUpdate /\ ~Gathering' /\ ~InUpdate'
  BY <1>1 DEF Gathering, InUpdate
<1>3. /\ readyFiles[Root] = {}
      /\ readyFiles'[Root] = ReadyFiles(filesInfo')
      /\ delivered' = delivered \cup readyFiles'[Root]
      /\ writers' = GatheredWriters(writers, received)
      /\ filesInfo' = Collected(filesInfo, {}, writers, received, initial, doneGlobal,
                                collectTick)
  BY <1>1 DEF Calculate, IInv, TypeOK, Broadcasting
<1>4. UpdateTick = collectTick - 1 /\ UpdateTick' = collectTick
  BY <1>1, <1>2 DEF UpdateTick
<1>5. Atomic!UpdateCollect(received, initial, doneGlobal)
  <2>1. collectTick <= Cardinality(Ranks) * (Cardinality(Files) + MaxRewrites) + 1
    BY TicksWithinBound
  <2> DEFINE bound == Cardinality(Ranks) * (Cardinality(Files) + MaxRewrites) + 1
  <2>2. bound \in Int
    <3>1. /\ Cardinality(Ranks) \in Nat /\ Cardinality(Files) + MaxRewrites \in Nat
      BY FS_CardinalityType, RoundsAssumption
    <3> QED
      BY <3>1, Product
  <2> HIDE DEF bound
  <2>3. UpdateTick < bound
    BY <1>1, <1>4, <2>1, <2>2 DEF bound
  <2>4. UpdateTick' = UpdateTick + 1
    BY <1>1, <1>4
  <2>5. filesInfo' = Atomic!Collected(filesInfo, readyFiles[Root], writers, received, initial,
                                      doneGlobal, UpdateTick + 1)
    BY <1>3, <1>4, <2>4, SameFunctions
  <2>6. (doneGlobal /\ ~InUpdate)' = doneGlobal
    BY <1>1, <1>2
  <2>7. /\ writers' = Atomic!GatheredWriters(writers, received)
        /\ readyFiles'[Root] = Atomic!ReadyFiles(filesInfo')
    BY <1>3, SameFunctions
  <2> HIDE DEF initial
  <2> QED
    BY <1>3, <2>3, <2>4, <2>5, <2>6, <2>7 DEF Atomic!UpdateCollect, UpdateTick, bound
<1>6. ~(Atomic!Nothing(received) /\ ~doneGlobal)
  <2> SUFFICES ASSUME \A r \in Ranks : received[r] = {}, ~doneGlobal PROVE FALSE
    BY DEF Atomic!Nothing
  <2>1. \A r \in Ranks : newfiles[r] = {}
    BY <1>1, AllReceived
  <2>2. {m \in Ranks \X Files : m[2] \in newfiles[m[1]]} = {}
    BY <2>1
  <2>3. TotalGlobal = 0
    BY <2>2, FS_EmptySet DEF TotalGlobal
  <2>4. Collecting /\ \A r \in Ranks : pc[r] \in InCollection
    BY <1>1 DEF IInv, InStep, InCollection, Exchange
  <2> QED
    BY <2>3, <2>4 DEF IInv, TotalExact, Collecting
<1>7. Atomic!Update(received, initial, doneGlobal)
  BY <1>5, <1>6 DEF Atomic!Update
<1>8. CASE initial
  <2> DEFINE own == received[Root]
  <2>1. \A r \in Others : received[r] = {}
    <3>1. \A r \in Others : newfiles[r] = {}
      BY <1>1, <1>2, <1>8 DEF IInv, FirstUpdate
    <3> QED
      BY <1>1, <3>1, AllReceived DEF Others
  <2>2. received = [r \in Ranks |-> IF r = Root THEN own ELSE {}]
    BY <1>1, <2>1 DEF Others
  <2>3. Atomic!Update([r \in Ranks |-> IF r = Root THEN own ELSE {}], TRUE, doneGlobal)
    <3> HIDE DEF own
    <3> QED
      BY <1>1, <1>7, <1>8, <2>2
  <2>4. own \in SUBSET Files
    BY <1>1
  <2>5. ~(~(ftype = "InitialFiles" /\ InUpdate))
    BY <1>2, <1>8
  <2>6. (~(ftype = "InitialFiles" /\ InUpdate))' = TRUE
    BY <1>2
  <2> HIDE DEF own, initial
  <2>7. Atomic!UpdateInitial
    BY <1>1, <2>3, <2>4, <2>5, <2>6 DEF Atomic!UpdateInitial
  <2> QED
    BY <2>7 DEF Atomic!Next
<1>9. CASE ~initial
  <2>1. Atomic!Update(received, FALSE, doneGlobal)
    BY <1>7, <1>9
  <2>2. Atomic!UpdateWatched
    <3>1. ~(ftype = "InitialFiles" /\ InUpdate) /\ ~(ftype = "InitialFiles" /\ InUpdate)'
      BY <1>1, <1>9
    <3>2. ~(doneGlobal /\ ~InUpdate)
      BY <1>2
    <3> HIDE DEF initial
    <3> QED
      BY <1>1, <2>1, <3>1, <3>2 DEF Atomic!UpdateWatched
  <2> QED
    BY <2>2 DEF Atomic!Next
<1> QED
  BY <1>8, <1>9

(* Every step is a step of Coordinator or leaves its variables alone. *)
LEMMA AtomicStep ==
    ASSUME IInv, [Next]_vars
    PROVE  [Atomic!Next]_(Atomic!vars)
<1> USE FilesInfoAssumption DEF IInv, TypeOK
<1> DEFINE Same == UNCHANGED <<filesInfo, writers, UpdateTick, readyFiles[Root], Started,
                               Finished, delivered>>
<1>1. Same => UNCHANGED Atomic!vars
  BY AtomicVars DEF Atomic!vars, UpdateTick, Started, Finished
<1>2. ASSUME UNCHANGED <<filesInfo, writers, collectTick, readyFiles[Root], delivered,
                         ftype, doneGlobal, pc[Root]>>
      PROVE  Same
  BY <1>2 DEF UpdateTick, Started, Finished, Gathering, InUpdate
<1>3. ASSUME NEW r \in Ranks, Scan(r) \/ CheckDone(r) PROVE Same
  <2>1. UNCHANGED <<filesInfo, writers, collectTick, readyFiles, delivered, ftype, doneGlobal>>
    BY <1>3 DEF Scan, CheckDone, coordinator
  <2>2. CASE r # Root
    <3>1. pc'[Root] = pc[Root]
      BY <1>3, <2>2 DEF Scan, CheckDone, Goto
    <3> QED
      BY <2>1, <3>1, <1>2
  <2>3. CASE r = Root
    <3>1. pc[Root] \in {"poll", "checkDone"} /\ pc'[Root] \in {"checkDone", "process", "update"}
      BY <1>3, <2>3 DEF Scan, CheckDone, DoneOrUpdate, Goto
    <3>2. ftype # "InitialFiles" /\ ~doneGlobal
      BY <3>1 DEF FirstUpdate, DoneFirst, InCollection, Exchange
    <3>3. ~Gathering /\ ~Gathering'
      BY <3>1 DEF Gathering
    <3>4. UNCHANGED <<UpdateTick, Started, Finished>>
      BY <2>1, <3>2, <3>3 DEF UpdateTick, Started, Finished
    <3> QED
      BY <2>1, <3>4
  <2> QED
    BY <2>2, <2>3
<1>4. ASSUME GetTotalFiles \/ IsDone \/ FinalBarrier PROVE Same
  <2>1. /\ UNCHANGED <<filesInfo, writers, collectTick, readyFiles, delivered, ftype>>
        /\ \/ /\ pc[Root] \in {"update", "isDone"} /\ pc'[Root] \in {"isDone", "updateProcessed"}
           \/ /\ pc[Root] = "barrier" /\ pc'[Root] = "process" /\ UNCHANGED doneGlobal
    BY <1>4 DEF GetTotalFiles, IsDone, FinalBarrier, AllAt, coordinator
  <2>2. /\ InUpdate' <=> InUpdate
        /\ InUpdate \/ UNCHANGED doneGlobal
        /\ ~Gathering /\ ~Gathering'
    BY <2>1 DEF InUpdate, Gathering
  <2>3. UNCHANGED Finished
    <3>1. CASE InUpdate
      <4>1. Finished = FALSE /\ Finished' = FALSE
        BY <2>2, <3>1 DEF Finished
      <4> QED
        BY <4>1
    <3>2. CASE ~InUpdate
      BY <2>2, <3>2 DEF Finished
    <3> QED
      BY <3>1, <3>2
  <2>4. UNCHANGED <<UpdateTick, Started>>
    BY <2>1, <2>2 DEF UpdateTick, Started
  <2> QED
    BY <2>1, <2>3, <2>4
<1>5. ASSUME NEW r \in Ranks, r # Root,
             UpdateProcessed(r) \/ SendDone(r) \/ ReceiveBroadcast(r)
      PROVE  Same
  <2>1. CASE UpdateProcessed(r)
    <3>1. /\ UNCHANGED <<filesInfo, writers, collectTick, delivered, ftype, doneGlobal>>
          /\ readyFiles'[Root] = readyFiles[Root] /\ pc'[Root] = pc[Root]
      BY <1>5, <2>1 DEF UpdateProcessed, Cleared, Goto
    <3> QED
      BY <3>1, <1>2
  <2>2. CASE SendDone(r) \/ ReceiveBroadcast(r)
    <3>1. /\ UNCHANGED <<filesInfo, writers, collectTick, delivered, ftype, doneGlobal>>
          /\ readyFiles'[Root] = readyFiles[Root] /\ pc'[Root] = pc[Root]
      BY <1>5, <2>2 DEF SendDone, ReceiveBroadcast, Goto, coordinator
    <3> QED
      BY <3>1, <1>2
  <2> QED
    BY <1>5, <2>1, <2>2
<1>6. ~SendDone(Root) /\ ~ReceiveBroadcast(Root)
  BY DEF SendDone, ReceiveBroadcast, Roles
<1>7. ASSUME UpdateProcessed(Root) PROVE Atomic!Next \/ Same
  <2>1. /\ pc[Root] = "updateProcessed" /\ InUpdate /\ ~Gathering
        /\ filesInfo' = Processed(filesInfo, readyFiles[Root])
        /\ readyFiles'[Root] = {}
        /\ UNCHANGED <<writers, delivered, ftype, doneGlobal>>
    BY <1>7 DEF UpdateProcessed, Cleared, InUpdate, Gathering
  <2>2. ~Finished
    BY <2>1 DEF Finished
  <2>3. CASE EarlyReturn(Root)
    <3>1. /\ ~InUpdate' /\ ~Gathering' /\ ~doneGlobal /\ UNCHANGED collectTick
      BY <2>3 DEF EarlyReturn, InUpdate, Gathering, Collecting
    <3>2. Started' = TRUE /\ ~Finished' /\ UNCHANGED UpdateTick
      BY <2>1, <3>1 DEF Started, Finished, UpdateTick
    <3> QED
      BY <2>1, <2>2, <3>2, NothingIsAtomic
  <2>4. CASE BeginGathering(Root)
    <3>1. InUpdate' /\ Gathering' /\ collectTick' = collectTick + 1
      BY <2>4 DEF BeginGathering, InUpdate, Gathering
    <3>2. ~Finished' /\ UNCHANGED UpdateTick /\ UNCHANGED Started
      BY <2>1, <3>1 DEF Started, Finished, UpdateTick
    <3>3. CASE Started
      <4>1. Started' = TRUE
        BY <3>2, <3>3 DEF Started
      <4> QED
        BY <2>1, <2>2, <3>2, <4>1, NothingIsAtomic
    <3>4. CASE ~Started
      <4>1. DOMAIN filesInfo = {} /\ readyFiles[Root] = {}
        BY <3>4 DEF Started, FirstUpdate
      <4>2. filesInfo' = filesInfo
        BY <2>1, <4>1 DEF Processed
      <4>3. UNCHANGED Finished
        BY <2>2, <3>2 DEF Finished
      <4> QED
        BY <2>1, <3>2, <4>1, <4>2, <4>3
    <3> QED
      BY <3>3, <3>4
  <2> QED
    BY <1>7, <2>3, <2>4, UpdateProcessedCases DEF BeginSending
<1>8. ASSUME NEW r \in Ranks, Process(r) PROVE Same
  <2>1. UNCHANGED <<filesInfo, writers, collectTick, readyFiles, delivered, doneGlobal>>
    BY <1>8 DEF Process, coordinator
  <2>2. CASE r # Root
    <3>1. pc'[Root] = pc[Root] /\ ftype' = ftype
      BY <1>8, <2>2 DEF Process, Goto
    <3> QED
      BY <2>1, <3>1, <1>2
  <2>3. CASE r = Root
    <3>1. pc[Root] = "process" /\ pc'[Root] \in {"poll", "exit"}
      BY <1>8, <2>3 DEF Process, Goto
    <3>2. ~Gathering /\ ~Gathering' /\ ~InUpdate /\ ~InUpdate'
      BY <3>1 DEF Gathering, InUpdate
    <3>3. UNCHANGED <<UpdateTick, Started, Finished>>
      BY <2>1, <3>2 DEF UpdateTick, Started, Finished
    <3> QED
      BY <2>1, <3>3
  <2> QED
    BY <2>2, <2>3
<1>9. ASSUME WriteFile \/ RewriteFile \/ TouchDone \/ Receive \/ UNCHANGED vars
                \/ \E r \in Ranks : SendBuffered(r) \/ SendMatched(r)
      PROVE  Same
  <2>1. UNCHANGED <<filesInfo, writers, collectTick, readyFiles, delivered, ftype, doneGlobal, pc>>
    BY <1>9 DEF WriteFile, RewriteFile, TouchDone, Receive, SendBuffered, SendMatched, vars,
                coordinator
  <2> QED
    BY <2>1, <1>2
<1> HIDE DEF Same
<1>10. Atomic!Next \/ Same
  <2>1. ASSUME NEW r \in Ranks, RankStep(r) PROVE Atomic!Next \/ Same
    BY <2>1, <1>3, <1>5, <1>6, <1>7, <1>8, <1>9 DEF RankStep
  <2>2. CASE RootStep
    BY <2>2, <1>9, CalculateIsAtomic DEF RootStep
  <2>3. CASE Collective
    BY <2>3, <1>4 DEF Collective
  <2> QED
    BY <2>1, <2>2, <2>3, <1>9 DEF Next
<1> QED
  BY <1>1, <1>10

(* The collectives, the messages and the pace of the ranks are invisible   *)
(* in the coordinator: what it decides, round by round, Coordinator's      *)
(* atomic update decides too.                                              *)
THEOREM ImplementsAtomic == Spec => ImplementsCoordinator
<1>1. IInv /\ [Next]_vars => [Atomic!Next]_(Atomic!vars)
  BY AtomicStep
<1> QED
  BY AtomicInit, Invariance, <1>1, PTL DEF Spec, ImplementsCoordinator, Atomic!Spec

-----------------------------------------------------------------------------
(* What follows for the distributed update from Coordinator_proofs. *)

Coordinated ==
    INSTANCE Coordinator_proofs WITH
        MaxTick <- Cardinality(Ranks) * (Cardinality(Files) + MaxRewrites) + 1,
        collectTick <- IF Gathering THEN collectTick - 1 ELSE collectTick,
        readyFiles <- readyFiles[Root],
        started <- ~(ftype = "InitialFiles" /\ InUpdate),
        finished <- doneGlobal /\ ~InUpdate

(* What is assumed of Coordinator's constants is what Rounds assumes. *)
LEMMA CoordinatedAssumptions ==
    Coordinated!FilesInfoAssumption /\ Coordinated!MaxTickAssumption
<1>1. Cardinality(Ranks) \in Nat /\ Cardinality(Files) \in Nat /\ MaxRewrites \in Nat
  BY RoundsAssumption, FS_CardinalityType
<1>2. \A m, n \in Nat : m * n \in Nat
  OBVIOUS
<1>3. Cardinality(Ranks) * (Cardinality(Files) + MaxRewrites) + 1 \in Nat
  BY <1>1, <1>2
<1> QED
  BY <1>3, FilesInfoAssumption
  DEF Coordinated!FilesInfoAssumption, Coordinated!MaxTickAssumption

(* Both instances are the same specification. *)
LEMMA SameNext == Atomic!Next => Coordinated!Next
BY Zenon
DEF Atomic!Next, Coordinated!Next, Atomic!UpdateInitial, Coordinated!UpdateInitial,
    Atomic!UpdateWatched, Coordinated!UpdateWatched, Atomic!Update, Coordinated!Update,
    Atomic!UpdateCollect, Coordinated!UpdateCollect, Atomic!UpdateNothing,
    Coordinated!UpdateNothing, Atomic!Nothing, Coordinated!Nothing, Atomic!Collected,
    Coordinated!Collected, Atomic!Readied, Coordinated!Readied, Atomic!BecomesReady,
    Coordinated!BecomesReady, Atomic!ReadyFiles, Coordinated!ReadyFiles,
    Atomic!MoreThanOneFile, Coordinated!MoreThanOneFile, Atomic!SeenByAllWriters,
    Coordinated!SeenByAllWriters, Atomic!IsOlderFile, Coordinated!IsOlderFile,
    Atomic!Signalled, Coordinated!Signalled, Atomic!NewSignals, Coordinated!NewSignals,
    Atomic!OutputsOf, Coordinated!OutputsOf, Atomic!AsSignal, Coordinated!AsSignal,
    Atomic!Gathered, Coordinated!Gathered, Atomic!Reporters, Coordinated!Reporters,
    Atomic!InfoOf, Coordinated!InfoOf, Atomic!NewFileInfo, Coordinated!NewFileInfo,
    Atomic!Modified, Coordinated!Modified, Atomic!InvalidTimeInterval,
    Coordinated!InvalidTimeInterval, Atomic!Processed, Coordinated!Processed,
    Atomic!GatheredWriters, Coordinated!GatheredWriters

(* The distributed update (Coordinator::update on all ranks) implements    *)
(* this instance of Coordinator, too.                                      *)
THEOREM ImplementsCoordinated == Spec => Coordinated!Spec
<1>1. Atomic!Init => Coordinated!Init
  BY DEF Atomic!Init, Coordinated!Init, Atomic!NoFilesInfo, Coordinated!NoFilesInfo,
         Atomic!NewFileInfo, Coordinated!NewFileInfo
<1>2. [Atomic!Next]_(Atomic!vars) => [Coordinated!Next]_(Coordinated!vars)
  BY SameNext DEF Atomic!vars, Coordinated!vars
<1> QED
  BY ImplementsAtomic, <1>1, <1>2, PTL
  DEF ImplementsCoordinator, Atomic!Spec, Coordinated!Spec

(* However the messages and collectives of an update interleave on the     *)
(* ranks, the root (calculateReadyFiles) makes no file ready in two        *)
(* rounds.                                                                 *)
THEOREM HandedOutOnce == Spec => Coordinated!NeverTwice
<1>1. Coordinated!Spec => Coordinated!NeverTwice
  BY Coordinated!DeliveredOnce, CoordinatedAssumptions
<1> QED
  BY ImplementsCoordinated, <1>1, PTL

(* ... it withholds the last file by name only, for want of evidence,      *)
THEOREM NewestWithheld == Spec => []Coordinated!OnlyNewestWithheld
<1>1. Coordinated!Spec => []Coordinated!OnlyNewestWithheld
  BY Coordinated!WithheldIsNewest, CoordinatedAssumptions
<1> QED
  BY ImplementsCoordinated, <1>1, PTL

(* ... it hands out each output that a signal file announced, and no       *)
(* signal file that announces another,                                     *)
THEOREM SignalsFollowed ==
    Spec => []Coordinated!AnnouncedDelivered /\ []Coordinated!SignalsNotDelivered
<1>1. Coordinated!Spec => []Coordinated!AnnouncedDelivered
  BY Coordinated!SignalsHonoured, CoordinatedAssumptions
<1>2. Coordinated!Spec => []Coordinated!SignalsNotDelivered
  BY Coordinated!SignalsWithheld, CoordinatedAssumptions
<1> QED
  BY ImplementsCoordinated, <1>1, <1>2, PTL

(* ... and so the ranks together keep the promise of module Delivery: each *)
(* file goes from unknown to withheld, ready and retired and never back.   *)
THEOREM ImplementsPromise == Spec => Coordinated!KeepsPromise
<1>1. Coordinated!Spec => Coordinated!KeepsPromise
  BY Coordinated!ImplementsDelivery, CoordinatedAssumptions
<1> QED
  BY ImplementsCoordinated, <1>1, PTL
=============================================================================
