-------------------------- MODULE Coordinator_proofs --------------------------
(***************************************************************************)
(* What Coordinator guarantees for every set of ranks and files, every     *)
(* output_ready conversion and every number of rounds.                     *)
(***************************************************************************)
EXTENDS Coordinator, FilesInfo_proofs

-----------------------------------------------------------------------------
(***************************************************************************)
(* The inductive invariant: the flags of each file agree with each other,  *)
(* with readyFiles and with the history of what was handed out.            *)
(***************************************************************************)
ReadyAreCurrent == readyFiles = ReadyFiles(filesInfo)

ReadyWereDelivered ==
    \A f \in DOMAIN filesInfo :
        filesInfo[f].is_ready => f \in delivered \/ filesInfo[f].is_signal

DeliveredAreReady ==
    \A f \in delivered : f \in DOMAIN filesInfo /\ filesInfo[f].is_ready

StartedFirst == finished => started

IInv ==
    /\ TypeOK
    /\ StartedFirst
    /\ Coherent(filesInfo)
    /\ ReadyAreCurrent
    /\ ReadyWereDelivered
    /\ DeliveredAreReady
    /\ OnlyNewestWithheld
    /\ WritersAreReporters
    /\ AnnouncedDelivered
    /\ SignalsNotDelivered
    /\ DoneFlushes

LEMMA InitIInv == Init => IInv
<1> SUFFICES ASSUME Init PROVE IInv
  OBVIOUS
<1>1. DOMAIN filesInfo = {} /\ filesInfo = [f \in DOMAIN filesInfo |-> filesInfo[f]]
  BY DEF Init, NoFilesInfo
<1>2. TypeOK
  <2>1. filesInfo \in [DOMAIN filesInfo -> FileInfo]
    BY <1>1
  <2>2. collectTick \in 0..MaxTick
    BY MaxTickAssumption DEF Init
  <2> QED
    BY <1>1, <2>1, <2>2 DEF Init, TypeOK
<1>3. ReadyAreCurrent /\ WritersAreReporters
  BY <1>1 DEF Init, ReadyAreCurrent, ReadyFiles, WritersAreReporters
<1> QED
  BY <1>1, <1>2, <1>3
  DEF Init, IInv, Coherent, ReadyWereDelivered, DeliveredAreReady,
      OnlyNewestWithheld, AnnouncedDelivered, SignalsNotDelivered, DoneFlushes,
      StartedFirst

(* Both calls of update are an early return or a collecting round. *)
LEMMA NextCases ==
    ASSUME Next
    PROVE  /\ started' = TRUE
           /\ finished => ~started
           /\ \/ UpdateNothing
              \/ \E batch \in Batches, initial \in BOOLEAN, done \in BOOLEAN :
                    UpdateCollect(batch, initial, done)
<1>1. CASE UpdateInitial
  <2>1. PICK initial \in SUBSET Files, done \in BOOLEAN :
           Update([r \in Ranks |-> IF r = Root THEN initial ELSE {}], TRUE, done)
    BY <1>1 DEF UpdateInitial
  <2>2. [r \in Ranks |-> IF r = Root THEN initial ELSE {}] \in Batches
    BY DEF Batches
  <2> QED
    BY <1>1, <2>1, <2>2 DEF UpdateInitial, Update
<1>2. CASE UpdateWatched
  BY <1>2 DEF UpdateWatched, Update, Batches
<1> QED
  BY <1>1, <1>2 DEF Next

(* An update without reports from any rank preserves the invariant: it     *)
(* retires the files of the last round and makes none ready.               *)
LEMMA NothingStep ==
    ASSUME IInv, UpdateNothing, started' = TRUE
    PROVE  IInv'
<1>1. IsInfo(filesInfo)
  BY DEF IInv, TypeOK, IsInfo
<1>2. ProcessedAs(filesInfo', filesInfo, readyFiles)
  BY <1>1, ProcessedEffect DEF UpdateNothing
<1>3. \A f \in readyFiles : f \in DOMAIN filesInfo /\ filesInfo[f].is_ready
  BY DEF IInv, ReadyAreCurrent, ReadyFiles
<1>4. TypeOK'
  BY <1>2 DEF IInv, TypeOK, UpdateNothing, ProcessedAs, IsInfo
<1>5. Coherent(filesInfo)'
  BY <1>2, <1>3 DEF IInv, Coherent, ProcessedAs
<1>6. ReadyAreCurrent'
  BY <1>2 DEF IInv, UpdateNothing, ReadyAreCurrent, ReadyFiles, ProcessedAs
<1>7. ReadyWereDelivered' /\ DeliveredAreReady'
  BY <1>2 DEF IInv, UpdateNothing, ReadyWereDelivered, DeliveredAreReady, ProcessedAs
<1>8. OnlyNewestWithheld'
  BY <1>2 DEF IInv, UpdateNothing, OnlyNewestWithheld, ProcessedAs
<1>9. WritersAreReporters'
  BY <1>2 DEF IInv, UpdateNothing, WritersAreReporters, ProcessedAs
<1>10. AnnouncedDelivered' /\ SignalsNotDelivered'
  BY <1>2 DEF IInv, UpdateNothing, AnnouncedDelivered, SignalsNotDelivered, ProcessedAs
<1>11. DoneFlushes'
  BY DEF UpdateNothing, DoneFlushes
<1> QED
  BY <1>4, <1>5, <1>6, <1>7, <1>8, <1>9, <1>10, <1>11 DEF IInv, StartedFirst

LEMMA CollectStep ==
    ASSUME IInv, started' = TRUE, NEW batch \in Batches,
           NEW initial \in BOOLEAN, NEW done \in BOOLEAN,
           UpdateCollect(batch, initial, done)
    PROVE  /\ IInv'
           /\ CollectedAs(filesInfo', filesInfo, readyFiles, writers', batch,
                          done, collectTick')
           /\ readyFiles' \cap delivered = {}
<1> DEFINE tick == collectTick + 1
<1>1. /\ IsInfo(filesInfo)
      /\ Coherent(filesInfo)
      /\ readyFiles \in SUBSET DOMAIN filesInfo
      /\ \A f \in readyFiles : filesInfo[f].is_ready
      /\ tick \in Nat
  BY MaxTickAssumption DEF IInv, TypeOK, IsInfo, ReadyAreCurrent, ReadyFiles
<1>2. CollectedAs(Collected(filesInfo, readyFiles, writers, batch, initial, done, tick),
                  filesInfo, readyFiles, GatheredWriters(writers, batch), batch, done, tick)
  <2> HIDE DEF tick
  <2> QED
    BY <1>1, CollectedEffect
<1>3. CollectedAs(filesInfo', filesInfo, readyFiles, writers', batch, done, collectTick')
  BY <1>2 DEF UpdateCollect
<1>4. /\ readyFiles' = ReadyFiles(filesInfo)'
      /\ delivered' = delivered \cup readyFiles'
      /\ finished' = done
      /\ writers' = GatheredWriters(writers, batch)
      /\ collectTick' = tick
      /\ collectTick < MaxTick
  BY DEF UpdateCollect, ReadyFiles
<1>5. IsInfo(filesInfo') /\ Coherent(filesInfo')
  BY <1>3 DEF CollectedAs
<1>6. ReadyWereDelivered'
  <2> SUFFICES ASSUME NEW f \in DOMAIN filesInfo', filesInfo'[f].is_ready,
                      f \notin delivered'
               PROVE  filesInfo'[f].is_signal
    BY DEF ReadyWereDelivered
  <2>1. filesInfo'[f].was_processed
    BY <1>4 DEF ReadyFiles
  <2>2. f \in DOMAIN filesInfo /\ (filesInfo[f].was_processed \/ f \in readyFiles)
           => filesInfo[f].is_signal
    BY <1>1, <1>4 DEF Coherent, IInv, ReadyWereDelivered
  <2>3. f \in DOMAIN filesInfo => (filesInfo[f].is_signal => filesInfo'[f].is_signal)
    BY <1>3 DEF CollectedAs
  <2> QED
    BY <1>3, <2>1, <2>2, <2>3 DEF CollectedAs
<1>7. DeliveredAreReady'
  BY <1>3, <1>4 DEF IInv, DeliveredAreReady, CollectedAs, ReadyFiles
<1>8. readyFiles' \cap delivered = {}
  <2> SUFFICES ASSUME NEW f \in readyFiles', f \in delivered PROVE FALSE
    OBVIOUS
  <2>1. f \in DOMAIN filesInfo /\ filesInfo[f].is_ready
    BY DEF IInv, DeliveredAreReady
  <2>2. filesInfo[f].was_processed \/ f \in readyFiles
    BY <2>1 DEF IInv, ReadyAreCurrent, ReadyFiles
  <2>3. filesInfo'[f].was_processed
    BY <1>3, <2>1, <2>2 DEF CollectedAs
  <2> QED
    BY <1>4, <2>3 DEF ReadyFiles
<1>9. OnlyNewestWithheld'
  <2> SUFFICES ASSUME NEW f \in DOMAIN filesInfo', ~filesInfo'[f].is_ready
               PROVE  /\ \A g \in DOMAIN filesInfo' : g <= f
                      /\ ~filesInfo'[f].is_initial /\ ~filesInfo'[f].was_signalled
                      /\ ~(writers' \subseteq filesInfo'[f].writers)
                         \/ DOMAIN filesInfo' = {f}
    BY DEF OnlyNewestWithheld
  <2>1. ~filesInfo'[f].was_processed
    BY <1>5 DEF Coherent
  <2>2. ~BecomesReady(filesInfo', writers', done, f)
    BY <1>3 DEF CollectedAs
  <2>3. DOMAIN filesInfo' \subseteq Nat
    BY <1>5, FilesInfoAssumption DEF IsInfo
  <2>4. \A g \in DOMAIN filesInfo' : g <= f
    BY <2>1, <2>2, <2>3 DEF BecomesReady, IsOlderFile
  <2> QED
    BY <2>1, <2>2, <2>4 DEF BecomesReady, MoreThanOneFile, SeenByAllWriters
<1>10. WritersAreReporters'
  <2>1. ASSUME NEW r \in writers'
        PROVE  r \in UNION {filesInfo'[f].writers : f \in DOMAIN filesInfo'}
    <3>1. CASE r \in writers
      <4>1. PICK f \in DOMAIN filesInfo : r \in filesInfo[f].writers
        BY <3>1 DEF IInv, WritersAreReporters
      <4>2. f \in DOMAIN filesInfo' /\ r \in filesInfo'[f].writers
        BY <1>3, <4>1 DEF CollectedAs, InfoOf
      <4> QED
        BY <4>2
    <3>2. CASE r \notin writers
      <4>1. r \in Ranks /\ batch[r] # {}
        BY <1>4, <2>1, <3>2 DEF GatheredWriters
      <4>2. PICK f \in batch[r] : TRUE
        BY <4>1
      <4>3. f \in DOMAIN filesInfo'
        BY <1>3, <4>1, <4>2 DEF CollectedAs
      <4>4. r \in filesInfo'[f].writers
        BY <1>3, <4>1, <4>2, <4>3 DEF CollectedAs, Reporters
      <4> QED
        BY <4>3, <4>4
    <3> QED
      BY <3>1, <3>2
  <2>2. ASSUME NEW f \in DOMAIN filesInfo', NEW r \in filesInfo'[f].writers
        PROVE  r \in writers'
    <3>1. r \in InfoOf(filesInfo, f).writers \/ r \in Reporters(batch, f)
      BY <1>3 DEF CollectedAs
    <3>2. CASE r \in Reporters(batch, f)
      BY <1>4, <3>2 DEF Reporters, GatheredWriters
    <3>3. CASE r \in InfoOf(filesInfo, f).writers
      <4>1. f \in DOMAIN filesInfo /\ r \in filesInfo[f].writers
        BY <3>3 DEF InfoOf, NewFileInfo
      <4> QED
        BY <1>4, <4>1 DEF IInv, WritersAreReporters, GatheredWriters
    <3> QED
      BY <3>1, <3>2, <3>3
  <2> QED
    BY <2>1, <2>2 DEF WritersAreReporters
<1>11. AnnouncedDelivered'
  <2> SUFFICES ASSUME NEW f \in DOMAIN filesInfo', filesInfo'[f].is_signal
               PROVE  /\ ReadyConversion[f] \in DOMAIN filesInfo'
                      /\ \/ ReadyConversion[f] \in delivered'
                         \/ filesInfo'[ReadyConversion[f]].is_signal
    BY DEF AnnouncedDelivered
  <2> DEFINE o == ReadyConversion[f]
  <2>1. CASE f \in DOMAIN filesInfo /\ filesInfo[f].is_signal
    <3>1. o \in DOMAIN filesInfo /\ (o \in delivered \/ filesInfo[o].is_signal)
      BY <2>1 DEF IInv, AnnouncedDelivered
    <3> QED
      BY <1>3, <1>4, <3>1 DEF CollectedAs
  <2>2. CASE o \in DOMAIN filesInfo' /\ filesInfo'[o].is_ready
    BY <1>6, <2>2 DEF ReadyWereDelivered
  <2> QED
    BY <1>3, <2>1, <2>2 DEF CollectedAs
<1>12. SignalsNotDelivered'
  BY <1>3, <1>4 DEF IInv, SignalsNotDelivered, CollectedAs, ReadyFiles
<1>13. DoneFlushes'
  <2> SUFFICES ASSUME done, NEW f \in DOMAIN filesInfo'
               PROVE  f \in delivered' \/ filesInfo'[f].is_signal
    BY <1>4 DEF DoneFlushes
  <2>1. filesInfo'[f].is_ready
    BY <1>3, <1>5 DEF CollectedAs, BecomesReady, Coherent
  <2> QED
    BY <1>6, <2>1 DEF ReadyWereDelivered
<1>14. TypeOK'
  <2>1. ASSUME NEW f \in DOMAIN filesInfo'
        PROVE  /\ filesInfo'[f].modified.first <= filesInfo'[f].modified.second
               /\ filesInfo'[f].modified.second <= tick
    <3> DEFINE old == InfoOf(filesInfo, f).modified
               once == Modified(old, tick)
    <3>1. old \in TimeInterval
      BY <1>1, InfoOfType DEF FileInfo
    <3>2. f \in DOMAIN filesInfo =>
             old.first <= old.second /\ old.second <= collectTick
      BY DEF IInv, TypeOK, InfoOf
    <3>3. f \notin DOMAIN filesInfo => old = InvalidTimeInterval
      BY DEF InfoOf, NewFileInfo
    <3>4. collectTick \in Nat /\ collectTick <= tick
      BY MaxTickAssumption DEF IInv, TypeOK
    <3>5. \/ old = InvalidTimeInterval
          \/ old.first <= old.second /\ old.second <= tick
      BY <3>1, <3>2, <3>3, <3>4 DEF TimeInterval
    <3>6. once \in TimeInterval /\ once.first <= once.second /\ once.second <= tick
      <4> HIDE DEF old, tick
      <4> QED
        BY <1>1, <3>1, <3>5, ModifiedType, ModifiedOrdered
    <3>7. LET twice == Modified(once, tick)
          IN  twice.first <= twice.second /\ twice.second <= tick
      <4> HIDE DEF once, tick
      <4> QED
        BY <1>1, <3>6, ModifiedOrdered
    <3>8. \/ filesInfo'[f].modified = old /\ f \in DOMAIN filesInfo
          \/ filesInfo'[f].modified = once
          \/ filesInfo'[f].modified = Modified(once, tick)
      BY <1>3, <1>4 DEF CollectedAs
    <3> HIDE DEF old, once, tick
    <3> QED
      BY <1>1, <3>1, <3>2, <3>4, <3>6, <3>7, <3>8 DEF TimeInterval
  <2>2. collectTick' \in 0..MaxTick
    BY <1>4, MaxTickAssumption DEF IInv, TypeOK
  <2>3. writers' \in SUBSET Ranks
    BY <1>4 DEF IInv, TypeOK, GatheredWriters
  <2>4. readyFiles' \in SUBSET Files /\ delivered' \in SUBSET Files
    BY <1>4, <1>5 DEF IInv, TypeOK, ReadyFiles, IsInfo
  <2> QED
    BY <1>4, <1>5, <2>1, <2>2, <2>3, <2>4 DEF TypeOK, IsInfo
<1>15. ReadyAreCurrent'
  BY <1>4 DEF ReadyAreCurrent
<1> QED
  BY <1>3, <1>5, <1>6, <1>7, <1>8, <1>9, <1>10, <1>11, <1>12, <1>13, <1>14, <1>15
  DEF IInv, StartedFirst

(* Every step keeps the invariant, and hands out only new files. *)
LEMMA NextStep ==
    ASSUME IInv, [Next]_vars
    PROVE  IInv' /\ (UNCHANGED vars \/ readyFiles' \cap delivered = {})
<1>1. CASE UNCHANGED vars
  <2>1. TypeOK' /\ StartedFirst' /\ DoneFlushes' /\ WritersAreReporters'
    BY <1>1 DEF vars, IInv, TypeOK, StartedFirst, DoneFlushes, WritersAreReporters
  <2>2. Coherent(filesInfo)' /\ ReadyAreCurrent' /\ ReadyWereDelivered'
    BY <1>1 DEF vars, IInv, Coherent, ReadyAreCurrent, ReadyFiles, ReadyWereDelivered
  <2>3. DeliveredAreReady' /\ OnlyNewestWithheld'
    BY <1>1 DEF vars, IInv, DeliveredAreReady, OnlyNewestWithheld
  <2>4. AnnouncedDelivered' /\ SignalsNotDelivered'
    BY <1>1 DEF vars, IInv, AnnouncedDelivered, SignalsNotDelivered
  <2> QED
    BY <1>1, <2>1, <2>2, <2>3, <2>4 DEF IInv
<1>2. CASE Next
  <2>1. CASE UpdateNothing
    BY <1>2, <2>1, NextCases, NothingStep DEF UpdateNothing
  <2>2. CASE \E batch \in Batches, initial \in BOOLEAN, done \in BOOLEAN :
                UpdateCollect(batch, initial, done)
    BY <1>2, <2>2, NextCases, CollectStep
  <2> QED
    BY <1>2, <2>1, <2>2, NextCases
<1> QED
  BY <1>1, <1>2

THEOREM Invariance == Spec => []IInv
<1>1. IInv /\ [Next]_vars => IInv'
  BY NextStep
<1> QED
  BY InitIInv, <1>1, PTL DEF Spec

-----------------------------------------------------------------------------

(* Coordinator's members keep their types; the tick interval of a file is  *)
(* ordered and never in the future.                                        *)
THEOREM TypeCorrect == Spec => []TypeOK
BY Invariance, PTL DEF IInv

(* update hands no file to the inporters in two rounds, for any number of  *)
(* ranks, files and rounds and any reports.                                *)
THEOREM DeliveredOnce == Spec => NeverTwice
<1>1. IInv /\ [Next]_vars => [readyFiles' \cap delivered = {}]_vars
  BY NextStep
<1> QED
  BY Invariance, <1>1, PTL DEF Spec, NeverTwice

(* Only the last file by name can wait, and only for missing evidence.     *)
THEOREM WithheldIsNewest == Spec => []OnlyNewestWithheld
BY Invariance, PTL DEF IInv

(* The ranks a complete file needs are those recorded on the files.        *)
THEOREM WritersExact == Spec => []WritersAreReporters
BY Invariance, PTL DEF IInv

(* A signal file brings the output it announces to the inporters.          *)
THEOREM SignalsHonoured == Spec => []AnnouncedDelivered
BY Invariance, PTL DEF IInv

(* A signal file that is no output of another is not brought to them.      *)
THEOREM SignalsWithheld == Spec => []SignalsNotDelivered
BY Invariance, PTL DEF IInv

(* A call of update that returns true leaves no file behind.               *)
THEOREM FlushedWhenDone == Spec => []DoneFlushes
BY Invariance, PTL DEF IInv

-----------------------------------------------------------------------------
(* The refinement.                                                         *)

LEMMA StatusMeaning ==
    ASSUME NEW info, Coherent(info), NEW f
    PROVE  LET s == StatusOf(info, ReadyFiles(info), f)
           IN  /\ s \in {"unknown", "withheld", "ready", "retired"}
               /\ s = "unknown" <=> f \notin DOMAIN info
               /\ s = "ready" <=>
                     f \in DOMAIN info /\ info[f].is_ready /\ ~info[f].was_processed
               /\ s = "retired" <=> f \in DOMAIN info /\ info[f].was_processed
               /\ s = "withheld" <=> f \in DOMAIN info /\ ~info[f].is_ready
BY DEF StatusOf, ReadyFiles, Coherent

(* What every call of update does to the map, as far as Delivery sees it. *)
Follows(new, info, ready) ==
    /\ DOMAIN info \subseteq DOMAIN new
    /\ \A f \in DOMAIN info :
          info[f].was_processed \/ f \in ready => new[f].was_processed
    /\ \A f \in DOMAIN new :
          new[f].was_processed =>
             \/ f \in DOMAIN info /\ info[f].was_processed
             \/ f \in DOMAIN info /\ f \in ready
             \/ f \in DOMAIN ReadyConversion /\ new[f].is_signal

(* One call of update takes every file along a move of Delivery. *)
LEMMA UpdateMoves ==
    ASSUME NEW info, Coherent(info), NEW new, Coherent(new),
           Follows(new, info, ReadyFiles(info)), NEW f \in Files
    PROVE  <<StatusOf(info, ReadyFiles(info), f), StatusOf(new, ReadyFiles(new), f)>>
               \in Promise!Moves(f)
<1> DEFINE old == StatusOf(info, ReadyFiles(info), f)
           next == StatusOf(new, ReadyFiles(new), f)
<1>1. /\ old \in {"unknown", "withheld", "ready", "retired"}
      /\ old = "unknown" <=> f \notin DOMAIN info
      /\ old = "ready" <=>
            f \in DOMAIN info /\ info[f].is_ready /\ ~info[f].was_processed
      /\ old = "retired" <=> f \in DOMAIN info /\ info[f].was_processed
      /\ old = "withheld" <=> f \in DOMAIN info /\ ~info[f].is_ready
  BY StatusMeaning
<1>2. /\ next \in {"unknown", "withheld", "ready", "retired"}
      /\ next = "unknown" <=> f \notin DOMAIN new
      /\ next = "ready" <=>
            f \in DOMAIN new /\ new[f].is_ready /\ ~new[f].was_processed
      /\ next = "retired" <=> f \in DOMAIN new /\ new[f].was_processed
      /\ next = "withheld" <=> f \in DOMAIN new /\ ~new[f].is_ready
  BY StatusMeaning
<1> HIDE DEF old, next
<1>3. old = "unknown" /\ next = "retired" => f \in DOMAIN ReadyConversion
  BY <1>1, <1>2 DEF Follows
<1>4. old = "withheld" => next \in {"withheld", "ready"}
  BY <1>1, <1>2 DEF ReadyFiles, Coherent, Follows
<1>5. old = "ready" => next = "retired"
  BY <1>1, <1>2 DEF ReadyFiles, Follows
<1>6. old = "retired" => next = "retired"
  BY <1>1, <1>2 DEF Follows
<1> QED
  BY <1>1, <1>2, <1>3, <1>4, <1>5, <1>6 DEF old, next, Promise!Moves

LEMMA UpdateRound ==
    ASSUME IInv, IInv', ~finished, Follows(filesInfo', filesInfo, readyFiles)
    PROVE  Promise!Round
<1> DEFINE old == [f \in Files |-> StatusOf(filesInfo, readyFiles, f)]
           next == [f \in Files |-> StatusOf(filesInfo', readyFiles', f)]
<1>1. /\ readyFiles = ReadyFiles(filesInfo)
      /\ readyFiles' = ReadyFiles(filesInfo')
      /\ Coherent(filesInfo)
      /\ Coherent(filesInfo')
  BY DEF IInv, ReadyAreCurrent, ReadyFiles
<1>2. \A f \in Files : <<old[f], next[f]>> \in Promise!Moves(f)
  BY <1>1, UpdateMoves
<1>3. \A f \in Files :
         /\ next[f] \in Promise!Status
         /\ next[f] = "unknown" <=> f \notin DOMAIN filesInfo'
         /\ next[f] = "withheld" <=> f \in DOMAIN filesInfo' /\ ~filesInfo'[f].is_ready
  BY <1>1, StatusMeaning DEF Promise!Status
<1>4. next \in [Files -> Promise!Status]
  BY <1>3
<1> HIDE DEF next, old
<1>5. Promise!OnlyTheLastWithheld(next)
  BY <1>3 DEF IInv, OnlyNewestWithheld, Promise!OnlyTheLastWithheld
<1>6. finished' => \A f \in Files : next[f] # "withheld"
  BY <1>3 DEF IInv, DoneFlushes, DeliveredAreReady, Coherent
<1>7. finished' \in BOOLEAN
  BY DEF IInv, TypeOK
<1> QED
  BY <1>2, <1>4, <1>5, <1>6, <1>7 DEF Promise!Round, old, next

LEMMA PromiseInit == Init => Promise!Init
BY DEF Init, NoFilesInfo, StatusOf, Promise!Init

LEMMA PromiseStep ==
    ASSUME IInv, [Next]_vars
    PROVE  [Promise!Next]_(Promise!vars)
<1>1. CASE UNCHANGED vars
  BY <1>1 DEF vars, Promise!vars, StatusOf
<1>2. CASE Next
  <2>1. IInv'
    BY <1>2, NextStep
  <2>2. ~finished
    BY <1>2, NextCases DEF IInv, StartedFirst
  <2>3. CASE UpdateNothing
    <3>1. IsInfo(filesInfo)
      BY DEF IInv, TypeOK, IsInfo
    <3>2. ProcessedAs(filesInfo', filesInfo, readyFiles)
      BY <2>3, <3>1, ProcessedEffect DEF UpdateNothing
    <3>3. Follows(filesInfo', filesInfo, readyFiles)
      BY <3>2 DEF Follows, ProcessedAs
    <3> QED
      BY <2>1, <2>2, <3>3, UpdateRound DEF Promise!Next
  <2>4. ASSUME NEW batch \in Batches, NEW initial \in BOOLEAN, NEW done \in BOOLEAN,
               UpdateCollect(batch, initial, done)
        PROVE  Promise!Next
    <3>1. CollectedAs(filesInfo', filesInfo, readyFiles, writers', batch, done,
                      collectTick')
      BY <1>2, <2>4, NextCases, CollectStep
    <3>2. Follows(filesInfo', filesInfo, readyFiles)
      BY <3>1 DEF Follows, CollectedAs
    <3> QED
      BY <2>1, <2>2, <3>2, UpdateRound DEF Promise!Next
  <2> QED
    BY <1>2, <2>3, <2>4, NextCases
<1> QED
  BY <1>1, <1>2

(* Coordinator implements Delivery: whatever the reports and the signals,  *)
(* a file goes from unknown to withheld, ready and retired, never back,    *)
(* and is ready for one round only.                                        *)
THEOREM ImplementsDelivery == Spec => KeepsPromise
BY Invariance, PromiseInit, PromiseStep, PTL DEF Spec, KeepsPromise, Promise!Spec
=============================================================================
