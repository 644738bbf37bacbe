-------------------------- MODULE Notification_proofs --------------------------
(***************************************************************************)
(* What PollingNotify guarantees for every set of files and watch          *)
(* specifications, every number of writes and removals, and any clock.     *)
(***************************************************************************)
EXTENDS Notification, TLAPS

LEMMA InitType == Init => TypeOK
<1> SUFFICES ASSUME Init PROVE TypeOK
  OBVIOUS
<1>1. now \in 1..MaxTime /\ {NoTime, 0, 1} \subseteq Times
  BY NotificationAssumption DEF Init, Times
<1>2. watches \in SUBSET WatchSpecs
  BY DEF Init, Accepted
<1>3. writeTime \in [Files -> Times] /\ doneTime \in Times /\ NoTime \in Times
  BY <1>1 DEF Init
<1>4. /\ writes \in [Files -> 0..MaxWrites]
      /\ removals \in 0..MaxRemovals
      /\ reports \in [Files -> Nat]
      /\ knownTime \in [Files -> Times]
  BY <1>3, NotificationAssumption DEF Init
<1> QED
  BY <1>1, <1>2, <1>3, <1>4 DEF Init, TypeOK, DoneAtStart

LEMMA NextType == TypeOK /\ [Next]_vars => TypeOK'
<1> SUFFICES ASSUME TypeOK, [Next]_vars PROVE TypeOK'
  OBVIOUS
<1> USE NotificationAssumption DEF TypeOK, Times, NoTime
<1>1. CASE UNCHANGED vars
  BY <1>1 DEF vars, simulation, notifier, iteration
<1>2. CASE Tick
  BY <1>2 DEF Tick, simulation, notifier, iteration
<1>3. ASSUME NEW f \in Files, Write(f) PROVE TypeOK'
  BY <1>3 DEF Write, notifier, iteration
<1>4. ASSUME NEW f \in Files, RemoveFile(f) PROVE TypeOK'
  BY <1>4 DEF RemoveFile, notifier, iteration
<1>5. CASE TouchDone
  BY <1>5 DEF TouchDone, notifier, iteration
<1>6. CASE RemoveDone
  BY <1>6 DEF RemoveDone, notifier, iteration
<1>7. CASE BeginScan
  BY <1>7 DEF BeginScan, simulation, notifier
<1>8. ASSUME NEW f \in Files, Visit(f) PROVE TypeOK'
  BY <1>8 DEF Visit, simulation, notifier
<1>9. ASSUME NEW f \in Files, ReadTime(f) PROVE TypeOK'
  BY <1>9 DEF ReadTime, Remembered, simulation
<1>10. CASE LearnDoneTime
  BY <1>10 DEF LearnDoneTime, DoneTimeToExceed, simulation
<1>11. CASE SeeDoneFile
  BY <1>11 DEF SeeDoneFile, simulation, notifier
<1>12. CASE CompareDoneTime
  BY <1>12 DEF CompareDoneTime, simulation
<1>13. CASE UpdateBlocks
  BY <1>13 DEF UpdateBlocks, simulation, notifier
<1> QED
  BY <1>1, <1>2, <1>3, <1>4, <1>5, <1>6, <1>7, <1>8, <1>9, <1>10, <1>11, <1>12, <1>13
  DEF Next, ProcessEvents

(* The notifier's members keep their types; there is one time per file.    *)
THEOREM TypeCorrect == Spec => []TypeOK
BY InitType, NextType, PTL DEF Spec
-----------------------------------------------------------------------------
(***************************************************************************)
(* The inductive invariant.                                                *)
(***************************************************************************)

(* The notifier scans only if it found a done file, which then only a      *)
(* removal takes away; it compares only after it learnt a time; and it     *)
(* looks at the time of a file that it saw.                                *)
LooksAtWhatWasThere ==
    /\ ~hadDoneFile => doneFlag /\ at = "idle"
    /\ hadDoneFile /\ doneTime = NoTime => removals > 0
    /\ at \in {"exists", "compare"} => lastDoneTime # NoTime
    /\ \A f \in Files : at = f /\ ~Exists(f) => removals > 0
    /\ ThrowsForRemovalOnly

(* Until the done file is touched, the time learnt is its time.            *)
LearntUntouched ==
    hadDoneFile /\ ~touched =>
        /\ ~doneFlag
        /\ lastDoneTime = NoTime \/ doneTime = NoTime \/ doneTime = lastDoneTime

(* A write that is still news has not been reported yet.                   *)
Owed(f) == IF IsNews(f) THEN 1 ELSE 0

NewsNotReported == \A f \in Files : reports[f] + Owed(f) <= writes[f]

(* Old news: written before the last iteration began.                      *)
IsBeforeScan(f) == startTime < writeTime[f] /\ writeTime[f] < scanTime

(* Every old news is an entry of the iteration, and once it was visited    *)
(* its time is known.                                                      *)
EntriesMet ==
    /\ scanTime <= now
    /\ at \in {"scan"} \cup Files =>
            \A f \in Files : IsBeforeScan(f) => f \in entries
    /\ at # "threw" =>
            \A f \in Files :
                /\ Watched(f)
                /\ IsBeforeScan(f)
                /\ at \in {"scan"} \cup Files => f \in visited /\ at # f
                => knownTime[f] = writeTime[f]

IInv == TypeOK /\ LooksAtWhatWasThere /\ LearntUntouched /\ NewsNotReported /\ EntriesMet

LEMMA InitInvariant == Init => IInv
<1> SUFFICES ASSUME Init PROVE IInv
  OBVIOUS
<1>1. TypeOK
  BY InitType
<1>2. LooksAtWhatWasThere
  BY NotificationAssumption DEF Init, LooksAtWhatWasThere, ThrowsForRemovalOnly, DoneAtStart
<1>3. LearntUntouched
  BY DEF Init, LearntUntouched, DoneAtStart
<1>4. NewsNotReported
  <2> SUFFICES ASSUME NEW f \in Files PROVE reports[f] + Owed(f) <= writes[f]
    BY DEF NewsNotReported
  <2>1. ~IsNews(f)
    BY DEF Init, IsNews, NoTime
  <2> QED
    BY <2>1 DEF Init, Owed
<1>5. EntriesMet
  BY NotificationAssumption DEF Init, EntriesMet, IsBeforeScan, NoTime
<1> QED
  BY <1>1, <1>2, <1>3, <1>4, <1>5 DEF IInv

LEMMA LooksStep == TypeOK /\ LooksAtWhatWasThere /\ [Next]_vars => LooksAtWhatWasThere'
<1> SUFFICES ASSUME TypeOK, LooksAtWhatWasThere, [Next]_vars
             PROVE  LooksAtWhatWasThere'
  OBVIOUS
<1> USE NotificationAssumption
    DEF TypeOK, LooksAtWhatWasThere, ThrowsForRemovalOnly, Times, NoTime, Exists
<1>1. CASE UNCHANGED vars
  BY <1>1 DEF vars, simulation, notifier, iteration
<1>2. CASE Tick
  BY <1>2 DEF Tick, simulation, notifier, iteration
<1>3. ASSUME NEW f \in Files, Write(f) PROVE LooksAtWhatWasThere'
  BY <1>3 DEF Write, notifier, iteration
<1>4. ASSUME NEW f \in Files, RemoveFile(f) PROVE LooksAtWhatWasThere'
  BY <1>4 DEF RemoveFile, notifier, iteration
<1>5. CASE TouchDone
  BY <1>5 DEF TouchDone, notifier, iteration
<1>6. CASE RemoveDone
  BY <1>6 DEF RemoveDone, notifier, iteration
<1>7. CASE BeginScan
  BY <1>7 DEF BeginScan, simulation, notifier
<1>8. ASSUME NEW f \in Files, Visit(f) PROVE LooksAtWhatWasThere'
  BY <1>8 DEF Visit, simulation, notifier
<1>9. ASSUME NEW f \in Files, ReadTime(f) PROVE LooksAtWhatWasThere'
  BY <1>9 DEF ReadTime, Remembered, simulation
<1>10. CASE LearnDoneTime
  BY <1>10 DEF LearnDoneTime, DoneTimeToExceed, simulation
<1>11. CASE SeeDoneFile
  BY <1>11 DEF SeeDoneFile, simulation, notifier
<1>12. CASE CompareDoneTime
  BY <1>12 DEF CompareDoneTime, simulation
<1>13. CASE UpdateBlocks
  BY <1>13 DEF UpdateBlocks, simulation, notifier
<1> QED
  BY <1>1, <1>2, <1>3, <1>4, <1>5, <1>6, <1>7, <1>8, <1>9, <1>10, <1>11, <1>12, <1>13
  DEF Next, ProcessEvents

(* The times change only when the done file is touched or removed, and     *)
(* when the notifier looks at it.                                          *)
LEMMA LearntStep ==
    TypeOK /\ LooksAtWhatWasThere /\ LearntUntouched /\ [Next]_vars => LearntUntouched'
<1> SUFFICES ASSUME TypeOK, LooksAtWhatWasThere, LearntUntouched, [Next]_vars
             PROVE  LearntUntouched'
  OBVIOUS
<1> USE DEF LearntUntouched
<1>1. CASE UNCHANGED <<doneTime, doneFlag, lastDoneTime, hadDoneFile, touched>>
  BY <1>1
<1>2. CASE TouchDone
  BY <1>2 DEF TouchDone
<1>3. CASE RemoveDone
  BY <1>3 DEF RemoveDone, notifier
<1>4. CASE LearnDoneTime
  BY <1>4 DEF LearnDoneTime, DoneTimeToExceed, simulation
<1>5. CASE CompareDoneTime
  BY <1>5 DEF CompareDoneTime, simulation, LooksAtWhatWasThere, TypeOK, Times, NoTime
<1> QED
  BY <1>1, <1>2, <1>3, <1>4, <1>5
  DEF Next, ProcessEvents, vars, simulation, notifier, iteration, Tick, Write, RemoveFile,
      BeginScan, Visit, ReadTime, SeeDoneFile, UpdateBlocks

LEMMA NewsStep == TypeOK /\ NewsNotReported /\ [Next]_vars => NewsNotReported'
<1> SUFFICES ASSUME TypeOK, NewsNotReported, [Next]_vars,
                    NEW g \in Files
             PROVE  (reports[g] + Owed(g) <= writes[g])'
  BY DEF NewsNotReported
<1> USE DEF Owed, IsNews
<1>0. reports[g] + Owed(g) <= writes[g]
  BY DEF NewsNotReported
<1>1. CASE UNCHANGED <<writeTime, startTime, knownTime, writes, reports>>
  BY <1>0, <1>1
<1>2. ASSUME NEW f \in Files, Write(f) PROVE (reports[g] + Owed(g) <= writes[g])'
  BY <1>0, <1>2 DEF Write, notifier, iteration, TypeOK
<1>3. ASSUME NEW f \in Files, RemoveFile(f) PROVE (reports[g] + Owed(g) <= writes[g])'
  BY <1>0, <1>3 DEF RemoveFile, notifier, iteration, TypeOK, NoTime
<1>4. ASSUME NEW f \in Files, ReadTime(f) PROVE (reports[g] + Owed(g) <= writes[g])'
  BY <1>0, <1>4 DEF ReadTime, Remembered, simulation, TypeOK
<1> QED
  BY <1>1, <1>2, <1>3, <1>4
  DEF Next, ProcessEvents, vars, simulation, notifier, iteration, Tick, TouchDone,
      RemoveDone, BeginScan, Visit, LearnDoneTime, SeeDoneFile, CompareDoneTime,
      UpdateBlocks

LEMMA EntriesStep == TypeOK /\ EntriesMet /\ [Next]_vars => EntriesMet'
<1> SUFFICES ASSUME TypeOK, EntriesMet, [Next]_vars PROVE EntriesMet'
  OBVIOUS
<1> USE NotificationAssumption DEF TypeOK, EntriesMet, IsBeforeScan, Watched, Times, NoTime
<1>1. CASE UNCHANGED <<now, writeTime, startTime, watches, knownTime, at, entries,
                       visited, scanTime>>
  BY <1>1
<1>2. CASE Tick
  BY <1>2 DEF Tick, simulation, notifier, iteration
<1>3. ASSUME NEW f \in Files, Write(f) PROVE EntriesMet'
  BY <1>3 DEF Write, notifier, iteration
<1>4. ASSUME NEW f \in Files, RemoveFile(f) PROVE EntriesMet'
  BY <1>4 DEF RemoveFile, notifier, iteration
<1>5. CASE BeginScan
  BY <1>5 DEF BeginScan, simulation, notifier, Exists
<1>6. ASSUME NEW f \in Files, Visit(f) PROVE EntriesMet'
  BY <1>6 DEF Visit, simulation, notifier, Exists
<1>7. ASSUME NEW f \in Files, ReadTime(f) PROVE EntriesMet'
  BY <1>7 DEF ReadTime, Remembered, simulation, Exists, IsNews
<1>8. CASE LearnDoneTime
  BY <1>8 DEF LearnDoneTime, simulation
<1>9. CASE SeeDoneFile
  BY <1>9 DEF SeeDoneFile, simulation, notifier
<1>10. CASE CompareDoneTime
  BY <1>10 DEF CompareDoneTime, simulation
<1>11. CASE TouchDone \/ RemoveDone
  BY <1>1, <1>11 DEF TouchDone, RemoveDone, notifier, iteration
<1>12. CASE UNCHANGED vars
  BY <1>1, <1>12 DEF vars, simulation, notifier, iteration
<1>13. CASE UpdateBlocks
  BY <1>13 DEF UpdateBlocks, simulation, notifier
<1> QED
  BY <1>2, <1>3, <1>4, <1>5, <1>6, <1>7, <1>8, <1>9, <1>10, <1>11, <1>12, <1>13
  DEF Next, ProcessEvents

THEOREM Invariance == Spec => []IInv
<1>1. IInv /\ [Next]_vars => IInv'
  BY NextType, LooksStep, LearntStep, NewsStep, EntriesStep DEF IInv
<1> QED
  BY InitInvariant, <1>1, PTL DEF Spec

-----------------------------------------------------------------------------

(* A file is reported at most once for each time it was written, whatever  *)
(* the order of writes, ticks, looks and removals.                         *)
THEOREM ReportedForWrites == Spec => []ReportsAreWrites
<1>1. IInv => ReportsAreWrites
  <2> SUFFICES ASSUME IInv, NEW f \in Files PROVE reports[f] <= writes[f]
    BY DEF ReportsAreWrites
  <2>1. reports[f] \in Nat /\ writes[f] \in Nat /\ Owed(f) \in {0, 1}
    BY NotificationAssumption DEF IInv, TypeOK, Owed
  <2>2. reports[f] + Owed(f) <= writes[f]
    BY DEF IInv, NewsNotReported
  <2> QED
    BY <2>1, <2>2
<1> QED
  BY Invariance, <1>1, PTL

(* Only a touch of the done file stops the notifier, or that there was     *)
(* none from the start.                                                    *)
THEOREM StopsForTouch == Spec => []StopsForTouchOnly
<1>1. IInv => StopsForTouchOnly
  BY DEF IInv, LearntUntouched, StopsForTouchOnly
<1> QED
  BY Invariance, <1>1, PTL

(* An exception in processEvents needs a removal, of a file between two    *)
(* looks at it or of the done file.                                        *)
THEOREM ThrowsForRemoval == Spec => []ThrowsForRemovalOnly
BY Invariance, PTL DEF IInv, LooksAtWhatWasThere

(* A scan reports every write that was over when it began, even if files   *)
(* are written or removed while it runs.                                   *)
THEOREM NoneOverlooked == Spec => []NothingOverlooked
<1>1. IInv => NothingOverlooked
  BY NotificationAssumption DEF IInv, EntriesMet, IsBeforeScan, NothingOverlooked
<1> QED
  BY Invariance, <1>1, PTL
=============================================================================
