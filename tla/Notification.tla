----------------------------- MODULE Notification -----------------------------
(***************************************************************************)
(* sentinels/notification.cxx on one rank: PollingNotify scanning the      *)
(* watched directories and looking at the done file, while the simulation  *)
(* writes its files and the clock advances.  File times are whole seconds  *)
(* (std::time_t), so several things can happen at one time.                *)
(***************************************************************************)
EXTENDS Integers

CONSTANTS
    Files,          \* the regular files below the directories of the specs
    Directories,    \* the existing directories
    DirectoryOf,    \* the directory of each file
    DoneDirectory,  \* parent_path of the done file
    WatchSpecs,     \* InputSpecPaths: [directory, filenames], the latter as
                    \* the set of files its expression matches
    Removable,      \* the files that may be removed
    OtherRanks,     \* are there ranks besides this one?
    MaxTime,        \* bound on the clock
    MaxWrites,      \* bound on the writes to one file
    MaxRemovals     \* bound on the removals, the done file's included

ASSUME NotificationAssumption ==
    /\ DirectoryOf \in [Files -> Directories]
    /\ WatchSpecs \subseteq [directory : STRING, filenames : SUBSET Files]
    /\ Removable \subseteq Files
    /\ OtherRanks \in BOOLEAN
    /\ Files \cap {"idle", "scan", "exists", "compare", "threw", "blocked"} = {}
    /\ MaxTime \in Nat \ {0}
    /\ MaxWrites \in Nat
    /\ MaxRemovals \in Nat

VARIABLES
    \* the simulation and the file system
    now,            \* the clock, in seconds
    writeTime,      \* last_write_time of each file, NoTime if there is none
    doneTime,       \* last_write_time of the done file, likewise
    \* PollingNotify
    startTime,      \* monitoring_start_time
    watches,        \* the accepted watch specifications
    doneFlag,       \* done_flag
    knownTime,      \* known_files: the write time at the last report
    lastDoneTime,   \* checkDone's static last_done_time
    \* processEvents
    at,             \* where it is; "idle" before and after, a file between
                    \* the look at it and the reading of its time, "blocked"
                    \* if main does not come back to it
    entries,        \* the entries it is bound to visit
    visited,        \* the entries it has visited
    \* history
    hadDoneFile,    \* the constructor found a done file
    writes,         \* how often each file was written
    removals,       \* how often a file was removed
    reports,        \* how often each file was pushed to out_newFiles
    scanTime,       \* when the last iteration began
    touched         \* the done file was touched since the start

notifier == <<startTime, watches, doneFlag, knownTime, lastDoneTime>>
iteration == <<at, entries, visited, reports, scanTime>>
simulation == <<writeTime, doneTime, writes, removals, touched>>
vars == <<now, simulation, notifier, iteration, hadDoneFile>>

NoTime == -1

Exists(f) == writeTime[f] # NoTime

(***************************************************************************)
(* The constructor.  Without a done file the notifier is done at once and  *)
(* watches nothing; a specification is skipped if its directory does not   *)
(* exist or holds the done file.                                           *)
(***************************************************************************)
Accepted ==
    {spec \in WatchSpecs :
        spec.directory \in Directories /\ spec.directory # DoneDirectory}

NotDoneYet == FALSE     \* mutant

DoneAtStart == doneTime = NoTime

Init ==
    /\ now = 1
    /\ writeTime \in [Files -> {NoTime, 0, 1}]
    /\ doneTime \in {NoTime, 0, 1}
    /\ startTime = now
    /\ doneFlag = DoneAtStart
    /\ watches = IF doneFlag THEN {} ELSE Accepted
    /\ knownTime = [f \in Files |-> NoTime]
    /\ lastDoneTime = NoTime
    /\ at = "idle"
    /\ entries = {}
    /\ visited = {}
    /\ hadDoneFile = (doneTime # NoTime)
    /\ writes = [f \in Files |-> 0]
    /\ removals = 0
    /\ reports = [f \in Files |-> 0]
    /\ scanTime = NoTime
    /\ touched = FALSE

-----------------------------------------------------------------------------

Tick ==
    /\ now < MaxTime
    /\ now' = now + 1
    /\ UNCHANGED <<simulation, notifier, iteration, hadDoneFile>>

(* The simulation writes to a file.  Polling cannot tell whether that is   *)
(* the last write, or whether the file is still open.                      *)
Write(f) ==
    /\ writes[f] < MaxWrites
    /\ writeTime' = [writeTime EXCEPT ![f] = now]
    /\ writes' = [writes EXCEPT ![f] = @ + 1]
    /\ UNCHANGED <<now, doneTime, removals, touched, notifier, iteration, hadDoneFile>>

RemoveFile(f) ==
    /\ removals < MaxRemovals
    /\ Exists(f)
    /\ f \in Removable
    /\ writeTime' = [writeTime EXCEPT ![f] = NoTime]
    /\ removals' = removals + 1
    /\ UNCHANGED <<now, doneTime, writes, touched, notifier, iteration, hadDoneFile>>

(* The done file is touched, which creates it if there is none.  It may    *)
(* also be removed.                                                        *)
TouchDone ==
    /\ doneTime < now
    /\ doneTime' = now
    /\ touched' = TRUE
    /\ UNCHANGED <<now, writeTime, writes, removals, notifier, iteration, hadDoneFile>>

RemoveDone ==
    /\ removals < MaxRemovals
    /\ doneTime # NoTime
    /\ doneTime' = NoTime
    /\ removals' = removals + 1
    /\ UNCHANGED <<now, writeTime, writes, touched, notifier, iteration, hadDoneFile>>

-----------------------------------------------------------------------------
(* processEvents.  An exception in it is not caught and ends the program:  *)
(* then at is "threw".                                                     *)

Watched(f) ==
    \E spec \in watches : spec.directory = DirectoryOf[f] /\ f \in spec.filenames

(* The iteration starts; entries created later may or may not be met.      *)
BeginScan ==
    /\ at = "idle"
    /\ ~doneFlag
    /\ at' = "scan"
    /\ entries' = {f \in Files : Exists(f)}
    /\ visited' = {}
    /\ scanTime' = now
    /\ UNCHANGED <<now, simulation, notifier, reports, hadDoneFile>>

(* An entry that is not, or no more, a regular file is skipped. *)
Visit(f) ==
    /\ at = "scan"
    /\ f \notin visited
    /\ f \in entries \/ Exists(f)
    /\ visited' = visited \cup {f}
    /\ at' = IF Exists(f) THEN f ELSE "scan"
    /\ UNCHANGED <<now, simulation, notifier, entries, reports, scanTime, hadDoneFile>>

(* Written since monitoring started, and not at the time known for it. *)
IsNewsAfterEqual(f) ==      \* mutant
    writeTime[f] >= startTime /\ knownTime[f] # writeTime[f]

IsNewsOnce(f) ==            \* mutant
    writeTime[f] > startTime /\ knownTime[f] = NoTime

IsNews(f) ==
    writeTime[f] > startTime /\ knownTime[f] # writeTime[f]

NotRemembered(f) == knownTime   \* mutant

Remembered(f) == [knownTime EXCEPT ![f] = writeTime[f]]

(* Then its time is read, which throws if it is gone by now. *)
ReadTime(f) ==
    /\ at = f
    /\ at' = IF Exists(f) THEN "scan" ELSE "threw"
    /\ IF Exists(f) /\ Watched(f) /\ IsNews(f)
       THEN /\ reports' = [reports EXCEPT ![f] = @ + 1]
            /\ knownTime' = Remembered(f)
       ELSE UNCHANGED <<reports, knownTime>>
    /\ UNCHANGED <<now, simulation, startTime, watches, doneFlag, lastDoneTime, entries,
                   visited, scanTime, hadDoneFile>>

(* checkDone.  The first call learns the time to compare with, and throws  *)
(* if there is no done file; later ones do if it goes after it was seen.   *)
DoneTimeAfterNow == IF lastDoneTime = NoTime THEN now + 1 ELSE lastDoneTime   \* mutant

LatestDoneTime == doneTime   \* mutant

FirstDoneTimeZero == IF lastDoneTime = NoTime THEN 0 ELSE lastDoneTime   \* mutant

DoneTimeToExceed == IF lastDoneTime = NoTime THEN doneTime ELSE lastDoneTime

LearnDoneTime ==
    /\ at = "scan"
    /\ entries \subseteq visited
    /\ lastDoneTime' = DoneTimeToExceed
    /\ at' = IF lastDoneTime' = NoTime THEN "threw" ELSE "exists"
    /\ UNCHANGED <<now, simulation, startTime, watches, doneFlag, knownTime, entries,
                   visited, reports, scanTime, hadDoneFile>>

SeeDoneFile ==
    /\ at = "exists"
    /\ at' = IF doneTime = NoTime THEN "idle" ELSE "compare"
    /\ UNCHANGED <<now, simulation, notifier, entries, visited, reports, scanTime,
                   hadDoneFile>>

CompareDoneTime ==
    /\ at = "compare"
    /\ at' = IF doneTime = NoTime THEN "threw" ELSE "idle"
    /\ doneFlag' = (doneTime > lastDoneTime)
    /\ UNCHANGED <<now, simulation, startTime, watches, knownTime, lastDoneTime, entries,
                   visited, reports, scanTime, hadDoneFile>>

(* With several ranks, main calls update before it polls again.  A rank    *)
(* that sees the done file touched does not enter it (module Rounds), and  *)
(* this one, which has not seen that, then waits in it for ever.           *)
UpdateBlocks ==
    /\ at = "idle"
    /\ ~doneFlag
    /\ scanTime # NoTime
    /\ OtherRanks /\ touched
    /\ at' = "blocked"
    /\ UNCHANGED <<now, simulation, notifier, entries, visited, reports, scanTime,
                   hadDoneFile>>

ProcessEvents ==
    \/ BeginScan
    \/ \E f \in Files : Visit(f) \/ ReadTime(f)
    \/ LearnDoneTime \/ SeeDoneFile \/ CompareDoneTime

Next ==
    \/ Tick
    \/ \E f \in Files : Write(f) \/ RemoveFile(f)
    \/ TouchDone \/ RemoveDone
    \/ ProcessEvents
    \/ UpdateBlocks

Spec == Init /\ [][Next]_vars

(* An iteration ends, and main calls processEvents again and again as long *)
(* as update returns: UpdateBlocks, which no fairness holds back, ends     *)
(* that.                                                                   *)
FairSpec == Spec /\ WF_vars(ProcessEvents)

-----------------------------------------------------------------------------

Times == {NoTime} \cup 0..MaxTime

(* The variables keep their types. *)
TypeOK ==
    /\ now \in 1..MaxTime
    /\ writeTime \in [Files -> Times]
    /\ doneTime \in Times
    /\ startTime \in 1..MaxTime
    /\ watches \in SUBSET WatchSpecs
    /\ doneFlag \in BOOLEAN
    /\ knownTime \in [Files -> Times]
    /\ lastDoneTime \in Times
    /\ at \in {"idle", "scan", "exists", "compare", "threw", "blocked"} \cup Files
    /\ entries \in SUBSET Files
    /\ visited \in SUBSET Files
    /\ hadDoneFile \in BOOLEAN
    /\ writes \in [Files -> 0..MaxWrites]
    /\ removals \in 0..MaxRemovals
    /\ reports \in [Files -> Nat]
    /\ scanTime \in Times
    /\ touched \in BOOLEAN

(* No report without a write: a file is reported at most once for each     *)
(* time it was written since monitoring started, so a file that was there  *)
(* before and is left alone is never reported.                             *)
ReportsAreWrites == \A f \in Files : reports[f] <= writes[f]

(* The notifier never stops on its own: only because the done file was     *)
(* touched since it started, or because there was none; neither removing   *)
(* it nor any exchange of looks and touches makes it stop.                 *)
StopsForTouchOnly == doneFlag => touched \/ ~hadDoneFile

(* What the rank throws of is always a file that was removed in the run:   *)
(* without a done file from the start it never gets to look for it.        *)
ThrowsForRemovalOnly == at = "threw" => removals > 0

(* Between two scans no write is overlooked that was over, by the clock,   *)
(* when the last scan began: the time known for the file is that write's.  *)
(* This holds in particular when the notifier stops.                       *)
NothingOverlooked ==
    at = "idle" =>
        \A f \in Files :
            Watched(f) /\ startTime < writeTime[f] /\ writeTime[f] < scanTime
                => knownTime[f] = writeTime[f]

(* A watched file written since the start second is reported sooner or     *)
(* later with its latest write time, unless it is removed first, or the    *)
(* notifier stops or throws, or is not called again because another rank   *)
(* has left the loop.                                                      *)
Over == doneFlag \/ at \in {"threw", "blocked"}

NewsIsReported ==
    \A f \in Files :
        (Watched(f) /\ writeTime[f] > startTime /\ knownTime[f] # writeTime[f])
            ~> (~Exists(f) \/ knownTime[f] = writeTime[f] \/ Over)

(* A touch of the done file after the notifier's first look stops it,      *)
(* unless the file is removed again, or another rank saw the touch before  *)
(* and this one is blocked in update.                                      *)
TouchIsSeen ==
    (lastDoneTime # NoTime /\ doneTime > lastDoneTime) ~> (Over \/ doneTime = NoTime)

(* help.cxx:42, "This process continues until the termination file         *)
(* (--done) is touched": a touch after the start second stops the notifier.*)
AnyTouchStops == (doneTime > startTime) ~> doneFlag

(* coordinator.cxx:266, "assumes done notification occurs only after       *)
(* simulation exits, and data files are completely written out by then":   *)
(* a notifier that stops for the touch has reported what was written       *)
(* before it.                                                              *)
StopsWithAllReported ==
    doneFlag /\ hadDoneFile =>
        \A f \in Files :
            Watched(f) /\ startTime < writeTime[f] /\ writeTime[f] < doneTime
                => knownTime[f] = writeTime[f]
=============================================================================
