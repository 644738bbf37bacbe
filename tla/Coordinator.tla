----------------------------- MODULE Coordinator -----------------------------
(***************************************************************************)
(* sentinels/coordinator.cxx seen from the root rank, one step per call of *)
(* Coordinator::update.  Every rank calls update together, so one call is  *)
(* one atomic step here; module Rounds splits it into the collectives and  *)
(* messages it is made of and implements this module.                      *)
(*                                                                         *)
(* update takes whatever the notifiers of the ranks report and whether any *)
(* of them is done: both are arbitrary here, as in the contract of         *)
(* coordinator.h:39-48.                                                    *)
(***************************************************************************)
EXTENDS FilesInfo

CONSTANT MaxTick    \* bound on collectTick, the number of collecting rounds

ASSUME MaxTickAssumption == MaxTick \in Nat

VARIABLES
    filesInfo,      \* what is known of each file, by path
    writers,        \* every rank that ever reported a file
    collectTick,    \* number of rounds that had something to collect
    readyFiles,     \* the files handed to the inporters by the last round
    started,        \* the call for the initial files has been made
    finished,       \* the value the last call returned
    delivered       \* history: every file handed out so far

vars == <<filesInfo, writers, collectTick, readyFiles, started, finished, delivered>>

NoFilesInfo == [f \in {} |-> NewFileInfo]

Init ==
    /\ filesInfo = NoFilesInfo
    /\ writers = {}
    /\ collectTick = 0
    /\ readyFiles = {}
    /\ started = FALSE
    /\ finished = FALSE
    /\ delivered = {}

Nothing(batch) == \A r \in Ranks : batch[r] = {}

(* The early return: the previous files are marked processed all the same. *)
UpdateNothingUnmarked ==    \* mutant
    /\ readyFiles' = {}
    /\ finished' = FALSE
    /\ UNCHANGED <<filesInfo, writers, collectTick, delivered>>

UpdateNothing ==
    /\ filesInfo' = Processed(filesInfo, readyFiles)
    /\ readyFiles' = {}
    /\ finished' = FALSE
    /\ UNCHANGED <<writers, collectTick, delivered>>

UpdateCollect(batch, initial, done) ==
    /\ collectTick < MaxTick
    /\ collectTick' = collectTick + 1
    /\ writers' = GatheredWriters(writers, batch)
    /\ filesInfo' = Collected(filesInfo, readyFiles, writers, batch, initial,
                              done, collectTick + 1)
    /\ readyFiles' = ReadyFiles(filesInfo')
    /\ finished' = done
    /\ delivered' = delivered \cup readyFiles'

Update(batch, initial, done) ==
    IF Nothing(batch) /\ ~done
    THEN UpdateNothing
    ELSE UpdateCollect(batch, initial, done)

(* main: the root's initial files; the other ranks report nothing yet. *)
UpdateInitial ==
    /\ ~started
    /\ started' = TRUE
    /\ \E initial \in SUBSET Files, done \in BOOLEAN :
          Update([r \in Ranks |-> IF r = Root THEN initial ELSE {}], TRUE, done)

(* main: the loop. *)
UpdateWatched ==
    /\ started
    /\ ~finished
    /\ UNCHANGED started
    /\ \E batch \in [Ranks -> SUBSET Files], done \in BOOLEAN :
          Update(batch, FALSE, done)

Next == UpdateInitial \/ UpdateWatched

Spec == Init /\ [][Next]_vars

-----------------------------------------------------------------------------

(* The variables keep the types of the members of Coordinator; a file's    *)
(* interval of ticks is ordered and not in the future (FileInfo::modified).*)
TypeOK ==
    /\ DOMAIN filesInfo \subseteq Files
    /\ filesInfo \in [DOMAIN filesInfo -> FileInfo]
    /\ \A f \in DOMAIN filesInfo :
          /\ filesInfo[f].modified.first <= filesInfo[f].modified.second
          /\ filesInfo[f].modified.second <= collectTick
    /\ writers \in SUBSET Ranks
    /\ collectTick \in 0..MaxTick
    /\ readyFiles \in SUBSET Files
    /\ started \in BOOLEAN
    /\ finished \in BOOLEAN
    /\ delivered \in SUBSET Files

(* A file is handed to the inporters in at most one round, however often   *)
(* the ranks report it again and whatever signals name it.                 *)
NeverTwice == [][readyFiles' \cap delivered = {}]_vars

(* Between rounds a known file that has not been handed out is the last    *)
(* one by name, and some known writer has not reported it or it is the     *)
(* only file: every test of update_calculateReadyFiles has failed for it.  *)
OnlyNewestWithheld ==
    \A f \in DOMAIN filesInfo :
        ~filesInfo[f].is_ready =>
            /\ \A g \in DOMAIN filesInfo : g <= f
            /\ ~filesInfo[f].is_initial /\ ~filesInfo[f].was_signalled
            /\ ~(writers \subseteq filesInfo[f].writers)
               \/ DOMAIN filesInfo = {f}

(* writers, against which the completeness of a file is judged, is exactly *)
(* the ranks recorded on the files.                                        *)
WritersAreReporters ==
    writers = UNION {filesInfo[f].writers : f \in DOMAIN filesInfo}

(* Once a signal file was seen, the output it announces has been handed    *)
(* out or is a signal itself: no announced output is lost.                 *)
AnnouncedDelivered ==
    \A s \in DOMAIN filesInfo :
        filesInfo[s].is_signal =>
            LET output == ReadyConversion[s]
            IN  /\ output \in DOMAIN filesInfo
                /\ output \in delivered \/ filesInfo[output].is_signal

(* A signal file that no other signal announces never reaches an inporter. *)
SignalsNotDelivered == delivered \cap PureSignals = {}

(* The last call hands out everything known that is not a signal: after    *)
(* the done notification no file waits for further evidence.               *)
DoneFlushes ==
    finished => \A f \in DOMAIN filesInfo :
                    f \in delivered \/ filesInfo[f].is_signal

-----------------------------------------------------------------------------
(* The abstract specification: the status of a file read off its FileInfo. *)

StatusOf(info, ready, f) ==
    CASE f \notin DOMAIN info -> "unknown"
      [] f \in DOMAIN info /\ f \in ready -> "ready"
      [] f \in DOMAIN info /\ f \notin ready /\ info[f].was_processed -> "retired"
      [] OTHER -> "withheld"

Promise ==
    INSTANCE Delivery WITH
        Signals <- DOMAIN ReadyConversion,
        status <- [f \in Files |-> StatusOf(filesInfo, readyFiles, f)],
        finished <- finished

(* Coordinator::update keeps the promise of module Delivery: a file moves  *)
(* from unknown to withheld, to ready, to retired and never back.          *)
KeepsPromise == Promise!Spec
=============================================================================
