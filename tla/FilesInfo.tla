------------------------------ MODULE FilesInfo ------------------------------
(***************************************************************************)
(* What the root rank of Inshimtu knows of every output file, and the      *)
(* functions Coordinator::update applies to it: the map filesInfo of       *)
(* sentinels/coordinator.h and the pure part of the update_* functions of  *)
(* sentinels/coordinator.cxx.                                              *)
(*                                                                         *)
(* A file stands for its path and is a number: std::map iterates paths in  *)
(* increasing order, and that order is all the code uses of a path, so the *)
(* vector readyFiles (filled in map order) is represented by its set.      *)
(***************************************************************************)
EXTENDS Integers

CONSTANTS
    Ranks,          \* the ranks of MPI_COMM_WORLD
    Root,           \* MPIApplication::ROOT_RANK
    Files,          \* every path a rank or a conversion may name
    ReadyConversion \* the output_ready conversion: signal file -> output file

ASSUME FilesInfoAssumption ==
    /\ Root \in Ranks
    /\ Files \subseteq Nat
    /\ DOMAIN ReadyConversion \subseteq Files
    /\ ReadyConversion \in [DOMAIN ReadyConversion -> Files]

(* A file the conversion matches and that no other file converts to. *)
PureSignals ==
    {s \in DOMAIN ReadyConversion :
        \A t \in DOMAIN ReadyConversion : ReadyConversion[t] # s}

(***************************************************************************)
(* Coordinator::FileInfo.                                                  *)
(***************************************************************************)
TimeInterval == [first : Nat, second : Nat]
InvalidTimeInterval == [first |-> 1, second |-> 0]

FileInfo ==
    [writers : SUBSET Ranks, modified : TimeInterval, is_initial : BOOLEAN,
     is_ready : BOOLEAN, is_signal : BOOLEAN, was_signalled : BOOLEAN,
     was_processed : BOOLEAN]

NewFileInfo ==
    [writers |-> {}, modified |-> InvalidTimeInterval, is_initial |-> FALSE,
     is_ready |-> FALSE, is_signal |-> FALSE, was_signalled |-> FALSE,
     was_processed |-> FALSE]

(* std::map::operator[]: a default entry for a path not yet in the map. *)
InfoOf(info, f) == IF f \in DOMAIN info THEN info[f] ELSE NewFileInfo

(* FileInfo::setModified: the first and the last tick the file was seen. *)
ModifiedFirst(interval, tick) == \* mutant
    IF interval = InvalidTimeInterval
    THEN [first |-> tick, second |-> tick]
    ELSE [first |-> tick, second |-> interval.second]

Modified(interval, tick) ==
    IF interval = InvalidTimeInterval
    THEN [first |-> tick, second |-> tick]
    ELSE [first |-> interval.first, second |-> tick]

(***************************************************************************)
(* update_updateProcessedFiles: the files made ready last are taken to be  *)
(* processed by now.                                                       *)
(***************************************************************************)
NotProcessed(info, ready) == info \* mutant

Processed(info, ready) ==
    [f \in DOMAIN info |->
        [info[f] EXCEPT !.was_processed = @ \/ f \in ready]]

(***************************************************************************)
(* update_gatherNewFiles.  batch[r] is the set of files rank r reports;    *)
(* the messages of one call commute, every one of them being stamped with  *)
(* the same tick.  Only the root's own files set is_initial.               *)
(***************************************************************************)
Reporters(batch, f) == {r \in Ranks : f \in batch[r]}

Gathered(info, batch, initial, tick) ==
    [f \in DOMAIN info \cup UNION {batch[r] : r \in Ranks} |->
        IF Reporters(batch, f) = {}
        THEN info[f]
        ELSE [InfoOf(info, f) EXCEPT
                 !.is_initial = IF f \in batch[Root] THEN initial ELSE @,
                 !.modified = Modified(@, tick),
                 !.writers = @ \cup Reporters(batch, f)]]

GatheredOtherWriters(known, batch) == \* mutant
    known \cup {r \in Ranks \ {Root} : batch[r] # {}}

GatheredWriters(known, batch) == known \cup {r \in Ranks : batch[r] # {}}

(***************************************************************************)
(* update_calculateReadyFiles, first loop: the signal files among those    *)
(* not processed yet, then the outputs they announce.  An announced output *)
(* is entered in the map even if no rank has reported it.                  *)
(***************************************************************************)
NewSignals(info) ==
    {f \in DOMAIN info \cap DOMAIN ReadyConversion : ~info[f].was_processed}

KnownOutputs(info) == {ReadyConversion[f] : f \in NewSignals(info)} \cap DOMAIN info \* mutant

OutputsOf(info) == {ReadyConversion[f] : f \in NewSignals(info)}

AsUnprocessedSignal(entry) == [entry EXCEPT !.is_ready = TRUE, !.is_signal = TRUE] \* mutant

AsSignal(entry) ==
    [entry EXCEPT !.is_ready = TRUE, !.is_signal = TRUE, !.was_processed = TRUE]

Signalled(info, tick) ==
    LET Marked(f) ==
            IF f \in NewSignals(info) THEN AsSignal(info[f]) ELSE InfoOf(info, f)
    IN  [f \in DOMAIN info \cup OutputsOf(info) |->
            IF f \in OutputsOf(info)
            THEN [Marked(f) EXCEPT !.modified = Modified(@, tick),
                                   !.was_signalled = TRUE]
            ELSE Marked(f)]

(***************************************************************************)
(* update_calculateReadyFiles, second loop: which files become ready.      *)
(***************************************************************************)
IsMuchOlderFile(info, f) == \E g, h \in DOMAIN info : f < g /\ g < h \* mutant

IsOlderFile(info, f) == \E g \in DOMAIN info : f < g

MoreThanOneFile(info) == \E f, g \in DOMAIN info : f # g

SeenByAllWriters(info, known, f) == known \subseteq info[f].writers

BecomesReadyWithoutDone(info, known, done, f) == \* mutant
    /\ ~info[f].is_ready
    /\ ~info[f].was_processed
    /\ \/ info[f].is_initial
       \/ info[f].was_signalled
       \/ (MoreThanOneFile(info) \/ done) /\ SeenByAllWriters(info, known, f)
       \/ IsOlderFile(info, f)

BecomesReady(info, known, done, f) ==
    /\ ~info[f].is_ready
    /\ ~info[f].was_processed
    /\ \/ info[f].is_initial
       \/ info[f].was_signalled
       \/ (MoreThanOneFile(info) \/ done) /\ SeenByAllWriters(info, known, f)
       \/ IsOlderFile(info, f)
       \/ done

Readied(info, known, done) ==
    [f \in DOMAIN info |->
        [info[f] EXCEPT !.is_ready = @ \/ BecomesReady(info, known, done, f)]]

ReadyFiles(info) ==
    {f \in DOMAIN info : info[f].is_ready /\ ~info[f].was_processed}

(***************************************************************************)
(* One whole update at the root when there is something to collect.        *)
(***************************************************************************)
Collected(info, ready, known, batch, initial, done, tick) ==
    Readied(Signalled(Gathered(Processed(info, ready), batch, initial, tick), tick),
            GatheredWriters(known, batch), done)
=============================================================================
