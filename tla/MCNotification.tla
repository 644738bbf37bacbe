---------------------------- MODULE MCNotification ----------------------------
(* A small instance of Notification: two files in the watched directory,   *)
(* matched by different expressions, and two specifications the            *)
(* constructor skips: the directory of the done file and a missing one.    *)
EXTENDS Notification

MCDirectories == {"output", "run"}
MCDirectoryOf == [f \in Files |-> "output"]
MCWatchSpecs ==
    {[directory |-> "output", filenames |-> {f}] : f \in Files}
    \cup {[directory |-> d, filenames |-> Files] : d \in {"run", "missing"}}
=============================================================================
