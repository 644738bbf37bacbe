------------------------------- MODULE Delivery -------------------------------
(***************************************************************************)
(* What Coordinator promises to the inporters, without saying how: the     *)
(* life of each file, one status per file.                                 *)
(*                                                                         *)
(*   unknown   no rank and no signal has named it                          *)
(*   withheld  reported, but not known to be completely written            *)
(*   ready     handed to the inporters in this round                       *)
(*   retired   handed out in an earlier round, or a signal file            *)
(*                                                                         *)
(* A round makes every ready file retired, so no file is ready twice; it   *)
(* withholds no file but the last one by name; and once it has finished    *)
(* nothing stays withheld.                                                 *)
(***************************************************************************)
EXTENDS Integers

CONSTANTS
    Files,      \* a set of numbers, in the order of the file names
    Signals     \* the files that announce another one

VARIABLES
    status,     \* the status of each file
    finished    \* no round follows

vars == <<status, finished>>

Status == {"unknown", "withheld", "ready", "retired"}

Init ==
    /\ status = [f \in Files |-> "unknown"]
    /\ finished = FALSE

(* Where one round may take a file: only a signal file is retired unused. *)
Moves(f) ==
    {<<"unknown", "unknown">>, <<"unknown", "withheld">>, <<"unknown", "ready">>,
     <<"withheld", "withheld">>, <<"withheld", "ready">>,
     <<"ready", "retired">>, <<"retired", "retired">>}
    \cup (IF f \in Signals THEN {<<"unknown", "retired">>} ELSE {})

OnlyTheLastWithheld(s) ==
    \A f, g \in Files :
        s[f] = "withheld" /\ s[g] # "unknown" => g <= f

Round ==
    /\ ~finished
    /\ status' \in [Files -> Status]
    /\ finished' \in BOOLEAN
    /\ \A f \in Files : <<status[f], status'[f]>> \in Moves(f)
    /\ OnlyTheLastWithheld(status')
    /\ finished' => \A f \in Files : status'[f] # "withheld"

Next == Round

Spec == Init /\ [][Next]_vars
=============================================================================
