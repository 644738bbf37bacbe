------------------------------- MODULE MCRounds -------------------------------
(* Small instances of Rounds: the root is an inporter, another rank is one *)
(* too, and a third, where there is one, only watches.  With room for one  *)
(* message in transit a rank's second file waits for the root.             *)
EXTENDS Rounds, TLC

MCTwoFiles == 1..2
MCNoConversion == [f \in {} |-> f]
=============================================================================
