---------------------------- MODULE MCCoordinator ----------------------------
(* A small instance of Coordinator: two ranks, three paths in name order,  *)
(* the second of which is the output_ready signal of the first, as in      *)
(* out_1.nc < out_1.nc.ready < out_2.nc.                                   *)
EXTENDS Coordinator, TLC

MCFiles == 1..3
MCReadyConversion == 2 :> 1
=============================================================================
