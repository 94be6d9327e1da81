----------------------------- MODULE MCInitiator -----------------------------
(* The module of the runs of Initiator.  Its clients and connections are     *)
(* interchangeable, but a symmetry would be unsound with the liveness that   *)
(* init_keeps checks, so there is none.                                      *)
EXTENDS Initiator, TLC
=============================================================================
