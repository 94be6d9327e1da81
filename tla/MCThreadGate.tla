---------------------------- MODULE MCThreadGate ----------------------------
(* Small instances of ThreadGate for TLC. *)
EXTENDS ThreadGate, TLC

Symmetry == Permutations(Threads)
=============================================================================
