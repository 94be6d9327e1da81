------------------------------ MODULE MCChannel ------------------------------
(* Instances of Channel for TLC: client threads are interchangeable. *)
EXTENDS Channel, TLC

Symmetry == Permutations(Clients)
=============================================================================
