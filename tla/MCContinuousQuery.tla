-------------------------- MODULE MCContinuousQuery --------------------------
(* A small instance of ContinuousQuery for TLC. *)
EXTENDS ContinuousQuery

CONSTANT v

\* Everything is in the query at first.
Full == {[k \in Keys |-> v]}
=============================================================================
