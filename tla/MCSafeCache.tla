----------------------------- MODULE MCSafeCache -----------------------------
(* The module of the runs of SafeCache.  Its clients and safe caches are     *)
(* interchangeable, but a symmetry would be unsound with the liveness that   *)
(* safe_keeps checks, so there is none.                                      *)
EXTENDS SafeCache, TLC
=============================================================================
