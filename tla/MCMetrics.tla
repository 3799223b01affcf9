------------------------------ MODULE MCMetrics ------------------------------
(* The symmetry of Metrics' requests for TLC: each has its own state only. *)
EXTENDS Metrics, TLC

Requests == Permutations(Request)
=============================================================================
