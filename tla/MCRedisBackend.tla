--------------------------- MODULE MCRedisBackend ---------------------------
(* Symmetry of RedisBackend's worker processes. *)
EXTENDS RedisBackend

CONSTANTS c1, h1, h2, p1, p2

ProcSymmetry == Permutations(Procs)
=============================================================================
