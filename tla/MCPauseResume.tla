--------------------------- MODULE MCPauseResume ---------------------------
(* Commands may be exchanged for each other: a symmetry for TLC. *)
EXTENDS PauseResume, TLC

CommandSymmetry == Permutations(Commands)
=============================================================================
