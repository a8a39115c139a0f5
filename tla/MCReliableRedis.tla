-------------------------- MODULE MCReliableRedis --------------------------
(* Values for the constants of ReliableRedis that a .cfg cannot write. *)
EXTENDS ReliableRedis

CONSTANTS p1, p2, p3, d1, d2

TwoProcs   == {p1, p2}
ThreeProcs == {p1, p2, p3}
ProcSymmetry == Permutations(Procs)

(* The first two jobs are identical, the others are not. *)
FirstTwice == [r \in Raws |-> Max({r, 2})]

AllDiffer == [r \in Raws |-> r]
AllAlike  == [r \in Raws |-> 0]
=============================================================================
