------------------------------ MODULE MCRunner ------------------------------
(* Values for the constants of Runner that a .cfg cannot write. *)
EXTENDS Runner

Kind(stop, timed, slow) == [stop |-> stop, timed |-> timed, slow |-> slow]

(* A job that may be killed, one that may not, and one that runs into its   *)
(* timeout.                                                                 *)
ThreeKinds == {Kind(TRUE, FALSE, FALSE), Kind(FALSE, TRUE, FALSE), Kind(FALSE, TRUE, TRUE)}
=============================================================================
