------------------------------ MODULE MCClSet ------------------------------
(* Small instances of ClSet: two replicas and two elements. *)
EXTENDS ClSet

CONSTANTS p1, p2, a, b
=============================================================================
