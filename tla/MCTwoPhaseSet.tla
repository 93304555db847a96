--------------------------- MODULE MCTwoPhaseSet ---------------------------
(* A small instance of TwoPhaseSet: every operation on the elements. *)
EXTENDS TwoPhaseSet

CONSTANTS p1, p2, a

P2Batches == [p \in Peer |-> IF p = p2 THEN 2 ELSE 0]
Operations == [elem : Elem, nature : Nature]
AddA == [elem |-> a, nature |-> "ADD"]
=============================================================================
