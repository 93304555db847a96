---------------------------- MODULE MCMerkleDag ----------------------------
(* Small instances of MerkleDag. *)
EXTENDS MerkleDag, TLC

CONSTANTS p1, p2, p3, add

P1Batches == [p \in Peer |-> IF p = p1 THEN 2 ELSE 0]
Symmetry == Permutations(Peer \ {Bootstrap})
=============================================================================
