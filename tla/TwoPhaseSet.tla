---------------------------- MODULE TwoPhaseSet ----------------------------
(***************************************************************************)
(* The operation-based 2P-Set (example/2PSet/2PSet.go) read out of the     *)
(* Merkle-DAG: every node carries one operation, and the value is what     *)
(* replaying the operations of nodesInterface into CRDTSetOpBased gives.   *)
(***************************************************************************)
EXTENDS MerkleDag

CONSTANT Elem

Nature == {"ADD", "REMOVE"}
ASSUME OperationAssumption == Op \subseteq [elem : Elem, nature : Nature]

\* The elements of the operations of one nature that replica p replays.
Replayed(p, nature) ==
  {e \in Elem : \E i \in 1..Len(nodes[p]) :
                   ipfs[nodes[p][i].val].op = [elem |-> e, nature |-> nature]}

Added(p) == Replayed(p, "ADD")
Removed(p) == Replayed(p, "REMOVE")

\* The last operation on an element decides.
Lookup_LastWins(p) ==
  {e \in Elem : \E i \in 1..Len(nodes[p]) :
     /\ ipfs[nodes[p][i].val].op = [elem |-> e, nature |-> "ADD"]
     /\ \A j \in i..Len(nodes[p]) :
          ipfs[nodes[p][j].val].op # [elem |-> e, nature |-> "REMOVE"]}

\* Lookup: what was added and not removed.
Lookup(p) == Added(p) \ Removed(p)

-----------------------------------------------------------------------------
\* Strong convergence: replicas that incorporated the same nodes, in whatever
\* order and however often each, have the same value.
StrongConvergence ==
  \A p, q \in Peer : Known(p) = Known(q) => Lookup(p) = Lookup(q)

\* A removal cannot be undone: not by a concurrent or later addition, not by
\* an operation that arrives late, not by one replayed twice.
RemovedForGood ==
  [][\A p \in Peer : Removed(p) \cap Lookup(p)' = {}]_vars
=============================================================================
