----------------------------- MODULE BlockFetch -----------------------------
(***************************************************************************)
(* What a retrieval promises the Merkle-DAG layer: it fetches wanted       *)
(* blocks, one at a time, and only returns when it has all of them.  It    *)
(* promises neither to return nor not to panic.  In MerkleDag, GetNode is  *)
(* Fetch and GetNodes is Return.                                           *)
(***************************************************************************)
CONSTANT Cid

VARIABLES
  wanted,  \* the blocks asked for
  local,   \* the blocks in the replica's repository
  status   \* "running", "returned", or "panicked"

vars == <<wanted, local, status>>

Init ==
  /\ wanted \in SUBSET Cid /\ local \in SUBSET Cid
  /\ status = "running"

Fetch(c) ==
  /\ status = "running"
  /\ c \in wanted \ local
  /\ local' = local \cup {c}
  /\ UNCHANGED <<wanted, status>>

Return ==
  /\ status = "running"
  /\ wanted \subseteq local
  /\ status' = "returned"
  /\ UNCHANGED <<wanted, local>>

Panic ==
  /\ status = "running"
  /\ status' = "panicked"
  /\ UNCHANGED <<wanted, local>>

Next == (\E c \in Cid : Fetch(c)) \/ Return \/ Panic

Spec == Init /\ [][Next]_vars
=============================================================================
