-------------------------- MODULE CausalBroadcast --------------------------
(***************************************************************************)
(* What the Merkle-DAG layer promises the CRDTs built on it: every update  *)
(* is incorporated at a peer only after everything its author had          *)
(* incorporated when writing it.  Nothing is said of how updates travel.   *)
(***************************************************************************)
EXTENDS Naturals, Sequences

CONSTANTS Peer,       \* the replicas
          Bootstrap   \* the replica started with an empty BootstrapPeer setting

VARIABLES past,       \* past[c]: what the author of update c knew when writing it
          known       \* known[p]: the updates replica p has incorporated

vars == <<past, known>>

\* The bootstrap replica starts with the update carrying the initial value.
Init ==
  /\ past = << {} >>
  /\ known = [p \in Peer |-> IF p = Bootstrap THEN {1} ELSE {}]

\* p writes a new update on top of everything it knows.
Write(p) ==
  /\ past' = Append(past, known[p])
  /\ known' = [known EXCEPT ![p] = @ \cup {Len(past) + 1}]

\* p incorporates an update whose whole causal past it already knows.
Deliver(p, c) ==
  /\ c \notin known[p]
  /\ past[c] \subseteq known[p]
  /\ known' = [known EXCEPT ![p] = @ \cup {c}]
  /\ UNCHANGED past

Next == \E p \in Peer : Write(p) \/ \E c \in 1..Len(past) : Deliver(p, c)

Spec == Init /\ [][Next]_vars
=============================================================================
