------------------------------- MODULE ClSet -------------------------------
(***************************************************************************)
(* The causal-length sets that replicate states over the Merkle-DAG:       *)
(* example/CLSet/CLSet.go sends its whole value, example/CLSetDelta/       *)
(* CLSetDelta.go what changed since it last sent.  All replicas run one of *)
(* the two (variant).                                                      *)
(*                                                                         *)
(* The value maps every element ever touched to its causal length: an      *)
(* element is in the set if its length is odd.  A goroutine adds elements  *)
(* and another one sends the value, as the payload of a node, every        *)
(* SyncTime seconds; the main loop merges the nodes that arrive.  All of   *)
(* them hold the application's semaphore, so each is one step.             *)
(*                                                                         *)
(* The DAG is taken as MerkleDagProofs proves it to be: incorporating a    *)
(* node brings in the whole past of its author first.  The nodes of that   *)
(* past are known afterwards, but Merge looks at the payloads of the       *)
(* nodes it was called with and of no other.                               *)
(***************************************************************************)
EXTENDS Naturals, Sequences, FiniteSets

CONSTANTS Peer,          \* the replicas
          Bootstrap,     \* the replica whose BootstrapPeer setting is empty
          Elem,          \* the elements
          InitialValue,  \* the content of the file initial_value
          Variant,       \* the variants: "CLSet", "CLSetDelta" or both
          MaxNodes,      \* bound: nodes ever sent
          MaxLength      \* bound: causal length of an element

ASSUME PeerAssumption == Bootstrap \in Peer
ASSUME ElemAssumption == InitialValue \in Elem
ASSUME BoundAssumption == /\ Variant \subseteq {"CLSet", "CLSetDelta"}
                          /\ MaxNodes \in Nat \ {0} /\ MaxLength \in Nat \ {0}

VARIABLES
  variant,  \* the variant that runs, chosen once
  value,    \* value[p]: SetState.SetData, a map from elements to lengths
  delta,    \* delta[p]: SetState.DeltaState; empty in CLSet, which has none
  nodes,    \* nodes[c]: content of the node with CID c: its author, the map in
            \* its payload, and (history) what the author knew
  known,    \* known[p]: the CIDs in p's DAG
  network   \* network[p]: CIDs published to p: on their way, or in a file of
            \* its folder remote/; a lost message stays here for ever

vars == <<variant, value, delta, nodes, known, network>>

Cid == 1..MaxNodes
Map == UNION {[S -> 0..MaxLength] : S \in SUBSET Elem}
EmptyMap == [x \in {} |-> 0]
Node == [peer : Peer, state : Map, past : SUBSET Cid]

DeltaBased == variant = "CLSetDelta"

TypeOK ==
  /\ variant \in Variant
  /\ value \in [Peer -> Map]
  /\ delta \in [Peer -> Map]
  /\ nodes \in Seq(Node)
  /\ known \in [Peer -> SUBSET (1..Len(nodes))]
  /\ network \in [Peer -> SUBSET (1..Len(nodes))]

\* Lookup: the elements of odd length.
Lookup(p) == {x \in DOMAIN value[p] : value[p][x] % 2 = 1}

\* An element never touched reads as 0.
CausalLength(p, x) == IF x \in DOMAIN value[p] THEN value[p][x] ELSE 0

\* Create: the bootstrap replica adds the initial value, to its value only.
Init ==
  LET initial == [p \in Peer |-> IF p = Bootstrap THEN [x \in {InitialValue} |-> 1] ELSE EmptyMap]
  IN  /\ variant \in Variant
      /\ value = initial
      /\ delta = IF DeltaBased THEN initial ELSE [p \in Peer |-> EmptyMap]
      /\ nodes = <<>>
      /\ known = [p \in Peer |-> {}]
      /\ network = [p \in Peer |-> {}]

-----------------------------------------------------------------------------
\* A map with the entries of f, and those of g where f has none.
Over(f, g) == [x \in DOMAIN f \cup DOMAIN g |-> IF x \in DOMAIN f THEN f[x] ELSE g[x]]

\* A length is stored, and recorded in the delta.
Assign(p, x, n) ==
  LET entry == [y \in {x} |-> n]
  IN  /\ value' = [value EXCEPT ![p] = Over(entry, @)]
      /\ delta' = IF DeltaBased THEN [delta EXCEPT ![p] = Over(entry, @)] ELSE delta

\* Add: an absent element gets length 1, a removed one its next length.
Add(p, x) ==
  LET n == CausalLength(p, x)
  IN  /\ n < MaxLength
      /\ n % 2 = 0
      /\ Assign(p, x, n + 1)
      /\ UNCHANGED <<variant, nodes, known, network>>

Remove_Resets(p, x) ==
  LET n == CausalLength(p, x)
  IN  /\ n < MaxLength
      /\ x \in DOMAIN value[p] => n % 2 = 1
      /\ Assign(p, x, 0)
      /\ UNCHANGED <<variant, nodes, known, network>>

\* Remove: an element in the set gets its next length; one never touched gets
\* an entry of length 0.
Remove(p, x) ==
  LET n == CausalLength(p, x)
  IN  /\ n < MaxLength
      /\ x \in DOMAIN value[p] => n % 2 = 1
      /\ Assign(p, x, IF n % 2 = 1 THEN n + 1 ELSE 0)
      /\ UNCHANGED <<variant, nodes, known, network>>

\* A node with the payload on top of everything known; it becomes the only
\* root, so it alone is published (MerkleDagProofs, OnePublication).
Send(p, payload) ==
  LET c == Len(nodes) + 1
  IN  /\ c \in Cid
      /\ nodes' = Append(nodes, [peer |-> p, state |-> payload, past |-> known[p]])
      /\ known' = [known EXCEPT ![p] = @ \cup {c}]
      /\ network' = [q \in Peer |-> IF q = p THEN network[q] ELSE network[q] \cup {c}]

\* SendState of CLSet.  lastSentValue is never assigned: its map stays nil,
\* which DeepEqual tells from any other, so a node is sent every time.
SendState(p) ==
  /\ ~DeltaBased
  /\ Send(p, value[p])
  /\ UNCHANGED <<variant, value, delta>>

SendDelta_EmptiesFirst(p) ==
  /\ DeltaBased
  /\ delta' = [delta EXCEPT ![p] = EmptyMap]
  /\ Send(p, delta'[p])
  /\ UNCHANGED <<variant, value>>

\* SendState of CLSetDelta: the delta is sent, and emptied.
SendDelta(p) ==
  /\ DeltaBased
  /\ Send(p, delta[p])
  /\ delta' = [delta EXCEPT ![p] = EmptyMap]
  /\ UNCHANGED <<variant, value>>

mergeStates_NothingNew(m, others) == m

\* mergeState, called with each of a batch's states in turn.  Both val and
\* valother are read from thisState: an element already there keeps its length
\* whatever the other state says, and a new one gets 0.
mergeStates(m, others) == Over(m, [x \in UNION {DOMAIN o : o \in others} |-> 0])

\* CheckUpdate and Merge: the files that have arrived are collected, and the
\* CIDs not known yet incorporated.
CheckUpdate(p) ==
  \E S \in SUBSET network[p] \ {{}} :
    LET batch == S \ known[p]
        states == {nodes[c].state : c \in batch}
        merged == IF batch = {} THEN value[p] ELSE mergeStates(value[p], states)
        new == [x \in DOMAIN merged \ DOMAIN value[p] |-> merged[x]]
    IN  /\ network' = [network EXCEPT ![p] = @ \ S]
        /\ known' = [known EXCEPT ![p] = @ \cup batch \cup UNION {nodes[c].past : c \in batch}]
        /\ value' = [value EXCEPT ![p] = merged]
        /\ delta' = IF DeltaBased THEN [delta EXCEPT ![p] = Over(new, @)] ELSE delta
        /\ UNCHANGED <<variant, nodes>>

Next ==
  \E p \in Peer :
    \/ \E x \in Elem : Add(p, x) \/ Remove(p, x)
    \/ SendState(p)
    \/ SendDelta(p)
    \/ CheckUpdate(p)

Spec == Init /\ [][Next]_vars

-----------------------------------------------------------------------------
(***************************************************************************)
(* Properties                                                              *)
(***************************************************************************)

\* What a replica has of its own to tell has been sent.
AllSent(p) ==
  IF DeltaBased THEN delta[p] = EmptyMap
                ELSE \E c \in known[p] : nodes[c].peer = p /\ nodes[c].state = value[p]

\* CLSet: what is left of convergence.  Replicas that incorporated the same
\* nodes and have nothing left to send have entries for the same elements: Merge
\* does not look at the states of nodes that came as dependencies only, or whose
\* messages were lost, but whoever sends a state has merged its past into it.
\* The lengths may differ, and so may what Lookup shows: an entry that comes by
\* merging has length 0 (see StrongConvergence).  For CLSetDelta, whose payloads
\* leave out what was sent before, not even the entries agree.
EntriesConverge ==
  \A p, q \in Peer :
    ~DeltaBased /\ known[p] = known[q] /\ AllSent(p) /\ AllSent(q)
      => DOMAIN value[p] = DOMAIN value[q]

\* CLSet: an author never goes back.  No state it sends lacks an entry of an
\* earlier state of its own or has a smaller length there, whatever it removed
\* and merged in between.  States of different authors are not compared: one may
\* have length 0 where its author knew of 3.
OwnStatesGrow ==
  ~DeltaBased => \A c, d \in 1..Len(nodes) :
    c < d /\ nodes[c].peer = nodes[d].peer =>
      \A x \in DOMAIN nodes[c].state :
        x \in DOMAIN nodes[d].state /\ nodes[c].state[x] <= nodes[d].state[x]

\* CLSetDelta: nothing is left out of the deltas.  Every entry of the value waits
\* in the delta, or has been sent and nothing later was sent of it.
DeltaComplete ==
  DeltaBased => \A p \in Peer : \A x \in DOMAIN value[p] :
    LET Sent == {c \in known[p] : nodes[c].peer = p /\ x \in DOMAIN nodes[c].state}
    IN  \/ x \in DOMAIN delta[p] /\ delta[p][x] = value[p][x]
        \/ /\ x \notin DOMAIN delta[p]
           /\ \E c \in Sent : /\ nodes[c].state[x] = value[p][x]
                              /\ \A d \in Sent : d <= c

\* README.md:8 asks "that each update is transcripted as CRDT's Payload
\* respecting the SEC property": replicas that incorporated the same nodes and
\* have nothing left to send have the same value.
StrongConvergence ==
  \A p, q \in Peer :
    known[p] = known[q] /\ AllSent(p) /\ AllSent(q) => Lookup(p) = Lookup(q)
=============================================================================
