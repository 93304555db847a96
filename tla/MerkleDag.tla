----------------------------- MODULE MerkleDag -----------------------------
(***************************************************************************)
(* The Merkle-DAG replication layer (CRDTDag/CRDTDag.go) driven by an      *)
(* operation-based CRDT (example/2PSet/2PSet.go).                          *)
(*                                                                         *)
(* Each replica keeps the DAG nodes it has incorporated (nodesId and       *)
(* nodesInterface, here "nodes") and the current roots (Root_nodes).  A    *)
(* local update becomes a node whose direct dependencies are the roots; it *)
(* is stored in IPFS and its CID is published.  A received CID is written  *)
(* to a file in the folder remote/; the main loop collects the files       *)
(* (CheckUpdate), takes the application's semaphore, and fetches and adds  *)
(* the nodes and, depth first, every dependency it lacks                   *)
(* (RemoteAddNodeSuper).  That recursion is one step per call here, with   *)
(* an explicit stack, because the fetches block and because the receiving  *)
(* goroutine and the other replicas run in between.                        *)
(*                                                                         *)
(* A CID is the rank in which its node was stored: contents never repeat   *)
(* (ContentUnique), so content addressing names each node once.            *)
(*                                                                         *)
(* A definition X_Why is a faulty variant of X.  No specification uses it: *)
(* it is put in the place of X to see which property notices.              *)
(***************************************************************************)
EXTENDS Naturals, Sequences, FiniteSets

CONSTANTS Peer,        \* the replicas
          Bootstrap,   \* the replica whose BootstrapPeer setting is empty
          Op,          \* the operations an update can carry
          InitialOp,   \* the operation read from the file initial_value
          BatchSize,   \* [p]: 0: CheckUpdate; n > 0: CheckUpdate_20Version, n for 20
          MaxNodes,    \* bound: nodes ever created
          MaxCrashes,  \* bound: replicas that leave for good
          MaxHung,     \* bound: replicas whose retrieval never returns
          Lossy        \* whether pubsub may lose a message

ASSUME BootstrapAssumption == Bootstrap \in Peer
ASSUME OpAssumption == InitialOp \in Op
ASSUME BoundAssumption == /\ MaxNodes \in Nat \ {0}
                          /\ MaxCrashes \in Nat /\ MaxHung \in Nat
                          /\ BatchSize \in [Peer -> Nat]
                          /\ Lossy \in BOOLEAN

VARIABLES
  ipfs,     \* ipfs[c]: content of the node with CID c; "past" is a history
            \* variable, what the author knew, that no action reads
  blocks,   \* blocks[p]: the CIDs whose block is in p's IPFS repository
  online,   \* the replicas that are running
  hung,     \* those with a block that missed its deadline in parallel mode:
            \* GetIPFS never resets err, and asks for everything again for ever
  nodes,    \* nodes[p]: nodesId and nodesInterface, as pairs <<cid, val>>:
            \* the identifier kept and the node whose content goes with it
  roots,    \* roots[p]: Root_nodes; its order matters to nobody, its
            \* repetitions do, so it counts occurrences
  network,  \* network[p]: published CIDs on their way to p
  remote,   \* remote[p]: CIDs in the files of p's folder remote/
  batch,    \* batch[p]: the CIDs CheckUpdate collected (to_add)
  stack     \* stack[p]: active calls of Merge (bottom) and RemoteAddNodeSuper

vars == <<ipfs, blocks, online, hung, nodes, roots, network, remote, batch, stack>>
dagVars == <<nodes, roots>>

Cid == 1..MaxNodes
Bag == [Cid -> Nat]
EmptyBag == [c \in Cid |-> 0]
AsBag(S) == [c \in Cid |-> IF c \in S THEN 1 ELSE 0]
Plus(b, c) == [b EXCEPT ![c] = @ + 1]
Support(b) == {c \in Cid : b[c] > 0}
Minus(b, d) == [c \in Cid |-> IF b[c] > d[c] THEN b[c] - d[c] ELSE 0]

Stored == 1..Len(ipfs)

Known(p) == {nodes[p][i].cid : i \in 1..Len(nodes[p])}
IsKnown(p, c) == c \in Known(p)

\* Some running replica can serve the block.
Available(c) == \E q \in online : c \in blocks[q]

\* A DAG node: its author, payload and direct dependencies.
Node == [peer : Peer, op : Op, deps : Bag, past : SUBSET Cid]

\* An identifier in nodesId with the node at the same place in nodesInterface.
Entry == [cid : Cid, val : Cid]

\* A call of Merge or RemoteAddNodeSuper: the node being added, the
\* identifiers still to recurse into, whether their blocks were fetched.
MergeCall == 0
Frame == [cid : 0..MaxNodes, val : 0..MaxNodes, todo : Bag, fetched : BOOLEAN]
Top(p) == stack[p][Len(stack[p])]

\* The application's semaphore: Merge holds it from its first call to its last.
SemaFree(p) == stack[p] = <<>>

TypeOK ==
  /\ ipfs \in Seq(Node)
  /\ Len(ipfs) \in Cid
  /\ blocks \in [Peer -> SUBSET Cid]
  /\ online \in SUBSET Peer /\ hung \in SUBSET Peer
  /\ nodes \in [Peer -> Seq(Entry)]
  /\ roots \in [Peer -> Bag]
  /\ network \in [Peer -> SUBSET Cid]
  /\ remote \in [Peer -> SUBSET Cid]
  /\ batch \in [Peer -> SUBSET Cid]
  /\ stack \in [Peer -> Seq(Frame)]

\* Create_CRDTSetOpBasedDag: the bootstrap replica stores the initial value
\* and adds it to its DAG, and does not publish it.
Init ==
  /\ ipfs = << [peer |-> Bootstrap, op |-> InitialOp, deps |-> EmptyBag, past |-> {}] >>
  /\ blocks = [p \in Peer |-> IF p = Bootstrap THEN {1} ELSE {}]
  /\ online = Peer /\ hung = {}
  /\ nodes = [p \in Peer |-> IF p = Bootstrap THEN << [cid |-> 1, val |-> 1] >> ELSE <<>>]
  /\ roots = [p \in Peer |-> IF p = Bootstrap THEN AsBag({1}) ELSE EmptyBag]
  /\ network = [p \in Peer |-> {}]
  /\ remote = [p \in Peer |-> {}]
  /\ batch = [p \in Peer |-> {}]
  /\ stack = [p \in Peer |-> <<>>]

-----------------------------------------------------------------------------
AddNode_ReplacesRoots(p, c, v, deps) ==
  /\ nodes' = [nodes EXCEPT ![p] = Append(@, [cid |-> c, val |-> v])]
  /\ roots' = [roots EXCEPT ![p] = AsBag({c})]

AddNode_KeepsDependencies(p, c, v, deps) ==
  /\ nodes' = [nodes EXCEPT ![p] = Append(@, [cid |-> c, val |-> v])]
  /\ roots' = [roots EXCEPT ![p][c] = @ + 1]

AddNode_ForgetsNewRoot(p, c, v, deps) ==
  /\ nodes' = [nodes EXCEPT ![p] = Append(@, [cid |-> c, val |-> v])]
  /\ roots' = [roots EXCEPT ![p] = Minus(@, deps)]

\* AddNode: remember the node; its direct dependencies stop being roots (one
\* occurrence per dependency listed); it becomes one.
AddNode(p, c, v, deps) ==
  /\ nodes' = [nodes EXCEPT ![p] = Append(@, [cid |-> c, val |-> v])]
  /\ roots' = [roots EXCEPT ![p] = Plus(Minus(@, deps), c)]

\* SendRemoteUpdates: publish every root to the other replicas.
SendRemoteUpdates(p) ==
  network' = [q \in Peer |-> IF q = p THEN network[q]
                                      ELSE network[q] \cup Support(roots'[p])]

\* Add and Remove of the set, run by the writing goroutine while it holds the
\* semaphore: a node on top of the current roots, stored, added, published.
Update(p, op) ==
  LET c == Len(ipfs) + 1
  IN  /\ p \in online
      /\ SemaFree(p)
      /\ Len(ipfs) < MaxNodes
      /\ ipfs' = Append(ipfs, [peer |-> p, op |-> op, deps |-> roots[p], past |-> Known(p)])
      /\ blocks' = [blocks EXCEPT ![p] = @ \cup {c}]
      /\ AddNode(p, c, c, roots[p])
      /\ SendRemoteUpdates(p)
      /\ UNCHANGED <<online, hung, remote, batch, stack>>

\* CheckForRemoteUpdates: a CID published by another replica is written to a
\* file.  Messages come in any order.
Receive(p, c) ==
  /\ p \in online
  /\ c \in network[p]
  /\ network' = [network EXCEPT ![p] = @ \ {c}]
  /\ remote' = [remote EXCEPT ![p] = @ \cup {c}]
  /\ UNCHANGED <<ipfs, blocks, online, hung, dagVars, batch, stack>>

\* Pubsub is best effort.
Lose(p, c) ==
  /\ Lossy
  /\ c \in network[p]
  /\ network' = [network EXCEPT ![p] = @ \ {c}]
  /\ UNCHANGED <<ipfs, blocks, online, hung, dagVars, remote, batch, stack>>

Unknown(p, S) == {c \in S : ~IsKnown(p, c)}

CheckUpdate_NoFilter(p) ==
  /\ BatchSize[p] = 0
  /\ p \in online
  /\ SemaFree(p) /\ batch[p] = {}
  /\ remote[p] # {}
  /\ batch' = [batch EXCEPT ![p] = remote[p]]
  /\ remote' = [remote EXCEPT ![p] = {}]
  /\ UNCHANGED <<ipfs, blocks, online, hung, dagVars, network, stack>>

CheckUpdate_KeepsOne(p) ==
  /\ BatchSize[p] = 0
  /\ p \in online
  /\ SemaFree(p) /\ batch[p] = {}
  /\ remote[p] # {}
  /\ \E c \in remote[p] : batch' = [batch EXCEPT ![p] = Unknown(p, {c})]
  /\ remote' = [remote EXCEPT ![p] = {}]
  /\ UNCHANGED <<ipfs, blocks, online, hung, dagVars, network, stack>>

\* CheckUpdate up to the semaphore: every file is read and removed; the CIDs
\* not known yet are kept.
CheckUpdate(p) ==
  /\ BatchSize[p] = 0
  /\ p \in online
  /\ SemaFree(p) /\ batch[p] = {}
  /\ remote[p] # {}
  /\ batch' = [batch EXCEPT ![p] = Unknown(p, remote[p])]
  /\ remote' = [remote EXCEPT ![p] = {}]
  /\ UNCHANGED <<ipfs, blocks, online, hung, dagVars, network, stack>>

CheckUpdate_20Version_OneMore(p) ==
  /\ BatchSize[p] > 0
  /\ p \in online
  /\ SemaFree(p) /\ batch[p] = {}
  /\ \E read \in SUBSET remote[p] :
       /\ Cardinality(Unknown(p, read)) = BatchSize[p] + 1
       /\ batch' = [batch EXCEPT ![p] = Unknown(p, read)]
       /\ remote' = [remote EXCEPT ![p] = @ \ read]
  /\ UNCHANGED <<ipfs, blocks, online, hung, dagVars, network, stack>>

\* CheckUpdate_20Version up to the semaphore: nothing unless BatchSize[p] unknown
\* CIDs are waiting; then files are read and removed in the folder's order
\* until BatchSize[p] unknown ones were read.
CheckUpdate_20Version(p) ==
  /\ BatchSize[p] > 0
  /\ p \in online
  /\ SemaFree(p) /\ batch[p] = {}
  /\ \E read \in SUBSET remote[p] :
       /\ Cardinality(Unknown(p, read)) = BatchSize[p]
       /\ batch' = [batch EXCEPT ![p] = Unknown(p, read)]
       /\ remote' = [remote EXCEPT ![p] = @ \ read]
  /\ UNCHANGED <<ipfs, blocks, online, hung, dagVars, network, stack>>

-----------------------------------------------------------------------------
\* The main loop takes the semaphore and calls Merge, which filters the CIDs
\* once more.
Merge(p) ==
  /\ p \in online
  /\ SemaFree(p) /\ batch[p] # {}
  /\ stack' = [stack EXCEPT ![p] =
                << [cid |-> MergeCall, val |-> MergeCall,
                    todo |-> AsBag(Unknown(p, batch[p])), fetched |-> FALSE] >>]
  /\ UNCHANGED <<ipfs, blocks, online, hung, dagVars, network, remote, batch>>

Fetched(s) == [s EXCEPT ![Len(s)] = [s[Len(s)] EXCEPT !.fetched = TRUE]]

GetNode_NotKept(p, c) ==
  /\ p \in online
  /\ ~SemaFree(p) /\ ~Top(p).fetched
  /\ c \in Support(Top(p).todo) \ blocks[p]
  /\ Available(c)
  /\ UNCHANGED vars

\* GetIPFS for one identifier of the running call: its block is fetched from
\* whoever has it, and stored here.
GetNode(p, c) ==
  /\ p \in online
  /\ ~SemaFree(p) /\ ~Top(p).fetched
  /\ c \in Support(Top(p).todo) \ blocks[p]
  /\ Available(c)
  /\ blocks' = [blocks EXCEPT ![p] = @ \cup {c}]
  /\ UNCHANGED <<ipfs, online, hung, dagVars, network, remote, batch, stack>>

\* A block is not found before its deadline, whoever serves it: in parallel
\* mode the running call will not return any more, and keeps the semaphore.
\* In sequential mode the program panics, which is a Crash.
MissDeadline(p) ==
  /\ p \in online \ hung
  /\ ~SemaFree(p) /\ ~Top(p).fetched
  /\ ~(Support(Top(p).todo) \subseteq blocks[p])
  /\ Cardinality(hung) < MaxHung
  /\ hung' = hung \cup {p}
  /\ UNCHANGED <<ipfs, blocks, online, dagVars, network, remote, batch, stack>>

GetNodes_NotFetched(p) ==
  /\ p \in online \ hung
  /\ ~SemaFree(p) /\ ~Top(p).fetched
  /\ \A c \in Support(Top(p).todo) : Available(c)
  /\ stack' = [stack EXCEPT ![p] = Fetched(@)]
  /\ UNCHANGED <<ipfs, blocks, online, hung, dagVars, network, remote, batch>>

\* GetNodeFromEncodedCid returns when all the identifiers of the running call
\* were fetched, each on its own: who served one need not stay for the next.
\* It does not after a missed deadline.
GetNodes(p) ==
  /\ p \in online \ hung
  /\ ~SemaFree(p) /\ ~Top(p).fetched
  /\ Support(Top(p).todo) \subseteq blocks[p]
  /\ stack' = [stack EXCEPT ![p] = Fetched(@)]
  /\ UNCHANGED <<ipfs, blocks, online, hung, dagVars, network, remote, batch>>

TakeNext(f, v) == [f EXCEPT !.todo = Minus(@, AsBag({v}))]

Call_ListsKnown(p, c, v) ==
  [cid |-> c, val |-> v, fetched |-> FALSE, todo |-> ipfs[v].deps]

\* A call lists the dependencies unknown at that moment.
Call(p, c, v) ==
  [cid |-> c, val |-> v, fetched |-> FALSE,
   todo |-> [d \in Cid |-> IF IsKnown(p, d) THEN 0 ELSE ipfs[v].deps[d]]]

\* The next fetched node is passed to RemoteAddNodeSuper.  Merge takes the
\* identifier from the unfiltered list (cids[index]) and the content from the
\* filtered one: they agree as long as nothing was filtered out.
RemoteAddNodeSuper(p) ==
  LET top == Top(p)
      inMerge == top.cid = MergeCall
  IN  /\ p \in online
      /\ ~SemaFree(p) /\ top.fetched
      /\ \E v \in Support(top.todo) :
         \E c \in (IF inMerge /\ Support(top.todo) # batch[p] THEN batch[p] ELSE {v}) :
           /\ stack' = [stack EXCEPT ![p] =
                Append([stack[p] EXCEPT ![Len(stack[p])] = TakeNext(top, v)], Call(p, c, v))]
           /\ batch' = [batch EXCEPT ![p] = IF inMerge THEN @ \ {c} ELSE @]
      /\ UNCHANGED <<ipfs, blocks, online, hung, dagVars, network, remote>>

AddRemoteNode_BeforeDependencies(p) ==
  LET top == Top(p)
  IN  /\ p \in online
      /\ ~SemaFree(p) /\ top.fetched /\ top.cid # MergeCall
      /\ AddNode(p, top.cid, top.val, ipfs[top.val].deps)
      /\ stack' = [stack EXCEPT ![p] = SubSeq(@, 1, Len(@) - 1)]
      /\ UNCHANGED <<ipfs, blocks, online, hung, network, remote, batch>>

\* The end of RemoteAddNodeSuper: the dependencies are in, the node is added
\* without looking again whether it is known.
AddRemoteNode(p) ==
  LET top == Top(p)
  IN  /\ p \in online
      /\ ~SemaFree(p) /\ top.fetched /\ top.cid # MergeCall
      /\ top.todo = EmptyBag
      /\ AddNode(p, top.cid, top.val, ipfs[top.val].deps)
      /\ stack' = [stack EXCEPT ![p] = SubSeq(@, 1, Len(@) - 1)]
      /\ UNCHANGED <<ipfs, blocks, online, hung, network, remote, batch>>

\* Merge returns and CheckUpdate gives the semaphore back.
EndMerge(p) ==
  LET top == Top(p)
  IN  /\ p \in online
      /\ ~SemaFree(p) /\ top.fetched /\ top.cid = MergeCall
      /\ top.todo = EmptyBag
      /\ stack' = [stack EXCEPT ![p] = <<>>]
      /\ batch' = [batch EXCEPT ![p] = {}]
      /\ UNCHANGED <<ipfs, blocks, online, hung, dagVars, network, remote>>

\* A replica stops for good: its DAG is in memory and its IPFS repository is
\* a temporary directory, so nothing of it comes back.  It may stop because a
\* retrieval panics.
Crash(p) ==
  /\ p \in online
  /\ Cardinality(Peer \ online) < MaxCrashes
  /\ online' = online \ {p}
  /\ UNCHANGED <<ipfs, blocks, hung, dagVars, network, remote, batch, stack>>

-----------------------------------------------------------------------------
\* One iteration, or part of one, of the loop that calls CheckUpdate.
MainLoop(p) ==
  \/ CheckUpdate(p)
  \/ CheckUpdate_20Version(p)
  \/ Merge(p)
  \/ \E c \in Cid : GetNode(p, c)
  \/ GetNodes(p)
  \/ RemoteAddNodeSuper(p)
  \/ AddRemoteNode(p)
  \/ EndMerge(p)

Next ==
  \E p \in Peer :
    \/ \E op \in Op : Update(p, op)
    \/ \E c \in Cid : Receive(p, c) \/ Lose(p, c)
    \/ MainLoop(p)
    \/ MissDeadline(p) \/ Crash(p)

Spec == Init /\ [][Next]_vars

\* The main loop polls for ever and the receiving goroutine blocks on nothing
\* but the subscription, so neither is delayed for ever.  A block that is
\* served is found unless its deadline passes first, which nothing excludes.
\* Users owe no update, pubsub no loss, replicas no crash, blocks no delay.
Fairness == \A p \in Peer : /\ WF_vars(MainLoop(p))
                            /\ \A c \in Cid : WF_vars(Receive(p, c))

FairSpec == Spec /\ Fairness

-----------------------------------------------------------------------------
(***************************************************************************)
(* Properties                                                              *)
(***************************************************************************)

\* A replica that has a node has everything its author knew when writing it,
\* whatever the order, loss or delay of the messages and at every step of the
\* recursion of RemoteAddNodeSuper.
CausalHistory ==
  \A p \in Peer : \A c \in Known(p) : ipfs[c].past \subseteq Known(p)

\* Root_nodes is enough to reach the whole DAG: a node is only dropped from it
\* when one that depends on it is added.  Otherwise an update built on the
\* roots would leave part of its author's history behind.
RootsReachAll ==
  \A p \in Peer : \A k \in Known(p) :
    \E r \in Support(roots[p]) : k = r \/ k \in ipfs[r].past

\* The test IsKnown is made before the semaphore is taken; when Merge starts
\* it still holds for every collected CID, although local updates came in
\* between.  Merge pairs cids[index] with the files of the filtered list and
\* add_cids indexes the files by the unfiltered one, so both rely on it.
BatchStillUnknown ==
  \A p \in Peer : SemaFree(p) => batch[p] \cap Known(p) = {}

\* Every identifier is kept with the content it was computed from.
IdentifierMatchesContent ==
  \A p \in Peer : \A i \in 1..Len(nodes[p]) : nodes[p][i].cid = nodes[p][i].val

\* Merge may add a node twice and make an ancestor of a root a root again, but
\* never lists a root twice: RemoveRoot_node, which removes one occurrence,
\* then removes the root.
RootsDistinct ==
  \A p \in Peer : \A c \in Cid : roots[p][c] <= 1

\* No two updates have the same author, operation and dependencies: otherwise
\* they would share a CID and the second would be taken for known.
ContentUnique ==
  \A c, d \in Stored :
    /\ ipfs[c].peer = ipfs[d].peer
    /\ ipfs[c].op = ipfs[d].op
    /\ ipfs[c].deps = ipfs[d].deps
    => c = d

\* SendRemoteUpdates publishes all roots, yet a CID is published once, by its
\* author, with its creation: an update leaves its own node as the only root.
PublishedOnce ==
  [][\A q \in Peer : \A c \in network'[q] \ network[q] : c = Len(ipfs) + 1]_vars

\* A replica that incorporated a node can serve its whole history, so fetching
\* a dependency never needs its author, nor anybody else, to stay.
HistoryServable ==
  \A c \in Stored : (\E p \in online : c \in Known(p))
                      => \A d \in ipfs[c].past \cup {c} : Available(d)

\* The layer implements causal broadcast.
CB == INSTANCE CausalBroadcast
        WITH past <- [c \in Stored |-> ipfs[c].past],
             known <- [p \in Peer |-> Known(p)]
CausalBroadcastSpec == CB!Spec

\* Only replicas that stopped had the block: who needs it waits for ever.
BlockLost == \E c \in Stored : ~Available(c)

\* What keeps a replica from merging: it stopped, by itself or in a panic, one
\* of its blocks missed a deadline, or a block is lost.
Stuck(p) == p \notin online \/ p \in hung \/ BlockLost

Incorporated(p, c) == c \in Known(p) /\ ipfs[c].past \subseteq Known(p)

\* CheckUpdate: an update that reached the folder is incorporated together with
\* its whole causal past, even if the messages for the past were lost, as long
\* as no block is lost or misses its deadline.  Other replicas that hang or
\* stop do no harm.
ReceivedIsMerged ==
  \A p \in {q \in Peer : BatchSize[q] = 0} : \A c \in Cid :
    c \in remote[p] ~> Incorporated(p, c) \/ Stuck(p)

\* CheckUpdate_20Version: as soon as enough new CIDs wait, a batch is taken, and
\* every CID taken is incorporated, with the same exceptions.
FullBatchIsMerged ==
  \A p \in {q \in Peer : BatchSize[q] > 0} :
    /\ Cardinality(Unknown(p, remote[p])) >= BatchSize[p]
         ~> Cardinality(Unknown(p, remote[p])) < BatchSize[p] \/ Stuck(p)
    /\ \A c \in Cid : c \in batch[p] ~> Incorporated(p, c) \/ Stuck(p)

\* Merge gives the semaphore back, so local updates are not shut out: only a
\* block that is lost or that missed its deadline keeps it for ever.
SemaphoreReleased ==
  \A p \in Peer : ~SemaFree(p) ~> SemaFree(p) \/ Stuck(p)

-----------------------------------------------------------------------------
(***************************************************************************)
(* The inductive invariant behind the safety properties.                   *)
(***************************************************************************)

\* The direct dependencies of a node stand for its author's whole knowledge.
DependenciesCoverPast ==
  \A c \in Stored :
    /\ ipfs[c].past \subseteq 1..(c - 1)
    /\ Support(ipfs[c].deps) \subseteq ipfs[c].past
    /\ \A d \in ipfs[c].past : ipfs[d].past \subseteq ipfs[c].past
    /\ \A k \in ipfs[c].past :
         \E r \in Support(ipfs[c].deps) : k = r \/ k \in ipfs[r].past

\* Only stored nodes are known, published, received or wanted.
OnlyStoredAt(p) ==
  /\ Known(p) \subseteq Stored
  /\ Support(roots[p]) \subseteq Known(p)
  /\ network[p] \cup remote[p] \cup batch[p] \cup blocks[p] \subseteq Stored
  /\ \A i \in 1..Len(stack[p]) : Support(stack[p][i].todo) \subseteq Stored

\* Merge is at the bottom of the stack with what is left of the batch; above
\* it are nodes, each with the dependencies it still waits for: those not
\* known are listed or are the node of the call above.
CallsAt(p) ==
  \A i \in 1..Len(stack[p]) :
    /\ stack[p][i].cid = stack[p][i].val
    /\ i = 1 => stack[p][i].cid = MergeCall /\ stack[p][i].todo = AsBag(batch[p])
    /\ i > 1 =>
         /\ stack[p][i].cid \in Stored
         /\ \A d \in Support(ipfs[stack[p][i].val].deps) :
              \/ d \in Known(p)
              \/ d \in Support(stack[p][i].todo)
              \/ i < Len(stack[p]) /\ d = stack[p][i + 1].cid

\* What was fetched is in the local repository, and so is what is known.
FetchedIsLocalAt(p) ==
  /\ Known(p) \subseteq blocks[p]
  /\ \A i \in 1..Len(stack[p]) :
       /\ stack[p][i].fetched => Support(stack[p][i].todo) \subseteq blocks[p]
       /\ i > 1 => stack[p][i].cid \in blocks[p]
       /\ i < Len(stack[p]) => stack[p][i].fetched

\* An author knows its own nodes, and knew the earlier ones when writing.
AuthorKnows ==
  \A p \in Peer : \A c \in Stored :
    ipfs[c].peer = p =>
      /\ c \in Known(p)
      /\ \A d \in 1..(c - 1) : ipfs[d].peer = p => d \in ipfs[c].past

\* Why the safety properties hold: what they need of the rest of the state.
Inductive ==
  /\ TypeOK
  /\ DependenciesCoverPast
  /\ \A p \in Peer : OnlyStoredAt(p) /\ CallsAt(p) /\ FetchedIsLocalAt(p)
  /\ AuthorKnows
  /\ CausalHistory
  /\ RootsReachAll
  /\ BatchStillUnknown
  /\ IdentifierMatchesContent
=============================================================================
