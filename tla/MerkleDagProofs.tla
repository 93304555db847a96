-------------------------- MODULE MerkleDagProofs --------------------------
(***************************************************************************)
(* Proofs about MerkleDag, for any set of replicas and operations and any  *)
(* value of the bounds, and about TwoPhaseSet, which is read out of it.    *)
(* What TwoPhaseSet assumes of the operations no proof uses.               *)
(***************************************************************************)
EXTENDS TwoPhaseSet, SequenceTheorems, TLAPS

-----------------------------------------------------------------------------
(* Facts about the operators.                                              *)

LEMMA MinusType == ASSUME NEW b \in Bag, NEW d \in Bag PROVE Minus(b, d) \in Bag
BY DEF Bag, Minus

LEMMA PlusType == ASSUME NEW b \in Bag, NEW c \in Cid PROVE Plus(b, c) \in Bag
BY DEF Bag, Plus

LEMMA AsBagFacts ==
  ASSUME NEW S \in SUBSET Cid
  PROVE  AsBag(S) \in Bag /\ Support(AsBag(S)) = S
BY DEF AsBag, Bag, Support

LEMMA AppendFacts ==
  ASSUME NEW S, NEW s \in Seq(S), NEW e \in S
  PROVE  /\ Append(s, e) \in Seq(S)
         /\ Len(s) \in Nat
         /\ Len(Append(s, e)) = Len(s) + 1
         /\ Append(s, e)[Len(s) + 1] = e
         /\ \A i \in 1..Len(s) : Append(s, e)[i] = s[i]
OBVIOUS

\* AddNode changes replica p only: c becomes known and a root, and a root is
\* lost only if it is among the dependencies.
LEMMA AddNodeFacts ==
  ASSUME nodes \in [Peer -> Seq(Entry)], roots \in [Peer -> Bag],
         NEW p \in Peer, NEW c \in Cid, NEW v \in Cid, NEW deps \in Bag,
         AddNode(p, c, v, deps)
  PROVE  /\ nodes' \in [Peer -> Seq(Entry)]
         /\ roots' \in [Peer -> Bag]
         /\ Known(p)' = Known(p) \cup {c}
         /\ Support(roots'[p]) \subseteq Support(roots[p]) \cup {c}
         /\ c \in Support(roots'[p])
         /\ \A r \in Support(roots[p]) : r \in Support(roots'[p]) \/ r \in Support(deps)
         /\ deps = roots[p] => Support(roots'[p]) = {c}
         /\ c = v /\ (\A i \in 1..Len(nodes[p]) : nodes[p][i].cid = nodes[p][i].val)
              => \A i \in 1..Len(nodes'[p]) : nodes'[p][i].cid = nodes'[p][i].val
         /\ \A q \in Peer \ {p} : nodes'[q] = nodes[q] /\ roots'[q] = roots[q]
                                   /\ Known(q)' = Known(q)
<1>1. nodes' = [nodes EXCEPT ![p] = Append(@, [cid |-> c, val |-> v])]
  BY DEF AddNode
<1> DEFINE e == [cid |-> c, val |-> v]
<1>2. nodes'[p] = Append(nodes[p], e) /\ e \in Entry /\ e.cid = c /\ e.val = v
  BY <1>1 DEF Entry
<1> HIDE DEF e
<1>3. /\ nodes[p] \in Seq(Entry)
      /\ Len(nodes'[p]) = Len(nodes[p]) + 1
      /\ nodes'[p][Len(nodes[p]) + 1] = e
      /\ \A i \in 1..Len(nodes[p]) : nodes'[p][i] = nodes[p][i]
      /\ Len(nodes[p]) \in Nat
  <2>1. nodes[p] \in Seq(Entry)
    OBVIOUS
  <2>2. QED BY <1>2, <2>1, AppendFacts
<1>4. Known(p)' = Known(p) \cup {c}
  <2>1. Known(p)' = {nodes'[p][i].cid : i \in 1..Len(nodes'[p])}
    BY DEF Known
  <2>2. Known(p) = {nodes[p][i].cid : i \in 1..Len(nodes[p])}
    BY DEF Known
  <2>3. 1..Len(nodes'[p]) = (1..Len(nodes[p])) \cup {Len(nodes[p]) + 1}
    BY <1>3
  <2>4. Known(p)' \subseteq Known(p) \cup {c}
    BY <2>1, <2>2, <2>3, <1>2, <1>3
  <2>5. Known(p) \subseteq Known(p)'
    BY <2>1, <2>2, <2>3, <1>3
  <2>6. c \in Known(p)'
    BY <2>1, <2>3, <1>2, <1>3
  <2>7. QED BY <2>4, <2>5, <2>6
<1>5. roots'[p] = Plus(Minus(roots[p], deps), c) /\ roots[p] \in Bag
  BY DEF AddNode
<1>6. roots'[p] \in Bag
  BY <1>5, MinusType, PlusType
<1>7. /\ Support(roots'[p]) \subseteq Support(roots[p]) \cup {c}
      /\ c \in Support(roots'[p])
      /\ \A r \in Support(roots[p]) : r \in Support(roots'[p]) \/ r \in Support(deps)
  BY <1>5 DEF Support, Minus, Plus, Bag
<1>8. deps = roots[p] => Support(roots'[p]) = {c}
  BY <1>5 DEF Support, Minus, Plus, Bag
<1>9. ASSUME NEW q \in Peer \ {p}
      PROVE  nodes'[q] = nodes[q] /\ roots'[q] = roots[q] /\ Known(q)' = Known(q)
  BY <1>1 DEF AddNode, Known
<1>10. nodes' \in [Peer -> Seq(Entry)]
  <2>1. nodes'[p] \in Seq(Entry)
    BY <1>2, AppendFacts
  <2>2. QED BY <1>1, <2>1
<1>11. roots' \in [Peer -> Bag]
  BY <1>6 DEF AddNode
<1>12. ASSUME c = v, \A i \in 1..Len(nodes[p]) : nodes[p][i].cid = nodes[p][i].val
       PROVE  \A i \in 1..Len(nodes'[p]) : nodes'[p][i].cid = nodes'[p][i].val
  BY <1>12, <1>2, <1>3
<1>13. QED BY <1>4, <1>7, <1>8, <1>9, <1>10, <1>11, <1>12

-----------------------------------------------------------------------------
(* Facts about the stack of calls.                                         *)

LEMMA TopFacts ==
  ASSUME TypeOK, NEW p \in Peer, ~SemaFree(p)
  PROVE  /\ stack[p] \in Seq(Frame)
         /\ Len(stack[p]) \in Nat \ {0}
         /\ Len(stack[p]) \in 1..Len(stack[p])
         /\ Top(p) \in Frame
         /\ Top(p) = stack[p][Len(stack[p])]
<1>1. stack[p] \in Seq(Frame) /\ stack[p] # <<>>
  BY DEF TypeOK, SemaFree
<1>2. QED BY <1>1 DEF Top

LEMMA ReplaceTopFacts ==
  ASSUME NEW s \in Seq(Frame), Len(s) > 0, NEW f \in Frame, NEW t,
         t = [s EXCEPT ![Len(s)] = f]
  PROVE  /\ t \in Seq(Frame)
         /\ Len(t) = Len(s)
         /\ t[Len(s)] = f
         /\ \A i \in 1..Len(s) : i # Len(s) => t[i] = s[i]
OBVIOUS

LEMMA PushFacts ==
  ASSUME NEW s \in Seq(Frame), Len(s) > 0, NEW f \in Frame, NEW g \in Frame, NEW t,
         t = Append([s EXCEPT ![Len(s)] = f], g)
  PROVE  /\ t \in Seq(Frame)
         /\ Len(t) = Len(s) + 1
         /\ t[Len(s)] = f
         /\ t[Len(s) + 1] = g
         /\ \A i \in 1..Len(s) : i # Len(s) => t[i] = s[i]
<1> DEFINE u == [s EXCEPT ![Len(s)] = f]
<1>1. /\ u \in Seq(Frame) /\ Len(u) = Len(s) /\ u[Len(s)] = f
      /\ \A i \in 1..Len(s) : i # Len(s) => u[i] = s[i]
  BY ReplaceTopFacts
<1> HIDE DEF u
<1>2. t = Append(u, g)
  BY DEF u
<1>3. QED BY <1>1, <1>2, AppendFacts

LEMMA PopFacts ==
  ASSUME NEW s \in Seq(Frame), Len(s) > 0, NEW t, t = SubSeq(s, 1, Len(s) - 1)
  PROVE  /\ t \in Seq(Frame)
         /\ Len(t) = Len(s) - 1
         /\ \A i \in 1..Len(t) : t[i] = s[i]
<1> DEFINE n == Len(s) - 1
<1>1. n \in Nat /\ \A i \in 1..n : s[i] \in Frame
  OBVIOUS
<1>2. t = SubSeq(s, 1, n)
  OBVIOUS
<1> HIDE DEF n
<1>3. t \in Seq(Frame)
  BY <1>1, <1>2, SubSeqProperties
<1>4. Len(t) = n
  BY <1>1, <1>2, SubSeqProperties
<1>5. \A i \in 1..n : t[i] = s[i]
  BY <1>1, <1>2, SubSeqProperties
<1>6. QED BY <1>3, <1>4, <1>5 DEF n

-----------------------------------------------------------------------------
(* The invariant holds initially.                                          *)

LEMMA InitInductive == Init => Inductive
<1> SUFFICES ASSUME Init PROVE Inductive
  OBVIOUS
<1> USE BootstrapAssumption, OpAssumption, BoundAssumption
<1> DEFINE root == [peer |-> Bootstrap, op |-> InitialOp, deps |-> EmptyBag, past |-> {}]
<1>1. 1 \in Cid /\ EmptyBag \in Bag /\ AsBag({1}) \in Bag /\ Support(AsBag({1})) = {1}
      /\ Support(EmptyBag) = {}
  BY DEF Cid, Bag, EmptyBag, AsBag, Support
<1>2. ipfs = <<root>> /\ Len(ipfs) = 1 /\ ipfs[1] = root /\ Stored = {1}
  BY DEF Init, Stored
<1>3. \A p \in Peer : /\ Known(p) = (IF p = Bootstrap THEN {1} ELSE {})
                       /\ Support(roots[p]) = (IF p = Bootstrap THEN {1} ELSE {})
                       /\ stack[p] = <<>> /\ Len(stack[p]) = 0
                       /\ nodes[p] \in Seq(Entry)
                       /\ \A i \in 1..Len(nodes[p]) : nodes[p][i].cid = nodes[p][i].val
  <2> SUFFICES ASSUME NEW p \in Peer
               PROVE  /\ Known(p) = (IF p = Bootstrap THEN {1} ELSE {})
                      /\ Support(roots[p]) = (IF p = Bootstrap THEN {1} ELSE {})
                      /\ stack[p] = <<>> /\ Len(stack[p]) = 0
                      /\ nodes[p] \in Seq(Entry)
                      /\ \A i \in 1..Len(nodes[p]) : nodes[p][i].cid = nodes[p][i].val
    OBVIOUS
  <2> DEFINE e == [cid |-> 1, val |-> 1]
  <2>1. e \in Entry /\ e.cid = 1 /\ e.val = 1
    BY <1>1 DEF Entry
  <2> HIDE DEF e
  <2>2. nodes[p] = (IF p = Bootstrap THEN <<e>> ELSE <<>>)
    BY DEF Init, e
  <2>3. nodes[p] \in Seq(Entry) /\ Known(p) = (IF p = Bootstrap THEN {1} ELSE {})
    <3>1. CASE p = Bootstrap
      <4>1. nodes[p] = <<e>> /\ Len(nodes[p]) = 1 /\ nodes[p][1] = e /\ nodes[p] \in Seq(Entry)
        BY <3>1, <2>1, <2>2
      <4>2. Known(p) = {e.cid}
        BY <4>1 DEF Known
      <4>3. QED BY <4>1, <4>2, <2>1, <3>1
    <3>2. CASE p # Bootstrap
      BY <3>2, <2>2 DEF Known
    <3>3. QED BY <3>1, <3>2
  <2>4. \A i \in 1..Len(nodes[p]) : nodes[p][i].cid = nodes[p][i].val
    BY <2>1, <2>2
  <2>5. QED BY <2>3, <2>4, <1>1 DEF Init
<1>4. root \in Node
      /\ root.peer = Bootstrap /\ root.past = {} /\ root.deps = EmptyBag
  BY <1>1 DEF Node
<1> HIDE DEF root
<1>5. TypeOK
  <2>1. ipfs \in Seq(Node) /\ Len(ipfs) \in Cid
    BY <1>1, <1>2, <1>4
  <2>2. blocks \in [Peer -> SUBSET Cid] /\ online \in SUBSET Peer /\ hung \in SUBSET Peer
    BY <1>1 DEF Init
  <2>3. nodes \in [Peer -> Seq(Entry)]
    BY <1>3 DEF Init
  <2>4. roots \in [Peer -> Bag]
    BY <1>1 DEF Init
  <2>5. /\ network \in [Peer -> SUBSET Cid] /\ remote \in [Peer -> SUBSET Cid]
        /\ batch \in [Peer -> SUBSET Cid] /\ stack \in [Peer -> Seq(Frame)]
    BY DEF Init
  <2>6. QED BY <2>1, <2>2, <2>3, <2>4, <2>5 DEF TypeOK
<1>6. DependenciesCoverPast
  BY <1>1, <1>2, <1>4 DEF DependenciesCoverPast
<1>7. ASSUME NEW p \in Peer PROVE OnlyStoredAt(p) /\ FetchedIsLocalAt(p)
  BY <1>1, <1>2, <1>3 DEF OnlyStoredAt, FetchedIsLocalAt, Init
<1>8. ASSUME NEW p \in Peer PROVE CallsAt(p)
  BY <1>3 DEF CallsAt
<1>9. AuthorKnows
  BY <1>2, <1>3, <1>4 DEF AuthorKnows
<1>10. CausalHistory /\ RootsReachAll
  BY <1>2, <1>3, <1>4 DEF CausalHistory, RootsReachAll
<1>11. BatchStillUnknown /\ IdentifierMatchesContent
  BY <1>3 DEF BatchStillUnknown, IdentifierMatchesContent, Init
<1>12. QED BY <1>5, <1>6, <1>7, <1>8, <1>9, <1>10, <1>11 DEF Inductive

-----------------------------------------------------------------------------
(* Steps that leave every DAG alone.                                       *)

LEMMA UnchangedDag ==
  ASSUME Inductive, UNCHANGED <<ipfs, dagVars>>
  PROVE  /\ Stored' = Stored
         /\ \A p \in Peer : Known(p)' = Known(p)
         /\ DependenciesCoverPast' /\ AuthorKnows' /\ CausalHistory'
         /\ RootsReachAll' /\ IdentifierMatchesContent'
<1>1. ipfs' = ipfs /\ nodes' = nodes /\ roots' = roots
  BY DEF dagVars
<1>2. Stored' = Stored /\ \A p \in Peer : Known(p)' = Known(p)
  BY <1>1 DEF Stored, Known
<1>3. DependenciesCoverPast'
  BY <1>1, <1>2 DEF Inductive, DependenciesCoverPast
<1>4. AuthorKnows'
  BY <1>1, <1>2 DEF Inductive, AuthorKnows
<1>5. CausalHistory' /\ RootsReachAll'
  BY <1>1, <1>2 DEF Inductive, CausalHistory, RootsReachAll
<1>6. IdentifierMatchesContent'
  BY <1>1 DEF Inductive, IdentifierMatchesContent
<1>7. QED BY <1>2, <1>3, <1>4, <1>5, <1>6

LEMMA StoredFacts ==
  ASSUME TypeOK
  PROVE  /\ Len(ipfs) \in Nat
         /\ Stored \subseteq Cid
         /\ \A c \in Stored : ipfs[c].deps \in Bag /\ ipfs[c].past \in SUBSET Cid
                             /\ ipfs[c].peer \in Peer
<1>1. Len(ipfs) \in Nat /\ Stored \subseteq Cid
  BY BoundAssumption DEF TypeOK, Stored, Cid
<1>2. ASSUME NEW c \in Stored PROVE ipfs[c] \in Node
  BY <1>1 DEF TypeOK, Stored
<1>3. QED BY <1>1, <1>2 DEF Node

\* A step that changes at most the calls, the batch and the repository of one
\* replica p, and messages, files and the set of running replicas.
LEMMA LocalStep ==
  ASSUME Inductive, UNCHANGED <<ipfs, dagVars>>, NEW p \in Peer,
         online' \in SUBSET Peer, hung' \in SUBSET Peer,
         network' \in [Peer -> SUBSET Stored],
         remote' \in [Peer -> SUBSET Stored],
         batch' \in [Peer -> SUBSET Stored],
         blocks' \in [Peer -> SUBSET Stored],
         stack' \in [Peer -> Seq(Frame)],
         \A q \in Peer \ {p} : batch'[q] = batch[q] /\ blocks'[q] = blocks[q]
                                                  /\ stack'[q] = stack[q],
         \A i \in 1..Len(stack'[p]) : Support(stack'[p][i].todo) \subseteq Stored,
         CallsAt(p)', FetchedIsLocalAt(p)',
         stack'[p] = <<>> => batch'[p] \cap Known(p) = {}
  PROVE  Inductive'
<1>1. /\ Stored' = Stored
      /\ \A q \in Peer : Known(q)' = Known(q)
      /\ DependenciesCoverPast' /\ AuthorKnows' /\ CausalHistory'
      /\ RootsReachAll' /\ IdentifierMatchesContent'
  BY UnchangedDag
<1>2. ipfs' = ipfs /\ nodes' = nodes /\ roots' = roots
  BY DEF dagVars
<1>3. TypeOK'
  BY <1>2, StoredFacts DEF Inductive, TypeOK
<1>4. ASSUME NEW q \in Peer PROVE (OnlyStoredAt(q) /\ CallsAt(q) /\ FetchedIsLocalAt(q))'
  <2>1. OnlyStoredAt(q)'
    <3>1. /\ Known(q)' \subseteq Stored' /\ Support(roots[q])' \subseteq Known(q)'
          /\ (network[q] \cup remote[q] \cup batch[q] \cup blocks[q])' \subseteq Stored'
      BY <1>1, <1>2 DEF Inductive, OnlyStoredAt
    <3>2. \A i \in 1..Len(stack'[q]) : Support(stack'[q][i].todo) \subseteq Stored'
      BY <1>1 DEF Inductive, OnlyStoredAt
    <3>3. QED BY <3>1, <3>2 DEF OnlyStoredAt
  <2>2. CASE q = p
    BY <2>1, <2>2
  <2>3. CASE q # p
    <3>1. CallsAt(q)'
      <4>1. CallsAt(q) /\ batch'[q] = batch[q] /\ stack'[q] = stack[q]
        BY <2>3 DEF Inductive
      <4>2. QED BY <1>1, <1>2, <4>1 DEF CallsAt
    <3>2. FetchedIsLocalAt(q)'
      BY <1>1, <1>2, <2>3 DEF Inductive, FetchedIsLocalAt
    <3>3. QED BY <2>1, <3>1, <3>2
  <2>4. QED BY <2>2, <2>3
<1>5. BatchStillUnknown'
  BY <1>1 DEF Inductive, BatchStillUnknown, SemaFree
<1>6. QED BY <1>1, <1>3, <1>4, <1>5 DEF Inductive

LEMMA InductiveFacts ==
  ASSUME Inductive
  PROVE  /\ online \in SUBSET Peer /\ hung \in SUBSET Peer
         /\ network \in [Peer -> SUBSET Stored] /\ remote \in [Peer -> SUBSET Stored]
         /\ batch \in [Peer -> SUBSET Stored] /\ blocks \in [Peer -> SUBSET Stored]
         /\ stack \in [Peer -> Seq(Frame)]
         /\ \A p \in Peer : OnlyStoredAt(p) /\ CallsAt(p) /\ FetchedIsLocalAt(p)
         /\ \A p \in Peer : stack[p] = <<>> => batch[p] \cap Known(p) = {}
BY DEF Inductive, TypeOK, OnlyStoredAt, BatchStillUnknown, SemaFree

\* Messages, files and the running replicas change, and the batch where no
\* call is in progress.
LEMMA QuietStep ==
  ASSUME Inductive, UNCHANGED <<ipfs, blocks, dagVars, stack>>, NEW p \in Peer,
         online' \in SUBSET Peer, hung' \in SUBSET Peer,
         network' \in [Peer -> SUBSET Stored],
         remote' \in [Peer -> SUBSET Stored],
         batch' \in [Peer -> SUBSET Stored],
         \A q \in Peer \ {p} : batch'[q] = batch[q],
         batch'[p] = batch[p] \/ (SemaFree(p) /\ batch'[p] \cap Known(p) = {})
  PROVE  Inductive'
<1>1. blocks' = blocks /\ stack' = stack /\ ipfs' = ipfs /\ nodes' = nodes
  BY DEF dagVars
<1>2. Stored' = Stored /\ Known(p)' = Known(p)
  BY <1>1 DEF Stored, Known
<1>3. \A i \in 1..Len(stack'[p]) : Support(stack'[p][i].todo) \subseteq Stored
  BY <1>1, InductiveFacts DEF OnlyStoredAt
<1>4. FetchedIsLocalAt(p)'
  BY <1>1, <1>2, InductiveFacts DEF FetchedIsLocalAt
<1>5. CallsAt(p)'
  <2>1. CASE batch'[p] = batch[p]
    BY <1>1, <1>2, <2>1, InductiveFacts DEF CallsAt
  <2>2. CASE SemaFree(p)
    BY <1>1, <2>2 DEF CallsAt, SemaFree
  <2>3. QED BY <2>1, <2>2
<1>6. stack'[p] = <<>> => batch'[p] \cap Known(p) = {}
  BY <1>1, InductiveFacts
<1>7. QED BY <1>1, <1>3, <1>4, <1>5, <1>6, InductiveFacts, LocalStep

LEMMA MessageStep ==
  ASSUME Inductive, NEW p \in Peer, NEW c \in Cid, Receive(p, c) \/ Lose(p, c)
  PROVE  Inductive'
<1>1. /\ network \in [Peer -> SUBSET Stored] /\ remote \in [Peer -> SUBSET Stored]
      /\ batch \in [Peer -> SUBSET Stored] /\ online \in SUBSET Peer /\ hung \in SUBSET Peer
  BY InductiveFacts
<1>2. /\ network' \in [Peer -> SUBSET Stored] /\ remote' \in [Peer -> SUBSET Stored]
      /\ UNCHANGED <<ipfs, blocks, online, hung, dagVars, batch, stack>>
  BY <1>1 DEF Receive, Lose
<1>3. QED BY <1>1, <1>2, QuietStep

LEMMA FailureStep ==
  ASSUME Inductive, NEW p \in Peer, MissDeadline(p) \/ Crash(p) PROVE Inductive'
<1>1. /\ network \in [Peer -> SUBSET Stored] /\ remote \in [Peer -> SUBSET Stored]
      /\ batch \in [Peer -> SUBSET Stored] /\ online \in SUBSET Peer /\ hung \in SUBSET Peer
  BY InductiveFacts
<1>2. /\ online' \in SUBSET Peer /\ hung' \in SUBSET Peer
      /\ UNCHANGED <<ipfs, blocks, dagVars, network, remote, batch, stack>>
  BY <1>1 DEF MissDeadline, Crash
<1>3. QED BY <1>1, <1>2, QuietStep

LEMMA CheckUpdateStep ==
  ASSUME Inductive, NEW p \in Peer, CheckUpdate(p) \/ CheckUpdate_20Version(p)
  PROVE  Inductive'
<1>1. /\ network \in [Peer -> SUBSET Stored] /\ remote \in [Peer -> SUBSET Stored]
      /\ batch \in [Peer -> SUBSET Stored] /\ online \in SUBSET Peer /\ hung \in SUBSET Peer
  BY InductiveFacts
<1>2. PICK read \in SUBSET remote[p] :
        /\ batch' = [batch EXCEPT ![p] = Unknown(p, read)]
        /\ remote' = [remote EXCEPT ![p] = @ \ read]
  BY <1>1 DEF CheckUpdate, CheckUpdate_20Version
<1>3. SemaFree(p) /\ UNCHANGED <<ipfs, blocks, online, hung, dagVars, network, stack>>
  BY DEF CheckUpdate, CheckUpdate_20Version
<1>4. Unknown(p, read) \subseteq Stored /\ Unknown(p, read) \cap Known(p) = {}
  BY <1>1 DEF Unknown, IsKnown
<1>5. /\ batch' \in [Peer -> SUBSET Stored] /\ remote' \in [Peer -> SUBSET Stored]
      /\ \A q \in Peer \ {p} : batch'[q] = batch[q]
      /\ batch'[p] \cap Known(p) = {}
  BY <1>1, <1>2, <1>3, <1>4
<1>6. QED BY <1>1, <1>3, <1>5, QuietStep

LEMMA MergeStep ==
  ASSUME Inductive, NEW p \in Peer, Merge(p) PROVE Inductive'
<1> DEFINE f == [cid |-> MergeCall, val |-> MergeCall,
                 todo |-> AsBag(Unknown(p, batch[p])), fetched |-> FALSE]
<1>1. UNCHANGED <<ipfs, blocks, online, hung, dagVars, network, remote, batch>> /\ stack[p] = <<>>
  BY DEF Merge, SemaFree
<1>2. Stored \subseteq Cid /\ batch[p] \in SUBSET Stored /\ TypeOK
  BY InductiveFacts, StoredFacts DEF Inductive
<1>3. Unknown(p, batch[p]) = batch[p]
  BY <1>1, InductiveFacts DEF Unknown, IsKnown
<1>4. f \in Frame /\ f.cid = MergeCall /\ f.val = MergeCall /\ ~f.fetched
      /\ f.todo = AsBag(batch[p]) /\ Support(f.todo) = batch[p]
  BY <1>2, <1>3, AsBagFacts, BoundAssumption DEF Frame, MergeCall
<1> HIDE DEF f
<1>5. stack' = [stack EXCEPT ![p] = <<f>>]
  BY DEF Merge, f
<1>6. stack'[p] = <<f>> /\ Len(stack'[p]) = 1 /\ stack'[p][1] = f /\ stack'[p] \in Seq(Frame)
  BY <1>4, <1>5, InductiveFacts
<1>7. stack' \in [Peer -> Seq(Frame)] /\ \A q \in Peer \ {p} : stack'[q] = stack[q]
  BY <1>5, <1>6, InductiveFacts
<1>8. \A i \in 1..Len(stack'[p]) : Support(stack'[p][i].todo) \subseteq Stored
  BY <1>2, <1>4, <1>6
<1>9. CallsAt(p)'
  BY <1>1, <1>4, <1>6 DEF CallsAt
<1>10. FetchedIsLocalAt(p)'
  <2>1. Known(p)' \subseteq blocks'[p]
    BY <1>1, InductiveFacts DEF FetchedIsLocalAt, Known, dagVars
  <2>2. QED BY <1>4, <1>6, <2>1 DEF FetchedIsLocalAt
<1>11. stack'[p] # <<>>
  BY <1>6
<1>12. QED BY <1>1, <1>7, <1>8, <1>9, <1>10, <1>11, InductiveFacts, LocalStep

LEMMA GetNodeStep ==
  ASSUME Inductive, NEW p \in Peer, NEW c \in Cid, GetNode(p, c) PROVE Inductive'
<1>1. /\ UNCHANGED <<ipfs, online, hung, dagVars, network, remote, batch, stack>>
      /\ blocks' = [blocks EXCEPT ![p] = @ \cup {c}]
      /\ c \in Support(Top(p).todo) /\ ~SemaFree(p) /\ TypeOK
  BY DEF GetNode, Inductive
<1>2. Len(stack[p]) \in 1..Len(stack[p]) /\ Top(p) = stack[p][Len(stack[p])]
  BY <1>1, TopFacts
<1>3. c \in Stored
  BY <1>1, <1>2, InductiveFacts DEF OnlyStoredAt
<1>4. /\ blocks' \in [Peer -> SUBSET Stored]
      /\ blocks[p] \subseteq blocks'[p]
      /\ \A q \in Peer \ {p} : blocks'[q] = blocks[q]
  BY <1>1, <1>3, InductiveFacts
<1>5. Known(p)' = Known(p) /\ stack' = stack /\ ipfs' = ipfs /\ batch' = batch
      /\ Stored' = Stored
  BY <1>1 DEF Known, Stored, dagVars
<1>6. CallsAt(p)'
  BY <1>5, InductiveFacts DEF CallsAt
<1>7. FetchedIsLocalAt(p)'
  BY <1>4, <1>5, InductiveFacts DEF FetchedIsLocalAt
<1>8. /\ \A i \in 1..Len(stack'[p]) : Support(stack'[p][i].todo) \subseteq Stored
      /\ stack'[p] = <<>> => batch'[p] \cap Known(p) = {}
  BY <1>5, InductiveFacts DEF OnlyStoredAt
<1>9. QED BY <1>1, <1>4, <1>5, <1>6, <1>7, <1>8, InductiveFacts, LocalStep

LEMMA GetNodesStep ==
  ASSUME Inductive, NEW p \in Peer, GetNodes(p) PROVE Inductive'
<1> DEFINE top == Top(p)
           n == Len(stack[p])
           f == [top EXCEPT !.fetched = TRUE]
<1>1. UNCHANGED <<ipfs, blocks, online, hung, dagVars, network, remote, batch>>
      /\ Support(top.todo) \subseteq blocks[p]
      /\ ~SemaFree(p) /\ TypeOK
  BY DEF GetNodes, Inductive
<1>2. /\ stack[p] \in Seq(Frame) /\ n \in Nat \ {0} /\ n \in 1..n
      /\ top \in Frame /\ top = stack[p][n]
  BY <1>1, TopFacts
<1>3. f \in Frame /\ f.cid = top.cid /\ f.val = top.val /\ f.todo = top.todo
  BY <1>2 DEF Frame
<1>4. stack' = [stack EXCEPT ![p] = [stack[p] EXCEPT ![n] = f]]
  BY DEF GetNodes, Fetched, Top
<1> HIDE DEF top, n, f
<1>5. stack'[p] = [stack[p] EXCEPT ![n] = f]
  BY <1>4, InductiveFacts
<1>6. /\ stack'[p] \in Seq(Frame) /\ Len(stack'[p]) = n /\ stack'[p][n] = f
      /\ \A i \in 1..n : i # n => stack'[p][i] = stack[p][i]
  BY <1>2, <1>3, <1>5, ReplaceTopFacts DEF n
<1>7. stack' \in [Peer -> Seq(Frame)] /\ \A q \in Peer \ {p} : stack'[q] = stack[q]
  BY <1>4, <1>6, InductiveFacts
<1>8. \A i \in 1..n :
         /\ stack'[p][i].cid = stack[p][i].cid /\ stack'[p][i].val = stack[p][i].val
         /\ stack'[p][i].todo = stack[p][i].todo
         /\ i # n => stack'[p][i].fetched = stack[p][i].fetched
  BY <1>2, <1>3, <1>6
<1>9. Known(p)' = Known(p) /\ Stored' = Stored /\ ipfs' = ipfs
  BY <1>1 DEF Known, Stored, dagVars
<1>10. \A i \in 1..n : Support(stack[p][i].todo) \subseteq Stored
  BY InductiveFacts DEF OnlyStoredAt, n
<1>11. blocks' \in [Peer -> SUBSET Stored] /\ \A q \in Peer \ {p} : blocks'[q] = blocks[q]
  BY <1>1, InductiveFacts
<1>12. CallsAt(p)'
  <2>1. CallsAt(p) /\ batch' = batch
    BY <1>1, InductiveFacts
  <2>2. n = Len(stack[p])
    BY DEF n
  <2>3. ASSUME NEW i \in 1..n
        PROVE  /\ stack'[p][i].cid = stack'[p][i].val
               /\ i = 1 => stack'[p][i].cid = MergeCall /\ stack'[p][i].todo = AsBag(batch'[p])
               /\ i > 1 =>
                    /\ stack'[p][i].cid \in Stored'
                    /\ \A d \in Support(ipfs'[stack'[p][i].val].deps) :
                         \/ d \in Known(p)'
                         \/ d \in Support(stack'[p][i].todo)
                         \/ i < Len(stack'[p]) /\ d = stack'[p][i + 1].cid
    <3>1. i < n => i + 1 \in 1..n
      BY <1>2
    <3>2. QED BY <1>6, <1>8, <1>9, <2>1, <2>2, <3>1 DEF CallsAt
  <2>4. QED BY <1>6, <2>3 DEF CallsAt
<1>13. FetchedIsLocalAt(p)'
  <2>1. FetchedIsLocalAt(p) /\ blocks'[p] = blocks[p]
    BY <1>1, InductiveFacts
  <2>2. n = Len(stack[p])
    BY DEF n
  <2>3. ASSUME NEW i \in 1..n
        PROVE  /\ stack'[p][i].fetched => Support(stack'[p][i].todo) \subseteq blocks'[p]
               /\ i > 1 => stack'[p][i].cid \in blocks'[p]
               /\ i < n => stack'[p][i].fetched
    <3>1. CASE i = n
      BY <1>1, <1>2, <1>8, <2>1, <2>2, <3>1 DEF FetchedIsLocalAt
    <3>2. CASE i # n
      BY <1>8, <2>1, <2>2, <3>2 DEF FetchedIsLocalAt
    <3>3. QED BY <3>1, <3>2
  <2>4. Known(p)' \subseteq blocks'[p]
    BY <1>9, <2>1 DEF FetchedIsLocalAt
  <2>5. QED BY <1>6, <2>3, <2>4 DEF FetchedIsLocalAt
<1>14. stack'[p] # <<>>
  BY <1>2, <1>6
<1>15. \A i \in 1..Len(stack'[p]) : Support(stack'[p][i].todo) \subseteq Stored
  BY <1>6, <1>8, <1>10
<1>16. QED BY <1>1, <1>7, <1>11, <1>12, <1>13, <1>14, <1>15, InductiveFacts, LocalStep

LEMMA TakeNextFacts ==
  ASSUME NEW f \in Frame, NEW v \in Support(f.todo)
  PROVE  /\ TakeNext(f, v) \in Frame
         /\ TakeNext(f, v).cid = f.cid /\ TakeNext(f, v).val = f.val
         /\ TakeNext(f, v).fetched = f.fetched
         /\ Support(TakeNext(f, v).todo) \subseteq Support(f.todo)
         /\ Support(f.todo) \subseteq Support(TakeNext(f, v).todo) \cup {v}
         /\ \A S \in SUBSET Cid : f.todo = AsBag(S) => TakeNext(f, v).todo = AsBag(S \ {v})
<1>1. v \in Cid /\ AsBag({v}) \in Bag /\ f.todo \in Bag
  BY AsBagFacts DEF Support, Frame
<1>2. Minus(f.todo, AsBag({v})) \in Bag
  BY <1>1, MinusType
<1>3. /\ TakeNext(f, v) \in Frame
      /\ TakeNext(f, v).cid = f.cid /\ TakeNext(f, v).val = f.val
      /\ TakeNext(f, v).fetched = f.fetched
      /\ TakeNext(f, v).todo = Minus(f.todo, AsBag({v}))
  BY <1>2 DEF TakeNext, Frame
<1>4. /\ Support(Minus(f.todo, AsBag({v}))) \subseteq Support(f.todo)
      /\ Support(f.todo) \subseteq Support(Minus(f.todo, AsBag({v}))) \cup {v}
  BY <1>1 DEF Support, Minus, AsBag, Bag
<1>5. ASSUME NEW S \in SUBSET Cid, f.todo = AsBag(S)
      PROVE  Minus(f.todo, AsBag({v})) = AsBag(S \ {v})
  BY <1>5 DEF Minus, AsBag
<1>6. QED BY <1>3, <1>4, <1>5

LEMMA CallFacts ==
  ASSUME Inductive, NEW p \in Peer, NEW v \in Stored
  PROVE  /\ Call(p, v, v) \in Frame
         /\ Call(p, v, v).cid = v /\ Call(p, v, v).val = v /\ ~Call(p, v, v).fetched
         /\ Support(Call(p, v, v).todo) \subseteq Stored
         /\ \A d \in Support(ipfs[v].deps) : d \in Known(p) \/ d \in Support(Call(p, v, v).todo)
<1>1. ipfs[v].deps \in Bag /\ v \in Cid /\ v \in Nat /\ Stored = 1..Len(ipfs) /\ Len(ipfs) \in Nat
  BY StoredFacts DEF Inductive, Stored
<1>2. Support(ipfs[v].deps) \subseteq Stored
  BY <1>1 DEF Inductive, DependenciesCoverPast
<1> DEFINE t == [d \in Cid |-> IF IsKnown(p, d) THEN 0 ELSE ipfs[v].deps[d]]
<1>3. /\ t \in Bag /\ Support(t) \subseteq Support(ipfs[v].deps)
      /\ \A d \in Support(ipfs[v].deps) : d \in Known(p) \/ d \in Support(t)
  BY <1>1 DEF Bag, Support, IsKnown
<1> HIDE DEF t
<1>4. Call(p, v, v) = [cid |-> v, val |-> v, fetched |-> FALSE, todo |-> t]
  BY DEF Call, t
<1>5. QED BY <1>1, <1>2, <1>3, <1>4, BoundAssumption DEF Frame, Cid

LEMMA RemoteAddNodeSuperStep ==
  ASSUME Inductive, NEW p \in Peer, RemoteAddNodeSuper(p) PROVE Inductive'
<1> DEFINE top == Top(p)
           n == Len(stack[p])
<1>1. UNCHANGED <<ipfs, blocks, online, hung, dagVars, network, remote>>
      /\ ~SemaFree(p) /\ top.fetched /\ TypeOK
  BY DEF RemoteAddNodeSuper, Inductive
<1>2. /\ stack[p] \in Seq(Frame) /\ n \in Nat \ {0} /\ n \in 1..n
      /\ top \in Frame /\ top = stack[p][n]
  BY <1>1, TopFacts
<1>3. /\ CallsAt(p) /\ FetchedIsLocalAt(p) /\ Stored \subseteq Cid
      /\ batch[p] \in SUBSET Stored
      /\ \A i \in 1..n : Support(stack[p][i].todo) \subseteq Stored
  BY <1>1, InductiveFacts, StoredFacts DEF OnlyStoredAt
<1>4. PICK v \in Support(top.todo) :
      \E c \in (IF top.cid = MergeCall /\ Support(top.todo) # batch[p] THEN batch[p] ELSE {v}) :
        /\ stack' = [stack EXCEPT ![p] =
             Append([stack[p] EXCEPT ![Len(stack[p])] = TakeNext(top, v)], Call(p, c, v))]
        /\ batch' = [batch EXCEPT ![p] = IF top.cid = MergeCall THEN @ \ {c} ELSE @]
  BY DEF RemoteAddNodeSuper
<1>5. top.cid = MergeCall <=> n = 1
  <2>1. n = Len(stack[p]) /\ Len(ipfs) \in Nat
    BY <1>1, StoredFacts
  <2>2. 0 \notin Stored
    BY <2>1 DEF Stored
  <2>3. /\ n = 1 => stack[p][n].cid = MergeCall
        /\ n > 1 => stack[p][n].cid \in Stored
    BY <1>2, <1>3, <2>1 DEF CallsAt
  <2> HIDE DEF top, n
  <2>4. top = stack[p][n] /\ (n = 1 \/ n > 1)
    BY <1>2
  <2>5. QED BY <2>2, <2>3, <2>4 DEF MergeCall
<1>6. top.cid = MergeCall => top.todo = AsBag(batch[p]) /\ Support(top.todo) = batch[p]
  <2>1. batch[p] \in SUBSET Cid
    BY <1>3
  <2>2. top.cid = MergeCall => top.todo = AsBag(batch[p])
    BY <1>2, <1>3, <1>5 DEF CallsAt
  <2>3. QED BY <2>1, <2>2, AsBagFacts
<1> DEFINE f == TakeNext(top, v)
           g == Call(p, v, v)
<1>7. /\ stack' = [stack EXCEPT ![p] = Append([stack[p] EXCEPT ![n] = f], g)]
      /\ batch' = [batch EXCEPT ![p] = IF top.cid = MergeCall THEN @ \ {v} ELSE @]
  BY <1>4, <1>6
<1>8. v \in Stored /\ v \in blocks[p]
  BY <1>1, <1>2, <1>3 DEF FetchedIsLocalAt
<1>9. /\ f \in Frame /\ f.cid = top.cid /\ f.val = top.val /\ f.fetched
      /\ Support(f.todo) \subseteq Support(top.todo)
      /\ Support(top.todo) \subseteq Support(f.todo) \cup {v}
      /\ top.cid = MergeCall => f.todo = AsBag(batch[p] \ {v})
  <2>1. top \in Frame /\ v \in Support(top.todo) /\ batch[p] \in SUBSET Cid /\ top.fetched
    BY <1>1, <1>2, <1>3
  <2>2. top.cid = MergeCall => top.todo = AsBag(batch[p])
    BY <1>6
  <2> HIDE DEF top
  <2>3. QED BY <2>1, <2>2, TakeNextFacts
<1>10. /\ g \in Frame /\ g.cid = v /\ g.val = v /\ ~g.fetched
       /\ Support(g.todo) \subseteq Stored
       /\ \A d \in Support(ipfs[v].deps) : d \in Known(p) \/ d \in Support(g.todo)
  BY <1>8, CallFacts
<1> HIDE DEF top, n, f, g
<1>11. stack'[p] = Append([stack[p] EXCEPT ![n] = f], g)
  BY <1>7, InductiveFacts
<1>12. /\ stack'[p] \in Seq(Frame) /\ Len(stack'[p]) = n + 1
       /\ stack'[p][n] = f /\ stack'[p][n + 1] = g
       /\ \A i \in 1..n : i # n => stack'[p][i] = stack[p][i]
  BY <1>2, <1>9, <1>10, <1>11, PushFacts DEF n
<1>13. /\ stack' \in [Peer -> Seq(Frame)]
       /\ \A q \in Peer \ {p} : stack'[q] = stack[q] /\ batch'[q] = batch[q]
       /\ batch'[p] = (IF top.cid = MergeCall THEN batch[p] \ {v} ELSE batch[p])
       /\ batch' \in [Peer -> SUBSET Stored]
  BY <1>7, <1>12, InductiveFacts
<1>14. Known(p)' = Known(p) /\ Stored' = Stored /\ ipfs' = ipfs /\ blocks' = blocks
  BY <1>1 DEF Known, Stored, dagVars
<1>15. \A i \in 1..Len(stack'[p]) : Support(stack'[p][i].todo) \subseteq Stored
  BY <1>2, <1>3, <1>9, <1>10, <1>12
<1>16. CallsAt(p)'
  <2> SUFFICES ASSUME NEW i \in 1..(n + 1)
        PROVE  /\ stack'[p][i].cid = stack'[p][i].val
               /\ i = 1 => stack'[p][i].cid = MergeCall /\ stack'[p][i].todo = AsBag(batch'[p])
               /\ i > 1 =>
                    /\ stack'[p][i].cid \in Stored'
                    /\ \A d \in Support(ipfs'[stack'[p][i].val].deps) :
                         \/ d \in Known(p)'
                         \/ d \in Support(stack'[p][i].todo)
                         \/ i < Len(stack'[p]) /\ d = stack'[p][i + 1].cid
    BY <1>12 DEF CallsAt
  <2>1. n = Len(stack[p])
    BY DEF n
  <2>2. CASE i = n + 1
    BY <1>2, <1>8, <1>10, <1>12, <1>14, <2>2
  <2>3. CASE i = n
    <3>1. i \in 1..n
      BY <1>2, <2>3
    <3>2. /\ top.cid = top.val
          /\ i = 1 => top.cid = MergeCall
          /\ i > 1 => /\ top.cid \in Stored
                      /\ \A d \in Support(ipfs[top.val].deps) :
                           d \in Known(p) \/ d \in Support(top.todo)
      BY <1>2, <1>3, <2>1, <2>3 DEF CallsAt
    <3>3. i = 1 => f.todo = AsBag(batch'[p])
      BY <1>5, <1>9, <1>13, <2>3
    <3>4. i < Len(stack'[p]) /\ stack'[p][i + 1].cid = v
      BY <1>2, <1>10, <1>12, <2>3
    <3>5. QED BY <1>9, <1>12, <1>14, <2>3, <3>2, <3>3, <3>4
  <2>4. CASE i \in 1..n /\ i # n
    <3>1. i + 1 \in 1..n /\ i < Len(stack'[p]) /\ i < n
      BY <1>2, <1>12, <2>4
    <3>2. stack'[p][i] = stack[p][i] /\ stack'[p][i + 1].cid = stack[p][i + 1].cid
      BY <1>2, <1>9, <1>12, <2>4, <3>1
    <3>3. i = 1 => batch'[p] = batch[p]
      BY <1>5, <1>13, <2>4, <3>1
    <3>4. QED BY <1>3, <1>14, <2>1, <2>4, <3>1, <3>2, <3>3 DEF CallsAt
  <2>5. QED BY <1>2, <2>2, <2>3, <2>4
<1>17. FetchedIsLocalAt(p)'
  <2>1. n = Len(stack[p])
    BY DEF n
  <2>2. Known(p)' \subseteq blocks'[p]
    BY <1>3, <1>14 DEF FetchedIsLocalAt
  <2>3. ASSUME NEW i \in 1..(n + 1)
        PROVE  /\ stack'[p][i].fetched => Support(stack'[p][i].todo) \subseteq blocks[p]
               /\ i > 1 => stack'[p][i].cid \in blocks[p]
               /\ i < n + 1 => stack'[p][i].fetched
    <3>1. CASE i = n + 1
      BY <1>2, <1>8, <1>10, <1>12, <3>1
    <3>2. CASE i = n
      BY <1>1, <1>2, <1>3, <1>9, <1>12, <2>1, <3>2 DEF FetchedIsLocalAt
    <3>3. CASE i \in 1..n /\ i # n
      BY <1>2, <1>3, <1>12, <2>1, <3>3 DEF FetchedIsLocalAt
    <3>4. QED BY <1>2, <3>1, <3>2, <3>3
  <2>4. QED BY <1>12, <1>14, <2>2, <2>3 DEF FetchedIsLocalAt
<1>18. stack'[p] # <<>>
  BY <1>2, <1>12
<1>19. QED BY <1>1, <1>13, <1>14, <1>15, <1>16, <1>17, <1>18, InductiveFacts, LocalStep

LEMMA EndMergeStep ==
  ASSUME Inductive, NEW p \in Peer, EndMerge(p) PROVE Inductive'
<1>1. /\ UNCHANGED <<ipfs, blocks, online, hung, dagVars, network, remote>>
      /\ stack' = [stack EXCEPT ![p] = <<>>] /\ batch' = [batch EXCEPT ![p] = {}]
  BY DEF EndMerge
<1>2. /\ stack' \in [Peer -> Seq(Frame)] /\ batch' \in [Peer -> SUBSET Stored]
      /\ stack'[p] = <<>> /\ Len(stack'[p]) = 0 /\ batch'[p] = {}
      /\ \A q \in Peer \ {p} : stack'[q] = stack[q] /\ batch'[q] = batch[q]
  BY <1>1, InductiveFacts
<1>3. CallsAt(p)'
  BY <1>2 DEF CallsAt
<1>4. FetchedIsLocalAt(p)'
  BY <1>1, <1>2, InductiveFacts DEF FetchedIsLocalAt, Known, dagVars
<1>5. /\ online' \in SUBSET Peer /\ hung' \in SUBSET Peer
      /\ network' \in [Peer -> SUBSET Stored] /\ remote' \in [Peer -> SUBSET Stored]
      /\ blocks' = blocks /\ blocks \in [Peer -> SUBSET Stored]
      /\ UNCHANGED <<ipfs, dagVars>>
  BY <1>1, InductiveFacts
<1>6. /\ \A i \in 1..Len(stack'[p]) : Support(stack'[p][i].todo) \subseteq Stored
      /\ batch'[p] \cap Known(p) = {}
  BY <1>2
<1>7. QED BY <1>2, <1>3, <1>4, <1>5, <1>6, LocalStep

-----------------------------------------------------------------------------
(* Steps that add a node to a replica's DAG.                               *)

LEMMA AddRemoteNodeStep ==
  ASSUME Inductive, NEW p \in Peer, AddRemoteNode(p) PROVE Inductive'
<1> DEFINE n == Len(stack[p])
           c == Top(p).cid
           deps == ipfs[c].deps
<1>1. /\ UNCHANGED <<ipfs, blocks, online, hung, network, remote, batch>>
      /\ ~SemaFree(p) /\ TypeOK /\ Top(p).fetched /\ Top(p).todo = EmptyBag
      /\ c # MergeCall
      /\ AddNode(p, Top(p).cid, Top(p).val, ipfs[Top(p).val].deps)
      /\ stack' = [stack EXCEPT ![p] = SubSeq(@, 1, Len(@) - 1)]
  BY DEF AddRemoteNode, Inductive
<1>2. /\ stack[p] \in Seq(Frame) /\ n \in Nat \ {0} /\ n \in 1..n
      /\ Top(p) \in Frame /\ Top(p) = stack[p][n]
  BY <1>1, TopFacts
<1>3. /\ CallsAt(p) /\ FetchedIsLocalAt(p) /\ OnlyStoredAt(p) /\ Stored \subseteq Cid
      /\ Stored' = Stored /\ ipfs' = ipfs
  BY <1>1, InductiveFacts, StoredFacts DEF Stored
<1>4. n > 1 /\ c \in Stored /\ Top(p).val = c /\ c \in blocks[p]
      /\ \A d \in Support(deps) : d \in Known(p)
  <2>1. n # 1
    BY <1>1, <1>2, <1>3 DEF CallsAt
  <2>2. Support(Top(p).todo) = {}
    BY <1>1 DEF Support, EmptyBag
  <2>3. n = Len(stack[p]) /\ c = stack[p][n].cid /\ deps = ipfs[c].deps
    BY <1>2
  <2> HIDE DEF n, c, deps
  <2>4. n > 1
    BY <1>2, <2>1
  <2>5. c \in Stored /\ Top(p).val = c
    BY <1>2, <1>3, <2>3, <2>4 DEF CallsAt
  <2>6. c \in blocks[p]
    BY <1>2, <1>3, <2>3, <2>4 DEF FetchedIsLocalAt
  <2>7. ASSUME NEW d \in Support(deps) PROVE d \in Known(p)
    <3>1. stack[p][n].val = c /\ d \in Support(ipfs[stack[p][n].val].deps)
      BY <1>2, <2>3, <2>5, <2>7
    <3>2. \/ d \in Known(p)
          \/ d \in Support(stack[p][n].todo)
          \/ n < Len(stack[p])
      BY <1>2, <1>3, <2>3, <2>4, <3>1 DEF CallsAt
    <3>3. QED BY <1>2, <2>2, <2>3, <3>2
  <2>8. QED BY <2>4, <2>5, <2>6, <2>7
<1>5. /\ deps \in Bag /\ Support(deps) \subseteq ipfs[c].past /\ ipfs[c].past \in SUBSET Cid
      /\ \A d \in ipfs[c].past : ipfs[d].past \subseteq ipfs[c].past
      /\ \A k \in ipfs[c].past : \E r \in Support(deps) : k = r \/ k \in ipfs[r].past
  BY <1>1, <1>4, StoredFacts DEF Inductive, DependenciesCoverPast
<1>6. ipfs[c].past \subseteq Known(p)
  BY <1>4, <1>5 DEF Inductive, CausalHistory
<1>7. AddNode(p, c, c, deps) /\ c \in Cid
  BY <1>1, <1>3, <1>4
<1> HIDE DEF n, c, deps
<1>8. /\ nodes' \in [Peer -> Seq(Entry)]
      /\ roots' \in [Peer -> Bag]
      /\ Known(p)' = Known(p) \cup {c}
      /\ Support(roots'[p]) \subseteq Support(roots[p]) \cup {c}
      /\ c \in Support(roots'[p])
      /\ \A r \in Support(roots[p]) : r \in Support(roots'[p]) \/ r \in Support(deps)
      /\ \A i \in 1..Len(nodes'[p]) : nodes'[p][i].cid = nodes'[p][i].val
      /\ \A q \in Peer \ {p} : nodes'[q] = nodes[q] /\ roots'[q] = roots[q]
                                /\ Known(q)' = Known(q)
  BY <1>1, <1>5, <1>7, AddNodeFacts DEF TypeOK, Inductive, IdentifierMatchesContent
<1>9. /\ stack'[p] \in Seq(Frame) /\ Len(stack'[p]) = n - 1
      /\ \A i \in 1..(n - 1) : stack'[p][i] = stack[p][i]
      /\ stack' \in [Peer -> Seq(Frame)]
      /\ \A q \in Peer \ {p} : stack'[q] = stack[q]
  <2>1. stack'[p] = SubSeq(stack[p], 1, Len(stack[p]) - 1)
    BY <1>1, InductiveFacts
  <2>2. Len(stack[p]) > 0 /\ n = Len(stack[p])
    BY <1>2 DEF n
  <2>3. /\ stack'[p] \in Seq(Frame) /\ Len(stack'[p]) = n - 1
        /\ \A i \in 1..(n - 1) : stack'[p][i] = stack[p][i]
    BY <1>2, <2>1, <2>2, PopFacts
  <2>4. QED BY <1>1, <2>3, InductiveFacts
<1>10. TypeOK'
  BY <1>1, <1>8, <1>9 DEF TypeOK
<1>11. DependenciesCoverPast'
  BY <1>3 DEF Inductive, DependenciesCoverPast
<1>12. AuthorKnows'
  BY <1>3, <1>8, StoredFacts, <1>1 DEF Inductive, AuthorKnows
<1>13. CausalHistory'
  BY <1>3, <1>6, <1>8 DEF Inductive, CausalHistory
<1>14. RootsReachAll'
  <2>1. ASSUME NEW k \in Known(p)'
        PROVE  \E r \in Support(roots'[p]) : k = r \/ k \in ipfs[r].past
    <3>1. CASE k = c
      BY <1>8, <3>1
    <3>2. CASE k \in Known(p)
      <4>1. PICK r \in Support(roots[p]) : k = r \/ k \in ipfs[r].past
        BY <3>2 DEF Inductive, RootsReachAll
      <4>2. CASE r \in Support(deps)
        BY <1>5, <1>8, <4>1, <4>2
      <4>3. QED BY <1>8, <4>1, <4>2
    <3>3. QED BY <1>8, <2>1, <3>1, <3>2
  <2>2. ASSUME NEW q \in Peer \ {p}, NEW k \in Known(q)'
        PROVE  \E r \in Support(roots'[q]) : k = r \/ k \in ipfs[r].past
    BY <1>8, <2>2 DEF Inductive, RootsReachAll
  <2>3. QED BY <1>3, <2>1, <2>2 DEF RootsReachAll
<1>15. IdentifierMatchesContent'
  BY <1>8 DEF Inductive, IdentifierMatchesContent
<1>16. BatchStillUnknown'
  <2>1. stack'[p] # <<>>
    BY <1>2, <1>4, <1>9
  <2>2. QED BY <1>1, <1>8, <1>9, <2>1 DEF Inductive, BatchStillUnknown, SemaFree
<1>17. OnlyStoredAt(p)'
  <2>1. \A i \in 1..(n - 1) : Support(stack[p][i].todo) \subseteq Stored
    BY <1>2, <1>3 DEF OnlyStoredAt, n
  <2>2. \A i \in 1..Len(stack'[p]) : Support(stack'[p][i].todo) \subseteq Stored
    BY <1>9, <2>1
  <2>3. QED BY <1>1, <1>3, <1>4, <1>8, <2>2 DEF OnlyStoredAt
<1>18. CallsAt(p)'
  <2>1. n = Len(stack[p]) /\ c = stack[p][n].cid
    BY <1>2 DEF n, c
  <2>2. ASSUME NEW i \in 1..(n - 1)
        PROVE  /\ stack'[p][i].cid = stack'[p][i].val
               /\ i = 1 => stack'[p][i].cid = MergeCall /\ stack'[p][i].todo = AsBag(batch'[p])
               /\ i > 1 =>
                    /\ stack'[p][i].cid \in Stored'
                    /\ \A d \in Support(ipfs'[stack'[p][i].val].deps) :
                         \/ d \in Known(p)'
                         \/ d \in Support(stack'[p][i].todo)
                         \/ i < Len(stack'[p]) /\ d = stack'[p][i + 1].cid
    <3>1. i \in 1..n /\ i < n /\ i + 1 \in 1..n /\ stack'[p][i] = stack[p][i]
      BY <1>2, <1>9
    <3>2. i + 1 # n => i < n - 1 /\ stack'[p][i + 1] = stack[p][i + 1]
      BY <1>2, <1>9, <3>1
    <3>3. ASSUME i > 1, NEW d \in Support(ipfs[stack[p][i].val].deps)
          PROVE  \/ d \in Known(p) \cup {c}
                 \/ d \in Support(stack[p][i].todo)
                 \/ i < n - 1 /\ d = stack'[p][i + 1].cid
      <4>1. \/ d \in Known(p)
            \/ d \in Support(stack[p][i].todo)
            \/ d = stack[p][i + 1].cid
        BY <1>3, <2>1, <3>1, <3>3 DEF CallsAt
      <4>2. QED BY <2>1, <3>2, <4>1
    <3>4. QED BY <1>1, <1>3, <1>8, <1>9, <2>1, <3>1, <3>3 DEF CallsAt
  <2>3. QED BY <1>9, <2>2 DEF CallsAt
<1>19. FetchedIsLocalAt(p)'
  <2>1. n = Len(stack[p])
    BY DEF n
  <2>2. ASSUME NEW i \in 1..(n - 1)
        PROVE  /\ stack'[p][i].fetched => Support(stack'[p][i].todo) \subseteq blocks[p]
               /\ i > 1 => stack'[p][i].cid \in blocks[p]
               /\ stack'[p][i].fetched
    <3>1. i \in 1..n /\ i < n /\ stack'[p][i] = stack[p][i]
      BY <1>2, <1>9
    <3>2. QED BY <1>3, <2>1, <3>1 DEF FetchedIsLocalAt
  <2>3. Known(p)' \subseteq blocks[p]
    BY <1>3, <1>4, <1>8 DEF FetchedIsLocalAt
  <2>4. QED BY <1>1, <1>9, <2>2, <2>3 DEF FetchedIsLocalAt
<1>20. ASSUME NEW q \in Peer, q # p
       PROVE  (OnlyStoredAt(q) /\ CallsAt(q) /\ FetchedIsLocalAt(q))'
  <2>1. OnlyStoredAt(q) /\ CallsAt(q) /\ FetchedIsLocalAt(q)
    BY InductiveFacts
  <2>2. stack'[q] = stack[q] /\ Known(q)' = Known(q) /\ roots'[q] = roots[q]
        /\ batch' = batch /\ blocks' = blocks /\ network' = network /\ remote' = remote
    BY <1>1, <1>8, <1>9, <1>20
  <2>3. OnlyStoredAt(q)' /\ FetchedIsLocalAt(q)'
    BY <1>3, <2>1, <2>2 DEF OnlyStoredAt, FetchedIsLocalAt
  <2>4. CallsAt(q)'
    BY <1>3, <2>1, <2>2 DEF CallsAt
  <2>5. QED BY <2>3, <2>4
<1>21. QED BY <1>10, <1>11, <1>12, <1>13, <1>14, <1>15, <1>16, <1>17, <1>18, <1>19, <1>20
           DEF Inductive

LEMMA UpdateStep ==
  ASSUME Inductive, NEW p \in Peer, NEW op \in Op, Update(p, op) PROVE Inductive'
<1> DEFINE c == Len(ipfs) + 1
           new == [peer |-> p, op |-> op, deps |-> roots[p], past |-> Known(p)]
<1>1. /\ UNCHANGED <<online, hung, remote, batch, stack>>
      /\ stack[p] = <<>> /\ TypeOK /\ Len(ipfs) < MaxNodes
      /\ ipfs' = Append(ipfs, new)
      /\ blocks' = [blocks EXCEPT ![p] = @ \cup {c}]
      /\ AddNode(p, c, c, roots[p])
      /\ network' = [q \in Peer |-> IF q = p THEN network[q]
                                    ELSE network[q] \cup Support(roots'[p])]
  BY DEF Update, SendRemoteUpdates, SemaFree, Inductive
<1>2. /\ Len(ipfs) \in Nat /\ Stored \subseteq Cid /\ Stored = 1..Len(ipfs)
      /\ roots[p] \in Bag /\ OnlyStoredAt(p) /\ FetchedIsLocalAt(p)
  BY <1>1, InductiveFacts, StoredFacts DEF Stored, TypeOK
<1>3. c \in Cid /\ c \notin Stored /\ c = Len(ipfs) + 1 /\ 1..(c - 1) = Stored
  BY <1>1, <1>2, BoundAssumption DEF Cid
<1>4. Known(p) \subseteq Stored /\ Support(roots[p]) \subseteq Known(p)
  BY <1>2 DEF OnlyStoredAt
<1>5. new \in Node /\ new.peer = p /\ new.deps = roots[p] /\ new.past = Known(p)
  BY <1>2, <1>4 DEF Node
<1> HIDE DEF c, new
<1>6. /\ ipfs' \in Seq(Node) /\ Len(ipfs') = c /\ ipfs'[c] = new
      /\ \A d \in Stored : ipfs'[d] = ipfs[d]
  BY <1>1, <1>2, <1>3, <1>5, AppendFacts DEF TypeOK
<1>7. Stored' = Stored \cup {c}
  BY <1>2, <1>3, <1>6 DEF Stored
<1>8. /\ nodes' \in [Peer -> Seq(Entry)]
      /\ roots' \in [Peer -> Bag]
      /\ Known(p)' = Known(p) \cup {c}
      /\ Support(roots'[p]) = {c}
      /\ \A i \in 1..Len(nodes'[p]) : nodes'[p][i].cid = nodes'[p][i].val
      /\ \A q \in Peer \ {p} : nodes'[q] = nodes[q] /\ roots'[q] = roots[q]
                                /\ Known(q)' = Known(q)
  BY <1>1, <1>2, <1>3, AddNodeFacts DEF TypeOK, Inductive, IdentifierMatchesContent
<1>9. \A q \in Peer : Known(q) \subseteq Stored
  BY InductiveFacts DEF OnlyStoredAt
<1>10. /\ blocks' \in [Peer -> SUBSET Stored'] /\ network' \in [Peer -> SUBSET Stored']
       /\ blocks'[p] = blocks[p] \cup {c}
       /\ \A q \in Peer \ {p} : blocks'[q] = blocks[q]
  BY <1>1, <1>7, <1>8, InductiveFacts
<1>11. TypeOK'
  <2>1. Stored' \subseteq Cid
    BY <1>2, <1>3, <1>7
  <2>2. blocks' \in [Peer -> SUBSET Cid] /\ network' \in [Peer -> SUBSET Cid]
    BY <1>10, <2>1
  <2>3. QED BY <1>1, <1>3, <1>6, <1>8, <2>2 DEF TypeOK
<1>12. DependenciesCoverPast'
  <2>1. /\ new.past \subseteq 1..(c - 1)
        /\ Support(new.deps) \subseteq new.past
        /\ \A d \in new.past : ipfs'[d].past \subseteq new.past
        /\ \A k \in new.past : \E r \in Support(new.deps) : k = r \/ k \in ipfs'[r].past
    BY <1>3, <1>4, <1>5, <1>6 DEF Inductive, CausalHistory, RootsReachAll
  <2>2. ASSUME NEW e \in Stored
        PROVE  /\ ipfs'[e].past \subseteq 1..(e - 1)
               /\ Support(ipfs'[e].deps) \subseteq ipfs'[e].past
               /\ \A d \in ipfs'[e].past : ipfs'[d].past \subseteq ipfs'[e].past
               /\ \A k \in ipfs'[e].past :
                    \E r \in Support(ipfs'[e].deps) : k = r \/ k \in ipfs'[r].past
    <3>1. /\ ipfs[e].past \subseteq 1..(e - 1)
          /\ Support(ipfs[e].deps) \subseteq ipfs[e].past
          /\ \A d \in ipfs[e].past : ipfs[d].past \subseteq ipfs[e].past
          /\ \A k \in ipfs[e].past :
               \E r \in Support(ipfs[e].deps) : k = r \/ k \in ipfs[r].past
      BY DEF Inductive, DependenciesCoverPast
    <3>2. 1..(e - 1) \subseteq Stored
      BY <1>2
    <3>3. QED BY <1>6, <3>1, <3>2
  <2>3. QED BY <1>6, <1>7, <2>1, <2>2 DEF DependenciesCoverPast
<1>13. AuthorKnows'
  <2> SUFFICES ASSUME NEW q \in Peer, NEW e \in Stored', ipfs'[e].peer = q
               PROVE  /\ e \in Known(q)'
                      /\ \A d \in 1..(e - 1) : ipfs'[d].peer = q => d \in ipfs'[e].past
    BY DEF AuthorKnows
  <2>1. \A d \in Stored : ipfs[d].peer = q => d \in Known(q)
    BY DEF Inductive, AuthorKnows
  <2>2. CASE e = c
    <3>1. q = p /\ ipfs'[e].past = Known(p)
      BY <1>5, <1>6, <2>2
    <3>2. e \in Known(q)'
      BY <1>8, <2>2, <3>1
    <3>3. ASSUME NEW d \in 1..(e - 1), ipfs'[d].peer = q PROVE d \in ipfs'[e].past
      <4>1. d \in Stored
        BY <1>3, <2>2
      <4>2. QED BY <1>6, <2>1, <3>1, <3>3, <4>1
    <3>4. QED BY <3>2, <3>3
  <2>3. CASE e \in Stored
    <3>1. ipfs[e].peer = q /\ ipfs'[e] = ipfs[e]
      BY <1>6, <2>3
    <3>2. \A d \in 1..(e - 1) : ipfs[d].peer = q => d \in ipfs[e].past
      BY <2>3, <3>1 DEF Inductive, AuthorKnows
    <3>3. 1..(e - 1) \subseteq Stored
      BY <1>2, <2>3
    <3>4. e \in Known(q)'
      BY <1>8, <2>1, <2>3, <3>1
    <3>5. QED BY <1>6, <3>1, <3>2, <3>3, <3>4
  <2>4. QED BY <1>7, <2>2, <2>3
<1>14. CausalHistory'
  BY <1>4, <1>5, <1>6, <1>8, <1>9 DEF Inductive, CausalHistory
<1>15. RootsReachAll'
  <2>1. ASSUME NEW k \in Known(p)'
        PROVE  \E r \in Support(roots'[p]) : k = r \/ k \in ipfs'[r].past
    BY <1>5, <1>6, <1>8, <2>1
  <2>2. ASSUME NEW q \in Peer \ {p}, NEW k \in Known(q)'
        PROVE  \E r \in Support(roots'[q]) : k = r \/ k \in ipfs'[r].past
    <3>1. PICK r \in Support(roots[q]) : k = r \/ k \in ipfs[r].past
      BY <1>8, <2>2 DEF Inductive, RootsReachAll
    <3>2. r \in Stored
      BY InductiveFacts DEF OnlyStoredAt
    <3>3. QED BY <1>6, <1>8, <3>1, <3>2
  <2>3. QED BY <2>1, <2>2 DEF RootsReachAll
<1>16. IdentifierMatchesContent'
  BY <1>8 DEF Inductive, IdentifierMatchesContent
<1>17. BatchStillUnknown'
  <2>1. batch[p] \subseteq Stored /\ batch' = batch /\ stack' = stack
    BY <1>1, InductiveFacts
  <2>2. \A q \in Peer : SemaFree(q) => batch[q] \cap Known(q) = {}
    BY DEF Inductive, BatchStillUnknown
  <2>3. \A q \in Peer : SemaFree(q) => batch[q] \cap Known(q)' = {}
    BY <1>3, <1>8, <2>1, <2>2
  <2>4. QED BY <2>1, <2>3 DEF BatchStillUnknown, SemaFree
<1>18. ASSUME NEW q \in Peer PROVE OnlyStoredAt(q)'
  <2>1. OnlyStoredAt(q) /\ Stored \subseteq Stored'
    BY <1>7, InductiveFacts
  <2>2. Known(q)' \subseteq Stored' /\ Support(roots'[q]) \subseteq Known(q)'
    BY <1>7, <1>8, <2>1 DEF OnlyStoredAt
  <2>3. network'[q] \cup remote'[q] \cup batch'[q] \cup blocks'[q] \subseteq Stored'
    BY <1>1, <1>10, <2>1 DEF OnlyStoredAt
  <2>4. \A i \in 1..Len(stack'[q]) : Support(stack'[q][i].todo) \subseteq Stored'
    BY <1>1, <2>1 DEF OnlyStoredAt
  <2>5. QED BY <2>2, <2>3, <2>4 DEF OnlyStoredAt
<1>19. ASSUME NEW q \in Peer PROVE CallsAt(q)'
  <2>1. CASE q = p
    <3>1. Len(stack'[p]) = 0
      BY <1>1
    <3>2. QED BY <2>1, <3>1 DEF CallsAt
  <2>2. CASE q # p
    <3>1. CallsAt(q) /\ stack' = stack /\ batch' = batch /\ Known(q)' = Known(q)
          /\ Stored \subseteq Stored' /\ \A d \in Stored : ipfs'[d] = ipfs[d]
      BY <1>1, <1>6, <1>7, <1>8, <2>2, InductiveFacts
    <3>2. ASSUME NEW i \in 1..Len(stack[q]), i > 1
          PROVE  ipfs'[stack[q][i].val] = ipfs[stack[q][i].val]
      BY <3>1, <3>2 DEF CallsAt
    <3>3. QED BY <3>1, <3>2 DEF CallsAt
  <2>3. QED BY <2>1, <2>2
<1>20. ASSUME NEW q \in Peer PROVE FetchedIsLocalAt(q)'
  <2>1. /\ FetchedIsLocalAt(q) /\ stack' = stack /\ blocks[q] \subseteq blocks'[q]
    BY <1>1, <1>10, InductiveFacts
  <2>2. Known(q)' \subseteq blocks'[q]
    BY <1>8, <1>10, <2>1 DEF FetchedIsLocalAt
  <2>3. QED BY <2>1, <2>2 DEF FetchedIsLocalAt
<1>21. QED BY <1>11, <1>12, <1>13, <1>14, <1>15, <1>16, <1>17, <1>18, <1>19, <1>20
           DEF Inductive

-----------------------------------------------------------------------------
(* The theorems.                                                           *)

LEMMA NextInductive == Inductive /\ [Next]_vars => Inductive'
<1> SUFFICES ASSUME Inductive, [Next]_vars PROVE Inductive'
  OBVIOUS
<1>1. CASE UNCHANGED vars
  <2>1. PICK p : p \in Peer
    BY BootstrapAssumption
  <2>2. UNCHANGED <<ipfs, blocks, dagVars, stack>> /\ batch' = batch
        /\ network' = network /\ remote' = remote /\ online' = online /\ hung' = hung
    BY <1>1 DEF vars, dagVars
  <2>3. QED BY <2>1, <2>2, InductiveFacts, QuietStep
<1>2. ASSUME NEW p \in Peer, NEW op \in Op, Update(p, op) PROVE Inductive'
  BY <1>2, UpdateStep
<1>3. ASSUME NEW p \in Peer, NEW c \in Cid, Receive(p, c) \/ Lose(p, c) PROVE Inductive'
  BY <1>3, MessageStep
<1>4. ASSUME NEW p \in Peer, MainLoop(p) PROVE Inductive'
  <2>1. CASE CheckUpdate(p) \/ CheckUpdate_20Version(p)
    BY <2>1, CheckUpdateStep
  <2>2. CASE Merge(p)
    BY <2>2, MergeStep
  <2>3. CASE GetNodes(p) \/ \E c \in Cid : GetNode(p, c)
    BY <2>3, GetNodesStep, GetNodeStep
  <2>4. CASE RemoteAddNodeSuper(p)
    BY <2>4, RemoteAddNodeSuperStep
  <2>5. CASE AddRemoteNode(p)
    BY <2>5, AddRemoteNodeStep
  <2>6. CASE EndMerge(p)
    BY <2>6, EndMergeStep
  <2>7. QED BY <1>4, <2>1, <2>2, <2>3, <2>4, <2>5, <2>6 DEF MainLoop
<1>5. ASSUME NEW p \in Peer, MissDeadline(p) \/ Crash(p) PROVE Inductive'
  BY <1>5, FailureStep
<1>6. QED BY <1>1, <1>2, <1>3, <1>4, <1>5 DEF Next

\* Every reachable state satisfies the inductive invariant.
THEOREM Invariance == Spec => []Inductive
BY InitInductive, NextInductive, PTL DEF Spec

\* The variables keep their types: RemoveRoot_node never removes what is not
\* there and no index leaves the stack of calls.
THEOREM TypeCorrect == Spec => []TypeOK
<1>1. Inductive => TypeOK
  BY DEF Inductive
<1>2. QED BY <1>1, Invariance, PTL

\* A replica never has a node without everything the node's author knew.
THEOREM Causality == Spec => []CausalHistory
<1>1. Inductive => CausalHistory
  BY DEF Inductive
<1>2. QED BY <1>1, Invariance, PTL

\* The roots a replica keeps are enough to reach its whole DAG.
THEOREM RootsComplete == Spec => []RootsReachAll
<1>1. Inductive => RootsReachAll
  BY DEF Inductive
<1>2. QED BY <1>1, Invariance, PTL

\* What CheckUpdate found unknown without the semaphore is unknown when Merge
\* starts, so Merge filters nothing and pairs identifiers and contents right.
THEOREM CollectedStaysUnknown == Spec => []BatchStillUnknown
<1>1. Inductive => BatchStillUnknown
  BY DEF Inductive
<1>2. QED BY <1>1, Invariance, PTL

\* No identifier is ever kept with the content of another node.
THEOREM ContentMatches == Spec => []IdentifierMatchesContent
<1>1. Inductive => IdentifierMatchesContent
  BY DEF Inductive
<1>2. QED BY <1>1, Invariance, PTL

\* The history of a node known to a running replica stays available, whoever
\* crashes.
THEOREM Servable == Spec => []HistoryServable
<1>1. ASSUME Inductive PROVE HistoryServable
  <2> SUFFICES ASSUME NEW c \in Stored, NEW p \in online, c \in Known(p),
                      NEW d \in ipfs[c].past \cup {c}
               PROVE  Available(d)
    BY DEF HistoryServable
  <2>1. p \in Peer
    BY <1>1 DEF Inductive, TypeOK
  <2>2. d \in Known(p)
    BY <1>1, <2>1 DEF Inductive, CausalHistory
  <2>3. d \in blocks[p]
    BY <1>1, <2>1, <2>2 DEF Inductive, FetchedIsLocalAt
  <2>4. QED BY <2>3 DEF Available
<1>2. QED BY <1>1, Invariance, PTL

\* Two updates of the same author with the same operation and dependencies do
\* not exist: the later would have the earlier in its past, which its
\* dependencies cover, whereas the dependencies of the earlier are older.
THEOREM NoCollision == Spec => []ContentUnique
<1>1. ASSUME Inductive, NEW c \in Stored, NEW d \in Stored, c < d,
             ipfs[c].peer = ipfs[d].peer, ipfs[c].deps = ipfs[d].deps
      PROVE  FALSE
  <2>1. /\ Len(ipfs) \in Nat /\ Stored = 1..Len(ipfs) /\ ipfs[c].peer \in Peer
    BY <1>1, StoredFacts DEF Inductive, Stored
  <2>2. c \in ipfs[d].past
    BY <1>1, <2>1 DEF Inductive, AuthorKnows
  <2>3. PICK r \in Support(ipfs[d].deps) : c = r \/ c \in ipfs[r].past
    BY <1>1, <2>2 DEF Inductive, DependenciesCoverPast
  <2>4. r \in 1..(c - 1)
    BY <1>1, <2>3 DEF Inductive, DependenciesCoverPast
  <2>5. r \in Stored /\ ipfs[r].past \subseteq 1..(r - 1)
    BY <1>1, <2>1, <2>4 DEF Inductive, DependenciesCoverPast
  <2>6. QED BY <2>1, <2>3, <2>4, <2>5
<1>2. ASSUME Inductive PROVE ContentUnique
  <2>1. Len(ipfs) \in Nat /\ Stored = 1..Len(ipfs)
    BY <1>2, StoredFacts DEF Inductive, Stored
  <2>2. \A c, d \in Stored : c = d \/ c < d \/ d < c
    BY <2>1
  <2>3. QED BY <1>1, <1>2, <2>2 DEF ContentUnique
<1>3. QED BY <1>2, Invariance, PTL

\* A replica publishes the node it has just written and nothing else, although
\* SendRemoteUpdates publishes every root.
THEOREM OnePublication == Spec => PublishedOnce
<1>1. ASSUME Inductive, [Next]_vars
      PROVE  \A q \in Peer : \A c \in network'[q] \ network[q] : c = Len(ipfs) + 1
  <2>1. CASE UNCHANGED network
    BY <2>1
  <2>2. ASSUME NEW p \in Peer, NEW op \in Op, Update(p, op)
        PROVE  \A q \in Peer : \A c \in network'[q] \ network[q] : c = Len(ipfs) + 1
    <3>1. /\ AddNode(p, Len(ipfs) + 1, Len(ipfs) + 1, roots[p]) /\ Len(ipfs) < MaxNodes
          /\ network' = [q \in Peer |-> IF q = p THEN network[q]
                                        ELSE network[q] \cup Support(roots'[p])]
      BY <2>2 DEF Update, SendRemoteUpdates
    <3>2. TypeOK /\ Len(ipfs) \in Nat
      BY <1>1, StoredFacts DEF Inductive
    <3>3. Len(ipfs) + 1 \in Cid /\ roots[p] \in Bag
      BY <3>1, <3>2, BoundAssumption DEF Cid, TypeOK
    <3>4. Support(roots'[p]) = {Len(ipfs) + 1}
      BY <3>1, <3>2, <3>3, AddNodeFacts DEF TypeOK
    <3>5. QED BY <3>1, <3>4
  <2>3. ASSUME NEW p \in Peer, NEW e \in Cid, Receive(p, e) \/ Lose(p, e)
        PROVE  \A q \in Peer : \A c \in network'[q] \ network[q] : c = Len(ipfs) + 1
    <3>1. network \in [Peer -> SUBSET Cid] /\ network' = [network EXCEPT ![p] = @ \ {e}]
      BY <1>1, <2>3 DEF Inductive, TypeOK, Receive, Lose
    <3>2. \A q \in Peer : network'[q] \subseteq network[q]
      BY <3>1
    <3>3. QED BY <3>2
  <2>4. ASSUME NEW p \in Peer, MainLoop(p) \/ MissDeadline(p) \/ Crash(p)
        PROVE  UNCHANGED network
    BY <2>4 DEF MainLoop, CheckUpdate, CheckUpdate_20Version, Merge, GetNode, GetNodes,
                RemoteAddNodeSuper, AddRemoteNode, EndMerge, MissDeadline, Crash
  <2>5. QED BY <1>1, <2>1, <2>2, <2>3, <2>4 DEF Next, vars
<1>2. QED BY <1>1, Invariance, PTL DEF Spec, PublishedOnce

-----------------------------------------------------------------------------
(* Root_nodes lists a root once.  Merge may add a node a second time, when  *)
(* something that depends on it was added first; then it is no root.        *)

Once(b) == \A c \in Cid : b[c] <= 1
Deps(c) == Support(ipfs[c].deps)

\* A node that waits on the stack is no root, although it may be known,
\* unless a call above it will take it out of the roots again.
OnceInFrame(p, i) ==
  /\ Once(stack[p][i].todo)
  /\ i > 1 =>
       /\ stack[p][i].cid \notin Support(roots[p]) \cup Support(stack[p][i - 1].todo)
       /\ Support(stack[p][i].todo) \subseteq Deps(stack[p][i].cid)
  /\ i > 2 => stack[p][i].cid \in Deps(stack[p][i - 1].cid)
  /\ \A j \in 2..(i - 1) : stack[p][i].cid < stack[p][j].cid
  /\ \A c \in Support(roots[p]) \cap Support(stack[p][i].todo) :
       \E j \in (i + 1)..Len(stack[p]) : c \in Deps(stack[p][j].cid)

OnceAt(p) == Once(roots[p]) /\ \A i \in 1..Len(stack[p]) : OnceInFrame(p, i)

RootsOnce ==
  /\ \A c \in Stored : Once(ipfs[c].deps)
  /\ \A p \in Peer : OnceAt(p)

LEMMA OnceFacts ==
  ASSUME NEW b \in Bag, NEW d \in Bag, NEW c \in Cid, Once(b)
  PROVE  /\ Once(Minus(b, d))
         /\ Support(Minus(b, d)) = Support(b) \ Support(d)
         /\ c \notin Support(b) \/ c \in Support(d) => Once(Plus(Minus(b, d), c))
<1>1. Minus(b, d) \in Bag
  BY MinusType
<1>2. Once(Minus(b, d))
  BY DEF Once, Minus, Bag
<1>3. Support(Minus(b, d)) = Support(b) \ Support(d)
  BY DEF Once, Minus, Bag, Support
<1>4. ASSUME c \notin Support(b) \/ c \in Support(d) PROVE Once(Plus(Minus(b, d), c))
  <2>1. Minus(b, d)[c] = 0
    BY <1>4 DEF Once, Minus, Bag, Support
  <2>2. QED BY <1>1, <1>2, <2>1 DEF Once, Plus, Bag
<1>5. QED BY <1>2, <1>3, <1>4

\* A replica whose stack and roots do not change.
LEMMA OnceUnchanged ==
  ASSUME Inductive, RootsOnce, NEW q \in Peer,
         stack'[q] = stack[q], roots'[q] = roots[q],
         \A c \in Stored : ipfs'[c] = ipfs[c]
  PROVE  OnceAt(q)'
<1>1. /\ stack[q] \in Seq(Frame) /\ Len(stack[q]) \in Nat /\ OnceAt(q)
      /\ \A i \in 1..Len(stack[q]) : i > 1 => stack[q][i].cid \in Stored
  BY DEF Inductive, CallsAt, TypeOK, RootsOnce
<1>2. \A i \in 1..Len(stack[q]) : i > 1 => Deps(stack[q][i].cid)' = Deps(stack[q][i].cid)
  BY <1>1 DEF Deps
<1>3. Once(roots'[q])
  BY <1>1 DEF OnceAt
<1>4. ASSUME NEW i \in 1..Len(stack[q]) PROVE OnceInFrame(q, i)'
  <2>1. OnceInFrame(q, i)
    BY <1>1 DEF OnceAt
  <2>2. \A j \in (i + 1)..Len(stack[q]) : j \in 1..Len(stack[q]) /\ j > 1
    BY <1>1
  <2>3. i > 2 => i - 1 \in 1..Len(stack[q]) /\ i - 1 > 1
    BY <1>1
  <2>4. QED BY <1>1, <1>2, <2>1, <2>2, <2>3 DEF OnceInFrame
<1>5. QED BY <1>3, <1>4 DEF OnceAt

\* The steps that leave the DAG and the stacks alone, or only mark a call.
LEMMA OnceQuiet ==
  ASSUME Inductive, RootsOnce, UNCHANGED <<ipfs, dagVars, stack>>
  PROVE  RootsOnce'
<1>1. \A q \in Peer : OnceAt(q)'
  BY OnceUnchanged DEF dagVars
<1>2. \A c \in Stored' : Once(ipfs'[c].deps)
  BY DEF RootsOnce, Stored, Once
<1>3. QED BY <1>1, <1>2 DEF RootsOnce

LEMMA OnceOthers ==
  ASSUME Inductive, RootsOnce, ipfs' = ipfs, NEW p \in Peer, OnceAt(p)',
         \A q \in Peer \ {p} : stack'[q] = stack[q] /\ roots'[q] = roots[q]
  PROVE  RootsOnce'
<1>1. \A q \in Peer : OnceAt(q)'
  BY OnceUnchanged
<1>2. \A c \in Stored' : Once(ipfs'[c].deps)
  BY DEF RootsOnce, Stored, Once
<1>3. QED BY <1>1, <1>2 DEF RootsOnce

LEMMA OnceMerge ==
  ASSUME Inductive, RootsOnce, NEW p \in Peer, Merge(p) PROVE RootsOnce'
<1> DEFINE f == [cid |-> MergeCall, val |-> MergeCall,
                 todo |-> AsBag(Unknown(p, batch[p])), fetched |-> FALSE]
<1>1. UNCHANGED <<ipfs, nodes, roots>> /\ stack' = [stack EXCEPT ![p] = <<f>>]
  BY DEF Merge, dagVars
<1>2. stack \in [Peer -> Seq(Frame)] /\ batch[p] \in SUBSET Stored /\ Stored \subseteq Cid
      /\ Support(roots[p]) \subseteq Known(p)
  BY InductiveFacts, StoredFacts DEF Inductive, OnlyStoredAt
<1>3. /\ Once(AsBag(Unknown(p, batch[p])))
      /\ Support(AsBag(Unknown(p, batch[p]))) = Unknown(p, batch[p])
  <2>1. Unknown(p, batch[p]) \in SUBSET Cid
    BY <1>2 DEF Unknown
  <2>2. ASSUME NEW S \in SUBSET Cid PROVE Once(AsBag(S))
    BY DEF Once, AsBag
  <2>3. QED BY <2>1, <2>2, AsBagFacts
<1>4. /\ stack'[p] = <<f>> /\ roots'[p] = roots[p]
      /\ \A q \in Peer \ {p} : stack'[q] = stack[q] /\ roots'[q] = roots[q]
  BY <1>1, <1>2
<1>5. OnceAt(p)'
  <2>1. Once(roots'[p])
    BY <1>4 DEF RootsOnce, OnceAt
  <2>2. Len(stack'[p]) = 1 /\ stack'[p][1].todo = AsBag(Unknown(p, batch[p]))
    BY <1>4
  <2>3. OnceInFrame(p, 1)'
    <3>1. Support(roots'[p]) \cap Support(stack'[p][1].todo) = {}
      BY <1>2, <1>3, <1>4, <2>2 DEF Unknown, IsKnown
    <3>2. QED BY <1>3, <2>2, <3>1 DEF OnceInFrame
  <2>4. QED BY <2>1, <2>2, <2>3 DEF OnceAt
<1>6. QED BY <1>1, <1>4, <1>5, OnceOthers

LEMMA OnceGetNodes ==
  ASSUME Inductive, RootsOnce, NEW p \in Peer, GetNodes(p) PROVE RootsOnce'
<1> DEFINE n == Len(stack[p])
           f == [stack[p][n] EXCEPT !.fetched = TRUE]
<1>1. UNCHANGED <<ipfs, nodes, roots>> /\ stack' = [stack EXCEPT ![p] = [stack[p] EXCEPT ![n] = f]]
      /\ ~SemaFree(p)
  BY DEF GetNodes, dagVars, Fetched
<1>2. /\ stack \in [Peer -> Seq(Frame)] /\ stack[p] \in Seq(Frame) /\ n \in Nat \ {0}
      /\ stack[p][n] \in Frame
  BY <1>1, TopFacts DEF Inductive, TypeOK
<1>3. f \in Frame /\ f.cid = stack[p][n].cid /\ f.todo = stack[p][n].todo
  BY <1>2 DEF Frame
<1>4. /\ Len(stack'[p]) = n
      /\ \A i \in 1..n : stack'[p][i].cid = stack[p][i].cid /\ stack'[p][i].todo = stack[p][i].todo
  <2>1. stack'[p] = [stack[p] EXCEPT ![n] = f]
    BY <1>1, <1>2
  <2> HIDE DEF f
  <2>2. QED BY <1>2, <1>3, <2>1, ReplaceTopFacts
<1>5. OnceAt(p)'
  <2>1. ASSUME NEW i \in 1..n PROVE OnceInFrame(p, i)'
    <3>1. OnceInFrame(p, i)
      BY <2>1 DEF RootsOnce, OnceAt
    <3>2. n \in Nat /\ (i > 1 => i - 1 \in 1..n) /\ \A j \in 2..(i - 1) : j \in 1..n
      BY <1>2, <2>1
    <3>3. \A j \in (i + 1)..n : j \in 1..n
      BY <1>2, <2>1
    <3>4. roots' = roots /\ ipfs' = ipfs /\ n = Len(stack[p])
      BY <1>1
    <3> HIDE DEF n
    <3>5. QED BY <1>4, <2>1, <3>1, <3>2, <3>3, <3>4 DEF OnceInFrame, Deps
  <2>2. Once(roots'[p])
    BY <1>1 DEF RootsOnce, OnceAt
  <2>3. QED BY <1>4, <2>1, <2>2 DEF OnceAt
<1>6. \A q \in Peer \ {p} : stack'[q] = stack[q] /\ roots'[q] = roots[q]
  BY <1>1, <1>2
<1>7. QED BY <1>1, <1>5, <1>6, OnceOthers

LEMMA OnceEndMerge ==
  ASSUME Inductive, RootsOnce, NEW p \in Peer, EndMerge(p) PROVE RootsOnce'
<1>1. /\ UNCHANGED <<ipfs, nodes, roots>> /\ stack' = [stack EXCEPT ![p] = <<>>]
      /\ stack \in [Peer -> Seq(Frame)]
  BY InductiveFacts DEF EndMerge, dagVars
<1>2. stack'[p] = <<>> /\ \A q \in Peer \ {p} : stack'[q] = stack[q] /\ roots'[q] = roots[q]
  BY <1>1
<1>3. OnceAt(p)'
  BY <1>1, <1>2 DEF OnceAt, RootsOnce
<1>4. QED BY <1>1, <1>2, <1>3, OnceOthers

LEMMA OnceUpdate ==
  ASSUME Inductive, RootsOnce, NEW p \in Peer, NEW op \in Op, Update(p, op) PROVE RootsOnce'
<1> DEFINE c == Len(ipfs) + 1
           new == [peer |-> p, op |-> op, deps |-> roots[p], past |-> Known(p)]
<1>1. /\ stack' = stack /\ stack[p] = <<>> /\ Len(ipfs) < MaxNodes
      /\ ipfs' = Append(ipfs, new) /\ AddNode(p, c, c, roots[p])
  BY DEF Update, SemaFree
<1>2. /\ ipfs \in Seq(Node) /\ Len(ipfs) \in Nat /\ roots[p] \in Bag /\ roots \in [Peer -> Bag]
      /\ c \in Cid /\ c \notin Stored
      /\ Support(roots[p]) \subseteq Stored
  BY <1>1, BoundAssumption, StoredFacts DEF Inductive, TypeOK, Cid, Stored, OnlyStoredAt
<1>3. /\ Len(ipfs') = c /\ ipfs'[c] = new /\ new.deps = roots[p]
      /\ \A d \in Stored : ipfs'[d] = ipfs[d]
  BY <1>1, <1>2, AppendProperties DEF Stored
<1>4. Once(roots[p]) /\ \A d \in Stored : Once(ipfs[d].deps)
  BY DEF RootsOnce, OnceAt
<1>5. \A d \in Stored' : Once(ipfs'[d].deps)
  <2>1. \A d \in Stored' : d \in Stored \/ d = c
    BY <1>2, <1>3 DEF Stored
  <2> HIDE DEF c, new
  <2>2. ASSUME NEW d \in Stored' PROVE Once(ipfs'[d].deps)
    <3>1. (ipfs'[d].deps = ipfs[d].deps /\ d \in Stored) \/ ipfs'[d].deps = roots[p]
      BY <1>3, <2>1
    <3>2. QED BY <1>4, <3>1
  <2>3. QED BY <2>2
<1>6. roots' = [roots EXCEPT ![p] = Plus(Minus(roots[p], roots[p]), c)]
  BY <1>1 DEF AddNode
<1>7. OnceAt(p)'
  <2>1. Once(roots'[p])
    <3>1. Once(Plus(Minus(roots[p], roots[p]), c))
      BY <1>2, <1>4, OnceFacts
    <3>2. QED BY <1>2, <1>6, <3>1
  <2>2. stack'[p] = <<>>
    BY <1>1
  <2>3. QED BY <2>1, <2>2 DEF OnceAt
<1>8. \A q \in Peer \ {p} : OnceAt(q)'
  <2>1. \A q \in Peer \ {p} : stack'[q] = stack[q] /\ roots'[q] = roots[q]
    BY <1>1, <1>2, <1>6
  <2>2. QED BY <1>3, <2>1, OnceUnchanged
<1>9. QED BY <1>5, <1>7, <1>8 DEF RootsOnce

\* RemoteAddNodeSuper is called with an identifier and its own node.
LEMMA PushedCall ==
  ASSUME Inductive, NEW p \in Peer, RemoteAddNodeSuper(p)
  PROVE  \E v \in Support(Top(p).todo) :
           /\ v \in Stored
           /\ stack'[p] = Append([stack[p] EXCEPT ![Len(stack[p])] = TakeNext(Top(p), v)],
                                 Call(p, v, v))
           /\ \A q \in Peer \ {p} : stack'[q] = stack[q]
<1>1. ~SemaFree(p) /\ TypeOK /\ stack \in [Peer -> Seq(Frame)]
  BY DEF RemoteAddNodeSuper, Inductive, TypeOK
<1>2. /\ Len(stack[p]) \in Nat \ {0} /\ Len(stack[p]) \in 1..Len(stack[p])
      /\ Top(p) = stack[p][Len(stack[p])]
  BY <1>1, TopFacts
<1>3. /\ CallsAt(p) /\ Stored \subseteq Cid /\ 0 \notin Stored
      /\ batch[p] \in SUBSET Cid /\ Support(Top(p).todo) \subseteq Stored
  BY <1>1, <1>2, InductiveFacts, StoredFacts DEF OnlyStoredAt, Stored
<1>4. Top(p).cid = MergeCall => Support(Top(p).todo) = batch[p]
  <2>1. Top(p).cid = MergeCall => Len(stack[p]) = 1
    <3>1. Len(stack[p]) > 1 => stack[p][Len(stack[p])].cid \in Stored
      BY <1>2, <1>3 DEF CallsAt
    <3>2. \A n \in Nat \ {0} : n = 1 \/ n > 1
      OBVIOUS
    <3>3. QED BY <1>2, <1>3, <3>1, <3>2 DEF MergeCall
  <2>2. Len(stack[p]) = 1 => Top(p).todo = AsBag(batch[p])
    BY <1>2, <1>3 DEF CallsAt
  <2>3. QED BY <1>3, <2>1, <2>2, AsBagFacts
<1>5. QED BY <1>1, <1>3, <1>4 DEF RemoteAddNodeSuper

\* A call for v: v is no root, and no more listed in the call below.
LEMMA OnceRemoteAddNodeSuper ==
  ASSUME Inductive, RootsOnce, NEW p \in Peer, RemoteAddNodeSuper(p) PROVE RootsOnce'
<1> DEFINE top == Top(p)
           n == Len(stack[p])
<1>1. UNCHANGED <<ipfs, nodes, roots>> /\ ~SemaFree(p) /\ TypeOK /\ stack \in [Peer -> Seq(Frame)]
  BY DEF RemoteAddNodeSuper, Inductive, dagVars, TypeOK
<1>2. /\ stack[p] \in Seq(Frame) /\ n \in Nat \ {0} /\ n \in 1..n
      /\ top \in Frame /\ top = stack[p][n] /\ \A i \in 1..n : stack[p][i] \in Frame
  BY <1>1, TopFacts
<1>3. PICK v \in Support(top.todo) :
        /\ v \in Stored
        /\ stack'[p] = Append([stack[p] EXCEPT ![n] = TakeNext(top, v)], Call(p, v, v))
        /\ \A q \in Peer \ {p} : stack'[q] = stack[q]
  BY <1>1, PushedCall DEF RemoteAddNodeSuper
<1> DEFINE f == TakeNext(top, v)
           g == Call(p, v, v)
<1>4. f \in Frame /\ g \in Frame /\ f.cid = top.cid /\ g.cid = v
  BY <1>2, <1>3, TakeNextFacts, CallFacts
<1>5. /\ Once(f.todo) /\ Support(f.todo) = Support(top.todo) \ {v}
  <2>1. v \in Cid /\ AsBag({v}) \in Bag /\ Support(AsBag({v})) = {v} /\ top.todo \in Bag
    BY <1>2, AsBagFacts DEF Support, Frame
  <2>2. Once(top.todo)
    BY <1>2 DEF RootsOnce, OnceAt, OnceInFrame
  <2>3. f.todo = Minus(top.todo, AsBag({v}))
    BY <1>2, <2>1, MinusType DEF TakeNext, Frame
  <2>4. QED BY <2>1, <2>2, <2>3, OnceFacts
<1>6. /\ Once(g.todo) /\ Support(g.todo) \subseteq Deps(v)
      /\ Support(g.todo) \cap Support(roots[p]) = {}
  <2>1. g.todo = [d \in Cid |-> IF IsKnown(p, d) THEN 0 ELSE ipfs[v].deps[d]]
    BY DEF Call
  <2>2. Once(ipfs[v].deps) /\ ipfs[v].deps \in Bag /\ Support(roots[p]) \subseteq Known(p)
    BY <1>1, <1>3, StoredFacts DEF RootsOnce, Inductive, OnlyStoredAt
  <2>3. Once(g.todo)
    BY <2>1, <2>2 DEF Once
  <2>4. Support(g.todo) \subseteq Deps(v)
    BY <2>1, <2>2 DEF Support, Bag, Deps
  <2>5. Support(g.todo) \cap Known(p) = {}
    BY <2>1 DEF Support, IsKnown
  <2>6. QED BY <2>2, <2>3, <2>4, <2>5
<1>7. /\ Len(stack'[p]) = n + 1
      /\ stack'[p][n] = f /\ stack'[p][n + 1] = g
      /\ \A i \in 1..n : i # n => stack'[p][i] = stack[p][i]
  <2> HIDE DEF f, g, top
  <2>1. QED BY <1>2, <1>3, <1>4, PushFacts DEF f, g
<1> HIDE DEF f, g
<1>8. \A i \in 1..n : OnceInFrame(p, i)
  BY DEF RootsOnce, OnceAt
<1>9. /\ v \notin Support(roots[p])
      /\ Support(top.todo) \cap Support(roots[p]) = {}
  BY <1>2, <1>3, <1>8 DEF OnceInFrame
<1>10. n > 1 => v \in Deps(stack[p][n].cid)
  BY <1>2, <1>3, <1>8 DEF OnceInFrame
<1>11. \A j \in 2..n : v < stack[p][j].cid
  <2>1. ASSUME n > 1 PROVE v < stack[p][n].cid
    <3>1. stack[p][n].cid \in Stored
      BY <1>2, <2>1, InductiveFacts DEF CallsAt
    <3>2. \A c \in Stored : Deps(c) \subseteq 1..(c - 1)
      BY DEF Inductive, DependenciesCoverPast, Deps
    <3>3. Stored \subseteq Nat
      BY <1>1, StoredFacts DEF Stored
    <3>4. v \in Deps(stack[p][n].cid) /\ stack[p][n].cid \in Nat
      BY <1>10, <2>1, <3>1, <3>3
    <3> HIDE DEF n
    <3>5. QED BY <3>1, <3>2, <3>4
  <2>2. \A j \in 1..n : stack[p][j].cid \in Nat
    <3>1. \A j \in 1..n : stack[p][j] \in Frame
      BY <1>2
    <3>2. \A x \in Frame : x.cid \in Nat
      BY BoundAssumption DEF Frame
    <3> HIDE DEF n
    <3>3. QED BY <3>1, <3>2
  <2>3. \A j \in 2..(n - 1) : stack[p][n].cid < stack[p][j].cid
    BY <1>2, <1>8 DEF OnceInFrame
  <2>4. v \in Nat /\ n \in Nat
    BY <1>1, <1>2, <1>3, StoredFacts DEF Stored
  <2> HIDE DEF n
  <2>5. QED BY <2>1, <2>2, <2>3, <2>4
<1>12. \A j \in 1..n : /\ stack'[p][j].cid = stack[p][j].cid
                       /\ Support(stack'[p][j].todo) \subseteq Support(stack[p][j].todo)
                       /\ Once(stack'[p][j].todo)
  BY <1>2, <1>4, <1>5, <1>7, <1>8 DEF OnceInFrame
<1>13. PICK m \in Nat : m = n
  BY <1>2
<1>14. roots' = roots /\ ipfs' = ipfs /\ Len(stack'[p]) = m + 1 /\ m \in Nat /\ m = Len(stack[p]) /\ n = m
  BY <1>1, <1>2, <1>7, <1>13
<1> HIDE DEF n
<1>15. ASSUME NEW i \in 1..m PROVE OnceInFrame(p, i)'
  <2>1. OnceInFrame(p, i) /\ (i > 1 => i - 1 \in 1..m)
    BY <1>8, <1>14
  <2>2. \A j \in (i + 1)..m : j \in 1..m /\ j \in (i + 1)..(m + 1)
    BY <1>14
  <2>3. \A j \in 2..(i - 1) : j \in 1..m
    BY <1>14
  <2>4. ASSUME NEW c \in Support(roots[p]) \cap Support(stack'[p][i].todo)
        PROVE  \E j \in (i + 1)..(m + 1) : c \in Deps(stack'[p][j].cid)
    BY <1>12, <1>14, <2>1, <2>2 DEF OnceInFrame
  <2>5. \A c \in Support(roots'[p]) \cap Support(stack'[p][i].todo) :
          \E j \in (i + 1)..Len(stack'[p]) : c \in Deps(stack[p][j].cid)'
    BY <1>14, <2>4 DEF Deps
  <2>6. \A j \in 2..(i - 1) : stack'[p][i].cid < stack'[p][j].cid
    BY <1>12, <1>14, <2>1, <2>3 DEF OnceInFrame
  <2>7. i > 2 => stack'[p][i].cid \in Deps(stack[p][i - 1].cid)'
    BY <1>12, <1>14, <2>1 DEF OnceInFrame, Deps
  <2>8. i > 1 =>
          /\ stack'[p][i].cid \notin Support(roots'[p]) \cup Support(stack'[p][i - 1].todo)
          /\ Support(stack'[p][i].todo) \subseteq Deps(stack[p][i].cid)'
    BY <1>12, <1>14, <2>1 DEF OnceInFrame, Deps
  <2>9. Once(stack'[p][i].todo)
    BY <1>12, <1>14
  <2>10. QED BY <2>5, <2>6, <2>7, <2>8, <2>9 DEF OnceInFrame
<1>16. OnceInFrame(p, m + 1)'
  <2>1. /\ stack'[p][m + 1] = g /\ g.cid = v /\ Once(g.todo)
        /\ Support(g.todo) \subseteq Deps(v) /\ Support(g.todo) \cap Support(roots[p]) = {}
    BY <1>4, <1>6, <1>7, <1>14
  <2>2. stack'[p][m] = f /\ v \notin Support(f.todo) /\ m + 1 - 1 = m
    BY <1>5, <1>7, <1>14
  <2>3. \A j \in 2..m : v < stack'[p][j].cid
    BY <1>11, <1>12, <1>14
  <2>4. m > 1 => v \in Deps(stack'[p][m].cid)
    BY <1>10, <1>12, <1>14
  <2>5. Support(roots'[p]) \cap Support(stack'[p][m + 1].todo) = {}
    BY <1>14, <2>1
  <2>6. /\ stack'[p][m + 1].cid \notin Support(roots'[p]) \cup Support(stack'[p][m + 1 - 1].todo)
        /\ Support(stack'[p][m + 1].todo) \subseteq Deps(stack[p][m + 1].cid)'
    BY <1>9, <1>14, <2>1, <2>2 DEF Deps
  <2>7. m + 1 > 2 => stack'[p][m + 1].cid \in Deps(stack[p][m + 1 - 1].cid)'
    BY <1>14, <2>1, <2>2, <2>4 DEF Deps
  <2>8. \A j \in 2..(m + 1 - 1) : stack'[p][m + 1].cid < stack'[p][j].cid
    BY <2>1, <2>2, <2>3
  <2>9. QED BY <2>1, <2>5, <2>6, <2>7, <2>8 DEF OnceInFrame
<1>17. OnceAt(p)'
  <2>1. \A i \in 1..(m + 1) : i \in 1..m \/ i = m + 1
    BY <1>14
  <2>2. Once(roots[p])
    BY DEF RootsOnce, OnceAt
  <2>3. \A i \in 1..Len(stack'[p]) : OnceInFrame(p, i)'
    BY <1>14, <1>15, <1>16, <2>1
  <2>4. QED BY <1>14, <2>2, <2>3 DEF OnceAt
<1>18. QED BY <1>3, <1>14, <1>17, OnceOthers

\* A node added takes its dependencies out of the roots and is one itself; the
\* call below, if it is no Merge, is for a node that depends on it.
LEMMA OnceAddRemoteNode ==
  ASSUME Inductive, RootsOnce, NEW p \in Peer, AddRemoteNode(p) PROVE RootsOnce'
<1> DEFINE n == Len(stack[p])
           c == Top(p).cid
<1>1. /\ ipfs' = ipfs /\ ~SemaFree(p) /\ TypeOK /\ c # MergeCall
      /\ AddNode(p, c, Top(p).val, ipfs[Top(p).val].deps)
      /\ stack' = [stack EXCEPT ![p] = SubSeq(@, 1, Len(@) - 1)]
      /\ stack \in [Peer -> Seq(Frame)] /\ roots \in [Peer -> Bag]
  BY DEF AddRemoteNode, Inductive, TypeOK
<1>2. /\ stack[p] \in Seq(Frame) /\ n \in Nat \ {0} /\ n \in 1..n
      /\ c = stack[p][n].cid /\ Top(p).val = stack[p][n].val
  BY <1>1, TopFacts
<1>3. n > 1 /\ c \in Stored /\ Top(p).val = c
  BY <1>1, <1>2, InductiveFacts DEF CallsAt
<1>4. roots' = [roots EXCEPT ![p] = Plus(Minus(roots[p], ipfs[c].deps), c)]
  BY <1>1, <1>3 DEF AddNode
<1>5. \A i \in 1..n : OnceInFrame(p, i)
  BY DEF RootsOnce, OnceAt
<1>6. c \notin Support(roots[p])
  BY <1>2, <1>3, <1>5 DEF OnceInFrame
<1>7. /\ Once(roots'[p])
      /\ Support(roots'[p]) = (Support(roots[p]) \ Deps(c)) \cup {c}
  <2>1. ipfs[c].deps \in Bag /\ c \in Cid /\ roots[p] \in Bag /\ Once(roots[p])
    BY <1>1, <1>3, StoredFacts DEF RootsOnce, OnceAt
  <2>2. roots'[p] = Plus(Minus(roots[p], ipfs[c].deps), c)
    BY <1>1, <1>4
  <2> HIDE DEF c
  <2>3. Minus(roots[p], ipfs[c].deps) \in Bag
    BY <2>1, MinusType
  <2>4. Support(roots'[p]) = Support(Minus(roots[p], ipfs[c].deps)) \cup {c}
    BY <2>1, <2>2, <2>3 DEF Support, Plus, Bag
  <2>5. QED BY <1>6, <2>1, <2>2, <2>4, OnceFacts DEF Deps
<1>8. Len(stack'[p]) = n - 1 /\ \A i \in 1..(n - 1) : stack'[p][i] = stack[p][i]
  <2>1. stack'[p] = SubSeq(stack[p], 1, Len(stack[p]) - 1)
    BY <1>1
  <2>2. QED BY <1>2, <2>1, PopFacts
<1>9. n \in Nat /\ n = Len(stack[p])
  BY <1>2
<1> HIDE DEF n, c
<1>10. ASSUME NEW i \in 1..(n - 1) PROVE OnceInFrame(p, i)'
  <2>1. OnceInFrame(p, i) /\ OnceInFrame(p, n) /\ i \in 1..n
    BY <1>2, <1>5, <1>9
  <2>2. (i > 1 => i - 1 \in 1..(n - 1)) /\ \A j \in 2..(i - 1) : j \in 1..(n - 1)
    BY <1>9
  <2>3. i > 1 => stack[p][i].cid # c
    <3>1. i > 1 => i \in 2..(n - 1)
      BY <1>9
    <3>2. i > 1 => c < stack[p][i].cid
      BY <1>2, <2>1, <3>1 DEF OnceInFrame
    <3>3. c \in Nat
      BY <1>1, <1>3, StoredFacts DEF Stored
    <3>4. QED BY <3>2, <3>3
  <2>4. ASSUME NEW x \in Support(roots'[p]) \cap Support(stack[p][i].todo)
        PROVE  \E j \in (i + 1)..(n - 1) : x \in Deps(stack[p][j].cid)
    <3>1. CASE x = c
      <4>1. i # n - 1
        BY <1>2, <1>3, <1>9, <2>1, <2>4, <3>1 DEF OnceInFrame
      <4>2. n > 2 /\ n - 1 \in (i + 1)..(n - 1)
        BY <1>9, <4>1
      <4>3. c \in Deps(stack[p][n - 1].cid)
        BY <1>2, <2>1, <4>2 DEF OnceInFrame
      <4>4. QED BY <3>1, <4>2, <4>3
    <3>2. CASE x # c
      <4>1. x \in Support(roots[p]) /\ x \notin Deps(c)
        BY <1>7, <2>4, <3>2
      <4>2. PICK j \in (i + 1)..n : x \in Deps(stack[p][j].cid)
        BY <1>9, <2>1, <2>4, <4>1 DEF OnceInFrame
      <4>3. j # n
        BY <1>2, <4>1, <4>2
      <4>4. j \in (i + 1)..(n - 1)
        BY <1>9, <4>2, <4>3
      <4>5. QED BY <4>2, <4>4
    <3>3. QED BY <3>1, <3>2
  <2>5. \A j \in (i + 1)..(n - 1) : j \in 1..(n - 1)
    BY <1>9
  <2>6. /\ stack'[p][i] = stack[p][i]
        /\ \A j \in 1..(n - 1) : stack'[p][j] = stack[p][j]
    BY <1>8
  <2>7. \A x \in Support(roots'[p]) \cap Support(stack'[p][i].todo) :
          \E j \in (i + 1)..Len(stack'[p]) : x \in Deps(stack[p][j].cid)'
    BY <1>1, <1>8, <2>4, <2>5, <2>6 DEF Deps
  <2>8. \A j \in 2..(i - 1) : stack'[p][i].cid < stack'[p][j].cid
    BY <2>1, <2>2, <2>6 DEF OnceInFrame
  <2>9. i > 2 => stack'[p][i].cid \in Deps(stack[p][i - 1].cid)'
    <3> SUFFICES ASSUME i > 2 PROVE stack'[p][i].cid \in Deps(stack[p][i - 1].cid)'
      OBVIOUS
    <3>1. i - 1 \in 1..(n - 1)
      BY <1>9, <2>2
    <3>2. stack'[p][i - 1] = stack[p][i - 1]
      BY <2>6, <3>1
    <3>3. stack[p][i].cid \in Deps(stack[p][i - 1].cid)
      BY <2>1 DEF OnceInFrame
    <3>4. QED BY <1>1, <2>6, <3>2, <3>3 DEF Deps
  <2>10. i > 1 =>
          /\ stack'[p][i].cid \notin Support(roots'[p]) \cup Support(stack'[p][i - 1].todo)
          /\ Support(stack'[p][i].todo) \subseteq Deps(stack[p][i].cid)'
    BY <1>1, <1>7, <2>1, <2>2, <2>3, <2>6 DEF OnceInFrame, Deps
  <2>11. Once(stack'[p][i].todo)
    BY <2>1, <2>6 DEF OnceInFrame
  <2>12. QED BY <2>7, <2>8, <2>9, <2>10, <2>11 DEF OnceInFrame
<1>11. OnceAt(p)'
  BY <1>7, <1>8, <1>10 DEF OnceAt
<1>12. \A q \in Peer \ {p} : stack'[q] = stack[q] /\ roots'[q] = roots[q]
  BY <1>1, <1>4
<1>13. QED BY <1>1, <1>11, <1>12, OnceOthers

LEMMA OnceInit == Init => RootsOnce
<1> SUFFICES ASSUME Init PROVE RootsOnce
  OBVIOUS
<1>1. Once(EmptyBag) /\ Once(AsBag({1}))
  BY DEF Once, EmptyBag, AsBag
<1>2. Stored = {1} /\ ipfs[1].deps = EmptyBag
  BY DEF Init, Stored
<1>3. ASSUME NEW p \in Peer PROVE OnceAt(p)
  <2>1. stack[p] = <<>> /\ (roots[p] = AsBag({1}) \/ roots[p] = EmptyBag)
    BY DEF Init
  <2>2. QED BY <1>1, <2>1 DEF OnceAt
<1>4. QED BY <1>1, <1>2, <1>3 DEF RootsOnce

LEMMA OnceNext == Inductive /\ RootsOnce /\ [Next]_vars => RootsOnce'
<1> SUFFICES ASSUME Inductive, RootsOnce, [Next]_vars PROVE RootsOnce'
  OBVIOUS
<1>1. CASE UNCHANGED <<ipfs, dagVars, stack>>
  BY <1>1, OnceQuiet
<1>2. CASE UNCHANGED vars
  BY <1>1, <1>2 DEF vars, dagVars
<1>3. ASSUME NEW p \in Peer, NEW op \in Op, Update(p, op) PROVE RootsOnce'
  BY <1>3, OnceUpdate
<1>4. ASSUME NEW p \in Peer,
             \/ \E c \in Cid : Receive(p, c) \/ Lose(p, c)
             \/ CheckUpdate(p) \/ CheckUpdate_20Version(p)
             \/ \E c \in Cid : GetNode(p, c)
             \/ MissDeadline(p) \/ Crash(p)
      PROVE  RootsOnce'
  BY <1>1, <1>4 DEF Receive, Lose, CheckUpdate, CheckUpdate_20Version, GetNode,
                  MissDeadline, Crash
<1>5. ASSUME NEW p \in Peer,
             Merge(p) \/ GetNodes(p) \/ RemoteAddNodeSuper(p) \/ AddRemoteNode(p) \/ EndMerge(p)
      PROVE  RootsOnce'
  BY <1>5, OnceMerge, OnceGetNodes, OnceRemoteAddNodeSuper, OnceAddRemoteNode, OnceEndMerge
<1>6. QED BY <1>2, <1>3, <1>4, <1>5 DEF Next, MainLoop

\* Root_nodes never lists a root twice, so that RemoveRoot_node, which removes
\* one occurrence, removes the root.
THEOREM RootsAreDistinct == Spec => []RootsDistinct
<1>1. RootsOnce => RootsDistinct
  BY DEF RootsOnce, OnceAt, Once, RootsDistinct
<1>2. QED BY <1>1, OnceInit, OnceNext, Invariance, PTL DEF Spec

-----------------------------------------------------------------------------
(* The layer implements causal broadcast.                                  *)

pastBar == [c \in Stored |-> ipfs[c].past]
knownBar == [p \in Peer |-> Known(p)]

LEMMA PastOfSequence ==
  ASSUME NEW s \in Seq(Node), NEW f, f = [c \in 1..Len(s) |-> s[c].past]
  PROVE  f \in Seq(SUBSET Cid) /\ Len(f) = Len(s)
<1> DEFINE n == Len(s)
<1>1. n \in Nat /\ \A i \in 1..n : s[i].past \in SUBSET Cid
  <2>1. Len(s) \in Nat /\ \A i \in 1..Len(s) : s[i] \in Node
    BY LenProperties, ElementOfSeq
  <2>2. QED BY <2>1 DEF Node
<1> HIDE DEF n
<1>2. f \in [1..n -> SUBSET Cid]
  BY <1>1 DEF n
<1>3. f \in Seq(SUBSET Cid)
  BY <1>1, <1>2, SeqDef
<1>4. Len(f) = n
  BY <1>1, <1>2, <1>3, LenProperties
<1>5. QED BY <1>3, <1>4 DEF n

LEMMA PastIsSequence ==
  /\ TypeOK => pastBar \in Seq(SUBSET Cid) /\ Len(pastBar) = Len(ipfs)
  /\ TypeOK' => pastBar' \in Seq(SUBSET Cid) /\ Len(pastBar') = Len(ipfs')
BY PastOfSequence DEF TypeOK, pastBar, Stored

LEMMA InitRefines == Init => CB!Init
<1> SUFFICES ASSUME Init PROVE CB!Init
  OBVIOUS
<1>1. Stored = {1} /\ ipfs[1].past = {}
  BY DEF Init, Stored
<1>2. pastBar = << {} >>
  <2>1. TypeOK
    BY InitInductive DEF Inductive
  <2>2. pastBar \in Seq(SUBSET Cid) /\ Len(pastBar) = 1
    BY <2>1, PastIsSequence DEF Init
  <2>3. pastBar[1] = {}
    BY <1>1 DEF pastBar
  <2> HIDE DEF pastBar
  <2>4. QED BY <2>2, <2>3
<1>3. knownBar = [p \in Peer |-> IF p = Bootstrap THEN {1} ELSE {}]
  <2>1. ASSUME NEW p \in Peer PROVE Known(p) = IF p = Bootstrap THEN {1} ELSE {}
    <3>1. CASE p = Bootstrap
      <4>1. nodes[p] = << [cid |-> 1, val |-> 1] >>
        BY <3>1 DEF Init
      <4>2. QED BY <3>1, <4>1 DEF Known
    <3>2. CASE p # Bootstrap
      <4>1. nodes[p] = <<>>
        BY <3>2 DEF Init
      <4>2. QED BY <3>2, <4>1 DEF Known
    <3>3. QED BY <3>1, <3>2
  <2>2. QED BY <2>1 DEF knownBar
<1>4. QED BY <1>2, <1>3 DEF CB!Init, pastBar, knownBar

LEMMA UpdateRefines ==
  ASSUME Inductive, NEW p \in Peer, NEW op \in Op, Update(p, op)
  PROVE  CB!Write(p)
<1> DEFINE c == Len(ipfs) + 1
           new == [peer |-> p, op |-> op, deps |-> roots[p], past |-> Known(p)]
<1>1. /\ TypeOK /\ TypeOK' /\ Len(ipfs) < MaxNodes
      /\ ipfs' = Append(ipfs, new) /\ AddNode(p, c, c, roots[p])
  BY UpdateStep DEF Update, Inductive
<1>2. Len(ipfs) \in Nat /\ Stored = 1..Len(ipfs) /\ c \in Cid /\ roots[p] \in Bag
      /\ Known(p) \in SUBSET Cid
  BY <1>1, BoundAssumption, StoredFacts, InductiveFacts
     DEF Cid, Stored, TypeOK, OnlyStoredAt
<1>3. /\ Known(p)' = Known(p) \cup {c}
      /\ \A q \in Peer \ {p} : Known(q)' = Known(q)
  BY <1>1, <1>2, AddNodeFacts DEF TypeOK
<1>4. knownBar' = [knownBar EXCEPT ![p] = @ \cup {c}]
  BY <1>3 DEF knownBar
<1>5. new \in Node /\ new.past = Known(p)
  BY <1>2 DEF Node
<1> HIDE DEF new
<1>6. Len(ipfs') = c /\ ipfs'[c] = new /\ (\A d \in Stored : ipfs'[d] = ipfs[d])
      /\ Stored' = 1..c
  BY <1>1, <1>2, <1>5, AppendFacts DEF TypeOK, Stored
<1>7. pastBar' = Append(pastBar, Known(p))
  <2>1. /\ pastBar \in Seq(SUBSET Cid) /\ Len(pastBar) = Len(ipfs)
        /\ pastBar' \in Seq(SUBSET Cid) /\ Len(pastBar') = c
    BY <1>1, <1>6, PastIsSequence
  <2>2. /\ Append(pastBar, Known(p)) \in Seq(SUBSET Cid)
        /\ Len(Append(pastBar, Known(p))) = c
        /\ Append(pastBar, Known(p))[c] = Known(p)
        /\ \A i \in 1..Len(ipfs) : Append(pastBar, Known(p))[i] = pastBar[i]
    BY <1>2, <2>1, AppendFacts
  <2>3. pastBar'[c] = Known(p) /\ \A i \in 1..Len(ipfs) : pastBar'[i] = pastBar[i]
    BY <1>2, <1>5, <1>6 DEF pastBar
  <2>4. \A i \in 1..c : pastBar'[i] = Append(pastBar, Known(p))[i]
    BY <1>2, <2>2, <2>3
  <2>5. QED BY <2>1, <2>2, <2>4, SeqEqual
<1>8. Len(pastBar) + 1 = c
  BY <1>1, PastIsSequence
<1>9. QED BY <1>4, <1>7, <1>8 DEF CB!Write, pastBar, knownBar

LEMMA AddRemoteNodeRefines ==
  ASSUME Inductive, NEW p \in Peer, AddRemoteNode(p)
  PROVE  (\E c \in 1..Len(pastBar) : CB!Deliver(p, c)) \/ UNCHANGED CB!vars
<1> DEFINE c == Top(p).cid
<1>1. /\ ipfs' = ipfs /\ TypeOK /\ Inductive' /\ ~SemaFree(p) /\ c # MergeCall
      /\ AddNode(p, c, Top(p).val, ipfs[Top(p).val].deps)
  BY AddRemoteNodeStep DEF AddRemoteNode, Inductive
<1>2. c \in Stored /\ Top(p).val = c
  <2>1. CallsAt(p) /\ Len(stack[p]) \in Nat \ {0} /\ Top(p) = stack[p][Len(stack[p])]
    BY <1>1, TopFacts, InductiveFacts
  <2>2. QED BY <1>1, <2>1 DEF CallsAt
<1>3. Stored \subseteq Cid /\ ipfs[c].deps \in Bag /\ Stored' = Stored
      /\ Stored = 1..Len(ipfs) /\ Len(ipfs) \in Nat /\ c \notin ipfs[c].past
  <2>1. Stored \subseteq Cid /\ ipfs[c].deps \in Bag /\ Stored' = Stored
        /\ Stored = 1..Len(ipfs) /\ Len(ipfs) \in Nat
    BY <1>1, <1>2, StoredFacts DEF Stored
  <2>2. ipfs[c].past \subseteq 1..(c - 1)
    BY <1>2 DEF Inductive, DependenciesCoverPast
  <2>3. QED BY <1>2, <2>1, <2>2
<1>4. /\ Known(p)' = Known(p) \cup {c}
      /\ \A q \in Peer \ {p} : Known(q)' = Known(q)
  BY <1>1, <1>2, <1>3, AddNodeFacts DEF TypeOK
<1>5. knownBar' = [knownBar EXCEPT ![p] = @ \cup {c}] /\ knownBar[p] = Known(p)
  BY <1>4 DEF knownBar
<1>6. pastBar' = pastBar /\ pastBar[c] = ipfs[c].past /\ c \in 1..Len(pastBar)
  BY <1>1, <1>2, <1>3, PastIsSequence DEF pastBar
<1>7. ipfs[c].past \subseteq Known(p)
  BY <1>1, <1>3, <1>4 DEF Inductive, CausalHistory
<1>8. CASE c \in Known(p)
  <2>1. knownBar' = knownBar
    BY <1>4, <1>8 DEF knownBar
  <2>2. QED BY <1>6, <2>1 DEF CB!vars, pastBar, knownBar
<1>9. CASE c \notin Known(p)
  <2>1. CB!Deliver(p, c)
    BY <1>5, <1>6, <1>7, <1>9 DEF CB!Deliver, pastBar, knownBar
  <2>2. QED BY <1>6, <2>1
<1>10. QED BY <1>8, <1>9

\* Every behaviour of the layer is one of causal broadcast: an update writes,
\* the end of RemoteAddNodeSuper delivers, the rest is invisible.
THEOREM Refinement == Spec => CausalBroadcastSpec
<1>1. ASSUME Inductive, [Next]_vars PROVE [CB!Next]_(CB!vars)
  <2>1. ASSUME ipfs' = ipfs, nodes' = nodes PROVE UNCHANGED CB!vars
    BY <2>1 DEF CB!vars, Stored, Known
  <2>2. ASSUME NEW p \in Peer, NEW op \in Op, Update(p, op) PROVE CB!Next
    BY <1>1, <2>2, UpdateRefines DEF CB!Next
  <2>3. ASSUME NEW p \in Peer, AddRemoteNode(p) PROVE [CB!Next]_(CB!vars)
    BY <1>1, <2>3, AddRemoteNodeRefines DEF CB!Next, pastBar
  <2>4. ASSUME NEW p \in Peer, MainLoop(p), ~AddRemoteNode(p)
        PROVE  ipfs' = ipfs /\ nodes' = nodes
    BY <2>4 DEF MainLoop, CheckUpdate, CheckUpdate_20Version, Merge, GetNode, GetNodes,
                RemoteAddNodeSuper, EndMerge, dagVars
  <2>5. ASSUME NEW p \in Peer,
               MissDeadline(p) \/ Crash(p) \/ \E c \in Cid : Receive(p, c) \/ Lose(p, c)
        PROVE  ipfs' = ipfs /\ nodes' = nodes
    BY <2>5 DEF MissDeadline, Crash, Receive, Lose, dagVars
  <2>6. CASE UNCHANGED vars
    BY <2>1, <2>6 DEF vars
  <2>7. QED BY <1>1, <2>1, <2>2, <2>3, <2>4, <2>5, <2>6 DEF Next
<1>2. QED BY <1>1, InitRefines, Invariance, PTL DEF Spec, CausalBroadcastSpec, CB!Spec
-----------------------------------------------------------------------------
(* The 2P-Set read out of the Merkle-DAG.                                  *)

\* Every identifier is kept with its own content, so what is replayed depends
\* on the nodes known and on nothing else.
LEMMA ReplayedIsKnown ==
  ASSUME Inductive, NEW p \in Peer, NEW nature
  PROVE  Replayed(p, nature) =
           {e \in Elem : \E c \in Known(p) : ipfs[c].op = [elem |-> e, nature |-> nature]}
<1>1. Known(p) = {nodes[p][i].val : i \in 1..Len(nodes[p])}
  BY DEF Inductive, IdentifierMatchesContent, Known
<1>2. QED BY <1>1 DEF Replayed

\* Replicas that incorporated the same nodes show the same set, whatever the
\* order of incorporation and however often a node was added.
THEOREM Convergence == Spec => []StrongConvergence
<1>1. ASSUME Inductive, NEW p \in Peer, NEW q \in Peer, Known(p) = Known(q)
      PROVE  Lookup(p) = Lookup(q)
  <2>1. ASSUME NEW nature PROVE Replayed(p, nature) = Replayed(q, nature)
    <3> DEFINE At(S) == {e \in Elem : \E c \in S : ipfs[c].op = [elem |-> e, nature |-> nature]}
    <3>1. Replayed(p, nature) = At(Known(p)) /\ Replayed(q, nature) = At(Known(q))
      BY <1>1, ReplayedIsKnown
    <3>2. QED BY <1>1, <3>1
  <2>2. QED BY <2>1 DEF Lookup, Added, Removed
<1>2. Inductive => StrongConvergence
  BY <1>1 DEF StrongConvergence
<1>3. QED BY <1>2, Invariance, PTL

\* A step forgets no node and changes none.
LEMMA NothingForgotten ==
  ASSUME Inductive, [Next]_vars, NEW p \in Peer
  PROVE  /\ Known(p) \subseteq Known(p)'
         /\ \A c \in Stored : ipfs'[c] = ipfs[c]
<1>1. TypeOK /\ Len(ipfs) \in Nat
  BY StoredFacts DEF Inductive
<1>2. CASE UNCHANGED <<ipfs, dagVars>>
  BY <1>2 DEF dagVars, Known
<1>3. ASSUME NEW q \in Peer, NEW op \in Op, Update(q, op)
      PROVE  /\ Known(p) \subseteq Known(p)'
             /\ \A c \in Stored : ipfs'[c] = ipfs[c]
  <2> DEFINE c == Len(ipfs) + 1
  <2>1. AddNode(q, c, c, roots[q]) /\ c \in Cid
    BY <1>1, <1>3, BoundAssumption DEF Update, Cid
  <2>2. Known(p)' = Known(p) \/ Known(p)' = Known(p) \cup {c}
    <3>1. roots[q] \in Bag
      BY <1>1 DEF TypeOK
    <3>2. QED BY <1>1, <2>1, <3>1, AddNodeFacts DEF TypeOK
  <2>3. \A d \in Stored : ipfs'[d] = ipfs[d]
    <3>1. ipfs \in Seq(Node)
      BY <1>1 DEF TypeOK
    <3>2. ipfs' = Append(ipfs, [peer |-> q, op |-> op, deps |-> roots[q], past |-> Known(q)])
      BY <1>3 DEF Update
    <3>3. QED BY <3>1, <3>2, AppendProperties DEF Stored
  <2>4. QED BY <2>2, <2>3
<1>4. ASSUME NEW q \in Peer, AddRemoteNode(q)
      PROVE  /\ Known(p) \subseteq Known(p)'
             /\ \A c \in Stored : ipfs'[c] = ipfs[c]
  <2> DEFINE c == Top(q).cid
  <2>1. ipfs' = ipfs
    BY <1>4 DEF AddRemoteNode
  <2>2. nodes'[q] = Append(nodes[q], [cid |-> c, val |-> Top(q).val])
        /\ \A r \in Peer \ {q} : nodes'[r] = nodes[r]
    BY <1>1, <1>4 DEF AddRemoteNode, AddNode, TypeOK
  <2>3. CASE p # q
    BY <2>1, <2>2, <2>3 DEF Known
  <2>4. CASE p = q
    <3>1. nodes[q] \in Seq(Entry)
      BY <1>1 DEF TypeOK
    <3>2. /\ Len(nodes'[q]) = Len(nodes[q]) + 1 /\ Len(nodes[q]) \in Nat
          /\ \A i \in 1..Len(nodes[q]) : nodes'[q][i] = nodes[q][i]
      BY <2>2, <3>1, AppendProperties
    <3>3. QED BY <2>1, <2>4, <3>2 DEF Known
  <2>5. QED BY <2>3, <2>4
<1>5. CASE UNCHANGED vars
  BY <1>2, <1>5 DEF vars, dagVars
<1>6. ASSUME NEW q \in Peer,
             \/ \E c \in Cid : Receive(q, c) \/ Lose(q, c)
             \/ CheckUpdate(q) \/ CheckUpdate_20Version(q) \/ Merge(q)
             \/ (\E c \in Cid : GetNode(q, c)) \/ GetNodes(q) \/ RemoteAddNodeSuper(q) \/ EndMerge(q)
             \/ MissDeadline(q) \/ Crash(q)
      PROVE  UNCHANGED <<ipfs, dagVars>>
  BY <1>6 DEF Receive, Lose, CheckUpdate, CheckUpdate_20Version, Merge, GetNode, GetNodes,
              RemoteAddNodeSuper, EndMerge, MissDeadline, Crash
<1>7. QED BY <1>2, <1>3, <1>4, <1>5, <1>6 DEF Next, MainLoop

\* Nothing that happens to a replica, however late or out of order, brings
\* back an element it has seen removed.
THEOREM RemovalIsFinal == Spec => RemovedForGood
<1>1. ASSUME Inductive, Inductive', [Next]_vars
      PROVE  \A p \in Peer : Removed(p) \cap Lookup(p)' = {}
  <2> SUFFICES ASSUME NEW p \in Peer PROVE Removed(p) \subseteq Removed(p)'
    BY DEF Lookup
  <2>1. Known(p) \subseteq Known(p)' /\ Known(p) \subseteq Stored
        /\ \A c \in Stored : ipfs'[c] = ipfs[c]
    BY <1>1, NothingForgotten DEF Inductive, OnlyStoredAt
  <2>2. Removed(p) = {e \in Elem : \E c \in Known(p) : ipfs[c].op = [elem |-> e, nature |-> "REMOVE"]}
    BY <1>1, ReplayedIsKnown DEF Removed
  <2>3. Removed(p)' =
          {e \in Elem : \E c \in Known(p)' : ipfs'[c].op = [elem |-> e, nature |-> "REMOVE"]}
    <3>1. Known(p)' = {nodes'[p][i].val : i \in 1..Len(nodes'[p])}
      BY <1>1 DEF Inductive, IdentifierMatchesContent, Known
    <3>2. QED BY <3>1 DEF Removed, Replayed
  <2>4. QED BY <2>1, <2>2, <2>3
<1>2. QED BY <1>1, Invariance, PTL DEF Spec, RemovedForGood
=============================================================================
