----------------------------- MODULE ClSetProofs -----------------------------
(***************************************************************************)
(* Proofs about ClSet: for any replicas and elements, and any value of the *)
(* bounds.  Both variants at once.                                         *)
(***************************************************************************)
EXTENDS ClSet, TLAPS

\* What its author knew was there before a node, and its author knows the node.
PastIsKnown ==
  \A c \in 1..Len(nodes) : /\ nodes[c].past \subseteq 1..(c - 1)
                           /\ c \in known[nodes[c].peer]

\* CLSet: a state that was sent is not ahead of its author's value.
StateSent ==
  ~DeltaBased => \A c \in 1..Len(nodes) :
    \A x \in DOMAIN nodes[c].state : nodes[c].state[x] <= value[nodes[c].peer][x]

\* CLSet: a replica has an entry, of length 0 perhaps, for every element in a
\* state it knows of.
EntriesKnown ==
  ~DeltaBased => \A p \in Peer : \A c \in known[p] : DOMAIN nodes[c].state \subseteq DOMAIN value[p]

\* CLSet: so has a state for every element in the states its author knew of.
EntriesSent ==
  ~DeltaBased => \A d \in 1..Len(nodes) : \A c \in nodes[d].past :
    DOMAIN nodes[c].state \subseteq DOMAIN nodes[d].state

ClSetInv ==
  /\ TypeOK /\ PastIsKnown /\ StateSent /\ EntriesKnown /\ EntriesSent
  /\ OwnStatesGrow /\ DeltaComplete

-----------------------------------------------------------------------------
(* Facts about the operators.                                              *)

LEMMA MapFacts ==
  ASSUME NEW m \in Map
  PROVE  DOMAIN m \subseteq Elem /\ m \in [DOMAIN m -> 0..MaxLength]
BY DEF Map

LEMMA MapIntro ==
  ASSUME NEW S \in SUBSET Elem, NEW m \in [S -> 0..MaxLength] PROVE m \in Map
BY DEF Map

LEMMA EmptyMapFacts == EmptyMap \in Map /\ DOMAIN EmptyMap = {}
<1>1. EmptyMap \in [{} -> 0..MaxLength] /\ DOMAIN EmptyMap = {}
  BY DEF EmptyMap
<1>2. QED BY <1>1, MapIntro

LEMMA OverFacts ==
  ASSUME NEW f, NEW g
  PROVE  /\ DOMAIN Over(f, g) = DOMAIN f \cup DOMAIN g
         /\ \A x \in DOMAIN f : Over(f, g)[x] = f[x]
         /\ \A x \in DOMAIN g \ DOMAIN f : Over(f, g)[x] = g[x]
BY DEF Over

LEMMA OverType ==
  ASSUME NEW f \in Map, NEW g \in Map PROVE Over(f, g) \in Map
<1>1. /\ DOMAIN f \subseteq Elem /\ f \in [DOMAIN f -> 0..MaxLength]
      /\ DOMAIN g \subseteq Elem /\ g \in [DOMAIN g -> 0..MaxLength]
  BY MapFacts
<1>2. Over(f, g) \in [DOMAIN f \cup DOMAIN g -> 0..MaxLength]
  BY <1>1 DEF Over
<1>3. QED BY <1>1, <1>2, MapIntro

LEMMA EntryType ==
  ASSUME NEW x \in Elem, NEW n \in 0..MaxLength
  PROVE  /\ [y \in {x} |-> n] \in Map
         /\ DOMAIN [y \in {x} |-> n] = {x}
         /\ [y \in {x} |-> n][x] = n
<1>1. [y \in {x} |-> n] \in [{x} -> 0..MaxLength]
  OBVIOUS
<1>2. QED BY <1>1, MapIntro

LEMMA AppendNode ==
  ASSUME NEW s \in Seq(Node), NEW e \in Node
  PROVE  /\ Append(s, e) \in Seq(Node)
         /\ Len(s) \in Nat /\ Len(Append(s, e)) = Len(s) + 1
         /\ Append(s, e)[Len(s) + 1] = e
         /\ \A c \in 1..Len(s) : Append(s, e)[c] = s[c]
OBVIOUS

\* An entry for x gives every other element its old length.
LEMMA EntryOver ==
  ASSUME NEW x \in Elem, NEW n \in 0..MaxLength, NEW m \in Map
  PROVE  LET over == Over([y \in {x} |-> n], m)
         IN  /\ over \in Map
             /\ DOMAIN over = DOMAIN m \cup {x}
             /\ over[x] = n
             /\ \A y \in DOMAIN m \ {x} : over[y] = m[y]
<1> DEFINE f == [y \in {x} |-> n]
<1>1. f \in Map /\ DOMAIN f = {x} /\ f[x] = n
  BY EntryType
<1> HIDE DEF f
<1>2. Over(f, m) \in Map
  BY <1>1, OverType
<1>3. /\ DOMAIN Over(f, m) = DOMAIN m \cup {x}
      /\ Over(f, m)[x] = n
      /\ \A y \in DOMAIN m \ {x} : Over(f, m)[y] = m[y]
  <2>1. /\ DOMAIN Over(f, m) = DOMAIN f \cup DOMAIN m
        /\ \A y \in DOMAIN f : Over(f, m)[y] = f[y]
        /\ \A y \in DOMAIN m \ DOMAIN f : Over(f, m)[y] = m[y]
    BY OverFacts
  <2>2. QED BY <1>1, <2>1
<1>4. QED BY <1>2, <1>3 DEF f

-----------------------------------------------------------------------------
(* Init.                                                                   *)

LEMMA ClInit == Init => ClSetInv
<1> SUFFICES ASSUME Init PROVE ClSetInv
  OBVIOUS
<1> DEFINE first == [x \in {InitialValue} |-> 1]
           initial == [p \in Peer |-> IF p = Bootstrap THEN first ELSE EmptyMap]
<1>1. first \in Map
  <2>1. InitialValue \in Elem /\ 1 \in 0..MaxLength
    BY ElemAssumption, BoundAssumption
  <2>2. QED BY <2>1, EntryType
<1>2. initial \in [Peer -> Map] /\ [p \in Peer |-> EmptyMap] \in [Peer -> Map]
  BY <1>1, EmptyMapFacts
<1>3. /\ variant \in Variant /\ value = initial
      /\ delta = IF DeltaBased THEN initial ELSE [p \in Peer |-> EmptyMap]
      /\ nodes = <<>> /\ Len(nodes) = 0 /\ nodes \in Seq(Node)
      /\ \A p \in Peer : known[p] = {}
  BY DEF Init
<1>4. known \in [Peer -> SUBSET (1..Len(nodes))] /\ network \in [Peer -> SUBSET (1..Len(nodes))]
  BY DEF Init
<1> HIDE DEF initial
<1>5. TypeOK
  BY <1>2, <1>3, <1>4 DEF TypeOK
<1>6. PastIsKnown /\ StateSent /\ EntriesSent /\ OwnStatesGrow
  BY <1>3 DEF PastIsKnown, StateSent, EntriesSent, OwnStatesGrow
<1>7. EntriesKnown
  BY <1>3 DEF EntriesKnown
<1>8. DeltaComplete
  BY <1>3 DEF DeltaComplete
<1>9. QED BY <1>5, <1>6, <1>7, <1>8 DEF ClSetInv

-----------------------------------------------------------------------------
(* A length is stored.                                                     *)

\* Add and Remove store no smaller length, and record it.
LEMMA AssignFacts ==
  ASSUME ClSetInv, NEW p \in Peer, NEW x \in Elem, Add(p, x) \/ Remove(p, x)
  PROVE  /\ UNCHANGED <<variant, nodes, known, network>>
         /\ value' \in [Peer -> Map] /\ delta' \in [Peer -> Map]
         /\ \A q \in Peer \ {p} : value'[q] = value[q] /\ delta'[q] = delta[q]
         /\ DOMAIN value'[p] = DOMAIN value[p] \cup {x}
         /\ \A y \in DOMAIN value[p] : value[p][y] <= value'[p][y]
         /\ \A y \in DOMAIN value[p] \ {x} : value'[p][y] = value[p][y]
         /\ DeltaBased => /\ DOMAIN delta'[p] = DOMAIN delta[p] \cup {x}
                          /\ delta'[p][x] = value'[p][x]
                          /\ \A y \in DOMAIN delta[p] \ {x} : delta'[p][y] = delta[p][y]
<1>1. value \in [Peer -> Map] /\ delta \in [Peer -> Map]
  BY DEF ClSetInv, TypeOK
<1>2. UNCHANGED <<variant, nodes, known, network>>
  BY DEF Add, Remove
<1>3. PICK n \in 0..MaxLength :
        /\ Assign(p, x, n)
        /\ x \in DOMAIN value[p] => value[p][x] <= n
  <2> DEFINE m == CausalLength(p, x)
  <2>1. m \in 0..MaxLength /\ (x \in DOMAIN value[p] => m = value[p][x])
    <3>1. value[p] \in [DOMAIN value[p] -> 0..MaxLength]
      BY <1>1, MapFacts
    <3>2. QED BY <3>1, BoundAssumption DEF CausalLength
  <2>2. CASE Add(p, x)
    <3>1. m < MaxLength /\ Assign(p, x, m + 1)
      BY <2>2 DEF Add
    <3> HIDE DEF m
    <3>2. m + 1 \in 0..MaxLength /\ m <= m + 1
      BY <2>1, <3>1, BoundAssumption
    <3>3. QED BY <2>1, <3>1, <3>2
  <2>3. CASE Remove(p, x)
    <3>1. /\ m < MaxLength /\ Assign(p, x, IF m % 2 = 1 THEN m + 1 ELSE 0)
          /\ x \in DOMAIN value[p] => m % 2 = 1
      BY <2>3 DEF Remove
    <3> HIDE DEF m
    <3>2. m + 1 \in 0..MaxLength /\ m <= m + 1 /\ 0 \in 0..MaxLength
      BY <2>1, <3>1, BoundAssumption
    <3>3. CASE m % 2 = 1
      BY <2>1, <3>1, <3>2, <3>3
    <3>4. CASE m % 2 # 1
      BY <2>1, <3>1, <3>2, <3>4
    <3>5. QED BY <3>3, <3>4
  <2>4. QED BY <2>2, <2>3
<1> DEFINE entry == [y \in {x} |-> n]
<1>4. /\ value' = [value EXCEPT ![p] = Over(entry, value[p])]
      /\ delta' = IF DeltaBased THEN [delta EXCEPT ![p] = Over(entry, delta[p])] ELSE delta
  BY <1>3 DEF Assign
<1>5. \A m \in Map : /\ Over(entry, m) \in Map
                     /\ DOMAIN Over(entry, m) = DOMAIN m \cup {x}
                     /\ Over(entry, m)[x] = n
                     /\ \A y \in DOMAIN m \ {x} : Over(entry, m)[y] = m[y]
  BY EntryOver
<1> HIDE DEF entry
<1>6. value' \in [Peer -> Map] /\ delta' \in [Peer -> Map]
  BY <1>1, <1>4, <1>5
<1>7. value'[p] = Over(entry, value[p]) /\ value[p] \in Map
  BY <1>1, <1>4
<1>8. \A y \in DOMAIN value[p] : value[p][y] \in Nat
  BY <1>7, MapFacts
<1>9. \A y \in DOMAIN value[p] : value[p][y] <= value'[p][y]
  <2> SUFFICES ASSUME NEW y \in DOMAIN value[p] PROVE value[p][y] <= value'[p][y]
    OBVIOUS
  <2>1. CASE y = x
    BY <1>3, <1>5, <1>7, <2>1
  <2>2. CASE y # x
    <3>1. value'[p][y] = value[p][y]
      BY <1>5, <1>7, <2>2
    <3>2. value[p][y] \in Nat
      BY <1>8
    <3>3. QED BY <3>1, <3>2
  <2>3. QED BY <2>1, <2>2
<1>10. DeltaBased => delta'[p] = Over(entry, delta[p]) /\ delta[p] \in Map
  BY <1>1, <1>4
<1>11. \A q \in Peer \ {p} : value'[q] = value[q] /\ delta'[q] = delta[q]
  BY <1>1, <1>4
<1>12. DeltaBased => /\ DOMAIN delta'[p] = DOMAIN delta[p] \cup {x}
                     /\ delta'[p][x] = value'[p][x]
                     /\ \A y \in DOMAIN delta[p] \ {x} : delta'[p][y] = delta[p][y]
  BY <1>5, <1>7, <1>10
<1>13. /\ DOMAIN value'[p] = DOMAIN value[p] \cup {x}
       /\ \A y \in DOMAIN value[p] \ {x} : value'[p][y] = value[p][y]
  BY <1>5, <1>7
<1>14. QED BY <1>2, <1>6, <1>9, <1>11, <1>12, <1>13

LEMMA AssignStep ==
  ASSUME ClSetInv, NEW p \in Peer, NEW x \in Elem, Add(p, x) \/ Remove(p, x)
  PROVE  ClSetInv'
<1>1. /\ TypeOK /\ PastIsKnown /\ StateSent /\ EntriesKnown
      /\ EntriesSent /\ OwnStatesGrow /\ DeltaComplete
  BY DEF ClSetInv
<1>2. /\ variant' = variant /\ nodes' = nodes /\ known' = known /\ network' = network
      /\ value' \in [Peer -> Map] /\ delta' \in [Peer -> Map]
      /\ \A q \in Peer \ {p} : value'[q] = value[q] /\ delta'[q] = delta[q]
      /\ DOMAIN value'[p] = DOMAIN value[p] \cup {x}
      /\ \A y \in DOMAIN value[p] : value[p][y] <= value'[p][y]
      /\ \A y \in DOMAIN value[p] \ {x} : value'[p][y] = value[p][y]
      /\ DeltaBased => /\ DOMAIN delta'[p] = DOMAIN delta[p] \cup {x}
                       /\ delta'[p][x] = value'[p][x]
                       /\ \A y \in DOMAIN delta[p] \ {x} : delta'[p][y] = delta[p][y]
  BY AssignFacts
<1>3. TypeOK'
  BY <1>1, <1>2 DEF TypeOK
<1>4. PastIsKnown' /\ EntriesSent' /\ OwnStatesGrow'
  BY <1>1, <1>2 DEF PastIsKnown, EntriesSent, OwnStatesGrow, DeltaBased
<1>5. \A q \in Peer : DOMAIN value[q] \subseteq DOMAIN value'[q]
  BY <1>2
<1>6. EntriesKnown'
  BY <1>1, <1>2, <1>5 DEF EntriesKnown, DeltaBased
<1>7. StateSent'
  <2> SUFFICES ASSUME ~DeltaBased, NEW c \in 1..Len(nodes), NEW y \in DOMAIN nodes[c].state
               PROVE  nodes[c].state[y] <= value'[nodes[c].peer][y]
    BY <1>2 DEF StateSent, DeltaBased
  <2>1. nodes[c].state[y] <= value[nodes[c].peer][y]
    BY <1>1 DEF StateSent
  <2>2. nodes[c] \in Node /\ c \in known[nodes[c].peer]
    BY <1>1 DEF TypeOK, PastIsKnown
  <2>3. nodes[c].peer \in Peer /\ nodes[c].state \in Map
    BY <2>2 DEF Node
  <2>4. y \in DOMAIN value[nodes[c].peer]
    BY <1>1, <2>2, <2>3 DEF EntriesKnown
  <2>5. CASE nodes[c].peer # p
    BY <1>2, <2>1, <2>3, <2>5
  <2>6. CASE nodes[c].peer = p
    <3>1. nodes[c].state[y] \in Nat
      BY <2>3, MapFacts
    <3>2. value[p][y] \in Nat /\ value'[p][y] \in Nat
      <4>1. value[p] \in Map /\ value'[p] \in Map /\ y \in DOMAIN value'[p]
        BY <1>1, <1>2, <2>4, <2>6 DEF TypeOK
      <4>2. QED BY <2>4, <2>6, <4>1, MapFacts
    <3>3. value[p][y] <= value'[p][y]
      BY <1>2, <2>4, <2>6
    <3>4. QED BY <2>1, <2>6, <3>1, <3>2, <3>3
  <2>7. QED BY <2>5, <2>6
<1>8. DeltaComplete'
  <2> SUFFICES ASSUME DeltaBased, NEW q \in Peer, NEW y \in DOMAIN value'[q]
               PROVE  LET Sent == {c \in known[q] : nodes[c].peer = q /\ y \in DOMAIN nodes[c].state}
                      IN  \/ y \in DOMAIN delta'[q] /\ delta'[q][y] = value'[q][y]
                          \/ /\ y \notin DOMAIN delta'[q]
                             /\ \E c \in Sent : /\ nodes[c].state[y] = value'[q][y]
                                                /\ \A d \in Sent : d <= c
    BY <1>2 DEF DeltaComplete, DeltaBased
  <2> DEFINE Sent == {c \in known[q] : nodes[c].peer = q /\ y \in DOMAIN nodes[c].state}
  <2>1. CASE q = p /\ y = x
    BY <1>2, <2>1
  <2>2. CASE ~(q = p /\ y = x)
    <3>1. /\ y \in DOMAIN value[q] /\ value'[q][y] = value[q][y]
          /\ (y \in DOMAIN delta'[q]) = (y \in DOMAIN delta[q])
          /\ y \in DOMAIN delta[q] => delta'[q][y] = delta[q][y]
      BY <1>2, <2>2
    <3>2. \/ y \in DOMAIN delta[q] /\ delta[q][y] = value[q][y]
          \/ /\ y \notin DOMAIN delta[q]
             /\ \E c \in Sent : /\ nodes[c].state[y] = value[q][y]
                                /\ \A d \in Sent : d <= c
      BY <1>1, <3>1 DEF DeltaComplete
    <3> HIDE DEF Sent
    <3>3. QED BY <3>1, <3>2 DEF Sent
  <2>3. QED BY <2>1, <2>2
<1>9. QED BY <1>3, <1>4, <1>6, <1>7, <1>8 DEF ClSetInv

-----------------------------------------------------------------------------
(* A node is sent.                                                         *)

LEMMA SendFacts ==
  ASSUME ClSetInv, NEW p \in Peer, NEW payload \in Map, Send(p, payload)
  PROVE  LET c == Len(nodes) + 1
         IN  /\ Len(nodes) \in Nat /\ Len(nodes') = c
             /\ nodes' \in Seq(Node)
             /\ nodes'[c] = [peer |-> p, state |-> payload, past |-> known[p]]
             /\ \A d \in 1..Len(nodes) : nodes'[d] = nodes[d] /\ nodes[d] \in Node
             /\ \A q \in Peer : known'[q] = IF q = p THEN known[p] \cup {c} ELSE known[q]
             /\ known' \in [Peer -> SUBSET (1..c)]
             /\ network' \in [Peer -> SUBSET (1..c)]
<1> DEFINE c == Len(nodes) + 1
           e == [peer |-> p, state |-> payload, past |-> known[p]]
<1>1. /\ nodes \in Seq(Node) /\ known \in [Peer -> SUBSET (1..Len(nodes))]
      /\ network \in [Peer -> SUBSET (1..Len(nodes))]
  BY DEF ClSetInv, TypeOK
<1>2. /\ c \in Cid /\ nodes' = Append(nodes, e)
      /\ known' = [known EXCEPT ![p] = @ \cup {c}]
      /\ network' = [q \in Peer |-> IF q = p THEN network[q] ELSE network[q] \cup {c}]
  BY DEF Send
<1>3. Len(nodes) \in Nat /\ c \in 1..c /\ 1..Len(nodes) \subseteq 1..c
  BY <1>1
<1>4. e \in Node
  <2>1. known[p] \subseteq Cid
    BY <1>1, <1>2, <1>3, BoundAssumption DEF Cid
  <2>2. QED BY <2>1 DEF Node
<1> HIDE DEF e
<1>5. /\ nodes' \in Seq(Node) /\ Len(nodes') = c /\ nodes'[c] = e
      /\ \A d \in 1..Len(nodes) : nodes'[d] = nodes[d]
  BY <1>1, <1>2, <1>4, AppendNode
<1>6. \A d \in 1..Len(nodes) : nodes[d] \in Node
  BY <1>1
<1> HIDE DEF c
<1>7. known' \in [Peer -> SUBSET (1..c)] /\ network' \in [Peer -> SUBSET (1..c)]
  BY <1>1, <1>2, <1>3
<1>8. \A q \in Peer : known'[q] = IF q = p THEN known[p] \cup {c} ELSE known[q]
  BY <1>1, <1>2
<1>9. QED BY <1>3, <1>5, <1>6, <1>7, <1>8 DEF c, e

LEMMA SendPast ==
  ASSUME ClSetInv, NEW p \in Peer, NEW payload \in Map, Send(p, payload)
  PROVE  PastIsKnown'
<1> DEFINE c == Len(nodes) + 1
<1>1. /\ Len(nodes) \in Nat /\ Len(nodes') = c
      /\ nodes'[c] = [peer |-> p, state |-> payload, past |-> known[p]]
      /\ \A d \in 1..Len(nodes) : nodes'[d] = nodes[d] /\ nodes[d] \in Node
      /\ \A q \in Peer : known'[q] = IF q = p THEN known[p] \cup {c} ELSE known[q]
  BY SendFacts
<1>2. PastIsKnown /\ known[p] \subseteq 1..Len(nodes)
  BY DEF ClSetInv, TypeOK
<1>3. c \in Nat /\ \A d \in 1..c : d \in 1..Len(nodes) \/ d = c
  BY <1>1
<1>4. 1..Len(nodes) = 1..(c - 1)
  BY <1>1
<1> HIDE DEF c
<1> SUFFICES ASSUME NEW d \in 1..c
             PROVE  nodes'[d].past \subseteq 1..(d - 1) /\ d \in known'[nodes'[d].peer]
  BY <1>1 DEF PastIsKnown
<1>5. CASE d = c
  <2>1. nodes'[d].past = known[p] /\ nodes'[d].peer = p /\ d \in known'[p]
    BY <1>1, <1>5
  <2>2. QED BY <1>2, <1>4, <1>5, <2>1
<1>6. CASE d \in 1..Len(nodes)
  <2>1. nodes'[d] = nodes[d] /\ nodes[d].peer \in Peer
    BY <1>1, <1>6 DEF Node
  <2>2. nodes[d].past \subseteq 1..(d - 1) /\ d \in known[nodes[d].peer]
    BY <1>2, <1>6 DEF PastIsKnown
  <2>3. QED BY <1>1, <2>1, <2>2
<1>7. QED BY <1>3, <1>5, <1>6

LEMMA SendStateStep == ASSUME ClSetInv, NEW p \in Peer, SendState(p) PROVE ClSetInv'
<1> DEFINE c == Len(nodes) + 1
<1>1. TypeOK /\ PastIsKnown /\ StateSent /\ EntriesKnown /\ EntriesSent /\ OwnStatesGrow
  BY DEF ClSetInv
<1>2. ~DeltaBased /\ Send(p, value[p]) /\ variant' = variant /\ value' = value /\ delta' = delta
  BY DEF SendState
<1>3. value[p] \in Map
  BY <1>1 DEF TypeOK
<1>4. /\ Len(nodes) \in Nat /\ Len(nodes') = c /\ nodes' \in Seq(Node)
      /\ nodes'[c] = [peer |-> p, state |-> value[p], past |-> known[p]]
      /\ \A d \in 1..Len(nodes) : nodes'[d] = nodes[d] /\ nodes[d] \in Node
      /\ \A q \in Peer : known'[q] = IF q = p THEN known[p] \cup {c} ELSE known[q]
      /\ known' \in [Peer -> SUBSET (1..c)] /\ network' \in [Peer -> SUBSET (1..c)]
  BY <1>2, <1>3, SendFacts
<1>5. TypeOK'
  BY <1>1, <1>2, <1>4 DEF TypeOK
<1>6. PastIsKnown'
  BY <1>2, <1>3, SendPast
<1>7. c \in Nat /\ \A d \in 1..c : d \in 1..Len(nodes) \/ d = c
  BY <1>4
<1>8. /\ nodes'[c].peer = p /\ nodes'[c].state = value[p] /\ nodes'[c].past = known[p]
      /\ known[p] \subseteq 1..Len(nodes)
  BY <1>1, <1>4 DEF TypeOK
<1>9. \A d \in 1..Len(nodes) : nodes[d].past \subseteq 1..Len(nodes)
  BY <1>1, <1>4 DEF PastIsKnown
<1>10. \A x \in DOMAIN value[p] : value[p][x] \in Nat
  BY <1>3, MapFacts
<1> HIDE DEF c
<1>11. StateSent'
  <2> SUFFICES ASSUME NEW d \in 1..c, NEW x \in DOMAIN nodes'[d].state
               PROVE  nodes'[d].state[x] <= value[nodes'[d].peer][x]
    BY <1>2, <1>4 DEF StateSent
  <2>1. CASE d = c
    BY <1>8, <1>10, <2>1
  <2>2. CASE d \in 1..Len(nodes)
    BY <1>1, <1>2, <1>4, <2>2 DEF StateSent
  <2>3. QED BY <1>7, <2>1, <2>2
<1>12. EntriesKnown'
  <2> SUFFICES ASSUME NEW q \in Peer, NEW d \in known'[q]
               PROVE  DOMAIN nodes'[d].state \subseteq DOMAIN value[q]
    BY <1>2 DEF EntriesKnown
  <2>1. CASE d = c /\ q = p
    BY <1>8, <2>1
  <2>2. CASE d \in known[q]
    <3>1. d \in 1..Len(nodes)
      BY <1>1, <2>2 DEF TypeOK
    <3>2. QED BY <1>1, <1>2, <1>4, <2>2, <3>1 DEF EntriesKnown
  <2>3. d \in known[q] \/ (d = c /\ q = p)
    BY <1>4
  <2>4. QED BY <2>1, <2>2, <2>3
<1>13. EntriesSent'
  <2> SUFFICES ASSUME NEW d \in 1..c, NEW b \in nodes'[d].past
               PROVE  DOMAIN nodes'[b].state \subseteq DOMAIN nodes'[d].state
    BY <1>2, <1>4 DEF EntriesSent
  <2>1. CASE d = c
    <3>1. b \in known[p] /\ b \in 1..Len(nodes) /\ nodes'[b] = nodes[b]
      BY <1>4, <1>8, <2>1
    <3>2. DOMAIN nodes[b].state \subseteq DOMAIN value[p]
      BY <1>1, <1>2, <3>1 DEF EntriesKnown
    <3>3. QED BY <1>8, <2>1, <3>1, <3>2
  <2>2. CASE d \in 1..Len(nodes)
    <3>1. nodes'[d] = nodes[d] /\ b \in nodes[d].past
      BY <1>4, <2>2
    <3>2. nodes'[b] = nodes[b]
      BY <1>4, <1>9, <2>2, <3>1
    <3>3. QED BY <1>1, <1>2, <2>2, <3>1, <3>2 DEF EntriesSent
  <2>3. QED BY <1>7, <2>1, <2>2
<1>14. OwnStatesGrow'
  <2> SUFFICES ASSUME NEW b \in 1..c, NEW d \in 1..c, b < d, nodes'[b].peer = nodes'[d].peer,
                      NEW x \in DOMAIN nodes'[b].state
               PROVE  x \in DOMAIN nodes'[d].state /\ nodes'[b].state[x] <= nodes'[d].state[x]
    BY <1>2, <1>4 DEF OwnStatesGrow
  <2>1. b \in 1..Len(nodes) /\ nodes'[b] = nodes[b]
    BY <1>4, <1>7
  <2>2. CASE d = c
    <3>1. nodes[b].peer = p /\ b \in known[p]
      BY <1>1, <1>8, <2>1, <2>2 DEF PastIsKnown
    <3>2. x \in DOMAIN value[p]
      BY <1>1, <1>2, <2>1, <3>1 DEF EntriesKnown
    <3>3. nodes[b].state[x] <= value[p][x]
      BY <1>1, <1>2, <2>1, <3>1 DEF StateSent
    <3>4. QED BY <1>8, <2>1, <2>2, <3>2, <3>3
  <2>3. CASE d \in 1..Len(nodes)
    <3>1. nodes'[d] = nodes[d]
      BY <1>4, <2>3
    <3>2. QED BY <1>1, <1>2, <2>1, <2>3, <3>1 DEF OwnStatesGrow
  <2>4. QED BY <1>7, <2>2, <2>3
<1>15. DeltaComplete'
  BY <1>2 DEF DeltaComplete, DeltaBased
<1>16. QED BY <1>5, <1>6, <1>11, <1>12, <1>13, <1>14, <1>15 DEF ClSetInv

LEMMA SendDeltaStep == ASSUME ClSetInv, NEW p \in Peer, SendDelta(p) PROVE ClSetInv'
<1> DEFINE c == Len(nodes) + 1
<1>1. TypeOK /\ PastIsKnown /\ DeltaComplete
  BY DEF ClSetInv
<1>2. /\ DeltaBased /\ Send(p, delta[p]) /\ variant' = variant /\ value' = value
      /\ delta' = [delta EXCEPT ![p] = EmptyMap]
  BY DEF SendDelta
<1>3. delta[p] \in Map /\ delta \in [Peer -> Map]
  BY <1>1 DEF TypeOK
<1>4. /\ Len(nodes) \in Nat /\ Len(nodes') = c /\ nodes' \in Seq(Node)
      /\ nodes'[c] = [peer |-> p, state |-> delta[p], past |-> known[p]]
      /\ \A d \in 1..Len(nodes) : nodes'[d] = nodes[d] /\ nodes[d] \in Node
      /\ \A q \in Peer : known'[q] = IF q = p THEN known[p] \cup {c} ELSE known[q]
      /\ known' \in [Peer -> SUBSET (1..c)] /\ network' \in [Peer -> SUBSET (1..c)]
  BY <1>2, <1>3, SendFacts
<1>5. TypeOK'
  <2>1. delta' \in [Peer -> Map]
    BY <1>2, <1>3, EmptyMapFacts
  <2>2. QED BY <1>1, <1>2, <1>4, <2>1 DEF TypeOK
<1>6. PastIsKnown'
  BY <1>2, <1>3, SendPast
<1>7. nodes'[c].peer = p /\ nodes'[c].state = delta[p]
  BY <1>4
<1>8. \A q \in Peer : known[q] \subseteq 1..Len(nodes)
  BY <1>1 DEF TypeOK
<1>9. c \in Nat /\ \A d \in 1..Len(nodes) : d \in Nat /\ d <= c /\ d # c
  BY <1>4
<1> HIDE DEF c
<1>10. DeltaComplete'
  <2> SUFFICES ASSUME NEW q \in Peer, NEW x \in DOMAIN value[q]
               PROVE  LET Sent == {d \in known'[q] : nodes'[d].peer = q /\ x \in DOMAIN nodes'[d].state}
                      IN  \/ x \in DOMAIN delta'[q] /\ delta'[q][x] = value[q][x]
                          \/ /\ x \notin DOMAIN delta'[q]
                             /\ \E d \in Sent : /\ nodes'[d].state[x] = value[q][x]
                                                /\ \A b \in Sent : b <= d
    BY <1>2 DEF DeltaComplete
  <2> DEFINE Sent == {d \in known[q] : nodes[d].peer = q /\ x \in DOMAIN nodes[d].state}
             Sent2 == {d \in known'[q] : nodes'[d].peer = q /\ x \in DOMAIN nodes'[d].state}
  <2>1. \/ x \in DOMAIN delta[q] /\ delta[q][x] = value[q][x]
        \/ /\ x \notin DOMAIN delta[q]
           /\ \E d \in Sent : /\ nodes[d].state[x] = value[q][x]
                              /\ \A b \in Sent : b <= d
    BY <1>1, <1>2 DEF DeltaComplete
  <2>2. \A d \in Sent2 : d \in Sent \/ (d = c /\ q = p /\ x \in DOMAIN delta[p])
    BY <1>4, <1>7, <1>8
  <2>3. \A d \in Sent : d \in Sent2 /\ nodes'[d] = nodes[d] /\ d \in 1..Len(nodes)
    BY <1>4, <1>8
  <2>4. CASE q = p /\ x \in DOMAIN delta[p]
    <3>1. c \in Sent2 /\ nodes'[c].state[x] = value[q][x]
      BY <1>4, <1>7, <2>1, <2>4
    <3>2. \A b \in Sent2 : b <= c
      BY <1>9, <2>2, <2>3
    <3>3. x \notin DOMAIN delta'[q]
      BY <1>2, <1>3, <2>4, EmptyMapFacts
    <3>4. QED BY <3>1, <3>2, <3>3
  <2>5. CASE ~(q = p /\ x \in DOMAIN delta[p])
    <3>1. Sent2 = Sent
      BY <2>2, <2>3, <2>5
    <3>2. CASE q = p
      <4>1. x \notin DOMAIN delta'[q] /\ x \notin DOMAIN delta[q]
        BY <1>2, <1>3, <2>5, <3>2, EmptyMapFacts
      <4>2. PICK d \in Sent : nodes[d].state[x] = value[q][x] /\ \A b \in Sent : b <= d
        BY <2>1, <4>1
      <4>3. d \in Sent2 /\ nodes'[d].state[x] = value[q][x] /\ \A b \in Sent2 : b <= d
        BY <2>3, <3>1, <4>2
      <4> HIDE DEF Sent2
      <4>4. QED BY <4>1, <4>3 DEF Sent2
    <3>3. CASE q # p
      <4>1. delta'[q] = delta[q]
        BY <1>2, <1>3, <3>3
      <4>2. CASE x \in DOMAIN delta[q]
        BY <2>1, <4>1, <4>2
      <4>3. CASE x \notin DOMAIN delta[q]
        <5>1. PICK d \in Sent : nodes[d].state[x] = value[q][x] /\ \A b \in Sent : b <= d
          BY <2>1, <4>3
        <5>2. d \in Sent2 /\ nodes'[d].state[x] = value[q][x] /\ \A b \in Sent2 : b <= d
          BY <2>3, <3>1, <5>1
        <5> HIDE DEF Sent2
        <5>3. QED BY <4>1, <4>3, <5>2 DEF Sent2
      <4>4. QED BY <4>2, <4>3
    <3>4. QED BY <3>2, <3>3
  <2>6. QED BY <2>4, <2>5
<1>11. StateSent' /\ EntriesKnown' /\ EntriesSent' /\ OwnStatesGrow'
  BY <1>2 DEF StateSent, EntriesKnown, EntriesSent, OwnStatesGrow, DeltaBased
<1>12. QED BY <1>5, <1>6, <1>10, <1>11 DEF ClSetInv

-----------------------------------------------------------------------------
(* What arrived is merged.                                                 *)

\* A merge leaves the lengths that were there, and gives every new element of
\* the states 0.  What is new, and only that, is recorded in the delta.
LEMMA CheckUpdateFacts ==
  ASSUME ClSetInv, NEW p \in Peer, CheckUpdate(p)
  PROVE  \E batch \in SUBSET (1..Len(nodes)) :
           /\ UNCHANGED <<variant, nodes>>
           /\ network' \in [Peer -> SUBSET (1..Len(nodes))]
           /\ value' \in [Peer -> Map] /\ delta' \in [Peer -> Map]
           /\ known' = [known EXCEPT ![p] = @ \cup batch \cup UNION {nodes[c].past : c \in batch}]
           /\ \A q \in Peer \ {p} : value'[q] = value[q] /\ delta'[q] = delta[q]
           /\ DOMAIN value[p] \subseteq DOMAIN value'[p]
           /\ \A x \in DOMAIN value[p] : value'[p][x] = value[p][x]
           /\ \A c \in batch : DOMAIN nodes[c].state \subseteq DOMAIN value'[p]
           /\ DeltaBased =>
                /\ DOMAIN delta'[p] = DOMAIN delta[p] \cup (DOMAIN value'[p] \ DOMAIN value[p])
                /\ \A x \in DOMAIN value[p] \cap DOMAIN delta[p] : delta'[p][x] = delta[p][x]
                /\ \A x \in DOMAIN value'[p] \ DOMAIN value[p] : delta'[p][x] = value'[p][x]
<1>1. /\ nodes \in Seq(Node) /\ network \in [Peer -> SUBSET (1..Len(nodes))]
      /\ value \in [Peer -> Map] /\ delta \in [Peer -> Map]
  BY DEF ClSetInv, TypeOK
<1> DEFINE Batch(S) == S \ known[p]
           States(S) == {nodes[c].state : c \in Batch(S)}
           Merged(S) == IF Batch(S) = {} THEN value[p] ELSE mergeStates(value[p], States(S))
           New(S) == [x \in DOMAIN Merged(S) \ DOMAIN value[p] |-> Merged(S)[x]]
<1>2. PICK S \in SUBSET network[p] \ {{}} :
        /\ network' = [network EXCEPT ![p] = @ \ S]
        /\ known' = [known EXCEPT ![p] = @ \cup Batch(S) \cup UNION {nodes[c].past : c \in Batch(S)}]
        /\ value' = [value EXCEPT ![p] = Merged(S)]
        /\ delta' = IF DeltaBased THEN [delta EXCEPT ![p] = Over(New(S), delta[p])] ELSE delta
        /\ UNCHANGED <<variant, nodes>>
  BY DEF CheckUpdate
<1> DEFINE batch == Batch(S)
           heard == UNION {DOMAIN o : o \in States(S)}
           zeros == [x \in heard |-> 0]
           merged == Merged(S)
           new == New(S)
<1>3. batch \in SUBSET (1..Len(nodes))
  BY <1>1, <1>2
<1>4. \A c \in batch : nodes[c].state \in Map
  <2>1. \A c \in 1..Len(nodes) : nodes[c] \in Node
    BY <1>1
  <2>2. \A c \in batch : nodes[c] \in Node
    BY <1>3, <2>1
  <2>3. QED BY <2>2 DEF Node
<1>5. heard \subseteq Elem /\ \A c \in batch : DOMAIN nodes[c].state \subseteq heard
  BY <1>4, MapFacts
<1>6. zeros \in Map /\ DOMAIN zeros = heard
  <2>1. zeros \in [heard -> 0..MaxLength]
    BY BoundAssumption
  <2>2. QED BY <1>5, <2>1, MapIntro
<1>7. value[p] \in Map /\ delta[p] \in Map
  BY <1>1
<1>8. /\ merged \in Map
      /\ DOMAIN value[p] \subseteq DOMAIN merged
      /\ \A x \in DOMAIN value[p] : merged[x] = value[p][x]
      /\ \A c \in batch : DOMAIN nodes[c].state \subseteq DOMAIN merged
  <2>1. CASE batch = {}
    BY <1>7, <2>1
  <2>2. CASE batch # {}
    <3>1. merged = Over(value[p], zeros)
      BY <2>2 DEF mergeStates
    <3> HIDE DEF merged, zeros, heard, batch
    <3>2. merged \in Map
      BY <1>6, <1>7, <3>1, OverType
    <3>3. /\ DOMAIN Over(value[p], zeros) = DOMAIN value[p] \cup DOMAIN zeros
          /\ \A x \in DOMAIN value[p] : Over(value[p], zeros)[x] = value[p][x]
      BY OverFacts
    <3>4. QED BY <1>5, <1>6, <3>1, <3>2, <3>3
  <2>3. QED BY <2>1, <2>2
<1>9. /\ new \in Map
      /\ DOMAIN new = DOMAIN merged \ DOMAIN value[p]
      /\ \A x \in DOMAIN new : new[x] = merged[x]
  <2> HIDE DEF merged
  <2>1. /\ DOMAIN new = DOMAIN merged \ DOMAIN value[p]
        /\ \A x \in DOMAIN new : new[x] = merged[x]
        /\ new = [x \in DOMAIN merged \ DOMAIN value[p] |-> merged[x]]
    BY DEF merged
  <2>2. DOMAIN merged \subseteq Elem /\ merged \in [DOMAIN merged -> 0..MaxLength]
    BY <1>8, MapFacts
  <2>3. new \in [DOMAIN merged \ DOMAIN value[p] -> 0..MaxLength]
    BY <2>1, <2>2
  <2>4. new \in Map
    BY <2>2, <2>3, MapIntro
  <2>5. QED BY <2>1, <2>4
<1>10. /\ network' = [network EXCEPT ![p] = @ \ S]
       /\ known' = [known EXCEPT ![p] = @ \cup batch \cup UNION {nodes[c].past : c \in batch}]
       /\ value' = [value EXCEPT ![p] = merged]
       /\ delta' = IF DeltaBased THEN [delta EXCEPT ![p] = Over(new, delta[p])] ELSE delta
       /\ UNCHANGED <<variant, nodes>>
  BY <1>2
<1> HIDE DEF batch, heard, merged, new
<1>11. /\ Over(new, delta[p]) \in Map
       /\ DOMAIN Over(new, delta[p]) = DOMAIN new \cup DOMAIN delta[p]
       /\ \A x \in DOMAIN new : Over(new, delta[p])[x] = new[x]
       /\ \A x \in DOMAIN delta[p] \ DOMAIN new : Over(new, delta[p])[x] = delta[p][x]
  <2>1. Over(new, delta[p]) \in Map
    BY <1>7, <1>9, OverType
  <2>2. QED BY <2>1, OverFacts
<1>12. value' \in [Peer -> Map] /\ delta' \in [Peer -> Map]
  BY <1>1, <1>8, <1>10, <1>11
<1>13. network' \in [Peer -> SUBSET (1..Len(nodes))]
  BY <1>1, <1>10
<1>14. value'[p] = merged /\ \A q \in Peer \ {p} : value'[q] = value[q] /\ delta'[q] = delta[q]
  BY <1>1, <1>10
<1>15. DeltaBased => delta'[p] = Over(new, delta[p])
  BY <1>1, <1>10
<1>16. DeltaBased =>
         /\ DOMAIN delta'[p] = DOMAIN delta[p] \cup (DOMAIN value'[p] \ DOMAIN value[p])
         /\ \A x \in DOMAIN value[p] \cap DOMAIN delta[p] : delta'[p][x] = delta[p][x]
         /\ \A x \in DOMAIN value'[p] \ DOMAIN value[p] : delta'[p][x] = value'[p][x]
  BY <1>9, <1>11, <1>14, <1>15
<1>17. /\ DOMAIN value[p] \subseteq DOMAIN value'[p]
       /\ \A x \in DOMAIN value[p] : value'[p][x] = value[p][x]
       /\ \A c \in batch : DOMAIN nodes[c].state \subseteq DOMAIN value'[p]
  BY <1>8, <1>14
<1>18. QED BY <1>3, <1>10, <1>12, <1>13, <1>14, <1>16, <1>17

LEMMA CheckUpdateStep == ASSUME ClSetInv, NEW p \in Peer, CheckUpdate(p) PROVE ClSetInv'
<1>1. /\ TypeOK /\ PastIsKnown /\ StateSent /\ EntriesKnown
      /\ EntriesSent /\ OwnStatesGrow /\ DeltaComplete
  BY DEF ClSetInv
<1>2. PICK batch \in SUBSET (1..Len(nodes)) :
        /\ UNCHANGED <<variant, nodes>>
        /\ network' \in [Peer -> SUBSET (1..Len(nodes))]
        /\ value' \in [Peer -> Map] /\ delta' \in [Peer -> Map]
        /\ known' = [known EXCEPT ![p] = @ \cup batch \cup UNION {nodes[c].past : c \in batch}]
        /\ \A q \in Peer \ {p} : value'[q] = value[q] /\ delta'[q] = delta[q]
        /\ DOMAIN value[p] \subseteq DOMAIN value'[p]
        /\ \A x \in DOMAIN value[p] : value'[p][x] = value[p][x]
        /\ \A c \in batch : DOMAIN nodes[c].state \subseteq DOMAIN value'[p]
        /\ DeltaBased =>
             /\ DOMAIN delta'[p] = DOMAIN delta[p] \cup (DOMAIN value'[p] \ DOMAIN value[p])
             /\ \A x \in DOMAIN value[p] \cap DOMAIN delta[p] : delta'[p][x] = delta[p][x]
             /\ \A x \in DOMAIN value'[p] \ DOMAIN value[p] : delta'[p][x] = value'[p][x]
  BY CheckUpdateFacts
<1> DEFINE pasts == UNION {nodes[c].past : c \in batch}
<1>3. pasts \subseteq 1..Len(nodes)
  <2>1. Len(nodes) \in Nat /\ \A c \in batch : c \in 1..Len(nodes)
    BY <1>1 DEF TypeOK
  <2>2. \A c \in batch : nodes[c].past \subseteq 1..Len(nodes)
    BY <1>1, <2>1 DEF PastIsKnown
  <2>3. QED BY <2>2
<1>4. known \in [Peer -> SUBSET (1..Len(nodes))] /\ nodes \in Seq(Node)
  BY <1>1 DEF TypeOK
<1>5. \A q \in Peer : /\ known[q] \subseteq known'[q]
                      /\ known'[q] = IF q = p THEN known[p] \cup batch \cup pasts ELSE known[q]
  BY <1>2, <1>4
<1>6. known' \in [Peer -> SUBSET (1..Len(nodes))]
  <2> HIDE DEF pasts
  <2>1. known' = [known EXCEPT ![p] = @ \cup batch \cup pasts]
    BY <1>2 DEF pasts
  <2>2. QED BY <1>3, <1>4, <2>1
<1>7. TypeOK'
  BY <1>1, <1>2, <1>6 DEF TypeOK
<1>8. \A c \in 1..Len(nodes) : nodes[c].peer \in Peer
  <2>1. \A c \in 1..Len(nodes) : nodes[c] \in Node
    BY <1>4
  <2>2. QED BY <2>1 DEF Node
<1>9. PastIsKnown'
  BY <1>1, <1>2, <1>5, <1>8 DEF PastIsKnown
<1>10. EntriesSent' /\ OwnStatesGrow'
  BY <1>1, <1>2 DEF EntriesSent, OwnStatesGrow, DeltaBased
<1>11. StateSent'
  <2> SUFFICES ASSUME ~DeltaBased, NEW c \in 1..Len(nodes), NEW x \in DOMAIN nodes[c].state
               PROVE  nodes[c].state[x] <= value'[nodes[c].peer][x]
    BY <1>2 DEF StateSent, DeltaBased
  <2>1. nodes[c].state[x] <= value[nodes[c].peer][x] /\ x \in DOMAIN value[nodes[c].peer]
    BY <1>1, <1>8 DEF StateSent, EntriesKnown, PastIsKnown
  <2>2. value'[nodes[c].peer][x] = value[nodes[c].peer][x]
    BY <1>2, <1>8, <2>1
  <2>3. QED BY <2>1, <2>2
<1>12. EntriesKnown'
  <2> SUFFICES ASSUME ~DeltaBased, NEW q \in Peer, NEW c \in known'[q]
               PROVE  DOMAIN nodes[c].state \subseteq DOMAIN value'[q]
    BY <1>2 DEF EntriesKnown, DeltaBased
  <2>1. CASE c \in known[q]
    BY <1>1, <1>2, <2>1 DEF EntriesKnown
  <2>2. CASE q = p /\ c \in batch
    BY <1>2, <2>2
  <2>3. CASE q = p /\ c \in pasts
    <3>1. PICK b \in batch : c \in nodes[b].past
      BY <2>3
    <3>2. DOMAIN nodes[c].state \subseteq DOMAIN nodes[b].state
      BY <1>1, <3>1 DEF EntriesSent
    <3>3. QED BY <1>2, <2>3, <3>1, <3>2
  <2>4. QED BY <1>5, <2>1, <2>2, <2>3
<1>13. DeltaComplete'
  <2> SUFFICES ASSUME DeltaBased, NEW q \in Peer, NEW x \in DOMAIN value'[q]
               PROVE  LET Sent == {c \in known'[q] : nodes[c].peer = q /\ x \in DOMAIN nodes[c].state}
                      IN  \/ x \in DOMAIN delta'[q] /\ delta'[q][x] = value'[q][x]
                          \/ /\ x \notin DOMAIN delta'[q]
                             /\ \E c \in Sent : /\ nodes[c].state[x] = value'[q][x]
                                                /\ \A d \in Sent : d <= c
    BY <1>2 DEF DeltaComplete, DeltaBased
  <2> DEFINE Sent == {c \in known[q] : nodes[c].peer = q /\ x \in DOMAIN nodes[c].state}
             Sent2 == {c \in known'[q] : nodes[c].peer = q /\ x \in DOMAIN nodes[c].state}
  <2>1. Sent2 = Sent
    <3>1. \A c \in known'[q] : nodes[c].peer = q => c \in known[q]
      BY <1>1, <1>6 DEF PastIsKnown
    <3>2. QED BY <1>5, <3>1
  <2>2. CASE x \in DOMAIN value[q]
    <3>1. \/ x \in DOMAIN delta[q] /\ delta[q][x] = value[q][x]
          \/ /\ x \notin DOMAIN delta[q]
             /\ \E c \in Sent : /\ nodes[c].state[x] = value[q][x]
                                /\ \A d \in Sent : d <= c
      BY <1>1, <2>2 DEF DeltaComplete
    <3>2. /\ value'[q][x] = value[q][x]
          /\ (x \in DOMAIN delta'[q]) = (x \in DOMAIN delta[q])
          /\ x \in DOMAIN delta[q] => delta'[q][x] = delta[q][x]
      BY <1>2, <2>2
    <3> HIDE DEF Sent, Sent2
    <3>3. \/ x \in DOMAIN delta'[q] /\ delta'[q][x] = value'[q][x]
          \/ /\ x \notin DOMAIN delta'[q]
             /\ \E c \in Sent2 : /\ nodes[c].state[x] = value'[q][x]
                                 /\ \A d \in Sent2 : d <= c
      BY <2>1, <3>1, <3>2
    <3>4. QED BY <3>3 DEF Sent2
  <2>3. CASE x \notin DOMAIN value[q]
    <3>1. q = p
      BY <1>2, <2>3
    <3>2. x \in DOMAIN delta'[q] /\ delta'[q][x] = value'[q][x]
      BY <1>2, <2>3, <3>1
    <3>3. QED BY <3>2
  <2>4. QED BY <2>2, <2>3
<1>14. QED BY <1>7, <1>9, <1>10, <1>11, <1>12, <1>13 DEF ClSetInv

-----------------------------------------------------------------------------
(* The theorems.                                                           *)

LEMMA ClNext == ClSetInv /\ [Next]_vars => ClSetInv'
<1> SUFFICES ASSUME ClSetInv, [Next]_vars PROVE ClSetInv'
  OBVIOUS
<1>1. CASE UNCHANGED vars
  BY <1>1 DEF vars, ClSetInv, TypeOK, PastIsKnown, StateSent, EntriesKnown,
              EntriesSent, OwnStatesGrow, DeltaComplete, DeltaBased
<1>2. ASSUME NEW p \in Peer, NEW x \in Elem, Add(p, x) \/ Remove(p, x) PROVE ClSetInv'
  BY <1>2, AssignStep
<1>3. ASSUME NEW p \in Peer, SendState(p) \/ SendDelta(p) \/ CheckUpdate(p) PROVE ClSetInv'
  BY <1>3, SendStateStep, SendDeltaStep, CheckUpdateStep
<1>4. QED BY <1>1, <1>2, <1>3 DEF Next

\* The invariant of the sets (Add, Remove, SendState, CheckUpdate) holds in every
\* reachable state.
THEOREM ClSetInvariance == Spec => []ClSetInv
BY ClInit, ClNext, PTL DEF Spec

\* CLSet: replicas that incorporated the same nodes and have nothing left to
\* send have entries for the same elements; nothing is said of the lengths.
THEOREM EntriesAgree == Spec => []EntriesConverge
<1>1. ASSUME ClSetInv, NEW p \in Peer, NEW q \in Peer,
             ~DeltaBased, known[p] = known[q], AllSent(p)
      PROVE  DOMAIN value[p] \subseteq DOMAIN value[q]
  BY <1>1 DEF ClSetInv, EntriesKnown, AllSent
<1>2. ClSetInv => EntriesConverge
  BY <1>1 DEF EntriesConverge
<1>3. QED BY <1>2, ClSetInvariance, PTL

\* CLSet: no author sends a state that is behind one it sent before.
THEOREM AuthorsNeverGoBack == Spec => []OwnStatesGrow
<1>1. ClSetInv => OwnStatesGrow
  BY DEF ClSetInv
<1>2. QED BY <1>1, ClSetInvariance, PTL

\* CLSetDelta: each entry of the value is in the delta that waits, or in the
\* last one its author sent of it.
THEOREM NothingLeftOut == Spec => []DeltaComplete
<1>1. ClSetInv => DeltaComplete
  BY DEF ClSetInv
<1>2. QED BY <1>1, ClSetInvariance, PTL
=============================================================================
