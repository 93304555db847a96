--------------------------- MODULE CausalFsProofs ---------------------------
(***************************************************************************)
(* Proofs about CausalFs: for any replicas, nodes and places, any order of *)
(* the maps, any number of calls.                                          *)
(***************************************************************************)
EXTENDS CausalFs, FiniteSetTheorems, WellFoundedInduction, TLAPS

\* What holds of the set of each replica.
Rooted(r) == \A i \in Id : /\ r.add[i].place = NoPlace <=> i = Root
                           /\ r.add[i].place \notin File
Labelled(r) == \A i \in Id : r.add[i].name # << >> /\ r.add[i].name[1] = NameOf[i]
Covered(r) == \A i \in Id : /\ r.add[i].ts <= r.clock[r.add[i].id]
                            /\ r.remove[i].ts <= r.clock[r.remove[i].id]
Sound(r) == r \in NodeSetCRDT /\ Rooted(r) /\ Labelled(r) /\ Covered(r) /\ Has(r, Root)

\* Only directories reappear: a file has the stamp it was created with.
FilesAreOld == \A p \in Replica, f \in File : replica[p].add[f].ts <= now

\* What is left to visit, by the call that runs.
Visiting ==
  /\ running = NoCall => todo = {}
  /\ running.what = "none" => running = NoCall
  /\ running.what # "resolve" => seen = {}
  /\ running.what = "sync" => \A pq \in todo : pq \in Replica \X Replica /\ pq[1] # pq[2]
  /\ running.what = "reattach" => /\ running.at \in Replica
                                  /\ running.policy \in scenario.does
                                  /\ todo \subseteq Added(Here) \ {Root}
  /\ running.what = "resolve" => /\ running.at \in Replica
                                 /\ "resolve" \in scenario.does
                                 /\ todo \subseteq Added(Here) \ {Root}

SetsInv == TypeOK /\ now > 0 /\ (\A p \in Replica : Sound(replica[p])) /\ FilesAreOld /\ Visiting

-----------------------------------------------------------------------------
\* A stamp is the latest known by the history of the edits.
Written(f, kind, i, s) == \E e \in EditsOf(f, kind, i) : s.ts = e.ts /\ s.id = e.id

ContentInv ==
  /\ \A f \in File : \A e \in edits[f] : e.ts > 0
  /\ \A f \in File, i \in Index :
       /\ deleted[f][i] = Absent \/ Written(f, "tombstone", i, deleted[f][i])
       /\ lines[f][i] = Absent \/ Written(f, "line", i, lines[f][i])
       /\ \A e \in EditsOf(f, "tombstone", i) : ~Later(e, deleted[f][i])
       /\ \A e \in EditsOf(f, "line", i) : e.ts > deleted[f][i].ts => ~Later(e, lines[f][i])

-----------------------------------------------------------------------------
\* "reappear": the nodes that were visited are housed.
HousedSoFar ==
  running.what = "reattach" /\ running.policy = "reappear" =>
    \A i \in Added(Here) \ todo :
      Has(Here, Here.add[i].place) => Exists(Here, Here.add[i].place)

-----------------------------------------------------------------------------
\* Nodes that may get in each other's way when names are resolved.
Rivals(i, j) == Here.add[i].place = Here.add[j].place /\ NameOf[i] = NameOf[j]
Passed == Added(Here) \ (todo \cup {Root})
Third(i, j) == \E k \in Added(Here) \ {i, j} : Rivals(k, i)

\* What is in seen was visited; a node without rivals is there as it is.
SeenWasPassed ==
  \A e \in seen : /\ e.id \in Passed
                  /\ e.place = Here.add[e.id].place
                  /\ e.name # << >> /\ e.name[1] = NameOf[e.id]
FirstIsSeen ==
  \A j \in Passed : (\A k \in Passed : Rivals(k, j) => k = j) =>
    /\ \A e \in seen : e.id = j => e.name = Here.add[j].name
    /\ Exists(Here, j) => [place |-> Here.add[j].place, name |-> Here.add[j].name, id |-> j] \in seen
PairsResolved ==
  \A i, j \in Passed :
    /\ Exists(Here, i) /\ Exists(Here, j)
    /\ i # j /\ (i \in File \/ j \in File)
    /\ Here.add[i].place = Here.add[j].place /\ Here.add[i].name = Here.add[j].name
    => Third(i, j)
NamingInv == running.what = "resolve" => SeenWasPassed /\ FirstIsSeen /\ PairsResolved

-----------------------------------------------------------------------------
\* Without "reappear" a node is stamped once.
OneStamp ==
  "reappear" \notin scenario.does =>
    \A p, q \in Replica, i \in Id : Has(replica[p], i) /\ Has(replica[q], i) =>
      replica[p].add[i].ts = replica[q].add[i].ts /\ replica[p].add[i].id = replica[q].add[i].id

\* r has all the nodes and the removals of s.
Ahead(r, s) == \A i \in Id : (Has(s, i) => Has(r, i)) /\ ~Later(s.remove[i], r.remove[i])
Knows(q, p) == Ahead(replica[q], replica[p])

\* SyncAll: the first replica merges all the others, then they merge it.
Synced(p, q) == p # q /\ <<p, q>> \notin todo
Syncing ==
  running.what = "sync" =>
    /\ \A p, q, s, t \in Replica : Synced(p, q) /\ <<s, t>> \in todo => Earlier(<<p, q>>, <<s, t>>)
    /\ \A m \in Replica : (\A p \in Replica : m <= p) =>
         \A p \in Replica : /\ Synced(m, p) => Knows(m, p)
                            /\ Synced(p, m) => Knows(p, m)

-----------------------------------------------------------------------------
\* The clocks, as DominatesIsAhead means them.
Plain == ~scenario.ties /\ scenario.does \cap {"resolve", "skip", "reappear"} = {}

Blank == \A p \in Replica, i \in Id : ~Has(replica[p], i) => replica[p].add[i].id = 0
PastOnly == \A p \in Replica, o \in Origin : replica[p].clock[o] <= now + 1
OwnClock ==
  \A p, q \in Replica, i \in Id :
    /\ replica[q].add[i].id = p => replica[q].add[i].ts <= replica[p].clock[p]
    /\ replica[q].remove[i].id = p => replica[q].remove[i].ts <= replica[p].clock[p]
NothingSkipped ==
  \A p, q \in Replica, i \in Id :
    /\ Has(replica[q], i) /\ replica[q].add[i].ts <= replica[p].clock[replica[q].add[i].id]
         => Has(replica[p], i)
    /\ replica[q].remove[i].ts <= replica[p].clock[replica[q].remove[i].id]
         => ~Later(replica[q].remove[i], replica[p].remove[i])
ClocksInv == Plain => Blank /\ PastOnly /\ OwnClock /\ NothingSkipped

-----------------------------------------------------------------------------
(* The operators.                                                          *)

LEMMA Constants ==
  /\ Replica \subseteq Nat /\ 0 \notin Replica /\ Origin \subseteq Nat /\ 0 \in Origin
  /\ Replica \subseteq Origin
  /\ Root \in Id /\ Root \notin File /\ File \subseteq Id /\ NoPlace \notin Id /\ NoPlace \notin File
  /\ Cardinality(Id) \in Nat
  /\ \A x \in Dead : x \notin Id /\ x # NoPlace
BY ReplicaAssumption, IdAssumption, FS_CardinalityType DEF Origin

LEMMA Places ==
  ASSUME NEW i \in Id
  PROVE  /\ PlaceOf[i] \in Place /\ PlaceOf[i] \notin File
         /\ PlaceOf[i] = NoPlace <=> i = Root
         /\ NameOf[i] \notin Id
         /\ NameOf[i] \in Dead => i \notin File
BY PlaceAssumption, Constants DEF Place

\* A set of times that has a bound has a greatest one.
LEMMA LatestExists ==
  ASSUME NEW S \in SUBSET Nat, NEW b \in Nat, \A t \in S : t <= b, S # {}
  PROVE  Latest(S) \in S /\ \A t \in S : t <= Latest(S)
<1> DEFINE T == {n \in Nat : \E t \in S : n = b - t}
<1>1. T \subseteq Nat /\ T # {}
  <2>1. PICK t \in S : TRUE
    OBVIOUS
  <2>2. b - t \in Nat
    OBVIOUS
  <2>3. QED BY <2>1, <2>2
<1>2. PICK n \in T : \A m \in T : ~(<<m, n>> \in OpToRel(<, Nat))
  <2> HIDE DEF T
  <2>1. QED BY <1>1, WFMin, NatLessThanWellFounded
<1>3. \A m \in T : ~(m < n)
  BY <1>1, <1>2 DEF OpToRel
<1>4. PICK t \in S : n = b - t
  BY <1>2
<1>5. \A u \in S : t >= u
  <2>1. SUFFICES ASSUME NEW u \in S, ~(t >= u) PROVE FALSE
    OBVIOUS
  <2>2. b - u \in T /\ b - u < n
    BY <1>4, <2>1
  <2>3. QED BY <1>3, <2>2
<1>6. \E x \in S : \A u \in S : x >= u
  BY <1>5
<1>7. Latest(S) \in S /\ \A u \in S : Latest(S) >= u
  BY <1>6 DEF Latest
<1>8. QED BY <1>7

LEMMA NewNodeFacts ==
  ASSUME NEW i \in Id, NEW ts \in Nat, NEW p \in Origin
  PROVE  /\ NewNode(i, ts, p) \in Node
         /\ NewNode(i, ts, p).ts = ts /\ NewNode(i, ts, p).id = p
         /\ NewNode(i, ts, p).place = PlaceOf[i]
         /\ NewNode(i, ts, p).name = <<NameOf[i]>>
<1>1. <<NameOf[i]>> \in Name
  BY DEF Name
<1>2. PlaceOf[i] \in Place
  BY Places
<1>3. QED BY <1>1, <1>2 DEF NewNode, Node

LEMMA StampOrder ==
  ASSUME NEW a, NEW b, NEW c,
         a.ts \in Nat, a.id \in Nat, b.ts \in Nat, b.id \in Nat, c.ts \in Nat, c.id \in Nat
  PROVE  /\ ~Later(a, b) \/ ~Later(b, a)
         /\ ~Later(a, b) /\ ~Later(b, a) => a.ts = b.ts /\ a.id = b.id
         /\ ~Later(a, b) /\ ~Later(b, c) => ~Later(a, c)
BY DEF Later

\* One node's entry of a set is changed.
LEMMA EntryChanged ==
  ASSUME NEW r \in NodeSetCRDT, NEW i \in Id, NEW n \in Node
  PROVE  LET m == [r EXCEPT !.add[i] = n]
         IN  /\ m \in NodeSetCRDT
             /\ m.remove = r.remove /\ m.clock = r.clock
             /\ m.add[i] = n /\ \A j \in Id : j # i => m.add[j] = r.add[j]
<1> DEFINE A == [r.add EXCEPT ![i] = n]
<1>1. r.add \in [Id -> Node] /\ r.remove \in [Id -> Stamp] /\ r.clock \in [Origin -> Nat]
  BY DEF NodeSetCRDT
<1>2. A \in [Id -> Node] /\ A[i] = n /\ \A j \in Id : j # i => A[j] = r.add[j]
  BY <1>1
<1>3. [r EXCEPT !.add[i] = n] = [r EXCEPT !.add = A]
  OBVIOUS
<1> HIDE DEF A
<1>4. [r EXCEPT !.add = A] = [add |-> A, remove |-> r.remove, clock |-> r.clock]
  BY DEF NodeSetCRDT
<1>5. [add |-> A, remove |-> r.remove, clock |-> r.clock] \in NodeSetCRDT
  BY <1>1, <1>2 DEF NodeSetCRDT
<1>6. QED BY <1>2, <1>3, <1>4, <1>5

LEMMA UpdateFacts ==
  ASSUME NEW c \in [Origin -> Nat], NEW o \in Origin, NEW t \in Nat
  PROVE  /\ Update(c, o, t) \in [Origin -> Nat]
         /\ t <= Update(c, o, t)[o]
         /\ Update(c, o, t)[o] \in {c[o], t}
         /\ \A x \in Origin : c[x] <= Update(c, o, t)[x] /\ (x # o => Update(c, o, t)[x] = c[x])
BY DEF Update

LEMMA AddFacts ==
  ASSUME NEW r \in NodeSetCRDT, NEW i \in Id, NEW n \in Node, Later(n, r.add[i])
  PROVE  /\ Add(r, i, n) \in NodeSetCRDT
         /\ Add(r, i, n).remove = r.remove
         /\ Add(r, i, n).add[i] = n
         /\ \A j \in Id : j # i => Add(r, i, n).add[j] = r.add[j]
         /\ Add(r, i, n).clock = Update(r.clock, n.id, n.ts)
<1> DEFINE A == [r.add EXCEPT ![i] = n]
           c == Update(r.clock, n.id, n.ts)
<1>1. r.add \in [Id -> Node] /\ r.remove \in [Id -> Stamp] /\ r.clock \in [Origin -> Nat]
  BY DEF NodeSetCRDT
<1>2. A \in [Id -> Node] /\ A[i] = n /\ \A j \in Id : j # i => A[j] = r.add[j]
  BY <1>1
<1>3. c \in [Origin -> Nat]
  <2>1. n.id \in Origin /\ n.ts \in Nat
    BY DEF Node
  <2>2. QED BY <1>1, <2>1, UpdateFacts
<1>4. Add(r, i, n) = [r EXCEPT !.add = A, !.clock = c]
  BY DEF Add, NodeSetCRDT
<1> HIDE DEF A, c
<1>5. [r EXCEPT !.add = A, !.clock = c] = [add |-> A, remove |-> r.remove, clock |-> c]
  <2>1. [r EXCEPT !.add = A] = [add |-> A, remove |-> r.remove, clock |-> r.clock]
    BY DEF NodeSetCRDT
  <2>2. [[add |-> A, remove |-> r.remove, clock |-> r.clock] EXCEPT !.clock = c] = [add |-> A, remove |-> r.remove, clock |-> c]
    OBVIOUS
  <2>3. [r EXCEPT !.add = A, !.clock = c] = [[r EXCEPT !.add = A] EXCEPT !.clock = c]
    OBVIOUS
  <2>4. QED BY <2>1, <2>2, <2>3, Zenon
<1>6. [add |-> A, remove |-> r.remove, clock |-> c] \in NodeSetCRDT
  BY <1>1, <1>2, <1>3 DEF NodeSetCRDT
<1>7. QED BY <1>2, <1>4, <1>5, <1>6 DEF c

LEMMA RemoveFacts ==
  ASSUME NEW r \in NodeSetCRDT, NEW i \in Id, NEW s \in Stamp
  PROVE  /\ RemoveID(r, i, s) \in NodeSetCRDT
         /\ RemoveID(r, i, s).add = r.add
         /\ RemoveID(r, i, s).remove[i] = IF Later(s, r.remove[i]) THEN s ELSE r.remove[i]
         /\ \A j \in Id : j # i => RemoveID(r, i, s).remove[j] = r.remove[j]
         /\ RemoveID(r, i, s).clock = IF Later(s, r.remove[i]) THEN Update(r.clock, s.id, s.ts)
                                                               ELSE r.clock
<1> DEFINE R == [r.remove EXCEPT ![i] = s]
           c == Update(r.clock, s.id, s.ts)
<1>1. r.add \in [Id -> Node] /\ r.remove \in [Id -> Stamp] /\ r.clock \in [Origin -> Nat]
  BY DEF NodeSetCRDT
<1>2. R \in [Id -> Stamp] /\ R[i] = s /\ \A j \in Id : j # i => R[j] = r.remove[j]
  BY <1>1
<1>3. c \in [Origin -> Nat]
  <2>1. s.id \in Origin /\ s.ts \in Nat
    BY DEF Stamp
  <2>2. QED BY <1>1, <2>1, UpdateFacts
<1>4. Later(s, r.remove[i]) => RemoveID(r, i, s) = [r EXCEPT !.remove = R, !.clock = c]
  BY DEF RemoveID, NodeSetCRDT
<1>5. ~Later(s, r.remove[i]) => RemoveID(r, i, s) = r
  BY DEF RemoveID
<1> HIDE DEF R, c
<1>6. [r EXCEPT !.remove = R, !.clock = c] = [add |-> r.add, remove |-> R, clock |-> c]
  <2>1. [r EXCEPT !.remove = R] = [add |-> r.add, remove |-> R, clock |-> r.clock]
    BY DEF NodeSetCRDT
  <2>2. [[add |-> r.add, remove |-> R, clock |-> r.clock] EXCEPT !.clock = c] = [add |-> r.add, remove |-> R, clock |-> c]
    OBVIOUS
  <2>3. [r EXCEPT !.remove = R, !.clock = c] = [[r EXCEPT !.remove = R] EXCEPT !.clock = c]
    OBVIOUS
  <2>4. QED BY <2>1, <2>2, <2>3, Zenon
<1>7. [add |-> r.add, remove |-> R, clock |-> c] \in NodeSetCRDT
  BY <1>1, <1>2, <1>3 DEF NodeSetCRDT
<1>8. QED BY <1>2, <1>4, <1>5, <1>6, <1>7 DEF c

LEMMA NodeSetFacts ==
  ASSUME NEW r \in NodeSetCRDT, NEW i \in Id
  PROVE  /\ r.add[i] \in Node /\ r.remove[i] \in Stamp /\ r.clock \in [Origin -> Nat]
         /\ r.add[i].ts \in Nat /\ r.add[i].id \in Origin /\ r.add[i].place \in Place /\ r.add[i].name \in Name
         /\ r.remove[i].ts \in Nat /\ r.remove[i].id \in Origin
<1>1. r.add[i] \in Node /\ r.remove[i] \in Stamp /\ r.clock \in [Origin -> Nat]
  BY DEF NodeSetCRDT
<1>2. QED BY <1>1 DEF Node, Stamp

LEMMA SoundAdd ==
  ASSUME NEW r, Sound(r), NEW i \in Id, NEW n \in Node, Later(n, r.add[i]),
         n.place = NoPlace <=> i = Root, n.place \notin File,
         n.name # << >>, n.name[1] = NameOf[i], n.ts > 0
  PROVE  Sound(Add(r, i, n)) /\ Has(Add(r, i, n), i)
<1> DEFINE m == Add(r, i, n)
<1>1. r \in NodeSetCRDT
  BY DEF Sound
<1>2. /\ m \in NodeSetCRDT /\ m.remove = r.remove
      /\ m.add[i] = n /\ \A j \in Id : j # i => m.add[j] = r.add[j]
      /\ m.clock = Update(r.clock, n.id, n.ts)
  BY <1>1, AddFacts
<1> HIDE DEF m
<1>3. n.ts \in Nat /\ n.id \in Origin
  BY DEF Node
<1>4. r.clock \in [Origin -> Nat]
  BY <1>1 DEF NodeSetCRDT
<1>5. /\ n.ts <= m.clock[n.id] /\ m.clock \in [Origin -> Nat]
      /\ \A o \in Origin : r.clock[o] <= m.clock[o]
  <2> DEFINE c == Update(r.clock, n.id, n.ts)
  <2>1. n.ts <= c[n.id] /\ c \in [Origin -> Nat] /\ \A o \in Origin : r.clock[o] <= c[o]
    BY <1>3, <1>4, UpdateFacts
  <2> HIDE DEF c
  <2>2. m.clock = c
    BY <1>2 DEF c
  <2>3. QED BY <2>1, <2>2
<1>6. Rooted(m)
  BY <1>2 DEF Sound, Rooted
<1>7. Labelled(m)
  BY <1>2 DEF Sound, Labelled
<1>8. Covered(m)
  <2>1. ASSUME NEW j \in Id PROVE /\ m.add[j].ts <= m.clock[m.add[j].id]
                                  /\ m.remove[j].ts <= m.clock[m.remove[j].id]
    <3>1. /\ r.add[j].ts \in Nat /\ r.add[j].id \in Origin
          /\ r.remove[j].ts \in Nat /\ r.remove[j].id \in Origin
      BY <1>1, NodeSetFacts
    <3>2. r.add[j].ts <= r.clock[r.add[j].id] /\ r.remove[j].ts <= r.clock[r.remove[j].id]
      BY DEF Sound, Covered
    <3>3. r.add[j].ts <= m.clock[r.add[j].id] /\ r.remove[j].ts <= m.clock[r.remove[j].id]
      BY <1>4, <1>5, <3>1, <3>2
    <3>4. QED BY <1>2, <1>5, <3>3
  <2>2. QED BY <2>1 DEF Covered
<1>9. Has(m, i) /\ Has(m, Root)
  BY <1>2, Constants DEF Sound, Has
<1>10. QED BY <1>2, <1>6, <1>7, <1>8, <1>9 DEF Sound, m

LEMMA SoundRemove ==
  ASSUME NEW r, Sound(r), NEW i \in Id, NEW s \in Stamp
  PROVE  Sound(RemoveID(r, i, s))
<1> DEFINE m == RemoveID(r, i, s)
<1>1. r \in NodeSetCRDT
  BY DEF Sound
<1>2. /\ m \in NodeSetCRDT /\ m.add = r.add
      /\ m.remove[i] = IF Later(s, r.remove[i]) THEN s ELSE r.remove[i]
      /\ \A j \in Id : j # i => m.remove[j] = r.remove[j]
      /\ m.clock = IF Later(s, r.remove[i]) THEN Update(r.clock, s.id, s.ts) ELSE r.clock
  BY <1>1, RemoveFacts
<1> HIDE DEF m
<1>3. s.ts \in Nat /\ s.id \in Origin
  BY DEF Stamp
<1>4. r.clock \in [Origin -> Nat]
  BY <1>1 DEF NodeSetCRDT
<1>5. /\ Later(s, r.remove[i]) => s.ts <= m.clock[s.id]
      /\ m.clock \in [Origin -> Nat]
      /\ \A o \in Origin : r.clock[o] <= m.clock[o]
  <2> DEFINE c == Update(r.clock, s.id, s.ts)
  <2>1. s.ts <= c[s.id] /\ c \in [Origin -> Nat] /\ \A o \in Origin : r.clock[o] <= c[o]
    BY <1>3, <1>4, UpdateFacts
  <2>2. \A o \in Origin : r.clock[o] <= r.clock[o]
    BY <1>4
  <2> HIDE DEF c
  <2>3. m.clock = IF Later(s, r.remove[i]) THEN c ELSE r.clock
    BY <1>2 DEF c
  <2>4. QED BY <1>4, <2>1, <2>2, <2>3
<1>6. Rooted(m) /\ Labelled(m) /\ Has(m, Root)
  BY <1>2 DEF Sound, Rooted, Labelled, Has
<1>7. Covered(m)
  <2>1. ASSUME NEW j \in Id PROVE /\ m.add[j].ts <= m.clock[m.add[j].id]
                                  /\ m.remove[j].ts <= m.clock[m.remove[j].id]
    <3>1. /\ r.add[j].ts \in Nat /\ r.add[j].id \in Origin
          /\ r.remove[j].ts \in Nat /\ r.remove[j].id \in Origin
      BY <1>1, NodeSetFacts
    <3>2. r.add[j].ts <= r.clock[r.add[j].id] /\ r.remove[j].ts <= r.clock[r.remove[j].id]
      BY DEF Sound, Covered
    <3>3. r.add[j].ts <= m.clock[r.add[j].id] /\ r.remove[j].ts <= m.clock[r.remove[j].id]
      BY <1>4, <1>5, <3>1, <3>2
    <3>4. QED BY <1>2, <1>5, <3>3
  <2>2. QED BY <2>1 DEF Covered
<1>8. QED BY <1>2, <1>6, <1>7 DEF Sound, m

\* A node that moves or takes another name keeps its stamp.
LEMMA SoundEntry ==
  ASSUME NEW r, Sound(r), NEW i \in Id, NEW n \in Node,
         n.ts = r.add[i].ts, n.id = r.add[i].id,
         n.place = NoPlace <=> i = Root, n.place \notin File,
         n.name # << >>, n.name[1] = NameOf[i]
  PROVE  Sound([r EXCEPT !.add[i] = n])
<1> DEFINE m == [r EXCEPT !.add[i] = n]
<1>1. /\ r \in NodeSetCRDT
      /\ m \in NodeSetCRDT /\ m.remove = r.remove /\ m.clock = r.clock
      /\ m.add[i] = n /\ \A j \in Id : j # i => m.add[j] = r.add[j]
  BY EntryChanged DEF Sound
<1> HIDE DEF m
<1>2. Rooted(m) /\ Labelled(m)
  BY <1>1 DEF Sound, Rooted, Labelled
<1>3. \A j \in Id : m.add[j].ts = r.add[j].ts /\ m.add[j].id = r.add[j].id
  BY <1>1
<1>4. Covered(m) /\ Has(m, Root)
  BY <1>1, <1>3 DEF Sound, Covered, Has
<1>5. QED BY <1>1, <1>2, <1>4 DEF Sound, m

\* What is merged: the entries of the one or the other, and a clock that covers
\* them and is not ahead of both.
LEMMA MergeFacts ==
  ASSUME NEW r, NEW s, Sound(r), Sound(s)
  PROVE  /\ Merge(r, s) \in NodeSetCRDT
         /\ \A i \in Id :
              /\ Merge(r, s).add[i] = IF Has(r, i) \/ ~Has(s, i) THEN r.add[i] ELSE s.add[i]
              /\ Merge(r, s).remove[i] = IF Later(s.remove[i], r.remove[i]) THEN s.remove[i] ELSE r.remove[i]
         /\ \A o \in Origin :
              /\ r.clock[o] <= Merge(r, s).clock[o]
              /\ Merge(r, s).clock[o] <= r.clock[o] \/ Merge(r, s).clock[o] <= s.clock[o]
         /\ Covered(Merge(r, s))
<1> DEFINE new == {i \in Added(s) : ~Has(r, i)}
           dead == {i \in Id : Later(s.remove[i], r.remove[i])}
           Times(o) == {s.add[i].ts : i \in {j \in new : s.add[j].id = o}}
                         \cup {s.remove[i].ts : i \in {j \in dead : s.remove[j].id = o}}
           A == [i \in Id |-> IF i \in new THEN s.add[i] ELSE r.add[i]]
           R == [i \in Id |-> IF i \in dead THEN s.remove[i] ELSE r.remove[i]]
           C == [o \in Origin |-> Latest({r.clock[o]} \cup Times(o))]
<1>1. r \in NodeSetCRDT /\ s \in NodeSetCRDT /\ Covered(r) /\ Covered(s)
  BY DEF Sound
<1>2. Merge(r, s) = [add |-> A, remove |-> R, clock |-> C]
  BY DEF Merge
<1>3. new \subseteq Id /\ dead \subseteq Id
  BY DEF Added
<1>4. A \in [Id -> Node] /\ R \in [Id -> Stamp]
  BY <1>1 DEF NodeSetCRDT
<1>5. ASSUME NEW o \in Origin
      PROVE  /\ C[o] \in {r.clock[o]} \cup Times(o) /\ C[o] \in Nat
             /\ \A t \in {r.clock[o]} \cup Times(o) : t <= C[o]
             /\ \A t \in Times(o) : t <= s.clock[o]
  <2>1. r.clock[o] \in Nat /\ s.clock[o] \in Nat
    BY <1>1 DEF NodeSetCRDT
  <2>2. ASSUME NEW t \in Times(o) PROVE t \in Nat /\ t <= s.clock[o]
    <3>1. CASE \E i \in new : s.add[i].id = o /\ t = s.add[i].ts
      BY <1>1, <1>3, <3>1, NodeSetFacts DEF Covered
    <3>2. CASE \E i \in dead : s.remove[i].id = o /\ t = s.remove[i].ts
      BY <1>1, <1>3, <3>2, NodeSetFacts DEF Covered
    <3>3. QED BY <2>2, <3>1, <3>2
  <2> DEFINE S == {r.clock[o]} \cup Times(o)
             b == r.clock[o] + s.clock[o]
  <2>3. S \subseteq Nat /\ S # {} /\ b \in Nat /\ \A t \in S : t <= b
    <3> HIDE DEF Times
    <3>1. QED BY <2>1, <2>2
  <2>4. C[o] = Latest(S)
    OBVIOUS
  <2> HIDE DEF S, b, C
  <2>5. Latest(S) \in S /\ \A t \in S : t <= Latest(S)
    BY <2>3, LatestExists
  <2>6. QED BY <2>2, <2>3, <2>4, <2>5 DEF S
<1>6. C \in [Origin -> Nat]
  <2>1. C = [o \in Origin |-> C[o]]
    OBVIOUS
  <2> HIDE DEF C
  <2>2. QED BY <1>5, <2>1
<1>7. \A i \in Id : /\ A[i] = IF Has(r, i) \/ ~Has(s, i) THEN r.add[i] ELSE s.add[i]
                    /\ R[i] = IF Later(s.remove[i], r.remove[i]) THEN s.remove[i] ELSE r.remove[i]
  BY DEF Added, Has
<1>8. ASSUME NEW i \in Id PROVE A[i].ts <= C[A[i].id] /\ R[i].ts <= C[R[i].id]
  <2>1. /\ r.add[i].ts \in Nat /\ r.add[i].id \in Origin
        /\ r.remove[i].ts \in Nat /\ r.remove[i].id \in Origin
        /\ s.add[i].id \in Origin /\ s.remove[i].id \in Origin
        /\ r.clock \in [Origin -> Nat]
    BY <1>1, NodeSetFacts
  <2>2. r.add[i].ts <= r.clock[r.add[i].id] /\ r.remove[i].ts <= r.clock[r.remove[i].id]
    BY <1>1 DEF Covered
  <2>3. \A o \in Origin : r.clock[o] <= C[o] /\ C[o] \in Nat
    <3> HIDE DEF C
    <3>1. QED BY <1>5
  <2>4. r.add[i].ts <= C[r.add[i].id] /\ r.remove[i].ts <= C[r.remove[i].id]
    <3> HIDE DEF C
    <3>1. QED BY <2>1, <2>2, <2>3
  <2>5. i \in new => s.add[i].ts <= C[s.add[i].id]
    <3>1. i \in new => s.add[i].ts \in Times(s.add[i].id)
      OBVIOUS
    <3> HIDE DEF C, Times, new
    <3>2. QED BY <1>5, <2>1, <3>1
  <2>6. i \in dead => s.remove[i].ts <= C[s.remove[i].id]
    <3>1. i \in dead => s.remove[i].ts \in Times(s.remove[i].id)
      OBVIOUS
    <3> HIDE DEF C, Times, dead
    <3>2. QED BY <1>5, <2>1, <3>1
  <2>7. /\ A[i] = IF i \in new THEN s.add[i] ELSE r.add[i]
        /\ R[i] = IF i \in dead THEN s.remove[i] ELSE r.remove[i]
    OBVIOUS
  <2> HIDE DEF A, R, C, new, dead
  <2>8. QED BY <2>4, <2>5, <2>6, <2>7
<1>9. ASSUME NEW o \in Origin PROVE r.clock[o] <= C[o] /\ (C[o] <= r.clock[o] \/ C[o] <= s.clock[o])
  <2>1. r.clock[o] \in Nat
    BY <1>1 DEF NodeSetCRDT
  <2> HIDE DEF C, Times
  <2>2. QED BY <1>5, <2>1
<1> HIDE DEF A, R, C, Times, new, dead
<1>10. /\ Merge(r, s).add = A /\ Merge(r, s).remove = R /\ Merge(r, s).clock = C
       /\ Merge(r, s) \in NodeSetCRDT
  BY <1>2, <1>4, <1>6 DEF NodeSetCRDT
<1>11. QED BY <1>7, <1>8, <1>9, <1>10 DEF Covered

LEMMA SoundMerge ==
  ASSUME NEW r, NEW s, Sound(r), Sound(s)
  PROVE  Sound(Merge(r, s))
<1> DEFINE m == Merge(r, s)
<1>1. /\ m \in NodeSetCRDT /\ Covered(m)
      /\ \A i \in Id : m.add[i] = r.add[i] \/ m.add[i] = s.add[i]
      /\ m.add[Root] = r.add[Root]
  BY MergeFacts, Constants DEF Sound
<1> HIDE DEF m
<1>2. Rooted(m) /\ Labelled(m) /\ Has(m, Root)
  BY <1>1 DEF Sound, Rooted, Labelled, Has
<1>3. QED BY <1>1, <1>2 DEF Sound, m

-----------------------------------------------------------------------------
(* Where "compact" puts a node.                                            *)

\* A property of the naturals up to N that holds at 0 and after each number it
\* holds of has no first number where it fails.
LEMMA UpTo ==
  ASSUME NEW N \in Nat, NEW G \in SUBSET (0..N), 0 \in G,
         \A n \in 1..N : n - 1 \in G => n \in G
  PROVE  G = 0..N
<1> DEFINE T == 0..N \ G
<1>1. SUFFICES ASSUME T # {} PROVE FALSE
  OBVIOUS
<1>2. T \subseteq Nat
  OBVIOUS
<1>3. PICK n \in T : \A m \in T : ~(<<m, n>> \in OpToRel(<, Nat))
  <2> HIDE DEF T
  <2>1. QED BY <1>1, <1>2, WFMin, NatLessThanWellFounded
<1>4. \A m \in T : ~(m < n)
  BY <1>2, <1>3 DEF OpToRel
<1>5. n \in 1..N
  OBVIOUS
<1>6. n - 1 \in 0..N /\ n - 1 < n
  BY <1>5
<1>7. n - 1 \in G
  BY <1>4, <1>6
<1>8. QED BY <1>5, <1>7

\* Iterating a function on a set from an element of it stays in the set.
Iterates(step, x, N) ==
  LET up[n \in 0..N] == IF n = 0 THEN x ELSE step[up[n - 1]]
  IN  up

LEMMA IteratesFacts ==
  ASSUME NEW N \in Nat, NEW S, NEW x \in S, NEW step, \A y \in S : step[y] \in S
  PROVE  Iterates(step, x, N) \in [0..N -> S]
<1> DEFINE Up(f, k) == f \in [0..k -> S] /\ f[0] = x /\ \A n \in 1..k : f[n] = step[f[n - 1]]
           G == {k \in 0..N : \E f : Up(f, k)}
<1>1. 0 \in G
  <2>1. Up([n \in 0..0 |-> x], 0)
    OBVIOUS
  <2> HIDE DEF Up
  <2>2. QED BY <2>1
<1>2. ASSUME NEW k \in 1..N, k - 1 \in G PROVE k \in G
  <2>1. PICK f : Up(f, k - 1)
    BY <1>2
  <2> DEFINE g == [n \in 0..k |-> IF n = k THEN step[f[k - 1]] ELSE f[n]]
  <2>2. f[k - 1] \in S /\ step[f[k - 1]] \in S
    BY <2>1
  <2>3. g \in [0..k -> S] /\ g[0] = x
    BY <2>1, <2>2
  <2>4. ASSUME NEW n \in 1..k PROVE g[n] = step[g[n - 1]]
    BY <2>1, <2>4
  <2>5. Up(g, k)
    BY <2>3, <2>4
  <2> HIDE DEF Up, g
  <2>6. QED BY <2>5
<1>3. G = 0..N
  <2>1. G \subseteq 0..N
    OBVIOUS
  <2> HIDE DEF G
  <2>2. QED BY <1>1, <1>2, <2>1, UpTo
<1>4. PICK f : Up(f, N)
  BY <1>3
<1> DEFINE Rec(h) == h = [n \in 0..N |-> IF n = 0 THEN x ELSE step[h[n - 1]]]
<1>5. Rec(f)
  BY <1>4
<1>6. ASSUME NEW h, Rec(h) PROVE h \in [0..N -> S]
  <2> DEFINE H == {n \in 0..N : h[n] \in S}
  <2>1. 0 \in H
    BY <1>6
  <2>2. ASSUME NEW n \in 1..N, n - 1 \in H PROVE n \in H
    <3>1. h[n] = step[h[n - 1]]
      BY <1>6
    <3>2. QED BY <2>2, <3>1
  <2>3. H = 0..N
    <3>1. H \subseteq 0..N
      OBVIOUS
    <3> HIDE DEF H
    <3>2. QED BY <2>1, <2>2, <3>1, UpTo
  <2>4. \A n \in 0..N : h[n] \in S
    BY <2>3
  <2>5. h = [n \in 0..N |-> h[n]]
    BY <1>6
  <2> HIDE DEF Rec
  <2>6. QED BY <2>4, <2>5
<1> DEFINE up == CHOOSE h : Rec(h)
<1>7. Rec(up)
  <2> HIDE DEF Rec
  <2>1. QED BY <1>5
<1>8. up \in [0..N -> S]
  <2> HIDE DEF Rec, up
  <2>1. QED BY <1>6, <1>7
<1>9. QED BY <1>8 DEF Iterates

\* A node is put in a directory, or in a place that no node is.
LEMMA AncestorFacts ==
  ASSUME NEW r \in NodeSetCRDT, Rooted(r), NEW x \in Place \ File
  PROVE  Ancestor(r, x) \in Place \ File
<1> DEFINE above == [y \in Place |-> IF Has(r, y) /\ ~Exists(r, y) THEN r.add[y].place ELSE y]
           S == Place \ File
           N == Cardinality(Id)
           up == Iterates(above, x, N)
<1>1. \A y \in S : above[y] \in S
  BY NodeSetFacts DEF Rooted, Has
<1>2. Ancestor(r, x) = up[N]
  BY DEF Ancestor, Iterates
<1>3. N \in Nat /\ x \in S
  BY Constants
<1>4. up \in [0..N -> S]
  <2> HIDE DEF above, S, N
  <2>1. QED BY <1>1, <1>3, IteratesFacts
<1>5. N \in 0..N
  BY <1>3
<1> HIDE DEF up
<1>6. QED BY <1>2, <1>4, <1>5

\* A place that is a name stands for directories.
LEMMA NamedFacts ==
  ASSUME NEW r, Sound(r), NEW y \in Place \ File, y # NoPlace
  PROVE  /\ Named(r, y) \subseteq Place \ File
         /\ Named(r, y) \subseteq (Id \ File) \cup {y}
         /\ y \in Id => Named(r, y) = {y}
<1> DEFINE hits == {i \in Added(r) : r.add[i].name = <<y>>}
<1>1. \A i \in hits : i \in Id /\ NameOf[i] = y
  BY DEF Added, Sound, Labelled
<1>2. y \in Id => hits = {}
  BY <1>1, Places
<1>3. \A i \in hits : i \notin File
  <2>1. y \in Dead \/ y \in Id
    BY DEF Place
  <2>2. QED BY <1>1, <1>2, <2>1, Places
<1>4. Named(r, y) = IF hits = {} THEN {y} ELSE hits
  BY DEF Named
<1> HIDE DEF hits
<1>5. hits \subseteq (Id \ File) /\ hits \subseteq Place
  BY <1>1, <1>3 DEF Place
<1>6. QED BY <1>2, <1>4, <1>5

-----------------------------------------------------------------------------
(* The sets of the replicas, and what the calls visit.                     *)

ContentTyped ==
  /\ lines \in [File -> [Index -> Stamp]]
  /\ deleted \in [File -> [Index -> Stamp]]
  /\ edits \in [File -> SUBSET Edit]

LEMMA StampFacts ==
  /\ \A t \in Nat, o \in Origin : [ts |-> t, id |-> o] \in Stamp
  /\ Absent \in Stamp
BY Constants DEF Stamp, Absent

LEMMA InitSets == Init => SetsInv
<1> SUFFICES ASSUME Init PROVE SetsInv
  OBVIOUS
<1> DEFINE n(i) == IF i = Root THEN NewNode(i, 1, 0) ELSE NoNode(i)
           a == [i \in Id |-> n(i)]
           m == [i \in Id |-> Absent]
           c == [r \in Origin |-> IF r = 0 THEN 1 ELSE 0]
           s == [add |-> a, remove |-> m, clock |-> c]
<1>1. replica = [p \in Replica |-> s]
  BY DEF Init
<1>2. ASSUME NEW i \in Id
      PROVE  /\ n(i) \in Node /\ n(i).ts = (IF i = Root THEN 1 ELSE 0) /\ n(i).id = 0
             /\ n(i).place = PlaceOf[i] /\ n(i).name = <<NameOf[i]>>
  <2>1. 0 \in Origin /\ 0 \in Nat /\ 1 \in Nat
    BY Constants
  <2>2. QED BY <2>1, NewNodeFacts DEF NoNode
<1>3. a \in [Id -> Node] /\ m \in [Id -> Stamp] /\ c \in [Origin -> Nat]
  <2>1. a \in [Id -> Node]
    <3> HIDE DEF n
    <3>1. QED BY <1>2
  <2>2. QED BY <2>1, StampFacts
<1>4. \A i \in Id : a[i] = n(i) /\ m[i] = Absent
  OBVIOUS
<1>5. c[0] = 1
  BY Constants
<1> HIDE DEF n, a, m, c
<1>6. s \in NodeSetCRDT /\ s.add = a /\ s.remove = m /\ s.clock = c
  BY <1>3 DEF NodeSetCRDT
<1> HIDE DEF s
<1>7. Rooted(s)
  BY <1>2, <1>4, <1>6, Places DEF Rooted
<1>8. Labelled(s)
  BY <1>2, <1>4, <1>6 DEF Labelled
<1>9. Covered(s)
  BY <1>2, <1>4, <1>5, <1>6 DEF Covered, Absent
<1>10. Sound(s)
  BY <1>2, <1>4, <1>6, <1>7, <1>8, <1>9, Constants DEF Sound, Has
<1>11. replica \in [Replica -> NodeSetCRDT] /\ \A p \in Replica : Sound(replica[p])
  BY <1>1, <1>6, <1>10
<1>12. FilesAreOld
  BY <1>1, <1>2, <1>4, <1>6, Constants DEF FilesAreOld, Init
<1>13. ContentTyped
  BY StampFacts DEF Init, ContentTyped
<1>14. scenario.calls \in Nat
  BY ScenarioAssumption DEF Init
<1>15. TypeOK
  BY <1>11, <1>13, <1>14, Constants DEF Init, TypeOK, ContentTyped, NoCall
<1>16. Visiting
  BY DEF Init, Visiting, NoCall
<1>17. QED BY <1>11, <1>12, <1>15, <1>16 DEF SetsInv, Init

LEMMA CallFacts ==
  ASSUME SetsInv, Call
  PROVE  /\ running = NoCall /\ running.what = "none" /\ todo = {} /\ seen = {}
         /\ scenario' = scenario /\ scenario' \in Scenario
         /\ now \in Nat /\ now' \in Nat /\ now <= now' /\ now' > 0
         /\ ops' \in 0..scenario'.calls
         /\ ~scenario.ties => now' = now + 3
<1>1. running = NoCall /\ todo = {} /\ scenario \in Scenario /\ now \in Nat /\ now > 0 /\ ops \in 0..scenario.calls
  BY DEF SetsInv, TypeOK, Visiting, Call
<1>2. running.what = "none" /\ seen = {}
  BY <1>1 DEF SetsInv, Visiting, NoCall
<1>3. now' = now + 3 \/ (scenario.ties /\ now' = now)
  BY DEF Call
<1>4. now' = now + 3 \/ now' = now
  BY <1>3, Zenon
<1>5. ~scenario.ties => now' = now + 3
  BY <1>3, Zenon
<1>6. scenario' = scenario /\ ops' = ops + 1 /\ ops < scenario.calls
  BY DEF Call
<1>7. scenario.calls \in Nat
  BY <1>1, ScenarioAssumption
<1>8. QED BY <1>1, <1>2, <1>4, <1>5, <1>6, <1>7

\* The set of one replica is changed.
LEMMA OneSet ==
  ASSUME SetsInv, NEW p \in Replica, NEW X, Sound(X),
         replica' = [replica EXCEPT ![p] = X]
  PROVE  /\ replica' \in [Replica -> NodeSetCRDT]
         /\ replica'[p] = X /\ \A q \in Replica : q # p => replica'[q] = replica[q]
         /\ \A q \in Replica : Sound(replica'[q])
<1>1. replica \in [Replica -> NodeSetCRDT] /\ X \in NodeSetCRDT
      /\ \A q \in Replica : Sound(replica[q])
  BY DEF SetsInv, TypeOK, Sound
<1>2. QED BY <1>1

\* A call of one step.
LEMMA QuietCall ==
  ASSUME SetsInv, Call, UNCHANGED callVars,
         replica' \in [Replica -> NodeSetCRDT], \A q \in Replica : Sound(replica'[q]),
         ContentTyped', FilesAreOld'
  PROVE  SetsInv'
<1>1. /\ running' = NoCall /\ running'.what = "none" /\ todo' = {} /\ seen' = {}
      /\ scenario' \in Scenario /\ now' \in Nat /\ now' > 0 /\ ops' \in 0..scenario'.calls
  BY CallFacts DEF callVars
<1>2. running' \in [what : {"none", "sync", "reattach", "resolve"}, at : Origin, policy : Policy \cup {"none"}]
  BY <1>1, Constants DEF NoCall
<1>3. TypeOK'
  BY <1>1, <1>2 DEF TypeOK, ContentTyped
<1>4. Visiting'
  BY <1>1 DEF Visiting
<1>5. QED BY <1>1, <1>3, <1>4 DEF SetsInv

LEMMA SetsTyped ==
  ASSUME SetsInv
  PROVE  /\ ContentTyped /\ now \in Nat /\ now > 0
         /\ \A p \in Replica : Sound(replica[p]) /\ replica[p] \in NodeSetCRDT
BY DEF SetsInv, TypeOK, ContentTyped, Sound

LEMMA StillOld ==
  ASSUME SetsInv, now' \in Nat, now <= now',
         \A p \in Replica, f \in File : replica'[p].add[f].ts = replica[p].add[f].ts
  PROVE  FilesAreOld'
<1>1. ASSUME NEW p \in Replica, NEW f \in File PROVE replica'[p].add[f].ts <= now'
  <2>1. replica[p].add[f].ts \in Nat /\ replica[p].add[f].ts <= now /\ now \in Nat
    BY SetsTyped, NodeSetFacts, Constants DEF SetsInv, FilesAreOld
  <2>2. QED BY <2>1
<1>2. QED BY <1>1 DEF FilesAreOld

LEMMA CreateSets ==
  ASSUME SetsInv, NEW p \in Replica, NEW i \in Id, Create(p, i)
  PROVE  SetsInv'
<1> DEFINE n == NewNode(i, now', p)
           X == Add(replica[p], i, n)
<1>1. /\ Call /\ UNCHANGED callVars /\ UNCHANGED contentVars
      /\ now' \in Nat /\ now \in Nat /\ now <= now' /\ now' > 0
      /\ replica' = [replica EXCEPT ![p] = X]
  BY CallFacts DEF Create
<1>2. Sound(replica[p]) /\ replica[p] \in NodeSetCRDT /\ ~Has(replica[p], i)
  BY SetsTyped DEF Create
<1>3. /\ n \in Node /\ n.ts = now' /\ n.id = p /\ n.place = PlaceOf[i]
      /\ n.name = <<NameOf[i]>>
  BY <1>1, NewNodeFacts, Constants
<1> HIDE DEF n
<1>4. Later(n, replica[p].add[i])
  <2>1. replica[p].add[i].ts = 0
    BY <1>2, NodeSetFacts DEF Has
  <2>2. QED BY <1>1, <1>3, <2>1 DEF Later
<1>5. Sound(X) /\ X.add[i] = n /\ \A j \in Id : j # i => X.add[j] = replica[p].add[j]
  <2>1. n.place = NoPlace <=> i = Root
    BY <1>3, Places
  <2>2. n.place \notin File /\ n.name # << >> /\ n.name[1] = NameOf[i]
    BY <1>3, Places
  <2>3. QED BY <1>1, <1>2, <1>3, <1>4, <2>1, <2>2, SoundAdd, AddFacts
<1> HIDE DEF X
<1>6. /\ replica' \in [Replica -> NodeSetCRDT] /\ \A q \in Replica : Sound(replica'[q])
      /\ replica'[p] = X /\ \A q \in Replica : q # p => replica'[q] = replica[q]
  BY <1>1, <1>5, OneSet
<1>7. FilesAreOld'
  <2>1. ASSUME NEW q \in Replica, NEW f \in File PROVE replica'[q].add[f].ts <= now'
    <3>1. replica[q].add[f].ts \in Nat /\ replica[q].add[f].ts <= now
      BY SetsTyped, NodeSetFacts, Constants DEF SetsInv, FilesAreOld
    <3>2. replica'[q].add[f] = n \/ replica'[q].add[f] = replica[q].add[f]
      BY <1>5, <1>6, Constants
    <3>3. QED BY <1>1, <1>3, <3>1, <3>2
  <2>2. QED BY <2>1 DEF FilesAreOld
<1>8. ContentTyped'
  BY <1>1, SetsTyped DEF ContentTyped, contentVars
<1>9. QED BY <1>1, <1>6, <1>7, <1>8, QuietCall

LEMMA RemoveNodeSets ==
  ASSUME SetsInv, NEW p \in Replica, NEW i \in Id, RemoveNode(p, i)
  PROVE  SetsInv'
<1> DEFINE X == RemoveID(replica[p], i, [ts |-> now' + 1, id |-> p])
<1>1. /\ Call /\ UNCHANGED callVars /\ UNCHANGED contentVars
      /\ now' \in Nat /\ now \in Nat /\ now <= now'
      /\ replica' = [replica EXCEPT ![p] = X]
  BY CallFacts DEF RemoveNode
<1>2. Sound(replica[p]) /\ replica[p] \in NodeSetCRDT
  BY SetsTyped
<1>3. [ts |-> now' + 1, id |-> p] \in Stamp
  BY <1>1, StampFacts, Constants
<1>4. Sound(X) /\ X.add = replica[p].add
  BY <1>2, <1>3, SoundRemove, RemoveFacts
<1> HIDE DEF X
<1>5. /\ replica' \in [Replica -> NodeSetCRDT] /\ \A q \in Replica : Sound(replica'[q])
      /\ replica'[p] = X /\ \A q \in Replica : q # p => replica'[q] = replica[q]
  BY <1>1, <1>4, OneSet
<1>6. FilesAreOld'
  BY <1>1, <1>4, <1>5, StillOld
<1>7. ContentTyped'
  BY <1>1, SetsTyped DEF ContentTyped, contentVars
<1>8. QED BY <1>1, <1>5, <1>6, <1>7, QuietCall

\* One replica merges another one, in a call of one step or in SyncAll.
LEMMA MergedSets ==
  ASSUME SetsInv, NEW p \in Replica, NEW q \in Replica,
         replica' = [replica EXCEPT ![p] = Merge(@, replica[q])],
         now' \in Nat, now <= now'
  PROVE  /\ replica' \in [Replica -> NodeSetCRDT] /\ \A x \in Replica : Sound(replica'[x])
         /\ replica'[p] = Merge(replica[p], replica[q])
         /\ \A x \in Replica : x # p => replica'[x] = replica[x]
         /\ FilesAreOld'
<1> DEFINE X == Merge(replica[p], replica[q])
<1>1. Sound(replica[p]) /\ Sound(replica[q])
  BY SetsTyped
<1>2. /\ Sound(X)
      /\ \A i \in Id : X.add[i] = replica[p].add[i] \/ X.add[i] = replica[q].add[i]
  BY <1>1, SoundMerge, MergeFacts
<1>3. replica' = [replica EXCEPT ![p] = X]
  OBVIOUS
<1> HIDE DEF X
<1>4. /\ replica' \in [Replica -> NodeSetCRDT] /\ \A x \in Replica : Sound(replica'[x])
      /\ replica'[p] = X /\ \A x \in Replica : x # p => replica'[x] = replica[x]
  BY <1>2, <1>3, OneSet
<1>5. ASSUME NEW x \in Replica, NEW f \in File PROVE replica'[x].add[f].ts <= now'
  <2>1. \A y \in Replica : replica[y].add[f].ts \in Nat /\ replica[y].add[f].ts <= now
    BY SetsTyped, NodeSetFacts, Constants DEF SetsInv, FilesAreOld
  <2>2. \E y \in Replica : replica'[x].add[f] = replica[y].add[f]
    BY <1>2, <1>4, Constants
  <2>3. now \in Nat
    BY SetsTyped
  <2>4. QED BY <2>1, <2>2, <2>3
<1>6. QED BY <1>4, <1>5 DEF FilesAreOld, X

LEMMA MergeFromSets ==
  ASSUME SetsInv, NEW p \in Replica, NEW q \in Replica, MergeFrom(p, q)
  PROVE  SetsInv'
<1>1. /\ Call /\ UNCHANGED callVars /\ UNCHANGED contentVars
      /\ now' \in Nat /\ now <= now'
      /\ replica' = [replica EXCEPT ![p] = Merge(@, replica[q])]
  BY CallFacts DEF MergeFrom
<1>2. ContentTyped'
  BY <1>1, SetsTyped DEF ContentTyped, contentVars
<1>3. QED BY <1>1, <1>2, MergedSets, QuietCall

LEMMA SameSets ==
  ASSUME SetsInv, UNCHANGED replica, now' \in Nat, now <= now'
  PROVE  /\ replica' \in [Replica -> NodeSetCRDT] /\ \A x \in Replica : Sound(replica'[x])
         /\ FilesAreOld'
BY StillOld DEF SetsInv, TypeOK

LEMMA EditSets ==
  ASSUME SetsInv, NEW p \in Replica, NEW f \in File, NEW i \in Index,
         AppendLine(p, f, i) \/ RemoveLine(p, f, i)
  PROVE  SetsInv'
<1> DEFINE s == [ts |-> now', id |-> p]
<1>1. /\ Call /\ UNCHANGED callVars /\ UNCHANGED replica
      /\ now' \in Nat /\ now <= now'
  BY CallFacts DEF AppendLine, RemoveLine
<1>2. s \in Stamp
  BY <1>1, StampFacts, Constants
<1>3. ContentTyped
  BY SetsTyped
<1>4. lines' \in [File -> [Index -> Stamp]]
  <2>1. lines' = lines \/ lines' = [lines EXCEPT ![f] = [lines[f] EXCEPT ![i] = s]]
    BY DEF AppendLine, RemoveLine
  <2>2. [lines[f] EXCEPT ![i] = s] \in [Index -> Stamp]
    BY <1>2, <1>3 DEF ContentTyped
  <2>3. QED BY <1>3, <2>1, <2>2 DEF ContentTyped
<1>5. deleted' \in [File -> [Index -> Stamp]]
  <2>1. deleted' = deleted \/ deleted' = [deleted EXCEPT ![f] = [deleted[f] EXCEPT ![i] = s]]
    BY DEF AppendLine, RemoveLine
  <2>2. [deleted[f] EXCEPT ![i] = s] \in [Index -> Stamp]
    BY <1>2, <1>3 DEF ContentTyped
  <2>3. QED BY <1>3, <2>1, <2>2 DEF ContentTyped
<1>6. edits' \in [File -> SUBSET Edit]
  <2>1. \A kind \in {"line", "tombstone"} :
          [kind |-> kind, index |-> i, ts |-> now', id |-> p] \in Edit
    BY <1>1 DEF Edit
  <2>2. \E kind \in {"line", "tombstone"} :
          edits' = [edits EXCEPT ![f] = edits[f] \cup {[kind |-> kind, index |-> i, ts |-> now', id |-> p]}]
    BY DEF AppendLine, RemoveLine
  <2>3. PICK e \in Edit : edits' = [edits EXCEPT ![f] = edits[f] \cup {e}]
    BY <2>1, <2>2
  <2>4. QED BY <1>3, <2>3 DEF ContentTyped
<1>7. ContentTyped'
  BY <1>4, <1>5, <1>6 DEF ContentTyped
<1>8. QED BY <1>1, <1>7, SameSets, QuietCall

\* A call of several steps begins.
LEMMA StartSets ==
  ASSUME SetsInv, NEW what \in {"sync", "reattach", "resolve"}, NEW p \in Origin,
         NEW policy \in Policy \cup {"none"}, NEW nodes, Start(what, p, policy, nodes),
         what = "sync" => \A pq \in nodes : pq \in Replica \X Replica /\ pq[1] # pq[2],
         what # "sync" => p \in Replica /\ nodes \subseteq Added(replica[p]) \ {Root},
         what = "reattach" => policy \in scenario.does,
         what = "resolve" => "resolve" \in scenario.does
  PROVE  SetsInv'
<1>1. /\ Call /\ UNCHANGED <<seen, replica, contentVars>>
      /\ now' \in Nat /\ now <= now' /\ now' > 0 /\ seen = {}
      /\ scenario' = scenario /\ scenario' \in Scenario /\ ops' \in 0..scenario'.calls
      /\ running' = [what |-> what, at |-> p, policy |-> policy] /\ todo' = nodes
  BY CallFacts DEF Start
<1>2. /\ running'.what = what /\ running'.at = p /\ running'.policy = policy
      /\ running' \in [what : {"none", "sync", "reattach", "resolve"}, at : Origin, policy : Policy \cup {"none"}]
  BY <1>1
<1>3. nodes \subseteq Id \cup (Replica \X Replica)
  BY DEF Added
<1>4. ContentTyped'
  BY <1>1, SetsTyped DEF ContentTyped, contentVars
<1>5. /\ replica' \in [Replica -> NodeSetCRDT] /\ \A x \in Replica : Sound(replica'[x])
      /\ FilesAreOld'
  BY <1>1, SameSets
<1>6. TypeOK'
  BY <1>1, <1>2, <1>3, <1>4, <1>5 DEF TypeOK, ContentTyped
<1>7. Visiting'
  <2>1. running' # NoCall
    BY <1>2 DEF NoCall
  <2>2. what # "sync" => Here' = replica[p]
    BY <1>1, <1>2 DEF Here
  <2>3. QED BY <1>1, <1>2, <2>1, <2>2 DEF Visiting
<1>8. QED BY <1>1, <1>5, <1>6, <1>7 DEF SetsInv

LEMMA SyncAllSets == ASSUME SetsInv, SyncAll PROVE SetsInv'
<1> DEFINE pairs == {pq \in Replica \X Replica : pq[1] # pq[2]}
<1>1. Start("sync", 0, "none", pairs)
  BY DEF SyncAll
<1>2. \A pq \in pairs : pq \in Replica \X Replica /\ pq[1] # pq[2]
  OBVIOUS
<1> HIDE DEF pairs
<1>3. QED BY <1>1, <1>2, StartSets, Constants

LEMMA ReattachOrphansSets ==
  ASSUME SetsInv, NEW p \in Replica, NEW policy \in Policy, ReattachOrphans(p, policy)
  PROVE  SetsInv'
BY StartSets, Constants DEF ReattachOrphans

LEMMA ResolveNameConflictsSets ==
  ASSUME SetsInv, NEW p \in Replica, ResolveNameConflicts(p)
  PROVE  SetsInv'
BY StartSets, Constants DEF ResolveNameConflicts

LEMMA ReturnSets == ASSUME SetsInv, Return PROVE SetsInv'
<1>1. /\ running' = NoCall /\ running'.what = "none" /\ todo' = {} /\ seen' = {}
      /\ scenario' = scenario /\ now' = now /\ ops' = ops
      /\ UNCHANGED <<replica, contentVars>>
  BY DEF Return, NoCall
<1>2. now' \in Nat /\ now <= now' /\ now' > 0
  BY <1>1, SetsTyped
<1>3. running' \in [what : {"none", "sync", "reattach", "resolve"}, at : Origin, policy : Policy \cup {"none"}]
  BY <1>1, Constants DEF NoCall
<1>4. /\ replica' \in [Replica -> NodeSetCRDT] /\ \A x \in Replica : Sound(replica'[x])
      /\ FilesAreOld'
  BY <1>1, <1>2, SameSets
<1>5. ContentTyped'
  BY <1>1, SetsTyped DEF ContentTyped, contentVars
<1>6. TypeOK'
  BY <1>1, <1>3, <1>4, <1>5 DEF TypeOK, ContentTyped, SetsInv
<1>7. Visiting'
  BY <1>1 DEF Visiting
<1>8. QED BY <1>2, <1>4, <1>6, <1>7 DEF SetsInv

LEMMA SyncPairSets == ASSUME SetsInv, SyncPair PROVE SetsInv'
<1>1. PICK pq \in todo :
        /\ replica' = [replica EXCEPT ![pq[1]] = Merge(@, replica[pq[2]])]
        /\ GoOn(pq)
  BY DEF SyncPair
<1>2. /\ running.what = "sync" /\ pq[1] \in Replica /\ pq[2] \in Replica
      /\ UNCHANGED <<scenario, now, ops, running, seen, contentVars>>
      /\ todo' = todo \ {pq}
  BY <1>1 DEF SyncPair, GoOn, SetsInv, Visiting
<1>3. now' \in Nat /\ now <= now' /\ now' > 0
  BY <1>2, SetsTyped
<1>4. /\ replica' \in [Replica -> NodeSetCRDT] /\ \A x \in Replica : Sound(replica'[x])
      /\ FilesAreOld'
  BY <1>1, <1>2, <1>3, MergedSets
<1>5. ContentTyped'
  BY <1>2, SetsTyped DEF ContentTyped, contentVars
<1>6. TypeOK'
  BY <1>2, <1>4, <1>5 DEF TypeOK, ContentTyped, SetsInv
<1>7. Visiting'
  <2>1. running # NoCall
    BY <1>2 DEF NoCall
  <2>2. QED BY <1>2, <2>1 DEF SetsInv, Visiting
<1>8. QED BY <1>3, <1>4, <1>6, <1>7 DEF SetsInv

\* A node is visited.
SeenTyped == seen \subseteq [place : Place, name : Name, id : Id]

LEMMA VisitSets ==
  ASSUME SetsInv, running.what \in {"reattach", "resolve"}, NEW i, GoOn(i),
         NEW X, Sound(X), Store(X),
         \A j \in Id : Has(Here, j) => Has(X, j),
         \A f \in File : X.add[f].ts = Here.add[f].ts,
         ContentTyped', SeenTyped', running.what = "reattach" => seen' = {}
  PROVE  /\ SetsInv'
         /\ Here' = X /\ \A q \in Replica : q # running.at => replica'[q] = replica[q]
<1>1. /\ UNCHANGED <<scenario, now, ops, running>> /\ todo' = todo \ {i}
      /\ running.at \in Replica /\ todo \subseteq Added(Here) \ {Root}
  BY DEF GoOn, SetsInv, Visiting
<1>2. now' \in Nat /\ now <= now' /\ now' > 0
  BY <1>1, SetsTyped
<1>3. /\ replica' \in [Replica -> NodeSetCRDT] /\ \A q \in Replica : Sound(replica'[q])
      /\ replica'[running.at] = X
      /\ \A q \in Replica : q # running.at => replica'[q] = replica[q]
  BY <1>1, OneSet DEF Store
<1>4. Here' = X
  BY <1>1, <1>3 DEF Here
<1>5. FilesAreOld'
  BY <1>1, <1>2, <1>3, StillOld DEF Here
<1>6. TypeOK'
  BY <1>1, <1>3 DEF TypeOK, ContentTyped, SeenTyped, SetsInv
<1>7. Visiting'
  <2>1. running' # NoCall /\ running'.what \in {"reattach", "resolve"}
    BY <1>1 DEF NoCall
  <2>2. Added(Here) \subseteq Added(X)
    BY DEF Added, Has
  <2>3. todo' \subseteq Added(Here') \ {Root}
    BY <1>1, <1>4, <2>2
  <2>4. QED BY <1>1, <2>1, <2>3 DEF SetsInv, Visiting
<1>8. QED BY <1>2, <1>3, <1>4, <1>5, <1>6, <1>7 DEF SetsInv

LEMMA VisitKeeps ==
  ASSUME SetsInv, running.what \in {"reattach", "resolve"}, NEW i, GoOn(i),
         UNCHANGED <<seen, replica, contentVars>>
  PROVE  SetsInv' /\ Here' = Here
<1>1. running.at \in Replica /\ running' = running
  BY DEF SetsInv, Visiting, GoOn
<1>2. Sound(Here) /\ Store(Here)
  <2>1. replica = [replica EXCEPT ![running.at] = replica[running.at]]
    BY <1>1 DEF SetsInv, TypeOK
  <2>2. QED BY <1>1, <2>1, SetsTyped DEF Here, Store
<1>3. ContentTyped' /\ SeenTyped'
  BY SetsTyped DEF ContentTyped, contentVars, SeenTyped, SetsInv, TypeOK
<1>4. running.what = "reattach" => seen' = {}
  BY DEF SetsInv, Visiting
<1>5. QED BY <1>2, <1>3, <1>4, VisitSets

\* What holds of the set the call works on.
LEMMA HereFacts ==
  ASSUME SetsInv, running.what \in {"reattach", "resolve"}, NEW i \in todo
  PROVE  /\ running.at \in Replica /\ Sound(Here) /\ Here \in NodeSetCRDT
         /\ i \in Id /\ i # Root /\ Has(Here, i)
         /\ todo \subseteq Added(Here) \ {Root}
         /\ Here.add[i] \in Node /\ Here.add[i].place \in Place \ File /\ Here.add[i].place # NoPlace
         /\ Here.add[i].name \in Name /\ Here.add[i].name # << >> /\ Here.add[i].name[1] = NameOf[i]
<1>1. running.at \in Replica /\ todo \subseteq Added(Here) \ {Root}
  BY DEF SetsInv, Visiting
<1>2. Sound(Here) /\ Here \in NodeSetCRDT
  BY <1>1, SetsTyped DEF Here
<1>3. i \in Id /\ i # Root /\ Has(Here, i)
  BY <1>1 DEF Added, Has
<1>4. Here.add[i] \in Node /\ Here.add[i].place \in Place /\ Here.add[i].name \in Name
  BY <1>2, <1>3, NodeSetFacts
<1>5. QED BY <1>1, <1>2, <1>3, <1>4 DEF Sound, Rooted, Labelled

\* A node is put elsewhere.
LEMMA MovedFacts ==
  ASSUME SetsInv, running.what = "reattach", NEW i \in todo,
         NEW x \in Place \ File, x # NoPlace
  PROVE  LET X == [Here EXCEPT !.add[i].place = x]
         IN  /\ Sound(X) /\ X.remove = Here.remove /\ X.clock = Here.clock
             /\ \A j \in Id : X.add[j].ts = Here.add[j].ts /\ X.add[j].id = Here.add[j].id
             /\ \A j \in Id : Has(X, j) <=> Has(Here, j)
<1> DEFINE n == [Here.add[i] EXCEPT !.place = x]
           X == [Here EXCEPT !.add[i].place = x]
<1>1. /\ running.at \in Replica /\ Sound(Here) /\ Here \in NodeSetCRDT
      /\ i \in Id /\ i # Root
      /\ Here.add[i] \in Node
      /\ Here.add[i].name # << >> /\ Here.add[i].name[1] = NameOf[i]
  BY HereFacts
<1>2. /\ n \in Node /\ n.ts = Here.add[i].ts /\ n.id = Here.add[i].id /\ n.place = x
      /\ n.name = Here.add[i].name
  BY <1>1 DEF Node
<1>3. X = [Here EXCEPT !.add[i] = n]
  OBVIOUS
<1> HIDE DEF n, X
<1>4. /\ X.remove = Here.remove /\ X.clock = Here.clock
      /\ X.add[i] = n /\ \A j \in Id : j # i => X.add[j] = Here.add[j]
  BY <1>1, <1>2, <1>3, EntryChanged
<1>5. Sound(X)
  BY <1>1, <1>2, <1>3, SoundEntry
<1>6. \A j \in Id : X.add[j].ts = Here.add[j].ts /\ X.add[j].id = Here.add[j].id
  BY <1>2, <1>4
<1>7. \A j \in Id : Has(X, j) <=> Has(Here, j)
  BY <1>6 DEF Has
<1>8. QED BY <1>4, <1>5, <1>6, <1>7 DEF X

LEMMA VisitFacts ==
  ASSUME SetsInv, NEW i \in todo, NEW policy, Visit(i, policy)
  PROVE  /\ running.what = "reattach" /\ running.policy = policy /\ policy \in scenario.does
         /\ Here.add[i].place # NoPlace /\ ~Exists(Here, Here.add[i].place)
         /\ GoOn(i) /\ UNCHANGED <<seen, contentVars>>
         /\ seen' = {} /\ ContentTyped' /\ SeenTyped'
<1>1. running.what = "reattach" /\ running.policy = policy /\ policy \in scenario.does /\ seen = {}
  BY DEF Visit, SetsInv, Visiting
<1>2. GoOn(i) /\ UNCHANGED <<seen, contentVars>> /\ Orphan(i)
  BY DEF Visit
<1>3. ContentTyped'
  BY <1>2, SetsTyped DEF ContentTyped, contentVars
<1>4. QED BY <1>1, <1>2, <1>3 DEF Orphan, SeenTyped

\* "root" and "compact" put a node elsewhere.
LEMMA MoveSets ==
  ASSUME SetsInv, NEW i \in todo, ReattachRoot(i) \/ ReattachCompact(i)
  PROVE  /\ SetsInv'
         /\ \A q \in Replica : q # running.at => replica'[q] = replica[q]
         /\ Here'.remove = Here.remove /\ Here'.clock = Here.clock
         /\ \A j \in Id : Here'.add[j].ts = Here.add[j].ts /\ Here'.add[j].id = Here.add[j].id
<1>1. PICK x \in Place \ File : x # NoPlace /\ Store([Here EXCEPT !.add[i].place = x])
  <2>1. CASE ReattachRoot(i)
    BY <2>1, Constants DEF ReattachRoot, Place
  <2>2. CASE ReattachCompact(i)
    <3>1. PICK y \in Named(Here, Here.add[i].place) :
            Store([Here EXCEPT !.add[i].place =
                     IF Ancestor(Here, y) = NoPlace THEN Root ELSE Ancestor(Here, y)])
      BY <2>2 DEF ReattachCompact
    <3>2. Visit(i, "compact") /\ running.what \in {"reattach", "resolve"}
      BY <2>2 DEF ReattachCompact, Visit
    <3>3. y \in Place \ File /\ Here \in NodeSetCRDT /\ Rooted(Here)
      BY <3>1, <3>2, HereFacts, NamedFacts DEF Sound
    <3>4. Ancestor(Here, y) \in Place \ File
      BY <3>3, AncestorFacts
    <3> DEFINE x == IF Ancestor(Here, y) = NoPlace THEN Root ELSE Ancestor(Here, y)
    <3>5. x \in Place \ File /\ x # NoPlace
      BY <3>4, Constants DEF Place
    <3> HIDE DEF x
    <3>6. QED BY <3>1, <3>5 DEF x
  <2>3. QED BY <2>1, <2>2
<1>2. PICK policy : Visit(i, policy)
  BY DEF ReattachRoot, ReattachCompact
<1>3. running.what = "reattach" /\ GoOn(i) /\ seen' = {} /\ ContentTyped' /\ SeenTyped'
  BY <1>2, VisitFacts
<1> DEFINE X == [Here EXCEPT !.add[i].place = x]
<1>4. /\ Sound(X) /\ X.remove = Here.remove /\ X.clock = Here.clock
      /\ \A j \in Id : X.add[j].ts = Here.add[j].ts /\ X.add[j].id = Here.add[j].id
      /\ \A j \in Id : Has(X, j) <=> Has(Here, j)
  BY <1>1, <1>3, MovedFacts
<1>5. Store(X)
  BY <1>1
<1> HIDE DEF X
<1>6. SetsInv' /\ Here' = X /\ \A q \in Replica : q # running.at => replica'[q] = replica[q]
  BY <1>3, <1>4, <1>5, VisitSets, Constants
<1>7. QED BY <1>4, <1>6

LEMMA SkipSets ==
  ASSUME SetsInv, NEW i \in todo, ReattachSkip(i)
  PROVE  /\ SetsInv'
         /\ \A q \in Replica : q # running.at => replica'[q] = replica[q]
         /\ Here'.add = Here.add
<1> DEFINE s == [ts |-> now, id |-> Here.add[i].id]
           X == RemoveID(Here, i, s)
<1>1. Visit(i, "skip") /\ Store(X)
  BY DEF ReattachSkip
<1>2. running.what = "reattach" /\ GoOn(i) /\ seen' = {} /\ ContentTyped' /\ SeenTyped'
  BY <1>1, VisitFacts
<1>3. Sound(Here) /\ Here \in NodeSetCRDT /\ i \in Id
  BY <1>2, HereFacts
<1>4. s \in Stamp
  BY <1>3, NodeSetFacts, StampFacts, SetsTyped
<1>5. Sound(X) /\ X.add = Here.add
  BY <1>3, <1>4, SoundRemove, RemoveFacts
<1> HIDE DEF X
<1>6. SetsInv' /\ Here' = X /\ \A q \in Replica : q # running.at => replica'[q] = replica[q]
  BY <1>1, <1>2, <1>5, VisitSets DEF Has
<1>7. QED BY <1>5, <1>6

\* The directory that reappears is shown, and nothing else changes but the clock.
LEMMA ReappearFacts ==
  ASSUME NEW r, Sound(r), NEW i \in Id, NEW x \in Id
  PROVE  LET X == Reappear(r, i, x)
         IN  /\ Sound(X) /\ X.remove = r.remove
             /\ Has(r, x) => Exists(X, x)
             /\ \A j \in Id : j # x => X.add[j] = r.add[j]
             /\ \A j \in Id : Has(X, j) <=> Has(r, j)
             /\ \A j \in Id : X.add[j].place = r.add[j].place
<1> DEFINE n == [r.add[x] EXCEPT !.ts = r.remove[x].ts + 1, !.id = r.add[i].id]
           X == Reappear(r, i, x)
<1>1. r \in NodeSetCRDT
  BY DEF Sound
<1>2. CASE ~(Has(r, x) /\ ~Exists(r, x))
  <2>1. X = r
    BY <1>2 DEF Reappear
  <2>2. QED BY <1>2, <2>1
<1>3. CASE Has(r, x) /\ ~Exists(r, x)
  <2>1. X = Add(r, x, n)
    BY <1>3 DEF Reappear
  <2>2. /\ r.add[x] \in Node /\ r.remove[x].ts \in Nat /\ r.add[i].id \in Origin
        /\ r.add[x].ts \in Nat /\ r.add[x].id \in Nat /\ r.remove[x].id \in Nat
    BY <1>1, NodeSetFacts, Constants
  <2>3. /\ n.ts = r.remove[x].ts + 1 /\ n.id = r.add[i].id
        /\ n.place = r.add[x].place /\ n.name = r.add[x].name /\ n \in Node
    <3> DEFINE o == r.add[x]
               t == r.remove[x].ts + 1
               d == r.add[i].id
               n1 == [o EXCEPT !.ts = t]
    <3>1. o \in Node /\ t \in Nat /\ d \in Origin
      BY <2>2
    <3>2. n = [n1 EXCEPT !.id = d]
      OBVIOUS
    <3> HIDE DEF o, t, d, n
    <3>3. n1 \in Node /\ n1.ts = t /\ n1.place = o.place /\ n1.name = o.name
      BY <3>1 DEF Node
    <3> HIDE DEF n1
    <3>4. n \in Node /\ n.ts = t /\ n.id = d /\ n.place = o.place /\ n.name = o.name
      BY <3>1, <3>2, <3>3 DEF Node
    <3>5. QED BY <3>4 DEF o, t, d
  <2>4. ~Later(r.add[x], r.remove[x])
    BY <1>3 DEF Exists
  <2>5. Later(n, r.add[x]) /\ n.ts > 0 /\ Later(n, r.remove[x])
    <3> HIDE DEF n
    <3>1. r.add[x].ts <= r.remove[x].ts
      BY <2>2, <2>4 DEF Later
    <3>2. n.ts > r.add[x].ts /\ n.ts > 0 /\ n.ts > r.remove[x].ts
      BY <2>2, <2>3, <3>1
    <3>3. QED BY <3>2 DEF Later
  <2>6. /\ n.place = NoPlace <=> x = Root
        /\ n.place \notin File /\ n.name # << >> /\ n.name[1] = NameOf[x]
    BY <2>3 DEF Sound, Rooted, Labelled
  <2> HIDE DEF n, X
  <2>7. /\ Sound(X) /\ X.remove = r.remove /\ X.add[x] = n
        /\ \A j \in Id : j # x => X.add[j] = r.add[j]
    BY <1>1, <2>1, <2>3, <2>5, <2>6, SoundAdd, AddFacts
  <2>8. Exists(X, x)
    BY <2>5, <2>7 DEF Exists, Has
  <2>9. \A j \in Id : X.add[j].place = r.add[j].place
    BY <2>3, <2>7
  <2>10. \A j \in Id : Has(X, j) <=> Has(r, j)
    BY <1>3, <2>5, <2>7 DEF Has
  <2>11. QED BY <2>7, <2>8, <2>9, <2>10 DEF X
<1>4. QED BY <1>2, <1>3

LEMMA ReappearSets ==
  ASSUME SetsInv, NEW i \in todo, ReattachReappear(i)
  PROVE  /\ SetsInv'
         /\ running.policy = "reappear" /\ "reappear" \in scenario.does
         /\ \A q \in Replica : q # running.at => replica'[q] = replica[q]
         /\ Here'.remove = Here.remove
         /\ \A j \in Id : Has(Here', j) <=> Has(Here, j)
         /\ \A j \in Id : Here'.add[j].place = Here.add[j].place
         /\ \A j \in Id : Exists(Here, j) => Exists(Here', j)
         /\ Has(Here, Here.add[i].place) => Exists(Here', Here.add[i].place)
<1>1. PICK x \in Named(Here, Here.add[i].place) : Store(Reappear(Here, i, x))
  BY DEF ReattachReappear
<1>2. /\ running.what = "reattach" /\ GoOn(i) /\ seen' = {} /\ ContentTyped' /\ SeenTyped'
      /\ running.policy = "reappear" /\ "reappear" \in scenario.does
  BY VisitFacts DEF ReattachReappear
<1>3. /\ Sound(Here) /\ Here \in NodeSetCRDT /\ i \in Id
      /\ Here.add[i].place \in Place \ File /\ Here.add[i].place # NoPlace
      /\ running.at \in Replica
  BY <1>2, HereFacts
<1>4. /\ x \in Place \ File
      /\ x \in Id \/ x = Here.add[i].place
      /\ Here.add[i].place \in Id => x = Here.add[i].place
  BY <1>1, <1>3, NamedFacts
<1> DEFINE X == Reappear(Here, i, x)
<1>5. /\ Sound(X) /\ X.remove = Here.remove
      /\ Has(Here, x) => Exists(X, x)
      /\ \A j \in Id : j # x => X.add[j] = Here.add[j]
      /\ \A j \in Id : Has(X, j) <=> Has(Here, j)
      /\ \A j \in Id : X.add[j].place = Here.add[j].place
  <2>1. CASE x \in Id
    BY <1>3, <2>1, ReappearFacts
  <2>2. CASE x \notin Id
    <3>1. X = Here /\ ~Has(Here, x)
      BY <2>2 DEF Reappear, Has
    <3>2. QED BY <1>3, <3>1
  <2>3. QED BY <2>1, <2>2
<1>6. Store(X)
  BY <1>1
<1> HIDE DEF X
<1>7. \A f \in File : X.add[f].ts = Here.add[f].ts
  BY <1>4, <1>5, Constants
<1>8. SetsInv' /\ Here' = X /\ \A q \in Replica : q # running.at => replica'[q] = replica[q]
  BY <1>2, <1>5, <1>6, <1>7, VisitSets
<1>9. \A j \in Id : Exists(Here, j) => Exists(X, j)
  BY <1>5 DEF Exists
<1>10. Has(Here, Here.add[i].place) => Exists(X, Here.add[i].place)
  BY <1>4, <1>5 DEF Has
<1>11. QED BY <1>2, <1>5, <1>8, <1>9, <1>10

\* Names are resolved.
LEMMA ResolvingFacts ==
  ASSUME SetsInv, NEW i \in todo, Resolving(i)
  PROVE  /\ running.what = "resolve" /\ GoOn(i) /\ running.at \in Replica /\ "resolve" \in scenario.does
         /\ \A e \in seen : e.id \in Id /\ e.place \in Place /\ e.name \in Name
         /\ SeenTyped
BY DEF Resolving, SetsInv, Visiting, TypeOK, SeenTyped

LEMMA SeeFacts ==
  ASSUME SetsInv, NEW i \in todo, Resolving(i), NEW name \in Name, See(i, name)
  PROVE  /\ SeenTyped'
         /\ \E new \in seen' : new.place = Here.add[i].place /\ new.name = name /\ new.id = i
         /\ \A e \in seen' : \/ e \in seen /\ ~(e.place = Here.add[i].place /\ e.name = name)
                             \/ e.place = Here.add[i].place /\ e.name = name /\ e.id = i
         /\ [place |-> Here.add[i].place, name |-> name, id |-> i] \in seen'
         /\ \A e \in seen : (e.place = Here.add[i].place /\ e.name = name) \/ e \in seen'
<1> DEFINE new == [place |-> Here.add[i].place, name |-> name, id |-> i]
<1>1. i \in Id /\ Here.add[i].place \in Place /\ SeenTyped
  BY ResolvingFacts, HereFacts
<1>2. /\ new \in [place : Place, name : Name, id : Id]
      /\ new.place = Here.add[i].place /\ new.name = name /\ new.id = i
  BY <1>1
<1>3. seen' = {e \in seen : ~(e.place = Here.add[i].place /\ e.name = name)} \cup {new}
  BY DEF See
<1> HIDE DEF new
<1>4. SeenTyped'
  BY <1>1, <1>2, <1>3 DEF SeenTyped
<1>5. QED BY <1>2, <1>3, <1>4 DEF new

\* A node's name gets a tag: it is another one, and begins alike.
LEMMA TaggedFacts ==
  ASSUME SetsInv, running.what = "resolve", running.at \in Replica, NEW i \in Id
  PROVE  /\ Tagged(i) \in Name /\ Tagged(i) # << >> /\ Tagged(i)[1] = NameOf[i]
         /\ Tagged(i) # Here.add[i].name
<1> DEFINE B == {NameOf[j] : j \in Id} \cup Origin
           name == Here.add[i].name
           o == Here.add[i].id
<1>1. Here \in NodeSetCRDT /\ Sound(Here)
  BY SetsTyped DEF Here
<1>2. name \in Seq(B) /\ o \in B /\ name # << >> /\ name[1] = NameOf[i]
  BY <1>1, NodeSetFacts DEF Name, Sound, Labelled
<1> HIDE DEF B, name, o
<1>3. /\ Append(name, o) \in Seq(B) /\ Len(Append(name, o)) = Len(name) + 1
      /\ Len(name) \in Nat /\ Len(name) > 0
  BY <1>2
<1>4. Append(name, o)[1] = name[1]
  BY <1>2, <1>3
<1>5. Append(name, o) # name /\ Append(name, o) # << >>
  BY <1>3
<1>6. QED BY <1>2, <1>3, <1>4, <1>5 DEF B, name, o, Tagged, Name

LEMMA RenamedFacts ==
  ASSUME SetsInv, running.what = "resolve", running.at \in Replica, NEW i \in Id
  PROVE  LET X == [Here EXCEPT !.add[i].name = Tagged(i)]
         IN  /\ Sound(X) /\ X.remove = Here.remove
             /\ \A j \in Id : /\ X.add[j].ts = Here.add[j].ts /\ X.add[j].id = Here.add[j].id
                              /\ X.add[j].place = Here.add[j].place
                              /\ Has(X, j) <=> Has(Here, j)
                              /\ Exists(X, j) <=> Exists(Here, j)
             /\ X.add[i].name = Tagged(i)
             /\ \A j \in Id : j # i => X.add[j] = Here.add[j]
<1> DEFINE n == [Here.add[i] EXCEPT !.name = Tagged(i)]
           X == [Here EXCEPT !.add[i].name = Tagged(i)]
<1>1. Here \in NodeSetCRDT /\ Sound(Here)
  BY SetsTyped DEF Here
<1>2. Here.add[i] \in Node /\ Tagged(i) \in Name /\ Tagged(i) # << >> /\ Tagged(i)[1] = NameOf[i]
  BY <1>1, NodeSetFacts, TaggedFacts
<1>3. /\ n \in Node /\ n.ts = Here.add[i].ts /\ n.id = Here.add[i].id /\ n.name = Tagged(i)
      /\ n.place = Here.add[i].place
  <2> DEFINE t == Tagged(i)
  <2> HIDE DEF t
  <2>1. Here.add[i] \in Node /\ t \in Name
    BY <1>2 DEF t
  <2> DEFINE n2 == [Here.add[i] EXCEPT !.name = t]
  <2>2. n2 \in Node /\ n2.ts = Here.add[i].ts /\ n2.id = Here.add[i].id /\ n2.name = t
        /\ n2.place = Here.add[i].place
    BY <2>1 DEF Node
  <2>3. QED BY <2>2 DEF t
<1>4. X = [Here EXCEPT !.add[i] = n]
  OBVIOUS
<1> HIDE DEF n, X
<1>5. /\ X.remove = Here.remove
      /\ X.add[i] = n /\ \A j \in Id : j # i => X.add[j] = Here.add[j]
  BY <1>1, <1>3, <1>4, EntryChanged
<1>6. /\ n.place = NoPlace <=> i = Root
      /\ n.place \notin File /\ n.name # << >> /\ n.name[1] = NameOf[i]
  BY <1>1, <1>2, <1>3 DEF Sound, Rooted
<1>7. Sound(X)
  BY <1>1, <1>3, <1>4, <1>6, SoundEntry
<1>8. \A j \in Id : /\ X.add[j].ts = Here.add[j].ts /\ X.add[j].id = Here.add[j].id
                    /\ X.add[j].place = Here.add[j].place
  BY <1>3, <1>5
<1>9. \A j \in Id : Has(X, j) <=> Has(Here, j)
  BY <1>8 DEF Has
<1>10. \A j \in Id : Exists(X, j) <=> Exists(Here, j)
  BY <1>5, <1>8, <1>9 DEF Exists, Later
<1>11. QED BY <1>3, <1>5, <1>7, <1>8, <1>9, <1>10 DEF X

LEMMA ContentKept ==
  ASSUME SetsInv, UNCHANGED contentVars PROVE ContentTyped'
BY SetsTyped DEF ContentTyped, contentVars

LEMMA ResolveNoneSets ==
  ASSUME SetsInv, NEW i \in todo, ResolveNone(i)
  PROVE  SetsInv' /\ Here' = Here
<1>1. /\ Resolving(i) /\ running.what = "resolve" /\ GoOn(i) /\ running.at \in Replica
      /\ See(i, Here.add[i].name) /\ UNCHANGED replica
  BY ResolvingFacts DEF ResolveNone
<1>2. Sound(Here) /\ Store(Here) /\ Here.add[i].name \in Name
  <2>1. replica = [replica EXCEPT ![running.at] = replica[running.at]]
    BY <1>1 DEF SetsInv, TypeOK
  <2>2. QED BY <1>1, <2>1, SetsTyped, HereFacts DEF Here, Store
<1>3. ContentTyped' /\ SeenTyped'
  BY <1>1, <1>2, ContentKept, SeeFacts DEF ResolveNone
<1>4. QED BY <1>1, <1>2, <1>3, VisitSets

\* One of two files is removed, if the one seen is as old as files are.
LEMMA ResolveFilesSets ==
  ASSUME SetsInv, NEW i \in todo, ResolveFiles(i)
  PROVE  /\ SetsInv'
         /\ Here'.add = Here.add /\ UNCHANGED seen
         /\ \E e \in Existing(i) :
              /\ e.id \in File /\ i \in File /\ MergeContent(i, e.id)
              /\ ~Exists(Here', e.id)
              /\ \A j \in Id : j # e.id => Here'.remove[j] = Here.remove[j]
<1>1. PICK e \in Existing(i) :
        /\ e.id \in File
        /\ MergeContent(i, e.id)
        /\ Store(RemoveID(Here, e.id, [ts |-> now, id |-> Here.add[e.id].id]))
  BY DEF ResolveFiles
<1>2. /\ Resolving(i) /\ running.what = "resolve" /\ GoOn(i) /\ running.at \in Replica
      /\ i \in File /\ UNCHANGED seen /\ SeenTyped
  BY ResolvingFacts DEF ResolveFiles
<1>3. Sound(Here) /\ Here \in NodeSetCRDT
  BY <1>2, SetsTyped DEF Here
<1> DEFINE f == e.id
           s == [ts |-> now, id |-> Here.add[f].id]
           X == RemoveID(Here, f, s)
<1>4. f \in Id /\ f \in File
  BY <1>1, Constants
<1> HIDE DEF f
<1>5. /\ Here.add[f].ts \in Nat /\ Here.add[f].id \in Origin /\ now \in Nat
      /\ Here.remove[f].ts \in Nat /\ Here.remove[f].id \in Origin
      /\ Here.add[f].ts <= now
  BY <1>2, <1>3, <1>4, NodeSetFacts, SetsTyped DEF SetsInv, FilesAreOld, Here
<1>6. s \in Stamp /\ s.ts = now /\ s.id = Here.add[f].id
  BY <1>5, StampFacts
<1> HIDE DEF s
<1>7. /\ Sound(X) /\ X.add = Here.add
      /\ X.remove[f] = IF Later(s, Here.remove[f]) THEN s ELSE Here.remove[f]
      /\ \A j \in Id : j # f => X.remove[j] = Here.remove[j]
  BY <1>3, <1>4, <1>6, SoundRemove, RemoveFacts
<1>8. Store(X)
  BY <1>1 DEF f, s
<1> HIDE DEF X
<1>9. ~Exists(X, f)
  <2>1. s.id \in Nat /\ Here.add[f].id \in Nat /\ Here.remove[f].id \in Nat
    BY <1>5, <1>6, Constants
  <2> DEFINE a == Here.add[f]
  <2>2. a.ts \in Nat /\ a.id \in Nat /\ a.ts <= s.ts /\ a.id = s.id /\ s.ts \in Nat
    BY <1>5, <1>6, <2>1
  <2> HIDE DEF a
  <2>3. ~Later(a, s)
    BY <2>2 DEF Later
  <2>4. ~Later(Here.add[f], s)
    BY <2>3 DEF a
  <2>5. ~Later(Here.add[f], X.remove[f])
    BY <1>5, <1>6, <1>7, <2>1, <2>4, StampOrder
  <2>6. QED BY <1>7, <2>5 DEF Exists
<1>10. ContentTyped'
  <2>1. ContentTyped /\ i \in File /\ f \in File
    BY <1>2, <1>4, SetsTyped
  <2> DEFINE Tomb(x) == IF Later(deleted[f][x], deleted[i][x]) THEN deleted[f][x] ELSE deleted[i][x]
             Line(x) == IF Tomb(x).ts < lines[f][x].ts /\ Later(lines[f][x], lines[i][x])
                          THEN lines[f][x] ELSE lines[i][x]
  <2>2. /\ deleted' = [deleted EXCEPT ![i] = [x \in Index |-> Tomb(x)]]
        /\ lines' = [lines EXCEPT ![i] = [x \in Index |-> Line(x)]]
        /\ edits' = [edits EXCEPT ![i] = edits[i] \cup edits[f]]
    BY <1>1 DEF MergeContent, f
  <2>3. \A x \in Index : Tomb(x) \in Stamp /\ Line(x) \in Stamp
    BY <2>1 DEF ContentTyped
  <2> HIDE DEF Tomb, Line
  <2>4. [x \in Index |-> Tomb(x)] \in [Index -> Stamp] /\ [x \in Index |-> Line(x)] \in [Index -> Stamp]
    BY <2>3
  <2>5. edits[i] \cup edits[f] \in SUBSET Edit
    BY <2>1 DEF ContentTyped
  <2>6. QED BY <2>1, <2>2, <2>4, <2>5 DEF ContentTyped
<1>11. SeenTyped'
  BY <1>2 DEF SeenTyped
<1>12. SetsInv' /\ Here' = X
  BY <1>2, <1>7, <1>8, <1>10, <1>11, VisitSets DEF Has
<1>13. QED BY <1>1, <1>2, <1>4, <1>7, <1>9, <1>12 DEF f

LEMMA RenameVisitedSets ==
  ASSUME SetsInv, NEW i \in todo, RenameVisited(i)
  PROVE  SetsInv' /\ Here' = [Here EXCEPT !.add[i].name = Tagged(i)]
<1> DEFINE X == [Here EXCEPT !.add[i].name = Tagged(i)]
<1>1. /\ Resolving(i) /\ running.what = "resolve" /\ GoOn(i) /\ running.at \in Replica
      /\ See(i, Tagged(i)) /\ UNCHANGED contentVars /\ Store(X) /\ i \in Id
  BY ResolvingFacts, HereFacts DEF RenameVisited
<1>2. /\ Sound(X)
      /\ \A j \in Id : X.add[j].ts = Here.add[j].ts /\ (Has(X, j) <=> Has(Here, j))
  BY <1>1, RenamedFacts
<1>3. ContentTyped' /\ SeenTyped'
  BY <1>1, ContentKept, SeeFacts, TaggedFacts
<1> HIDE DEF X
<1>4. SetsInv' /\ Here' = X
  BY <1>1, <1>2, <1>3, VisitSets, Constants
<1>5. QED BY <1>4 DEF X

LEMMA RenameSeenSets ==
  ASSUME SetsInv, NEW i \in todo, RenameSeen(i)
  PROVE  /\ SetsInv'
         /\ \E e \in Existing(i) : /\ i \notin File /\ e.id \in File
                                   /\ Here' = [Here EXCEPT !.add[e.id].name = Tagged(e.id)]
<1>1. PICK e \in Existing(i) : e.id \in File /\ Store([Here EXCEPT !.add[e.id].name = Tagged(e.id)])
  BY DEF RenameSeen
<1> DEFINE f == e.id
           X == [Here EXCEPT !.add[f].name = Tagged(f)]
<1>2. /\ Resolving(i) /\ running.what = "resolve" /\ GoOn(i) /\ running.at \in Replica
      /\ See(i, Here.add[i].name) /\ UNCHANGED contentVars /\ i \in Id /\ i \notin File /\ f \in Id
  BY <1>1, ResolvingFacts, HereFacts, Constants DEF RenameSeen
<1>3. Here.add[i].name \in Name
  BY <1>2, HereFacts
<1> HIDE DEF f
<1>4. /\ Sound(X)
      /\ \A j \in Id : X.add[j].ts = Here.add[j].ts /\ (Has(X, j) <=> Has(Here, j))
  BY <1>2, RenamedFacts
<1>5. ContentTyped' /\ SeenTyped'
  BY <1>2, <1>3, ContentKept, SeeFacts
<1>6. Store(X)
  BY <1>1 DEF f
<1> HIDE DEF X
<1>7. SetsInv' /\ Here' = X
  BY <1>2, <1>4, <1>5, <1>6, VisitSets, Constants
<1>8. QED BY <1>1, <1>2, <1>7 DEF f, X

LEMMA NextSets == ASSUME SetsInv, [Next]_vars PROVE SetsInv'
<1>1. CASE UNCHANGED vars
  BY <1>1 DEF vars, callVars, contentVars, SetsInv, TypeOK, FilesAreOld, Visiting, Here
<1>2. ASSUME NEW p \in Replica, NEW i \in Id, Create(p, i) \/ RemoveNode(p, i)
      PROVE  SetsInv'
  BY <1>2, CreateSets, RemoveNodeSets
<1>3. ASSUME NEW p \in Replica, NEW f \in File, NEW i \in Index,
             AppendLine(p, f, i) \/ RemoveLine(p, f, i)
      PROVE  SetsInv'
  BY <1>3, EditSets
<1>4. ASSUME NEW p \in Replica, NEW q \in Replica, MergeFrom(p, q)
      PROVE  SetsInv'
  BY <1>4, MergeFromSets
<1>5. ASSUME NEW p \in Replica, NEW policy \in Policy, ReattachOrphans(p, policy)
      PROVE  SetsInv'
  BY <1>5, ReattachOrphansSets
<1>6. ASSUME NEW p \in Replica, ResolveNameConflicts(p)
      PROVE  SetsInv'
  BY <1>6, ResolveNameConflictsSets
<1>7. ASSUME NEW i \in todo, Reattach(i)
      PROVE  SetsInv'
  <2>1. CASE KeepPlace(i)
    BY <2>1, VisitKeeps DEF KeepPlace
  <2>2. QED BY <1>7, <2>1, MoveSets, SkipSets, ReappearSets DEF Reattach
<1>8. ASSUME NEW i \in todo, Resolve(i)
      PROVE  SetsInv'
  <2>1. CASE ResolveGone(i)
    BY <2>1, VisitKeeps DEF ResolveGone, Resolving
  <2>2. QED BY <1>8, <2>1, ResolveNoneSets, ResolveFilesSets, RenameVisitedSets, RenameSeenSets DEF Resolve
<1>9. CASE SyncAll \/ SyncPair \/ Return
  BY <1>9, SyncAllSets, SyncPairSets, ReturnSets
<1>10. QED
  BY <1>1, <1>2, <1>3, <1>4, <1>5, <1>6, <1>7, <1>8, <1>9 DEF Next

\* The sets of the replicas are as they are built, whatever the calls visit:
\* each has "/", only in the place of "/", names that begin with what users
\* gave, and a clock that covers its stamps.
THEOREM SetsInvariance == Spec => []SetsInv
BY InitSets, NextSets, PTL DEF Spec

-----------------------------------------------------------------------------
(* Lines and tombstones.                                                   *)

LEMMA InitContent == Init => ContentInv
BY DEF Init, ContentInv, EditsOf

LEMMA ContentSame == ASSUME ContentInv, UNCHANGED contentVars PROVE ContentInv'
BY DEF ContentInv, contentVars, EditsOf, Written

\* The invariant at one index of one file.
IndexInv(f, i) ==
  /\ deleted[f][i] = Absent \/ Written(f, "tombstone", i, deleted[f][i])
  /\ lines[f][i] = Absent \/ Written(f, "line", i, lines[f][i])
  /\ \A e \in EditsOf(f, "tombstone", i) : ~Later(e, deleted[f][i])
  /\ \A e \in EditsOf(f, "line", i) : e.ts > deleted[f][i].ts => ~Later(e, lines[f][i])

LEMMA ContentTypes ==
  ASSUME SetsInv, NEW f \in File
  PROVE  /\ \A i \in Index : /\ lines[f][i].ts \in Nat /\ lines[f][i].id \in Nat /\ lines[f][i] \in Stamp
                             /\ deleted[f][i].ts \in Nat /\ deleted[f][i].id \in Nat /\ deleted[f][i] \in Stamp
         /\ \A e \in edits[f] : e \in Edit /\ e.ts \in Nat /\ e.id \in Nat
<1>1. ContentTyped
  BY SetsTyped
<1>2. \A i \in Index : lines[f][i] \in Stamp /\ deleted[f][i] \in Stamp
  BY <1>1 DEF ContentTyped
<1>3. \A e \in edits[f] : e \in Edit
  BY <1>1 DEF ContentTyped
<1>4. QED BY <1>2, <1>3, Constants DEF Stamp, Edit

\* One edit is made.
LEMMA OneEdit ==
  ASSUME SetsInv, ContentInv, NEW f \in File, NEW j \in Index, NEW e,
         e.index = j, e.ts \in Nat, e.id \in Nat, e.ts > 0,
         edits' = [edits EXCEPT ![f] = @ \cup {e}],
         \A g \in File, i \in Index : (g # f \/ i # j) =>
           lines'[g][i] = lines[g][i] /\ deleted'[g][i] = deleted[g][i],
         IndexInv(f, j)'
  PROVE  ContentInv'
<1>1. edits \in [File -> SUBSET Edit]
  BY SetsTyped DEF ContentTyped
<1>2. /\ edits'[f] = edits[f] \cup {e}
      /\ \A g \in File : g # f => edits'[g] = edits[g]
  BY <1>1
<1>3. \A g \in File : \A x \in edits'[g] : x.ts > 0
  BY <1>2 DEF ContentInv
<1>4. ASSUME NEW g \in File, NEW i \in Index PROVE IndexInv(g, i)'
  <2>1. CASE g = f /\ i = j
    BY <2>1
  <2>2. CASE g # f \/ i # j
    <3>1. \A kind : EditsOf(g, kind, i)' = EditsOf(g, kind, i)
      BY <1>2, <2>2 DEF EditsOf
    <3>2. lines'[g][i] = lines[g][i] /\ deleted'[g][i] = deleted[g][i]
      BY <2>2
    <3>3. IndexInv(g, i)
      BY DEF ContentInv, IndexInv
    <3>4. QED BY <3>1, <3>2, <3>3 DEF IndexInv, Written
  <2>3. QED BY <2>1, <2>2
<1>5. QED BY <1>3, <1>4 DEF ContentInv, IndexInv

LEMMA AppendLineContent ==
  ASSUME SetsInv, ContentInv, NEW p \in Replica, NEW f \in File, NEW i \in Index,
         AppendLine(p, f, i)
  PROVE  ContentInv'
<1> DEFINE line == [ts |-> now', id |-> p]
           e == [kind |-> "line", index |-> i, ts |-> now', id |-> p]
           put == deleted[f][i].ts < now' /\ Later(line, lines[f][i])
<1>1. /\ now' \in Nat /\ now' > 0 /\ p \in Nat
      /\ UNCHANGED deleted
      /\ lines' = IF put THEN [lines EXCEPT ![f][i] = line] ELSE lines
      /\ edits' = [edits EXCEPT ![f] = @ \cup {e}]
  BY CallFacts, Constants DEF AppendLine
<1>2. ContentTyped
  BY SetsTyped
<1>3. /\ lines'[f][i] = IF put THEN line ELSE lines[f][i]
      /\ \A g \in File, j \in Index : g # f \/ j # i => lines'[g][j] = lines[g][j]
  BY <1>1, <1>2 DEF ContentTyped
<1>4. edits'[f] = edits[f] \cup {e}
  BY <1>1, <1>2 DEF ContentTyped
<1>5. e.kind = "line" /\ e.index = i /\ e.ts = now' /\ e.id = p /\ line.ts = now' /\ line.id = p
  OBVIOUS
<1> HIDE DEF e, line
<1>6. /\ EditsOf(f, "tombstone", i)' = EditsOf(f, "tombstone", i)
      /\ EditsOf(f, "line", i)' = EditsOf(f, "line", i) \cup {e}
  BY <1>4, <1>5 DEF EditsOf
<1>7. IndexInv(f, i)
  BY DEF ContentInv, IndexInv
<1>8. IndexInv(f, i)'
  <2>1. lines'[f][i] = Absent \/ Written(f, "line", i, lines[f][i])'
    BY <1>3, <1>5, <1>6, <1>7 DEF IndexInv, Written
  <2>2. deleted'[f][i] = Absent \/ Written(f, "tombstone", i, deleted[f][i])'
    BY <1>1, <1>6, <1>7 DEF IndexInv, Written
  <2>3. \A x \in EditsOf(f, "tombstone", i)' : ~Later(x, deleted'[f][i])
    BY <1>1, <1>6, <1>7 DEF IndexInv
  <2>4. ASSUME NEW x \in EditsOf(f, "line", i)', x.ts > deleted'[f][i].ts
        PROVE  ~Later(x, lines'[f][i])
    <3>1. /\ lines[f][i].ts \in Nat /\ lines[f][i].id \in Nat
          /\ deleted[f][i].ts \in Nat /\ line.ts \in Nat /\ line.id \in Nat
      BY <1>1, <1>5, ContentTypes
    <3>2. CASE x = e
      <4>1. CASE put
        BY <1>1, <1>3, <1>5, <3>1, <3>2, <4>1 DEF Later
      <4>2. CASE ~put
        BY <1>1, <1>3, <1>5, <2>4, <3>1, <3>2, <4>2 DEF Later
      <4>3. QED BY <4>1, <4>2
    <3>3. CASE x \in EditsOf(f, "line", i)
      <4>1. x.ts \in Nat /\ x.id \in Nat /\ ~Later(x, lines[f][i])
        BY <1>1, <1>7, <2>4, <3>3, ContentTypes DEF IndexInv, EditsOf
      <4>2. CASE put
        <5>1. ~Later(lines[f][i], line)
          BY <3>1, <4>2, StampOrder
        <5>2. QED BY <1>3, <3>1, <4>1, <4>2, <5>1, StampOrder
      <4>3. QED BY <1>3, <4>1, <4>2
    <3>4. QED BY <1>6, <3>2, <3>3
  <2>5. QED BY <2>1, <2>2, <2>3, <2>4 DEF IndexInv
<1>9. \A g \in File, j \in Index : (g # f \/ j # i) =>
         lines'[g][j] = lines[g][j] /\ deleted'[g][j] = deleted[g][j]
  BY <1>1, <1>3
<1>10. e.index = i /\ e.ts \in Nat /\ e.id \in Nat /\ e.ts > 0
  BY <1>1, <1>5
<1>11. edits' = [edits EXCEPT ![f] = @ \cup {e}]
  BY <1>1
<1> HIDE DEF put
<1>12. QED BY <1>8, <1>9, <1>10, <1>11, OneEdit

LEMMA RemoveLineContent ==
  ASSUME SetsInv, ContentInv, NEW p \in Replica, NEW f \in File, NEW i \in Index,
         RemoveLine(p, f, i)
  PROVE  ContentInv'
<1> DEFINE tomb == [ts |-> now', id |-> p]
           e == [kind |-> "tombstone", index |-> i, ts |-> now', id |-> p]
           put == Later(tomb, deleted[f][i])
<1>1. /\ now' \in Nat /\ now' > 0 /\ p \in Nat
      /\ UNCHANGED lines
      /\ deleted' = IF put THEN [deleted EXCEPT ![f][i] = tomb] ELSE deleted
      /\ edits' = [edits EXCEPT ![f] = @ \cup {e}]
  BY CallFacts, Constants DEF RemoveLine
<1>2. ContentTyped
  BY SetsTyped
<1>3. /\ deleted'[f][i] = IF put THEN tomb ELSE deleted[f][i]
      /\ \A g \in File, j \in Index : g # f \/ j # i => deleted'[g][j] = deleted[g][j]
  BY <1>1, <1>2 DEF ContentTyped
<1>4. edits'[f] = edits[f] \cup {e}
  BY <1>1, <1>2 DEF ContentTyped
<1>5. e.kind = "tombstone" /\ e.index = i /\ e.ts = now' /\ e.id = p /\ tomb.ts = now' /\ tomb.id = p
  OBVIOUS
<1> HIDE DEF e, tomb
<1>6. /\ EditsOf(f, "line", i)' = EditsOf(f, "line", i)
      /\ EditsOf(f, "tombstone", i)' = EditsOf(f, "tombstone", i) \cup {e}
  BY <1>4, <1>5 DEF EditsOf
<1>7. IndexInv(f, i)
  BY DEF ContentInv, IndexInv
<1>8. /\ deleted[f][i].ts \in Nat /\ deleted[f][i].id \in Nat
      /\ tomb.ts \in Nat /\ tomb.id \in Nat
  BY <1>1, <1>5, ContentTypes
<1>9. deleted'[f][i].ts \in Nat /\ deleted[f][i].ts <= deleted'[f][i].ts
  BY <1>3, <1>8 DEF Later
<1>10. IndexInv(f, i)'
  <2>1. lines'[f][i] = Absent \/ Written(f, "line", i, lines[f][i])'
    BY <1>1, <1>6, <1>7 DEF IndexInv, Written
  <2>2. deleted'[f][i] = Absent \/ Written(f, "tombstone", i, deleted[f][i])'
    BY <1>3, <1>5, <1>6, <1>7 DEF IndexInv, Written
  <2>3. ASSUME NEW x \in EditsOf(f, "line", i)', x.ts > deleted'[f][i].ts
        PROVE  ~Later(x, lines'[f][i])
    <3>1. x \in EditsOf(f, "line", i) /\ x.ts \in Nat
      BY <1>6, <2>3, ContentTypes DEF EditsOf
    <3>2. x.ts > deleted[f][i].ts
      BY <1>8, <1>9, <2>3, <3>1
    <3>3. QED BY <1>1, <1>7, <3>1, <3>2 DEF IndexInv
  <2>4. ASSUME NEW x \in EditsOf(f, "tombstone", i)'
        PROVE  ~Later(x, deleted'[f][i])
    <3>1. CASE x = e
      BY <1>3, <1>5, <1>8, <3>1 DEF Later
    <3>2. CASE x \in EditsOf(f, "tombstone", i)
      <4>1. x.ts \in Nat /\ x.id \in Nat /\ ~Later(x, deleted[f][i])
        BY <1>7, <3>2, ContentTypes DEF IndexInv, EditsOf
      <4>2. CASE put
        <5>1. ~Later(deleted[f][i], tomb)
          BY <1>8, <4>2, StampOrder
        <5>2. QED BY <1>3, <1>8, <4>1, <4>2, <5>1, StampOrder
      <4>3. QED BY <1>3, <4>1, <4>2
    <3>3. QED BY <1>6, <2>4, <3>1, <3>2
  <2>5. QED BY <2>1, <2>2, <2>3, <2>4 DEF IndexInv
<1>11. \A g \in File, j \in Index : (g # f \/ j # i) =>
         lines'[g][j] = lines[g][j] /\ deleted'[g][j] = deleted[g][j]
  BY <1>1, <1>3
<1>12. e.index = i /\ e.ts \in Nat /\ e.id \in Nat /\ e.ts > 0
  BY <1>1, <1>5
<1>13. edits' = [edits EXCEPT ![f] = @ \cup {e}]
  BY <1>1
<1> HIDE DEF put
<1>14. QED BY <1>10, <1>11, <1>12, <1>13, OneEdit

\* The content of g is merged into that of f.
LEMMA MergeContentContent ==
  ASSUME SetsInv, ContentInv, NEW f \in File, NEW g \in File, MergeContent(f, g)
  PROVE  ContentInv'
<1> DEFINE Tomb(i) == IF Later(deleted[g][i], deleted[f][i]) THEN deleted[g][i] ELSE deleted[f][i]
           Line(i) == IF Tomb(i).ts < lines[g][i].ts /\ Later(lines[g][i], lines[f][i])
                        THEN lines[g][i] ELSE lines[f][i]
<1>1. /\ deleted' = [deleted EXCEPT ![f] = [i \in Index |-> Tomb(i)]]
      /\ lines' = [lines EXCEPT ![f] = [i \in Index |-> Line(i)]]
      /\ edits' = [edits EXCEPT ![f] = edits[f] \cup edits[g]]
  BY DEF MergeContent
<1>2. ContentTyped
  BY SetsTyped
<1>3. /\ \A i \in Index : deleted'[f][i] = Tomb(i) /\ lines'[f][i] = Line(i)
      /\ edits'[f] = edits[f] \cup edits[g]
      /\ \A h \in File : h # f =>
           deleted'[h] = deleted[h] /\ lines'[h] = lines[h] /\ edits'[h] = edits[h]
  <2> HIDE DEF Tomb, Line
  <2>1. QED BY <1>1, <1>2 DEF ContentTyped
<1>4. \A h \in File, i \in Index : IndexInv(h, i)
  BY DEF ContentInv, IndexInv
<1>5. ASSUME NEW i \in Index PROVE IndexInv(f, i)'
  <2> DEFINE t == Tomb(i)
             l == Line(i)
             lf == lines[f][i]
             lg == lines[g][i]
             df == deleted[f][i]
             dg == deleted[g][i]
  <2>1. /\ lf.ts \in Nat /\ lf.id \in Nat /\ lg.ts \in Nat /\ lg.id \in Nat
        /\ df.ts \in Nat /\ df.id \in Nat /\ dg.ts \in Nat /\ dg.id \in Nat
    BY ContentTypes
  <2>2. /\ t = IF Later(dg, df) THEN dg ELSE df
        /\ l = IF t.ts < lg.ts /\ Later(lg, lf) THEN lg ELSE lf
        /\ deleted'[f][i] = t /\ lines'[f][i] = l
    BY <1>3
  <2>3. \A kind : EditsOf(f, kind, i)' = EditsOf(f, kind, i) \cup EditsOf(g, kind, i)
    BY <1>3 DEF EditsOf
  <2>4. /\ df = Absent \/ Written(f, "tombstone", i, df)
        /\ dg = Absent \/ Written(g, "tombstone", i, dg)
        /\ lf = Absent \/ Written(f, "line", i, lf)
        /\ lg = Absent \/ Written(g, "line", i, lg)
        /\ \A e \in EditsOf(f, "tombstone", i) : ~Later(e, df)
        /\ \A e \in EditsOf(g, "tombstone", i) : ~Later(e, dg)
        /\ \A e \in EditsOf(f, "line", i) : e.ts > df.ts => ~Later(e, lf)
        /\ \A e \in EditsOf(g, "line", i) : e.ts > dg.ts => ~Later(e, lg)
    BY <1>4 DEF IndexInv
  <2>5. \A kind : \A e \in EditsOf(f, kind, i) \cup EditsOf(g, kind, i) : e.ts \in Nat /\ e.id \in Nat
    BY ContentTypes DEF EditsOf
  <2> HIDE DEF t, l, lf, lg, df, dg, Tomb, Line
  <2>6. t \in {df, dg} /\ l \in {lf, lg} /\ t.ts \in Nat /\ t.id \in Nat /\ l.ts \in Nat /\ l.id \in Nat
    BY <2>1, <2>2
  <2>7. ~Later(df, t) /\ ~Later(dg, t)
    BY <2>1, <2>2, StampOrder
  <2>8. ~Later(lf, l) /\ (t.ts < lg.ts => ~Later(lg, l))
    BY <2>1, <2>2, <2>6, StampOrder
  <2>9. t = Absent \/ \E e \in EditsOf(f, "tombstone", i)' : t.ts = e.ts /\ t.id = e.id
    BY <2>3, <2>4, <2>6 DEF Written
  <2>10. l = Absent \/ \E e \in EditsOf(f, "line", i)' : l.ts = e.ts /\ l.id = e.id
    BY <2>3, <2>4, <2>6 DEF Written
  <2>11. ASSUME NEW e \in EditsOf(f, "tombstone", i)' PROVE ~Later(e, t)
    <3>1. e.ts \in Nat /\ e.id \in Nat /\ (~Later(e, df) \/ ~Later(e, dg))
      BY <2>3, <2>4, <2>5
    <3>2. QED BY <2>1, <2>6, <2>7, <3>1, StampOrder
  <2>12. ASSUME NEW e \in EditsOf(f, "line", i)', e.ts > t.ts PROVE ~Later(e, l)
    <3>1. e.ts \in Nat /\ e.id \in Nat
      BY <2>3, <2>5
    <3>2. e.ts > df.ts /\ e.ts > dg.ts
      BY <2>1, <2>6, <2>7, <2>12, <3>1 DEF Later
    <3>3. CASE e \in EditsOf(f, "line", i)
      BY <2>1, <2>4, <2>6, <2>8, <3>1, <3>2, <3>3, StampOrder
    <3>4. CASE e \in EditsOf(g, "line", i)
      <4>1. ~Later(e, lg)
        BY <2>4, <3>2, <3>4
      <4>2. t.ts < lg.ts
        BY <2>1, <2>6, <2>12, <3>1, <4>1 DEF Later
      <4>3. QED BY <2>1, <2>6, <2>8, <3>1, <4>1, <4>2, StampOrder
    <3>5. QED BY <2>3, <3>3, <3>4
  <2>13. QED BY <2>2, <2>9, <2>10, <2>11, <2>12 DEF IndexInv, Written
<1>6. ASSUME NEW h \in File, h # f, NEW i \in Index PROVE IndexInv(h, i)'
  <2>1. /\ lines'[h][i] = lines[h][i] /\ deleted'[h][i] = deleted[h][i]
        /\ \A kind : EditsOf(h, kind, i)' = EditsOf(h, kind, i)
    BY <1>3, <1>6 DEF EditsOf
  <2>2. QED BY <1>4, <2>1 DEF IndexInv, Written
<1>7. \A h \in File : \A e \in edits'[h] : e.ts > 0
  BY <1>3 DEF ContentInv
<1> HIDE DEF Tomb, Line
<1>8. QED BY <1>5, <1>6, <1>7 DEF ContentInv, IndexInv

LEMMA NextContent == ASSUME SetsInv, ContentInv, [Next]_vars PROVE ContentInv'
<1>1. CASE UNCHANGED vars
  BY <1>1, ContentSame DEF vars, contentVars
<1>2. ASSUME NEW p \in Replica, NEW i \in Id, Create(p, i) \/ RemoveNode(p, i)
      PROVE  ContentInv'
  BY <1>2, ContentSame DEF Create, RemoveNode
<1>3. ASSUME NEW p \in Replica, NEW f \in File, NEW i \in Index,
             AppendLine(p, f, i) \/ RemoveLine(p, f, i)
      PROVE  ContentInv'
  BY <1>3, AppendLineContent, RemoveLineContent
<1>4. ASSUME NEW p \in Replica, NEW q \in Replica, MergeFrom(p, q)
      PROVE  ContentInv'
  BY <1>4, ContentSame DEF MergeFrom
<1>5. CASE \/ \E p \in Replica, policy \in Policy : ReattachOrphans(p, policy)
           \/ \E p \in Replica : ResolveNameConflicts(p)
  BY <1>5, ContentSame DEF ReattachOrphans, ResolveNameConflicts, Start
<1>6. ASSUME NEW i \in todo, Reattach(i)
      PROVE  ContentInv'
  BY <1>6, ContentSame DEF Reattach, KeepPlace, ReattachRoot, ReattachSkip, ReattachCompact,
                           ReattachReappear, Visit
<1>7. ASSUME NEW i \in todo, Resolve(i)
      PROVE  ContentInv'
  <2>1. CASE ResolveFiles(i)
    BY <2>1, ResolveFilesSets, MergeContentContent
  <2>2. CASE ~ResolveFiles(i)
    BY <1>7, <2>2, ContentSame DEF Resolve, ResolveGone, ResolveNone, RenameVisited, RenameSeen
  <2>3. QED BY <2>1, <2>2
<1>8. CASE SyncAll \/ SyncPair \/ Return
  BY <1>8, ContentSame DEF SyncAll, Start, SyncPair, Return
<1>9. QED
  BY <1>1, <1>2, <1>3, <1>4, <1>5, <1>6, <1>7, <1>8 DEF Next

LEMMA ContentGives == SetsInv /\ ContentInv => LineIsLatest
<1> SUFFICES ASSUME SetsInv, ContentInv, NEW f \in File, NEW i \in Index
    PROVE  LET alive == \E e \in EditsOf(f, "line", i) :
                          \A d \in EditsOf(f, "tombstone", i) : d.ts < e.ts
           IN  /\ i \in Shown(f) <=> alive
               /\ alive => \A e \in EditsOf(f, "line", i) : ~Later(e, lines[f][i])
  BY DEF LineIsLatest
<1> DEFINE alive == \E e \in EditsOf(f, "line", i) :
                      \A d \in EditsOf(f, "tombstone", i) : d.ts < e.ts
           l == lines[f][i]
           t == deleted[f][i]
<1>1. l.ts \in Nat /\ l.id \in Nat /\ t.ts \in Nat /\ t.id \in Nat
  BY ContentTypes
<1>2. \A kind : \A e \in EditsOf(f, kind, i) : e.ts \in Nat /\ e.id \in Nat /\ e.ts > 0
  BY ContentTypes DEF EditsOf, ContentInv
<1>3. /\ t = Absent \/ Written(f, "tombstone", i, t)
      /\ l = Absent \/ Written(f, "line", i, l)
      /\ \A e \in EditsOf(f, "tombstone", i) : ~Later(e, t)
      /\ \A e \in EditsOf(f, "line", i) : e.ts > t.ts => ~Later(e, l)
  BY DEF ContentInv
<1>4. i \in Shown(f) <=> l.ts > t.ts
  BY DEF Shown
<1> HIDE DEF l, t
<1>5. ASSUME l.ts > t.ts PROVE alive
  <2>1. PICK e \in EditsOf(f, "line", i) : l.ts = e.ts
    BY <1>1, <1>3, <1>5 DEF Absent, Written
  <2>2. \A d \in EditsOf(f, "tombstone", i) : d.ts < e.ts
    BY <1>1, <1>2, <1>3, <1>5, <2>1 DEF Later
  <2>3. QED BY <2>2
<1>6. ASSUME alive PROVE l.ts > t.ts /\ \A e \in EditsOf(f, "line", i) : ~Later(e, l)
  <2>1. PICK e \in EditsOf(f, "line", i) : \A d \in EditsOf(f, "tombstone", i) : d.ts < e.ts
    BY <1>6
  <2>2. e.ts > t.ts
    BY <1>1, <1>2, <1>3, <2>1 DEF Absent, Written
  <2>3. l.ts > t.ts
    BY <1>1, <1>2, <1>3, <2>1, <2>2 DEF Later
  <2>4. ASSUME NEW x \in EditsOf(f, "line", i) PROVE ~Later(x, l)
    BY <1>1, <1>2, <1>3, <2>3 DEF Later
  <2>5. QED BY <2>3, <2>4
<1>7. QED BY <1>4, <1>5, <1>6 DEF l

\* A line shown is the last one written, unless a deletion is as late, however
\* edits and merges of two files of one name are interleaved (AppendLine,
\* RemoveLine, FileCRDT.Merge, PrintContent).
THEOREM LastWriterShows == Spec => []LineIsLatest
<1>1. Spec => []ContentInv
  BY SetsInvariance, InitContent, NextContent, PTL DEF Spec
<1>2. QED BY <1>1, SetsInvariance, ContentGives, PTL

-----------------------------------------------------------------------------
(* The policy "reappear".                                                  *)

LEMMA CallsEnd ==
  ASSUME SetsInv, Call
  PROVE  running.what = "none"
BY CallFacts

\* A step of "reappear".
LEMMA ReappearStep ==
  ASSUME SetsInv, HousedSoFar, running.what = "reattach", running.policy = "reappear",
         NEW i \in todo, KeepPlace(i) \/ ReattachReappear(i)
  PROVE  /\ HousedSoFar' /\ Here' = replica'[running.at] /\ todo' = todo \ {i}
         /\ \A j \in Id : Exists(Here, j) => Exists(Here', j)
<1>1. /\ \A j \in Id : Has(Here', j) <=> Has(Here, j)
      /\ \A j \in Id : Here'.add[j].place = Here.add[j].place
      /\ \A j \in Id : Exists(Here, j) => Exists(Here', j)
      /\ Has(Here, Here.add[i].place) => Exists(Here', Here.add[i].place)
  <2>1. CASE KeepPlace(i)
    <3>1. Here' = Here
      BY <2>1, VisitKeeps DEF KeepPlace
    <3>2. Here.add[i].place = NoPlace \/ Exists(Here, Here.add[i].place)
      BY <2>1 DEF KeepPlace, Orphan
    <3>3. QED BY <3>1, <3>2, Constants DEF Has
  <2>2. CASE ReattachReappear(i)
    BY <2>2, ReappearSets
  <2>3. QED BY <2>1, <2>2
<1>2. todo' = todo \ {i} /\ running' = running
  BY DEF KeepPlace, ReattachReappear, Visit, GoOn
<1>3. Here' = replica'[running.at]
  BY <1>2 DEF Here
<1>4. ASSUME NEW j \in Added(Here') \ todo', Has(Here', Here'.add[j].place)
      PROVE  Exists(Here', Here'.add[j].place)
  <2>1. j \in Id /\ j \in Added(Here) \ todo' /\ Has(Here', Here.add[j].place)
    BY <1>1, <1>4 DEF Added, Has
  <2>2. Here.add[j].place \in Id /\ Has(Here, Here.add[j].place)
    BY <1>1, <2>1 DEF Has
  <2>3. CASE j = i
    BY <1>1, <2>1, <2>2, <2>3
  <2>4. CASE j # i
    <3>1. Exists(Here, Here.add[j].place)
      BY <1>2, <2>1, <2>2, <2>4 DEF HousedSoFar
    <3>2. QED BY <1>1, <2>1, <2>2, <3>1
  <2>5. QED BY <2>3, <2>4
<1>5. QED BY <1>1, <1>2, <1>3, <1>4 DEF HousedSoFar

LEMMA InitHoused == Init => HousedSoFar
BY DEF Init, HousedSoFar, NoCall

LEMMA NextHoused == ASSUME SetsInv, HousedSoFar, [Next]_vars PROVE HousedSoFar'
<1>1. CASE UNCHANGED vars
  BY <1>1 DEF vars, callVars, HousedSoFar, Here
<1>2. CASE Call /\ UNCHANGED callVars
  <2>1. running'.what = "none"
    BY <1>2, CallsEnd DEF callVars
  <2>2. QED BY <2>1 DEF HousedSoFar
<1>3. CASE (\E p, q \in Replica : MergeFrom(p, q)) \/ (\E p \in Replica, i \in Id : Create(p, i) \/ RemoveNode(p, i))
  BY <1>2, <1>3 DEF MergeFrom, Create, RemoveNode
<1>4. CASE \E p \in Replica, f \in File, i \in Index : AppendLine(p, f, i) \/ RemoveLine(p, f, i)
  BY <1>2, <1>4 DEF AppendLine, RemoveLine
<1>5. ASSUME NEW p \in Replica, NEW policy \in Policy, ReattachOrphans(p, policy)
      PROVE  HousedSoFar'
  <2>1. /\ running' = [what |-> "reattach", at |-> p, policy |-> policy]
        /\ todo' = Added(replica[p]) \ {Root} /\ UNCHANGED replica
    BY <1>5 DEF ReattachOrphans, Start
  <2>2. Here' = replica[p]
    BY <2>1 DEF Here
  <2>3. Rooted(replica[p])
    BY SetsTyped DEF Sound
  <2>4. \A i \in Added(Here') \ todo' : i = Root
    BY <2>1, <2>2
  <2>5. ~Has(Here', Here'.add[Root].place)
    BY <2>2, <2>3, Constants DEF Rooted, Has
  <2>6. QED BY <2>4, <2>5 DEF HousedSoFar
<1>6. CASE SyncAll \/ SyncPair \/ Return \/ \E p \in Replica : ResolveNameConflicts(p)
  <2>1. running'.what # "reattach"
    BY <1>6 DEF SyncAll, Start, SyncPair, GoOn, Return, NoCall, ResolveNameConflicts
  <2>2. QED BY <2>1 DEF HousedSoFar
<1>7. ASSUME NEW i \in todo, Reattach(i)
      PROVE  HousedSoFar'
  <2>1. running' = running /\ running.what = "reattach"
    BY <1>7 DEF Reattach, KeepPlace, ReattachRoot, ReattachSkip, ReattachCompact,
                ReattachReappear, Visit, GoOn
  <2>2. CASE running.policy # "reappear"
    BY <2>1, <2>2 DEF HousedSoFar
  <2>3. CASE running.policy = "reappear"
    <3>1. KeepPlace(i) \/ ReattachReappear(i)
      BY <1>7, <2>3 DEF Reattach, ReattachRoot, ReattachSkip, ReattachCompact, Visit
    <3>2. QED BY <2>1, <2>3, <3>1, ReappearStep
  <2>4. QED BY <2>2, <2>3
<1>8. ASSUME NEW i \in todo, Resolve(i)
      PROVE  HousedSoFar'
  <2>1. running'.what = "resolve"
    BY <1>8 DEF Resolve, ResolveGone, ResolveNone, ResolveFiles, RenameVisited, RenameSeen,
                Resolving, GoOn
  <2>2. QED BY <2>1 DEF HousedSoFar
<1>9. QED
  BY <1>1, <1>3, <1>4, <1>5, <1>6, <1>7, <1>8 DEF Next

LEMMA StepHouses ==
  ASSUME SetsInv, HousedSoFar, HousedSoFar', [Next]_vars,
         running.what = "reattach", running.policy = "reappear"
  PROVE  LET r == replica'[running.at] IN
           /\ UNCHANGED vars \/ Lookup(Here) \subseteq Lookup(r)
           /\ UNCHANGED vars \/ (todo' = {} =>
                \A i \in Added(r) : Has(r, r.add[i].place) => Exists(r, r.add[i].place))
<1> DEFINE r == replica'[running.at]
           Goal == /\ Lookup(Here) \subseteq Lookup(r)
                   /\ todo' = {} => \A i \in Added(r) :
                        Has(r, r.add[i].place) => Exists(r, r.add[i].place)
<1>1. ASSUME Here' = r, HousedSoFar', running' = running,
             \A j \in Id : Exists(Here, j) => Exists(r, j)
      PROVE  Goal
  BY <1>1 DEF HousedSoFar, Lookup
<1>2. ~Call
  BY CallsEnd
<1>3. ASSUME NEW i \in todo, Reattach(i) \/ Resolve(i) PROVE Goal
  <2>1. KeepPlace(i) \/ ReattachReappear(i)
    BY <1>3 DEF Reattach, ReattachRoot, ReattachSkip, ReattachCompact, Visit, Resolve, ResolveGone,
                ResolveNone, ResolveFiles, RenameVisited, RenameSeen, Resolving
  <2>2. running' = running
    BY <2>1 DEF KeepPlace, ReattachReappear, Visit, GoOn
  <2> HIDE DEF Goal
  <2>3. QED BY <1>1, <2>1, <2>2, ReappearStep
<1>4. ASSUME Return PROVE Goal
  <2>1. UNCHANGED replica /\ todo = {}
    BY <1>4 DEF Return
  <2>2. r = Here
    BY <2>1 DEF Here
  <2>3. QED BY <2>1, <2>2 DEF HousedSoFar
<1>5. ~SyncAll /\ ~SyncPair
  BY <1>2 DEF SyncAll, Start, SyncPair
<1>6. /\ ~\E p \in Replica, i \in Id : Create(p, i) \/ RemoveNode(p, i)
      /\ ~\E p \in Replica, f \in File, i \in Index : AppendLine(p, f, i) \/ RemoveLine(p, f, i)
      /\ ~\E p, q \in Replica : MergeFrom(p, q)
      /\ ~\E p \in Replica, policy \in Policy : ReattachOrphans(p, policy)
      /\ ~\E p \in Replica : ResolveNameConflicts(p)
  BY <1>2 DEF Create, RemoveNode, AppendLine, RemoveLine, MergeFrom, ReattachOrphans,
              ResolveNameConflicts, Start
<1> HIDE DEF Goal
<1>7. ASSUME Next PROVE Goal
  <2>1. Return \/ \E i \in todo : Reattach(i) \/ Resolve(i)
    BY <1>5, <1>6, <1>7 DEF Next
  <2>2. QED BY <1>3, <1>4, <2>1
<1>8. QED BY <1>7 DEF Goal

\* ReattachOrphans with "reappear" hides no node that was shown, and when it
\* returns every node whose directory the replica ever had is in a directory
\* that exists, whatever order it visits the nodes in.
THEOREM NobodyIsHomeless == Spec => Housed
<1>1. Spec => []HousedSoFar
  BY SetsInvariance, InitHoused, NextHoused, PTL DEF Spec
<1>2. SetsInv /\ HousedSoFar /\ HousedSoFar' /\ [Next]_vars =>
        [running.what = "reattach" /\ running.policy = "reappear" =>
           LET r == replica'[running.at] IN
             /\ Lookup(Here) \subseteq Lookup(r)
             /\ todo' = {} => \A i \in Added(r) : Has(r, r.add[i].place) => Exists(r, r.add[i].place)]_vars
  BY StepHouses
<1>3. QED BY <1>1, <1>2, SetsInvariance, PTL DEF Spec, Housed

-----------------------------------------------------------------------------
(* Names.                                                                  *)

\* While names are resolved: what a visit to i does to the nodes and to seen.
NodesKept(i) ==
  /\ \A j \in Id : Here'.add[j].place = Here.add[j].place /\ (Has(Here', j) <=> Has(Here, j))
  /\ \A j \in Id : Exists(Here', j) => Exists(Here, j)
  /\ \A j \in Id : ~Rivals(j, i) => /\ Here'.add[j].name = Here.add[j].name
                                    /\ Exists(Here', j) <=> Exists(Here, j)
SeenKept(i) ==
  /\ \A e \in seen' : \/ e \in seen
                      \/ /\ e.id = i /\ e.place = Here.add[i].place
                         /\ e.name # << >> /\ e.name[1] = NameOf[i]
  /\ \A e \in seen : (e.place = Here.add[i].place /\ e.name[1] = NameOf[i]) \/ e \in seen'

\* The first of its rivals is seen as it is; the second does not get in its way.
FirstOfAll(i) ==
  (\A k \in Passed : ~Rivals(k, i)) =>
    /\ Here'.add[i].name = Here.add[i].name
    /\ \A e \in seen' : e.id = i => e.name = Here.add[i].name
    /\ Exists(Here', i) =>
         [place |-> Here.add[i].place, name |-> Here.add[i].name, id |-> i] \in seen'
SecondGivesWay(i) ==
  \A j \in Passed : Rivals(j, i) /\ (\A k \in Passed : Rivals(k, i) => k = j) =>
    ~ /\ Exists(Here', i) /\ Exists(Here', j)
      /\ i \in File \/ j \in File
      /\ Here'.add[i].name = Here'.add[j].name

LEMMA ResolvingHere ==
  ASSUME SetsInv, running.what = "resolve"
  PROVE  /\ running.at \in Replica /\ Sound(Here) /\ Here \in NodeSetCRDT
         /\ todo \subseteq Added(Here) \ {Root} /\ Passed \subseteq Id /\ Passed \subseteq Added(Here)
<1>1. running.at \in Replica /\ todo \subseteq Added(Here) \ {Root}
  BY DEF SetsInv, Visiting
<1>2. Passed \subseteq Id /\ Passed \subseteq Added(Here)
  BY DEF Passed, Added
<1>3. QED BY <1>1, <1>2, SetsTyped DEF Here

LEMMA NamingStep ==
  ASSUME SetsInv, SetsInv', NamingInv, running.what = "resolve", running' = running,
         NEW i \in todo, todo' = todo \ {i},
         NodesKept(i), SeenKept(i), FirstOfAll(i), SecondGivesWay(i)
  PROVE  NamingInv'
<1>1. /\ Sound(Here) /\ todo \subseteq Added(Here) \ {Root} /\ Passed \subseteq Id
      /\ SeenWasPassed /\ FirstIsSeen /\ PairsResolved
  BY ResolvingHere DEF NamingInv
<1>2. /\ Sound(Here') /\ running'.what = "resolve" /\ Passed' \subseteq Id
  BY ResolvingHere, NextSets DEF NamingInv, SetsInv, Visiting, Here, Passed, Added
<1>3. i \in Id /\ i # Root /\ i \in Added(Here) /\ i \notin Passed
  BY <1>1 DEF Added, Passed
<1>4. Added(Here)' = Added(Here)
  BY DEF NodesKept, Added, Has
<1>5. Passed' = Passed \cup {i}
  BY <1>1, <1>3, <1>4 DEF Passed
<1>6. \A j, k \in Id : Rivals(j, k)' <=> Rivals(j, k)
  BY DEF NodesKept, Rivals
<1>7. SeenWasPassed'
  <2>1. ASSUME NEW e \in seen'
        PROVE  /\ e.id \in Passed' /\ e.place = Here'.add[e.id].place
               /\ e.name # << >> /\ e.name[1] = NameOf[e.id]
    <3>1. CASE e \in seen
      <4>1. /\ e.id \in Passed /\ e.place = Here.add[e.id].place
            /\ e.name # << >> /\ e.name[1] = NameOf[e.id]
        BY <1>1, <3>1 DEF SeenWasPassed
      <4>2. QED BY <1>1, <1>5, <4>1 DEF NodesKept
    <3>2. CASE e \notin seen
      BY <1>3, <1>5, <3>2 DEF SeenKept, NodesKept
    <3>3. QED BY <3>1, <3>2
  <2>2. QED BY <2>1 DEF SeenWasPassed
<1>8. FirstIsSeen'
  <2>1. ASSUME NEW j \in Passed', \A k \in Passed' : Rivals(k, j)' => k = j
        PROVE  /\ \A e \in seen' : e.id = j => e.name = Here'.add[j].name
               /\ Exists(Here', j) =>
                    [place |-> Here'.add[j].place, name |-> Here'.add[j].name, id |-> j] \in seen'
    <3>1. \A k \in Passed' : Rivals(k, j) => k = j
      BY <1>2, <1>6, <2>1
    <3>2. CASE j = i
      <4>1. \A k \in Passed : ~Rivals(k, i)
        BY <1>1, <1>3, <1>5, <3>1, <3>2
      <4>2. Here'.add[i].place = Here.add[i].place
        BY <1>3 DEF NodesKept
      <4>3. QED BY <3>2, <4>1, <4>2 DEF FirstOfAll
    <3>3. CASE j # i
      <4>1. j \in Passed /\ j \in Id /\ ~Rivals(i, j)
        BY <1>1, <1>3, <1>5, <3>1, <3>3
      <4>2. ~Rivals(j, i)
        BY <4>1 DEF Rivals
      <4>3. /\ Here'.add[j].name = Here.add[j].name /\ Here'.add[j].place = Here.add[j].place
            /\ Exists(Here', j) <=> Exists(Here, j)
        BY <4>1, <4>2 DEF NodesKept
      <4>4. \A k \in Passed : Rivals(k, j) => k = j
        BY <1>1, <1>5, <3>1, <4>1
      <4>5. /\ \A e \in seen : e.id = j => e.name = Here.add[j].name
            /\ Exists(Here, j) =>
                 [place |-> Here.add[j].place, name |-> Here.add[j].name, id |-> j] \in seen
        BY <1>1, <4>1, <4>4 DEF FirstIsSeen
      <4>6. \A e \in seen' : e.id = j => e.name = Here'.add[j].name
        BY <3>3, <4>3, <4>5 DEF SeenKept
      <4>7. ASSUME Exists(Here, j)
            PROVE  [place |-> Here.add[j].place, name |-> Here.add[j].name, id |-> j] \in seen'
        <5> DEFINE e == [place |-> Here.add[j].place, name |-> Here.add[j].name, id |-> j]
        <5>1. e \in seen /\ e.place = Here.add[j].place /\ e.name = Here.add[j].name
          BY <4>5, <4>7
        <5>2. e.name[1] = NameOf[j]
          BY <1>1, <4>1, <5>1 DEF Sound, Labelled
        <5> HIDE DEF e
        <5>3. ~(e.place = Here.add[i].place /\ e.name[1] = NameOf[i])
          BY <4>2, <5>1, <5>2 DEF Rivals
        <5>4. e \in seen'
          BY <5>1, <5>3 DEF SeenKept
        <5>5. QED BY <5>4 DEF e
      <4>8. QED BY <4>3, <4>6, <4>7
    <3>4. QED BY <3>2, <3>3
  <2>2. QED BY <2>1 DEF FirstIsSeen
<1>9. PairsResolved'
  <2>1. ASSUME NEW a \in Passed', NEW b \in Passed', Exists(Here', a), Exists(Here', b),
               a # b, a \in File \/ b \in File,
               Here'.add[a].place = Here'.add[b].place, Here'.add[a].name = Here'.add[b].name,
               ~\E k \in Added(Here)' \ {a, b} : Rivals(k, a)'
        PROVE  FALSE
    <3>1. a \in Id /\ b \in Id
      BY <1>2
    <3>2. Rivals(a, b) /\ Rivals(b, a)
      <4>1. NameOf[a] = NameOf[b]
        BY <1>2, <2>1, <3>1 DEF Sound, Labelled
      <4>2. Here.add[a].place = Here.add[b].place
        BY <2>1, <3>1 DEF NodesKept
      <4>3. QED BY <4>1, <4>2 DEF Rivals
    <3>3. \A k \in Added(Here) \ {a, b} : k \in Id /\ ~Rivals(k, a) /\ ~Rivals(k, b)
      <4>1. ASSUME NEW k \in Added(Here) \ {a, b} PROVE k \in Id /\ ~Rivals(k, a)
        BY <1>4, <1>6, <2>1, <3>1 DEF Added
      <4>2. QED BY <3>2, <4>1 DEF Rivals
    <3>4. CASE a # i /\ b # i
      <4>1. a \in Passed /\ b \in Passed /\ ~Rivals(i, a) /\ ~Rivals(i, b)
        BY <1>3, <1>5, <3>3, <3>4
      <4>2. ~Rivals(a, i) /\ ~Rivals(b, i)
        BY <4>1 DEF Rivals
      <4>3. /\ Exists(Here, a) /\ Exists(Here, b)
            /\ Here.add[a].place = Here.add[b].place /\ Here.add[a].name = Here.add[b].name
        BY <2>1, <3>1, <3>2, <4>2 DEF NodesKept, Rivals
      <4>4. Third(a, b)
        BY <1>1, <2>1, <4>1, <4>3 DEF PairsResolved
      <4>5. QED BY <3>3, <4>4 DEF Third
    <3>5. ASSUME NEW j \in {a, b}, NEW k \in {a, b}, j # i, k = i PROVE FALSE
      <4>1. j \in Passed /\ Rivals(j, i) /\ {a, b} = {i, j}
        BY <1>5, <2>1, <3>2, <3>5
      <4>2. \A x \in Passed : Rivals(x, i) => x = j
        BY <1>3, <3>3, <4>1 DEF Passed, Rivals
      <4>3. QED BY <2>1, <3>5, <4>1, <4>2 DEF SecondGivesWay
    <3>6. QED BY <2>1, <3>4, <3>5
  <2>2. QED BY <2>1 DEF PairsResolved, Third
<1>10. QED BY <1>7, <1>8, <1>9 DEF NamingInv

\* What is seen where a node is, under its name, is a rival that was visited.
LEMMA ExistingFacts ==
  ASSUME SetsInv, NamingInv, running.what = "resolve", NEW i \in todo, NEW e \in Existing(i)
  PROVE  /\ e \in seen /\ e.id \in Passed /\ e.id \in Id /\ e.id # i
         /\ e.place = Here.add[i].place /\ e.name = Here.add[i].name
         /\ Rivals(e.id, i)
<1>1. e \in seen /\ e.place = Here.add[i].place /\ e.name = Here.add[i].name
  BY DEF Existing
<1>2. /\ e.id \in Passed /\ e.place = Here.add[e.id].place /\ e.name[1] = NameOf[e.id]
  BY <1>1 DEF NamingInv, SeenWasPassed
<1>3. Here.add[i].name[1] = NameOf[i]
  BY HereFacts
<1>4. e.id \in Id /\ e.id # i
  BY <1>2, ResolvingHere DEF Passed
<1>5. QED BY <1>1, <1>2, <1>3, <1>4 DEF Rivals

\* A rival that alone was visited is the one seen, if it exists under the name.
LEMMA SecondFacts ==
  ASSUME SetsInv, NamingInv, running.what = "resolve", NEW i \in todo,
         NEW j \in Passed, Rivals(j, i), \A k \in Passed : Rivals(k, i) => k = j
  PROVE  /\ j \in Id /\ j # i
         /\ \A e \in Existing(i) : e.id = j /\ Here.add[j].name = Here.add[i].name
         /\ Exists(Here, j) /\ Here.add[j].name = Here.add[i].name =>
              \E e \in Existing(i) : e.id = j
<1>1. j \in Id /\ j # i
  BY ResolvingHere DEF Passed
<1>2. \A k \in Passed : Rivals(k, j) => k = j
  BY DEF Rivals
<1>3. /\ \A e \in seen : e.id = j => e.name = Here.add[j].name
      /\ Exists(Here, j) => [place |-> Here.add[j].place, name |-> Here.add[j].name, id |-> j] \in seen
  BY <1>2 DEF NamingInv, FirstIsSeen
<1>4. \A e \in Existing(i) : e.id = j /\ Here.add[j].name = Here.add[i].name
  BY <1>3, ExistingFacts
<1>5. ASSUME Exists(Here, j), Here.add[j].name = Here.add[i].name
      PROVE  \E e \in Existing(i) : e.id = j
  <2> DEFINE e == [place |-> Here.add[j].place, name |-> Here.add[j].name, id |-> j]
  <2>1. e \in seen /\ e.place = Here.add[j].place /\ e.name = Here.add[j].name /\ e.id = j
    BY <1>3, <1>5
  <2> HIDE DEF e
  <2>2. e \in Existing(i)
    BY <1>5, <2>1 DEF Existing, Rivals
  <2>3. QED BY <2>1, <2>2
<1>6. QED BY <1>1, <1>4, <1>5

\* Nothing is seen in the name of a node that was not visited yet.
LEMMA FirstFacts ==
  ASSUME SetsInv, NamingInv, running.what = "resolve", NEW i \in todo
  PROVE  /\ \A e \in seen : e.id # i
         /\ (\A k \in Passed : ~Rivals(k, i)) => Existing(i) = {}
<1>1. i \notin Passed
  BY DEF Passed
<1>2. \A e \in seen : e.id # i
  BY <1>1 DEF NamingInv, SeenWasPassed
<1>3. QED BY <1>2, ExistingFacts

LEMMA SeeKeeps ==
  ASSUME SetsInv, NEW i \in todo, Resolving(i), NEW name \in Name, See(i, name),
         name # << >>, name[1] = NameOf[i]
  PROVE  SeenKept(i)
<1>1. /\ \A e \in seen' : \/ e \in seen
                          \/ e.place = Here.add[i].place /\ e.name = name /\ e.id = i
      /\ \A e \in seen : (e.place = Here.add[i].place /\ e.name = name) \/ e \in seen'
  BY SeeFacts
<1>2. \A e : e.name = name => e.name # << >> /\ e.name[1] = NameOf[i]
  OBVIOUS
<1>3. QED BY <1>1, <1>2 DEF SeenKept

LEMMA ResolveQuietNaming ==
  ASSUME SetsInv, NamingInv, NEW i \in todo, ResolveGone(i) \/ ResolveNone(i)
  PROVE  NamingInv'
<1>1. /\ Resolving(i) /\ running.what = "resolve" /\ running' = running /\ todo' = todo \ {i}
  BY DEF ResolveGone, ResolveNone, Resolving, GoOn
<1>2. SetsInv' /\ Here' = Here
  BY VisitKeeps, ResolveNoneSets DEF ResolveGone, Resolving
<1>3. NodesKept(i)
  BY <1>2 DEF NodesKept
<1>4. Here.add[i].name \in Name /\ Here.add[i].name # << >> /\ Here.add[i].name[1] = NameOf[i]
  BY <1>1, HereFacts
<1>5. CASE ResolveGone(i)
  <2>1. SeenKept(i) /\ seen' = seen /\ ~Exists(Here', i)
    BY <1>2, <1>5 DEF SeenKept, ResolveGone
  <2>2. FirstOfAll(i) /\ SecondGivesWay(i)
    BY <1>1, <1>2, <2>1, FirstFacts DEF FirstOfAll, SecondGivesWay
  <2>3. QED BY <1>1, <1>2, <1>3, <2>1, <2>2, NamingStep
<1>6. CASE ResolveNone(i)
  <2>1. See(i, Here.add[i].name) /\ \A e \in Existing(i) : i \notin File /\ e.id \notin File
    BY <1>6 DEF ResolveNone
  <2>2. SeenKept(i)
    BY <1>1, <1>4, <2>1, SeeKeeps
  <2>3. FirstOfAll(i)
    <3>1. /\ [place |-> Here.add[i].place, name |-> Here.add[i].name, id |-> i] \in seen'
          /\ \A e \in seen' : e \in seen \/ e.name = Here.add[i].name
      BY <1>1, <1>4, <2>1, SeeFacts
    <3>2. \A e \in seen : e.id # i
      BY <1>1, FirstFacts
    <3>3. QED BY <1>2, <3>1, <3>2 DEF FirstOfAll
  <2>4. SecondGivesWay(i)
    BY <1>1, <1>2, <2>1, SecondFacts DEF SecondGivesWay
  <2>5. QED BY <1>1, <1>2, <1>3, <2>2, <2>3, <2>4, NamingStep
<1>7. QED BY <1>5, <1>6

LEMMA ResolveFilesNaming ==
  ASSUME SetsInv, NamingInv, NEW i \in todo, ResolveFiles(i)
  PROVE  NamingInv'
<1>1. /\ Resolving(i) /\ running.what = "resolve" /\ running' = running /\ todo' = todo \ {i}
  BY DEF ResolveFiles, Resolving, GoOn
<1>2. PICK e \in Existing(i) :
        /\ e.id \in File /\ i \in File
        /\ ~Exists(Here', e.id)
        /\ \A j \in Id : j # e.id => Here'.remove[j] = Here.remove[j]
  BY ResolveFilesSets
<1>3. SetsInv' /\ Here'.add = Here.add /\ seen' = seen
  BY ResolveFilesSets
<1>4. e.id \in Passed /\ e.id \in Id /\ Rivals(e.id, i)
  BY <1>1, ExistingFacts
<1>5. NodesKept(i)
  <2>1. \A j \in Id : j # e.id => (Exists(Here', j) <=> Exists(Here, j))
    BY <1>2, <1>3 DEF Exists, Has
  <2>2. QED BY <1>2, <1>3, <1>4, <2>1 DEF NodesKept, Has
<1>6. SeenKept(i)
  BY <1>3 DEF SeenKept
<1>7. FirstOfAll(i)
  BY <1>4 DEF FirstOfAll
<1>8. SecondGivesWay(i)
  BY <1>1, <1>2, <1>4 DEF SecondGivesWay
<1>9. QED BY <1>1, <1>3, <1>5, <1>6, <1>7, <1>8, NamingStep

LEMMA RenameVisitedNaming ==
  ASSUME SetsInv, NamingInv, NEW i \in todo, RenameVisited(i)
  PROVE  NamingInv'
<1>1. /\ Resolving(i) /\ running.what = "resolve" /\ running' = running /\ todo' = todo \ {i}
      /\ See(i, Tagged(i)) /\ running.at \in Replica /\ i \in Id
  BY ResolvingFacts, HereFacts DEF RenameVisited, Resolving, GoOn
<1>2. SetsInv' /\ Here' = [Here EXCEPT !.add[i].name = Tagged(i)]
  BY RenameVisitedSets
<1>3. /\ \A j \in Id : /\ Here'.add[j].place = Here.add[j].place
                       /\ Has(Here', j) <=> Has(Here, j)
                       /\ Exists(Here', j) <=> Exists(Here, j)
      /\ Here'.add[i].name = Tagged(i)
      /\ \A j \in Id : j # i => Here'.add[j] = Here.add[j]
  BY <1>1, <1>2, RenamedFacts
<1>4. PICK e \in Existing(i) : e.id \notin File
  BY DEF RenameVisited
<1>5. e.id \in Passed /\ Rivals(e.id, i)
  BY <1>1, ExistingFacts
<1>6. NodesKept(i)
  BY <1>3 DEF NodesKept, Rivals
<1>7. /\ Tagged(i) \in Name /\ Tagged(i) # << >> /\ Tagged(i)[1] = NameOf[i]
      /\ Tagged(i) # Here.add[i].name
  BY <1>1, TaggedFacts
<1>8. SeenKept(i)
  BY <1>1, <1>7, SeeKeeps
<1>9. FirstOfAll(i)
  BY <1>5 DEF FirstOfAll
<1>10. SecondGivesWay(i)
  <2>1. ASSUME NEW j \in Passed, Rivals(j, i), \A k \in Passed : Rivals(k, i) => k = j
        PROVE  Here'.add[i].name # Here'.add[j].name
    <3>1. j \in Id /\ j # i /\ Here.add[j].name = Here.add[i].name
      BY <1>1, <1>4, <2>1, SecondFacts
    <3>2. QED BY <1>3, <1>7, <3>1
  <2>2. QED BY <2>1 DEF SecondGivesWay
<1>11. QED BY <1>1, <1>2, <1>6, <1>8, <1>9, <1>10, NamingStep

LEMMA RenameSeenNaming ==
  ASSUME SetsInv, NamingInv, NEW i \in todo, RenameSeen(i)
  PROVE  NamingInv'
<1>1. /\ Resolving(i) /\ running.what = "resolve" /\ running' = running /\ todo' = todo \ {i}
      /\ See(i, Here.add[i].name) /\ running.at \in Replica /\ i \in Id
  BY ResolvingFacts, HereFacts DEF RenameSeen, Resolving, GoOn
<1>2. PICK e \in Existing(i) : Here' = [Here EXCEPT !.add[e.id].name = Tagged(e.id)]
  BY RenameSeenSets
<1>3. SetsInv'
  BY RenameSeenSets
<1> DEFINE f == e.id
<1>4. f \in Passed /\ f \in Id /\ f # i /\ Rivals(f, i)
  BY <1>1, ExistingFacts
<1> HIDE DEF f
<1>5. /\ \A j \in Id : /\ Here'.add[j].place = Here.add[j].place
                       /\ Has(Here', j) <=> Has(Here, j)
                       /\ Exists(Here', j) <=> Exists(Here, j)
      /\ Here'.add[f].name = Tagged(f)
      /\ \A j \in Id : j # f => Here'.add[j] = Here.add[j]
  <2>1. Here' = [Here EXCEPT !.add[f].name = Tagged(f)]
    BY <1>2 DEF f
  <2>2. QED BY <1>1, <1>4, <2>1, RenamedFacts
<1>6. NodesKept(i)
  BY <1>4, <1>5 DEF NodesKept
<1>7. Here.add[i].name \in Name /\ Here.add[i].name # << >> /\ Here.add[i].name[1] = NameOf[i]
  BY <1>1, HereFacts
<1>8. SeenKept(i)
  BY <1>1, <1>7, SeeKeeps
<1>9. FirstOfAll(i)
  BY <1>4 DEF FirstOfAll
<1>10. SecondGivesWay(i)
  <2>1. ASSUME NEW j \in Passed, Rivals(j, i), \A k \in Passed : Rivals(k, i) => k = j
        PROVE  Here'.add[i].name # Here'.add[j].name
    <3>1. j = f /\ Here.add[j].name = Here.add[i].name
      BY <1>1, <1>2, <2>1, SecondFacts DEF f
    <3>2. Tagged(f) # Here.add[f].name
      BY <1>1, <1>4, TaggedFacts
    <3>3. QED BY <1>1, <1>4, <1>5, <3>1, <3>2
  <2>2. QED BY <2>1 DEF SecondGivesWay
<1>11. QED BY <1>1, <1>3, <1>6, <1>8, <1>9, <1>10, NamingStep

LEMMA InitNaming == Init => NamingInv
BY DEF Init, NamingInv, NoCall

LEMMA NextNaming == ASSUME SetsInv, NamingInv, [Next]_vars PROVE NamingInv'
<1>1. CASE UNCHANGED vars
  <2>1. UNCHANGED <<replica, running, todo, seen>>
    BY <1>1 DEF vars, callVars
  <2>2. Here' = Here
    BY <2>1 DEF Here
  <2>3. Passed' = Passed
    BY <2>1, <2>2 DEF Passed, Added
  <2>4. SeenWasPassed => SeenWasPassed'
    BY <2>1, <2>2, <2>3 DEF SeenWasPassed
  <2>5. FirstIsSeen => FirstIsSeen'
    BY <2>1, <2>2, <2>3 DEF FirstIsSeen, Rivals
  <2>6. PairsResolved => PairsResolved'
    BY <2>2, <2>3 DEF PairsResolved, Third, Rivals, Added
  <2>7. QED BY <2>1, <2>4, <2>5, <2>6 DEF NamingInv
<1>2. CASE Call /\ UNCHANGED callVars
  <2>1. running'.what = "none"
    BY <1>2, CallsEnd DEF callVars
  <2>2. QED BY <2>1 DEF NamingInv
<1>3. CASE (\E p, q \in Replica : MergeFrom(p, q)) \/ (\E p \in Replica, i \in Id : Create(p, i) \/ RemoveNode(p, i))
  BY <1>2, <1>3 DEF MergeFrom, Create, RemoveNode
<1>4. CASE \E p \in Replica, f \in File, i \in Index : AppendLine(p, f, i) \/ RemoveLine(p, f, i)
  BY <1>2, <1>4 DEF AppendLine, RemoveLine
<1>5. ASSUME NEW p \in Replica, ResolveNameConflicts(p)
      PROVE  NamingInv'
  <2>1. /\ running' = [what |-> "resolve", at |-> p, policy |-> "none"]
        /\ todo' = Added(replica[p]) \ {Root} /\ UNCHANGED replica /\ seen' = {}
    BY <1>5, CallFacts DEF ResolveNameConflicts, Start
  <2>2. Here' = replica[p]
    BY <2>1 DEF Here
  <2>3. Passed' = {}
    BY <2>1, <2>2 DEF Passed
  <2>4. QED BY <2>1, <2>3 DEF NamingInv, SeenWasPassed, FirstIsSeen, PairsResolved
<1>6. CASE SyncAll \/ SyncPair \/ Return \/ \E p \in Replica, policy \in Policy : ReattachOrphans(p, policy)
  <2>1. running'.what # "resolve"
    BY <1>6 DEF SyncAll, Start, SyncPair, GoOn, Return, NoCall, ReattachOrphans
  <2>2. QED BY <2>1 DEF NamingInv
<1>7. ASSUME NEW i \in todo, Reattach(i)
      PROVE  NamingInv'
  <2>1. running'.what # "resolve"
    BY <1>7 DEF Reattach, KeepPlace, ReattachRoot, ReattachSkip, ReattachCompact,
                ReattachReappear, Visit, GoOn
  <2>2. QED BY <2>1 DEF NamingInv
<1>8. ASSUME NEW i \in todo, Resolve(i)
      PROVE  NamingInv'
  BY <1>8, ResolveQuietNaming, ResolveFilesNaming, RenameVisitedNaming, RenameSeenNaming DEF Resolve
<1>9. QED
  BY <1>1, <1>3, <1>4, <1>5, <1>6, <1>7, <1>8 DEF Next

LEMMA NamingGives == SetsInv /\ NamingInv => NamesResolved
<1> SUFFICES ASSUME SetsInv, NamingInv, running.what = "resolve", todo = {},
                    NEW i \in Lookup(Here), NEW j \in Lookup(Here),
                    i # j, i \in File \/ j \in File,
                    Here.add[i].place = Here.add[j].place, Here.add[i].name = Here.add[j].name
             PROVE  \E k \in Added(Here) \ {i, j} :
                      Here.add[k].place = Here.add[i].place /\ NameOf[k] = NameOf[i]
  BY DEF NamesResolved
<1>1. i \in Id /\ j \in Id /\ Exists(Here, i) /\ Exists(Here, j)
  BY DEF Lookup
<1>2. i # Root /\ j # Root
  BY <1>1, ResolvingHere DEF Sound, Rooted
<1>3. i \in Passed /\ j \in Passed
  BY <1>1, <1>2 DEF Passed, Added, Exists, Has
<1>4. QED BY <1>1, <1>3 DEF NamingInv, PairsResolved, Third, Rivals

\* When ResolveNameConflicts returns, two nodes that show in one directory under
\* one name are both directories, unless a third node there was given that
\* name: whatever order the map gives, whatever was renamed or removed before.
THEOREM NamesGiveWay == Spec => []NamesResolved
<1>1. Spec => []NamingInv
  BY SetsInvariance, InitNaming, NextNaming, PTL DEF Spec
<1>2. QED BY <1>1, SetsInvariance, NamingGives, PTL

-----------------------------------------------------------------------------
(* SyncAll.                                                                *)

\* Each entry a replica has after the step is one that a replica had.
FromBefore ==
  \A p \in Replica, i \in Id : Has(replica'[p], i) =>
    \E q \in Replica : /\ Has(replica[q], i)
                       /\ replica'[p].add[i].ts = replica[q].add[i].ts
                       /\ replica'[p].add[i].id = replica[q].add[i].id

LEMMA OneStampStep ==
  ASSUME OneStamp, scenario' = scenario, FromBefore
  PROVE  OneStamp'
<1> SUFFICES ASSUME "reappear" \notin scenario.does, NEW p \in Replica, NEW q \in Replica, NEW i \in Id,
                    Has(replica'[p], i), Has(replica'[q], i)
             PROVE  /\ replica'[p].add[i].ts = replica'[q].add[i].ts
                    /\ replica'[p].add[i].id = replica'[q].add[i].id
  BY DEF OneStamp
<1>1. PICK x \in Replica : /\ Has(replica[x], i)
                           /\ replica'[p].add[i].ts = replica[x].add[i].ts
                           /\ replica'[p].add[i].id = replica[x].add[i].id
  BY DEF FromBefore
<1>2. PICK y \in Replica : /\ Has(replica[y], i)
                           /\ replica'[q].add[i].ts = replica[y].add[i].ts
                           /\ replica'[q].add[i].id = replica[y].add[i].id
  BY DEF FromBefore
<1>3. QED BY <1>1, <1>2 DEF OneStamp

LEMMA UnchangedFromBefore ==
  ASSUME \/ UNCHANGED replica
         \/ \A p \in Replica, i \in Id : /\ replica'[p].add[i].ts = replica[p].add[i].ts
                                         /\ replica'[p].add[i].id = replica[p].add[i].id
  PROVE  FromBefore
BY DEF FromBefore, Has

LEMMA MergedFromBefore ==
  ASSUME SetsInv, NEW p \in Replica, NEW q \in Replica,
         replica' = [replica EXCEPT ![p] = Merge(@, replica[q])],
         now' \in Nat, now <= now'
  PROVE  FromBefore
<1>1. /\ replica'[p] = Merge(replica[p], replica[q])
      /\ \A x \in Replica : x # p => replica'[x] = replica[x]
  BY MergedSets
<1>2. \A i \in Id : Merge(replica[p], replica[q]).add[i] \in {replica[p].add[i], replica[q].add[i]}
  BY SetsTyped, MergeFacts
<1>3. QED BY <1>1, <1>2 DEF FromBefore, Has

LEMMA CreateFacts ==
  ASSUME SetsInv, NEW p \in Replica, NEW i \in Id, Create(p, i)
  PROVE  /\ \A q \in Replica : q # p => replica'[q] = replica[q]
         /\ replica'[p].add[i].ts = now' /\ replica'[p].add[i].id = p
         /\ \A j \in Id : j # i => replica'[p].add[j] = replica[p].add[j]
         /\ replica'[p].remove = replica[p].remove
         /\ replica'[p].clock = Update(replica[p].clock, p, now')
         /\ \A q \in Replica : ~Has(replica[q], i)
<1> DEFINE n == NewNode(i, now', p)
           X == Add(replica[p], i, n)
<1>1. /\ Call /\ now' \in Nat /\ now' > 0
      /\ replica' = [replica EXCEPT ![p] = X]
      /\ \A q \in Replica : ~Has(replica[q], i)
  BY CallFacts DEF Create
<1>2. replica[p] \in NodeSetCRDT /\ replica[p].add[i].ts = 0
  <2>1. replica[p] \in NodeSetCRDT
    BY SetsTyped
  <2>2. QED BY <1>1, <2>1, NodeSetFacts DEF Has
<1>3. n \in Node /\ n.ts = now' /\ n.id = p
  BY <1>1, NewNodeFacts, Constants
<1> HIDE DEF n
<1>4. Later(n, replica[p].add[i])
  BY <1>1, <1>2, <1>3 DEF Later
<1>5. /\ X.add[i] = n /\ \A j \in Id : j # i => X.add[j] = replica[p].add[j]
      /\ X.remove = replica[p].remove /\ X.clock = Update(replica[p].clock, p, now')
  BY <1>2, <1>3, <1>4, AddFacts
<1> HIDE DEF X
<1>6. replica'[p] = X /\ \A q \in Replica : q # p => replica'[q] = replica[q]
  BY <1>1 DEF SetsInv, TypeOK
<1>7. QED BY <1>1, <1>3, <1>5, <1>6

LEMMA RemoveNodeFacts ==
  ASSUME SetsInv, NEW p \in Replica, NEW i \in Id, RemoveNode(p, i)
  PROVE  LET s == [ts |-> now' + 1, id |-> p] IN
         /\ \A q \in Replica : q # p => replica'[q] = replica[q]
         /\ replica'[p] = RemoveID(replica[p], i, s) /\ s \in Stamp
         /\ replica'[p].add = replica[p].add
<1> DEFINE s == [ts |-> now' + 1, id |-> p]
<1>1. /\ Call /\ now' \in Nat /\ replica' = [replica EXCEPT ![p] = RemoveID(@, i, s)]
  BY CallFacts DEF RemoveNode
<1>2. s \in Stamp
  BY <1>1, StampFacts, Constants
<1> HIDE DEF s
<1>3. RemoveID(replica[p], i, s).add = replica[p].add
  BY <1>2, SetsTyped, RemoveFacts
<1>4. /\ replica'[p] = RemoveID(replica[p], i, s)
      /\ \A q \in Replica : q # p => replica'[q] = replica[q]
  BY <1>1 DEF SetsInv, TypeOK
<1>5. QED BY <1>2, <1>3, <1>4 DEF s

\* Names are resolved without new stamps of nodes.
LEMMA ResolveStamps ==
  ASSUME SetsInv, NEW i \in todo, Resolve(i)
  PROVE  \A p \in Replica, j \in Id : /\ replica'[p].add[j].ts = replica[p].add[j].ts
                                      /\ replica'[p].add[j].id = replica[p].add[j].id
<1>1. /\ running.what = "resolve" /\ running' = running /\ running.at \in Replica
      /\ Resolving(i) /\ Here \in NodeSetCRDT /\ i \in Id
  BY ResolvingFacts, HereFacts DEF Resolve, ResolveGone, ResolveNone, ResolveFiles, RenameVisited, RenameSeen,
                        Resolving, GoOn
<1>2. \A p \in Replica : p # running.at => replica'[p] = replica[p]
  <2>1. UNCHANGED replica \/ \E X : Store(X)
    BY DEF Resolve, ResolveGone, ResolveNone, ResolveFiles, RenameVisited, RenameSeen
  <2>2. QED BY <1>1, <2>1 DEF Store, SetsInv, TypeOK
<1>3. \A j \in Id : Here'.add[j].ts = Here.add[j].ts /\ Here'.add[j].id = Here.add[j].id
  <2>1. CASE ResolveGone(i) \/ ResolveNone(i)
    BY <2>1 DEF ResolveGone, ResolveNone, Here, Resolving, GoOn
  <2>2. CASE ResolveFiles(i)
    BY <2>2, ResolveFilesSets
  <2>3. CASE RenameVisited(i)
    BY <1>1, <2>3, RenameVisitedSets, RenamedFacts
  <2>4. CASE RenameSeen(i)
    <3>1. PICK e \in Existing(i) : Here' = [Here EXCEPT !.add[e.id].name = Tagged(e.id)]
      BY <2>4, RenameSeenSets
    <3>2. e.id \in Id
      BY <1>1, ResolvingFacts DEF Existing
    <3>3. QED BY <1>1, <3>1, <3>2, RenamedFacts
  <2>5. QED BY <2>1, <2>2, <2>3, <2>4 DEF Resolve
<1>4. QED BY <1>1, <1>2, <1>3 DEF Here

LEMMA InitOneStamp == Init => OneStamp
BY DEF Init, OneStamp

LEMMA NextOneStamp == ASSUME SetsInv, OneStamp, [Next]_vars PROVE OneStamp'
<1>1. CASE UNCHANGED vars
  BY <1>1, UnchangedFromBefore, OneStampStep DEF vars
<1>2. ASSUME NEW p \in Replica, NEW i \in Id, Create(p, i)
      PROVE  OneStamp'
  <2>1. scenario' = scenario
    BY <1>2, CallFacts DEF Create
  <2>2. /\ \A q \in Replica : q # p => replica'[q] = replica[q]
        /\ \A j \in Id : j # i => replica'[p].add[j] = replica[p].add[j]
        /\ \A q \in Replica : ~Has(replica[q], i)
    BY <1>2, CreateFacts
  <2>3. \A q \in Replica, j \in Id : Has(replica'[q], j) => Has(replica[q], j) \/ (q = p /\ j = i)
    BY <2>2 DEF Has
  <2>4. \A q \in Replica, j \in Id : ~(q = p /\ j = i) =>
          /\ replica'[q].add[j].ts = replica[q].add[j].ts
          /\ replica'[q].add[j].id = replica[q].add[j].id
    BY <2>2
  <2>5. QED BY <2>1, <2>2, <2>3, <2>4 DEF OneStamp
<1>3. ASSUME NEW p \in Replica, NEW i \in Id, RemoveNode(p, i)
      PROVE  OneStamp'
  <2>1. scenario' = scenario
    BY <1>3, CallFacts DEF RemoveNode
  <2>2. \A q \in Replica : replica'[q].add = replica[q].add
    BY <1>3, RemoveNodeFacts
  <2>3. QED BY <2>1, <2>2, UnchangedFromBefore, OneStampStep
<1>4. ASSUME NEW p \in Replica, NEW f \in File, NEW i \in Index,
             AppendLine(p, f, i) \/ RemoveLine(p, f, i)
      PROVE  OneStamp'
  <2>1. scenario' = scenario /\ UNCHANGED replica
    BY <1>4, CallFacts DEF AppendLine, RemoveLine
  <2>2. QED BY <2>1, UnchangedFromBefore, OneStampStep
<1>5. ASSUME NEW p \in Replica, NEW q \in Replica, MergeFrom(p, q)
      PROVE  OneStamp'
  <2>1. /\ scenario' = scenario /\ now' \in Nat /\ now <= now'
        /\ replica' = [replica EXCEPT ![p] = Merge(@, replica[q])]
    BY <1>5, CallFacts DEF MergeFrom
  <2>2. QED BY <2>1, MergedFromBefore, OneStampStep
<1>6. CASE SyncPair
  <2>1. PICK pq \in todo : replica' = [replica EXCEPT ![pq[1]] = Merge(@, replica[pq[2]])] /\ GoOn(pq)
    BY <1>6 DEF SyncPair
  <2>2. pq[1] \in Replica /\ pq[2] \in Replica
    BY <1>6 DEF SyncPair, SetsInv, Visiting
  <2>3. scenario' = scenario /\ now' \in Nat /\ now <= now'
    BY <2>1, SetsTyped DEF GoOn
  <2>4. QED BY <2>1, <2>2, <2>3, MergedFromBefore, OneStampStep
<1>7. CASE \/ SyncAll \/ Return
           \/ \E p \in Replica, policy \in Policy : ReattachOrphans(p, policy)
           \/ \E p \in Replica : ResolveNameConflicts(p)
  <2>1. UNCHANGED replica /\ scenario' = scenario
    BY <1>7, CallFacts DEF SyncAll, Return, ReattachOrphans, ResolveNameConflicts, Start
  <2>2. QED BY <2>1, UnchangedFromBefore, OneStampStep
<1>8. ASSUME NEW i \in todo, Reattach(i)
      PROVE  OneStamp'
  <2>1. scenario' = scenario /\ running' = running
    BY <1>8 DEF Reattach, KeepPlace, ReattachRoot, ReattachSkip, ReattachCompact,
                ReattachReappear, Visit, GoOn
  <2>2. CASE ReattachReappear(i)
    BY <2>1, <2>2, ReappearSets DEF OneStamp
  <2>3. CASE KeepPlace(i)
    BY <2>1, <2>3, UnchangedFromBefore, OneStampStep DEF KeepPlace
  <2>4. CASE ReattachRoot(i) \/ ReattachCompact(i) \/ ReattachSkip(i)
    <3>1. \A p \in Replica, j \in Id : /\ replica'[p].add[j].ts = replica[p].add[j].ts
                                       /\ replica'[p].add[j].id = replica[p].add[j].id
      BY <2>1, <2>4, MoveSets, SkipSets DEF Here
    <3>2. QED BY <2>1, <3>1, UnchangedFromBefore, OneStampStep
  <2>5. QED BY <1>8, <2>2, <2>3, <2>4 DEF Reattach
<1>9. ASSUME NEW i \in todo, Resolve(i)
      PROVE  OneStamp'
  <2>1. scenario' = scenario
    BY <1>9 DEF Resolve, ResolveGone, ResolveNone, ResolveFiles, RenameVisited, RenameSeen,
                Resolving, GoOn
  <2>2. QED BY <1>9, <2>1, ResolveStamps, UnchangedFromBefore, OneStampStep
<1>10. QED
  BY <1>1, <1>2, <1>3, <1>4, <1>5, <1>6, <1>7, <1>8, <1>9 DEF Next

LEMMA AheadFacts ==
  ASSUME NEW a \in NodeSetCRDT, NEW b \in NodeSetCRDT, NEW c \in NodeSetCRDT
  PROVE  /\ Ahead(a, a)
         /\ Ahead(a, b) /\ Ahead(b, c) => Ahead(a, c)
         /\ Ahead(a, b) /\ Ahead(b, a) => \A i \in Id : /\ Has(a, i) <=> Has(b, i)
                                                        /\ a.remove[i].ts = b.remove[i].ts
                                                        /\ a.remove[i].id = b.remove[i].id
<1>1. ASSUME NEW i \in Id
      PROVE  /\ a.remove[i].ts \in Nat /\ b.remove[i].ts \in Nat /\ c.remove[i].ts \in Nat
             /\ a.remove[i].id \in Nat /\ b.remove[i].id \in Nat /\ c.remove[i].id \in Nat
  BY NodeSetFacts, Constants
<1>2. ASSUME NEW i \in Id
      PROVE  /\ ~Later(a.remove[i], a.remove[i])
             /\ ~Later(c.remove[i], b.remove[i]) /\ ~Later(b.remove[i], a.remove[i])
                  => ~Later(c.remove[i], a.remove[i])
             /\ ~Later(b.remove[i], a.remove[i]) /\ ~Later(a.remove[i], b.remove[i])
                  => a.remove[i].ts = b.remove[i].ts /\ a.remove[i].id = b.remove[i].id
  BY <1>1, StampOrder
<1>3. QED BY <1>2 DEF Ahead

\* What two replicas have together is no less than what either has, and no more
\* than what one that is ahead of both has.
LEMMA MergeAhead ==
  ASSUME NEW r, NEW s, NEW x, Sound(r), Sound(s), Sound(x)
  PROVE  /\ Ahead(Merge(r, s), r) /\ Ahead(Merge(r, s), s)
         /\ Ahead(x, r) /\ Ahead(x, s) => Ahead(x, Merge(r, s))
<1> DEFINE m == Merge(r, s)
<1>1. \A i \in Id :
        /\ m.add[i] = IF Has(r, i) \/ ~Has(s, i) THEN r.add[i] ELSE s.add[i]
        /\ m.remove[i] = IF Later(s.remove[i], r.remove[i]) THEN s.remove[i] ELSE r.remove[i]
  BY MergeFacts
<1>2. r \in NodeSetCRDT /\ s \in NodeSetCRDT
  BY DEF Sound
<1> HIDE DEF m
<1>3. \A i \in Id : Has(m, i) <=> Has(r, i) \/ Has(s, i)
  BY <1>1 DEF Has
<1>4. ASSUME NEW i \in Id
      PROVE  /\ ~Later(r.remove[i], m.remove[i]) /\ ~Later(s.remove[i], m.remove[i])
             /\ m.remove[i] = r.remove[i] \/ m.remove[i] = s.remove[i]
  <2>1. /\ r.remove[i].ts \in Nat /\ s.remove[i].ts \in Nat
        /\ r.remove[i].id \in Nat /\ s.remove[i].id \in Nat
    BY <1>2, NodeSetFacts, Constants
  <2>2. QED BY <1>1, <2>1 DEF Later
<1>5. QED BY <1>3, <1>4 DEF Ahead, m

LEMMA InitSyncing == Init => Syncing
BY DEF Init, Syncing, NoCall

\* The pairs before the one that is merged were merged.
LEMMA SyncPairSyncing ==
  ASSUME SetsInv, Syncing, SyncPair
  PROVE  Syncing'
<1>1. PICK pq \in todo :
        /\ \A st \in todo \ {pq} : Earlier(pq, st)
        /\ replica' = [replica EXCEPT ![pq[1]] = Merge(@, replica[pq[2]])]
        /\ GoOn(pq)
  BY DEF SyncPair
<1>2. PICK x \in Replica, y \in Replica : pq = <<x, y>> /\ x # y
  BY DEF SyncPair, SetsInv, Visiting
<1>3. running.what = "sync" /\ running' = running /\ todo' = todo \ {<<x, y>>}
      /\ now' \in Nat /\ now <= now'
      /\ replica' = [replica EXCEPT ![x] = Merge(@, replica[y])]
  <2>1. running.what = "sync"
    BY DEF SyncPair
  <2>2. running' = running /\ todo' = todo \ {pq} /\ now' = now
    BY <1>1 DEF GoOn
  <2>3. pq[1] = x /\ pq[2] = y
    BY <1>2
  <2>4. replica' = [replica EXCEPT ![x] = Merge(@, replica[y])]
    BY <1>1, <2>3
  <2>5. now \in Nat
    BY SetsTyped
  <2>6. QED BY <1>2, <2>1, <2>2, <2>4, <2>5
<1>4. /\ replica'[x] = Merge(replica[x], replica[y])
      /\ \A p \in Replica : p # x => replica'[p] = replica[p]
  BY <1>3, MergedSets
<1>5. \A p \in Replica : replica[p] \in NodeSetCRDT /\ Sound(replica[p]) /\ p \in Nat
  BY SetsTyped, Constants
<1>6. \A p, q, s, t \in Replica : Synced(p, q) /\ <<s, t>> \in todo => Earlier(<<p, q>>, <<s, t>>)
  BY <1>3 DEF Syncing
<1>7. <<x, y>> \in todo /\ \A s, t \in Replica : <<s, t>> \in todo /\ <<s, t>> # <<x, y>> => Earlier(<<x, y>>, <<s, t>>)
  BY <1>1, <1>2
<1>8. ASSUME NEW p \in Replica, NEW q \in Replica, Synced(p, q)'
      PROVE  Synced(p, q) \/ <<p, q>> = <<x, y>>
  BY <1>3, <1>8 DEF Synced
<1>9. ASSUME NEW p \in Replica, NEW q \in Replica, NEW s \in Replica, NEW t \in Replica,
             Synced(p, q)', <<s, t>> \in todo'
      PROVE  Earlier(<<p, q>>, <<s, t>>)
  <2>1. <<s, t>> \in todo /\ <<s, t>> # <<x, y>>
    BY <1>3, <1>9
  <2>2. QED BY <1>6, <1>7, <1>8, <1>9, <2>1
<1>10. replica'[x] \in NodeSetCRDT
       /\ Ahead(replica'[x], replica[x]) /\ Ahead(replica'[x], replica[y])
       /\ \A p \in Replica : Knows(p, x) /\ Knows(p, y) => Ahead(replica[p], replica'[x])
  <2>1. Merge(replica[x], replica[y]) \in NodeSetCRDT
    BY <1>5, MergeFacts
  <2>2. ASSUME NEW p \in Replica
        PROVE  /\ Ahead(Merge(replica[x], replica[y]), replica[x])
               /\ Ahead(Merge(replica[x], replica[y]), replica[y])
               /\ Ahead(replica[p], replica[x]) /\ Ahead(replica[p], replica[y])
                    => Ahead(replica[p], Merge(replica[x], replica[y]))
    BY <1>5, MergeAhead
  <2>3. QED BY <1>4, <2>1, <2>2 DEF Knows
<1>11. \A p \in Replica : Knows(p, p)
  BY <1>5, AheadFacts DEF Knows
<1>12. ASSUME NEW m \in Replica, \A p \in Replica : m <= p, NEW p \in Replica, Synced(m, p)'
       PROVE  Ahead(replica'[m], replica'[p])
  <2>1. p # m
    BY <1>12 DEF Synced
  <2>2. Synced(m, p) => Knows(m, p)
    BY <1>3, <1>12 DEF Syncing
  <2>3. CASE m = x
    <3>1. replica'[p] = replica[p]
      BY <1>4, <2>1, <2>3
    <3>2. CASE p = y
      BY <1>10, <2>3, <3>1, <3>2
    <3>3. CASE p # y
      <4>1. Ahead(replica[x], replica[p])
        BY <1>8, <1>12, <2>2, <2>3, <3>3 DEF Knows
      <4>2. QED BY <1>5, <1>10, <2>3, <3>1, <4>1, AheadFacts
    <3>4. QED BY <3>2, <3>3
  <2>4. CASE m # x
    <3>1. replica'[m] = replica[m] /\ Synced(m, p)
      BY <1>4, <1>8, <1>12, <2>4
    <3>2. CASE p = x
      <4>1. Knows(m, y)
        <5>1. CASE y = m
          BY <1>11, <5>1
        <5>2. CASE y # m
          <6>1. m < x
            BY <1>5, <1>12, <2>4
          <6>2. ~Earlier(<<x, y>>, <<m, y>>)
            BY <1>5, <6>1 DEF Earlier
          <6>3. <<m, y>> # <<x, y>>
            BY <2>4
          <6>4. Synced(m, y)
            BY <1>7, <5>2, <6>2, <6>3 DEF Synced
          <6>5. QED BY <1>3, <1>12, <6>4 DEF Syncing
        <5>3. QED BY <5>1, <5>2
      <4>2. QED BY <1>10, <2>2, <3>1, <3>2, <4>1
    <3>3. CASE p # x
      BY <1>4, <2>2, <3>1, <3>3 DEF Knows
    <3>4. QED BY <3>2, <3>3
  <2>5. QED BY <2>3, <2>4
<1>13. ASSUME NEW m \in Replica, \A p \in Replica : m <= p, NEW p \in Replica, Synced(p, m)'
       PROVE  Ahead(replica'[p], replica'[m])
  <2>1. p # m /\ m < p
    <3>1. p # m
      BY <1>13 DEF Synced
    <3>2. QED BY <1>5, <1>13, <3>1
  <2>2. CASE <<p, m>> = <<x, y>>
    BY <1>4, <1>10, <2>1, <2>2
  <2>3. CASE <<p, m>> # <<x, y>>
    <3>1. Synced(p, m)
      BY <1>8, <1>13, <2>3
    <3>2. Knows(p, m)
      BY <1>3, <1>13, <3>1 DEF Syncing
    <3>3. m # x
      <4>1. Earlier(<<p, m>>, <<x, y>>)
        BY <1>6, <1>7, <3>1
      <4>2. QED BY <1>5, <2>1, <4>1 DEF Earlier
    <3>4. replica'[m] = replica[m]
      BY <1>4, <3>3
    <3>5. p = x \/ replica'[p] = replica[p]
      BY <1>4
    <3>6. QED BY <1>5, <1>10, <3>2, <3>4, <3>5, AheadFacts DEF Knows
  <2>4. QED BY <2>2, <2>3
<1>14. \A m \in Replica : (\A p \in Replica : m <= p) =>
         \A p \in Replica : /\ Synced(m, p)' => Knows(m, p)'
                            /\ Synced(p, m)' => Knows(p, m)'
  BY <1>12, <1>13 DEF Knows
<1>15. \A p, q, s, t \in Replica : Synced(p, q)' /\ <<s, t>> \in todo' => Earlier(<<p, q>>, <<s, t>>)
  BY <1>9
<1>16. QED BY <1>14, <1>15 DEF Syncing

LEMMA NextSyncing == ASSUME SetsInv, Syncing, [Next]_vars PROVE Syncing'
<1>1. CASE UNCHANGED vars
  BY <1>1 DEF vars, callVars, Syncing, Synced, Knows
<1>2. CASE SyncPair
  BY <1>2, SyncPairSyncing
<1>3. CASE SyncAll
  <2>1. todo' = {pq \in Replica \X Replica : pq[1] # pq[2]}
    BY <1>3 DEF SyncAll, Start
  <2>2. \A p, q \in Replica : ~Synced(p, q)'
    BY <2>1 DEF Synced
  <2>3. QED BY <2>2 DEF Syncing
<1>4. CASE Call /\ UNCHANGED callVars
  <2>1. running'.what = "none"
    BY <1>4, CallsEnd DEF callVars
  <2>2. QED BY <2>1 DEF Syncing
<1>5. CASE \/ \E p \in Replica, i \in Id : Create(p, i) \/ RemoveNode(p, i)
           \/ \E p \in Replica, f \in File, i \in Index : AppendLine(p, f, i) \/ RemoveLine(p, f, i)
           \/ \E p, q \in Replica : MergeFrom(p, q)
  BY <1>4, <1>5 DEF Create, RemoveNode, AppendLine, RemoveLine, MergeFrom
<1>6. CASE \/ Return
           \/ \E p \in Replica, policy \in Policy : ReattachOrphans(p, policy)
           \/ \E p \in Replica : ResolveNameConflicts(p)
  <2>1. running'.what # "sync"
    BY <1>6 DEF Return, NoCall, ReattachOrphans, ResolveNameConflicts, Start
  <2>2. QED BY <2>1 DEF Syncing
<1>7. CASE \E i \in todo : Reattach(i) \/ Resolve(i)
  <2>1. running'.what # "sync"
    BY <1>7 DEF Reattach, KeepPlace, ReattachRoot, ReattachSkip, ReattachCompact,
                ReattachReappear, Visit, GoOn, Resolve, ResolveGone, ResolveNone,
                ResolveFiles, RenameVisited, RenameSeen, Resolving
  <2>2. QED BY <2>1 DEF Syncing
<1>8. QED BY <1>1, <1>2, <1>3, <1>5, <1>6, <1>7 DEF Next

LEMMA SyncingGives == SetsInv /\ OneStamp /\ Syncing => SyncedAgree
<1> SUFFICES ASSUME SetsInv, OneStamp, Syncing,
                    running.what = "sync", todo = {}, "reappear" \notin scenario.does,
                    NEW p \in Replica, NEW q \in Replica
             PROVE  Lookup(replica[p]) = Lookup(replica[q])
  BY DEF SyncedAgree
<1>1. PICK m \in Replica : \A x \in Replica : m <= x
  <2>1. PICK m \in Replica : \A x \in Replica : ~(<<x, m>> \in OpToRel(<, Nat))
    BY Constants, WFMin, NatLessThanWellFounded
  <2>2. \A x \in Replica : ~(x < m)
    BY <2>1, Constants DEF OpToRel
  <2>3. QED BY <2>2, Constants
<1>2. ASSUME NEW x \in Replica
      PROVE  Lookup(replica[x]) = Lookup(replica[m])
  <2>1. replica[x] \in NodeSetCRDT /\ replica[m] \in NodeSetCRDT
    BY SetsTyped
  <2>2. Ahead(replica[x], replica[m]) /\ Ahead(replica[m], replica[x])
    <3>1. CASE x = m
      BY <2>1, <3>1, AheadFacts
    <3>2. CASE x # m
      BY <1>1, <3>2 DEF Syncing, Synced, Knows
    <3>3. QED BY <3>1, <3>2
  <2>3. \A i \in Id : /\ Has(replica[x], i) <=> Has(replica[m], i)
                      /\ replica[x].remove[i].ts = replica[m].remove[i].ts
                      /\ replica[x].remove[i].id = replica[m].remove[i].id
    BY <2>1, <2>2, AheadFacts
  <2>4. \A i \in Id : Has(replica[x], i) => /\ replica[x].add[i].ts = replica[m].add[i].ts
                                            /\ replica[x].add[i].id = replica[m].add[i].id
    BY <2>3 DEF OneStamp
  <2>5. \A i \in Id : Exists(replica[x], i) <=> Exists(replica[m], i)
    BY <2>3, <2>4 DEF Exists, Later
  <2>6. QED BY <2>5 DEF Lookup
<1>3. QED BY <1>2

\* After SyncAll all replicas show the same nodes, for any number of them: the
\* replica with the least ID merges all the others before one of them merges it.
\* Nodes have one stamp as long as nobody uses "reappear".
THEOREM SyncAllAgrees == Spec => []SyncedAgree
<1>1. Spec => []OneStamp
  BY SetsInvariance, InitOneStamp, NextOneStamp, PTL DEF Spec
<1>2. Spec => []Syncing
  BY SetsInvariance, InitSyncing, NextSyncing, PTL DEF Spec
<1>3. QED BY <1>1, <1>2, SetsInvariance, SyncingGives, PTL

-----------------------------------------------------------------------------
(* The clocks.                                                             *)

LEMMA EntryTypes ==
  ASSUME SetsInv, NEW p \in Replica, NEW i \in Id
  PROVE  /\ replica[p].add[i].ts \in Nat /\ replica[p].add[i].id \in Origin
         /\ replica[p].remove[i].ts \in Nat /\ replica[p].remove[i].id \in Origin
         /\ replica[p].clock \in [Origin -> Nat] /\ \A o \in Origin : replica[p].clock[o] \in Nat
         /\ replica[p].add[i].ts <= replica[p].clock[replica[p].add[i].id]
         /\ replica[p].remove[i].ts <= replica[p].clock[replica[p].remove[i].id]
<1>1. replica[p] \in NodeSetCRDT /\ Covered(replica[p])
  BY SetsTyped DEF Sound
<1>2. QED BY <1>1, NodeSetFacts DEF Covered

LEMMA InitClocks == Init => ClocksInv
<1> SUFFICES ASSUME Init PROVE Blank /\ PastOnly /\ OwnClock /\ NothingSkipped
  BY DEF ClocksInv
<1>1. SetsInv
  BY InitSets
<1>2. ASSUME NEW p \in Replica, NEW i \in Id
      PROVE  /\ replica[p].add[i] = (IF i = Root THEN NewNode(i, 1, 0) ELSE NoNode(i))
             /\ replica[p].remove[i] = Absent
             /\ \A o \in Origin : replica[p].clock[o] = IF o = 0 THEN 1 ELSE 0
  BY DEF Init
<1>3. ASSUME NEW p \in Replica, NEW i \in Id
      PROVE  replica[p].add[i].id = 0 /\ replica[p].remove[i].id = 0 /\ replica[p].remove[i].ts = 0
  <2>1. NewNode(i, 1, 0).id = 0 /\ NoNode(i).id = 0
    BY NewNodeFacts, Constants DEF NoNode
  <2>2. QED BY <1>2, <2>1 DEF Absent
<1>4. Blank
  BY <1>3 DEF Blank
<1>5. PastOnly
  <2>1. now = 1
    BY DEF Init
  <2>2. \A p \in Replica, o \in Origin : replica[p].clock[o] = IF o = 0 THEN 1 ELSE 0
    BY <1>2, Constants
  <2>3. QED BY <2>1, <2>2 DEF PastOnly
<1>6. OwnClock
  BY <1>3, Constants DEF OwnClock
<1>7. NothingSkipped
  <2>1. \A p, q \in Replica, i \in Id : replica[p].add[i] = replica[q].add[i]
    BY <1>2
  <2>2. \A p, q \in Replica, i \in Id : ~Later(replica[q].remove[i], replica[p].remove[i])
    BY <1>3 DEF Later
  <2>3. QED BY <2>1, <2>2 DEF NothingSkipped, Has
<1>8. QED BY <1>4, <1>5, <1>6, <1>7

\* Stamps and clocks are kept.
LEMMA SameClocks ==
  ASSUME ClocksInv, scenario' = scenario, now \in Nat, now' \in Nat, now <= now', SetsInv,
         \A p \in Replica : /\ replica'[p].remove = replica[p].remove
                            /\ replica'[p].clock = replica[p].clock
                            /\ \A i \in Id : /\ replica'[p].add[i].ts = replica[p].add[i].ts
                                             /\ replica'[p].add[i].id = replica[p].add[i].id
  PROVE  ClocksInv'
<1> SUFFICES ASSUME Plain PROVE (Blank /\ PastOnly /\ OwnClock /\ NothingSkipped)'
  BY DEF ClocksInv, Plain
<1>1. Blank /\ PastOnly /\ OwnClock /\ NothingSkipped
  BY DEF ClocksInv
<1>2. \A p \in Replica, i \in Id : Has(replica'[p], i) <=> Has(replica[p], i)
  BY DEF Has
<1>3. Blank'
  BY <1>1, <1>2 DEF Blank
<1>4. PastOnly'
  <2>1. ASSUME NEW p \in Replica, NEW o \in Origin PROVE replica'[p].clock[o] <= now' + 1
    <3>1. replica[p].clock[o] <= now + 1 /\ replica[p].clock[o] \in Nat
      BY <1>1, EntryTypes, Constants DEF PastOnly
    <3>2. QED BY <3>1
  <2>2. QED BY <2>1 DEF PastOnly
<1>5. OwnClock'
  BY <1>1 DEF OwnClock
<1>6. NothingSkipped'
  BY <1>1, <1>2 DEF NothingSkipped
<1>7. QED BY <1>3, <1>4, <1>5, <1>6

\* A replica p stamps something of its own, later than all clocks.
LEMMA StampedClocks ==
  ASSUME SetsInv, SetsInv', ClocksInv, scenario' = scenario, Plain, now' = now + 3,
         NEW p \in Replica,
         \A q \in Replica : q # p => replica'[q] = replica[q],
         \A o \in Origin : o # p => replica'[p].clock[o] = replica[p].clock[o],
         replica[p].clock[p] <= replica'[p].clock[p], replica'[p].clock[p] <= now' + 1,
         \A i \in Id :
           /\ \/ replica'[p].add[i] = replica[p].add[i]
              \/ /\ replica'[p].add[i].id = p /\ replica'[p].add[i].ts = now'
                 /\ now' <= replica'[p].clock[p]
           /\ \/ replica'[p].remove[i] = replica[p].remove[i]
              \/ /\ replica'[p].remove[i].id = p /\ replica'[p].remove[i].ts = now' + 1
                 /\ now' + 1 <= replica'[p].clock[p]
  PROVE  ClocksInv'
<1>1. Blank /\ PastOnly /\ OwnClock /\ NothingSkipped
  BY DEF ClocksInv
<1>2. now \in Nat /\ p \in Origin
  BY SetsTyped, Constants
<1>3. ASSUME NEW q \in Replica, NEW o \in Origin
      PROVE  /\ replica[q].clock[o] \in Nat /\ replica'[q].clock[o] \in Nat
             /\ replica[q].clock[o] <= replica'[q].clock[o]
             /\ replica[q].clock[o] <= now + 1 /\ replica'[q].clock[o] <= now' + 1
             /\ (q # p \/ o # p) => replica'[q].clock[o] = replica[q].clock[o]
  <2>1. replica[q].clock[o] \in Nat /\ replica[q].clock[o] <= now + 1
    BY <1>1, EntryTypes, Constants DEF PastOnly
  <2>2. (q # p \/ o # p) => replica'[q].clock[o] = replica[q].clock[o]
    OBVIOUS
  <2>3. replica'[p].clock[p] \in Nat
    <3>1. replica'[p].clock \in [Origin -> Nat]
      BY DEF SetsInv, TypeOK, NodeSetCRDT
    <3>2. QED BY <1>2, <3>1
  <2>4. QED BY <1>2, <2>1, <2>2, <2>3
<1>4. PastOnly'
  BY <1>3 DEF PastOnly
<1>5. Blank'
  BY <1>1, <1>2 DEF Blank, Has
<1>6. OwnClock'
  <2>1. ASSUME NEW x \in Replica, NEW q \in Replica, NEW i \in Id
        PROVE  /\ replica'[q].add[i].id = x => replica'[q].add[i].ts <= replica'[x].clock[x]
               /\ replica'[q].remove[i].id = x => replica'[q].remove[i].ts <= replica'[x].clock[x]
    <3>1. /\ replica[q].add[i].id = x => replica[q].add[i].ts <= replica[x].clock[x]
          /\ replica[q].remove[i].id = x => replica[q].remove[i].ts <= replica[x].clock[x]
      BY <1>1 DEF OwnClock
    <3>2. replica[q].add[i].ts \in Nat /\ replica[q].remove[i].ts \in Nat
      BY EntryTypes
    <3>3. replica[x].clock[x] \in Nat /\ replica'[x].clock[x] \in Nat /\ replica[x].clock[x] <= replica'[x].clock[x]
      BY <1>3, Constants
    <3>4. /\ replica[q].add[i].id = x => replica[q].add[i].ts <= replica'[x].clock[x]
          /\ replica[q].remove[i].id = x => replica[q].remove[i].ts <= replica'[x].clock[x]
      BY <3>1, <3>2, <3>3
    <3>5. QED BY <3>4
  <2>2. QED BY <2>1 DEF OwnClock
<1>7. NothingSkipped'
  <2>1. ASSUME NEW x \in Replica, NEW i \in Id
        PROVE  /\ Has(replica[x], i) => Has(replica'[x], i)
               /\ ~Later(replica[x].remove[i], replica'[x].remove[i])
    <3>1. /\ replica[x].add[i].ts \in Nat /\ replica[x].remove[i].ts \in Nat
          /\ replica[x].remove[i].id \in Origin
          /\ replica[x].remove[i].ts <= replica[x].clock[replica[x].remove[i].id]
      BY EntryTypes
    <3>2. replica[x].remove[i].ts <= now + 1
      BY <1>2, <1>3, <3>1
    <3>3. Has(replica[x], i) => Has(replica'[x], i)
      BY <1>2 DEF Has
    <3>4. \/ replica'[x].remove[i] = replica[x].remove[i]
          \/ replica'[x].remove[i].ts = now' + 1
      OBVIOUS
    <3>5. replica[x].remove[i].id \in Nat
      BY <3>1, Constants
    <3>6. QED BY <1>2, <3>1, <3>2, <3>3, <3>4, <3>5 DEF Later
  \* What a clock has reached it had reached before, or p stamps it now.
  <2>2. ASSUME NEW x \in Replica, NEW q \in Replica, NEW o \in Origin, NEW t \in Nat,
               t <= replica'[x].clock[o], t <= now + 1,
               o \in Replica => t <= replica[o].clock[o]
        PROVE  t <= replica[x].clock[o]
    <3>1. CASE x = p /\ o = p
      BY <2>2, <3>1
    <3>2. CASE x # p \/ o # p
      BY <1>3, <2>2, <3>2
    <3>3. QED BY <3>1, <3>2
  <2>3. ASSUME NEW x \in Replica, NEW q \in Replica, NEW i \in Id, Has(replica'[q], i),
               replica'[q].add[i].ts <= replica'[x].clock[replica'[q].add[i].id]
        PROVE  Has(replica'[x], i)
    <3>1. CASE replica'[q].add[i] = replica[q].add[i]
      <4>1. /\ replica[q].add[i].ts \in Nat /\ replica[q].add[i].id \in Origin
            /\ replica[q].add[i].ts <= replica[q].clock[replica[q].add[i].id]
        BY EntryTypes
      <4>2. replica[q].add[i].ts <= now + 1
        BY <1>2, <1>3, <4>1
      <4>3. replica[q].add[i].ts <= replica'[x].clock[replica[q].add[i].id]
        BY <2>3, <3>1
      <4>4. replica[q].add[i].id \in Replica => replica[q].add[i].ts <= replica[replica[q].add[i].id].clock[replica[q].add[i].id]
        BY <1>1 DEF OwnClock
      <4>5. replica[q].add[i].ts <= replica[x].clock[replica[q].add[i].id]
        BY <2>2, <4>1, <4>2, <4>3, <4>4
      <4>6. Has(replica[q], i)
        BY <2>3, <3>1 DEF Has
      <4>7. Has(replica[x], i)
        BY <1>1, <4>5, <4>6 DEF NothingSkipped
      <4>8. QED BY <2>1, <4>7
    <3>2. CASE replica'[q].add[i] # replica[q].add[i]
      <4>1. q = p /\ replica'[q].add[i].id = p /\ replica'[q].add[i].ts = now + 3
        BY <3>2
      <4>2. x = p
        BY <1>2, <1>3, <2>3, <4>1
      <4>3. QED BY <2>3, <4>1, <4>2
    <3>3. QED BY <3>1, <3>2
  <2>4. ASSUME NEW x \in Replica, NEW q \in Replica, NEW i \in Id,
               replica'[q].remove[i].ts <= replica'[x].clock[replica'[q].remove[i].id]
        PROVE  ~Later(replica'[q].remove[i], replica'[x].remove[i])
    <3>1. CASE replica'[q].remove[i] = replica[q].remove[i]
      <4>1. /\ replica[q].remove[i].ts \in Nat /\ replica[q].remove[i].id \in Origin
            /\ replica[q].remove[i].ts <= replica[q].clock[replica[q].remove[i].id]
        BY EntryTypes
      <4>2. replica[q].remove[i].ts <= now + 1
        BY <1>2, <1>3, <4>1
      <4>3. replica[q].remove[i].ts <= replica'[x].clock[replica[q].remove[i].id]
        BY <2>4, <3>1
      <4>4. replica[q].remove[i].id \in Replica => replica[q].remove[i].ts <= replica[replica[q].remove[i].id].clock[replica[q].remove[i].id]
        BY <1>1 DEF OwnClock
      <4>5. replica[q].remove[i].ts <= replica[x].clock[replica[q].remove[i].id]
        BY <2>2, <4>1, <4>2, <4>3, <4>4
      <4>6. ~Later(replica[q].remove[i], replica[x].remove[i])
        BY <1>1, <4>5 DEF NothingSkipped
      <4>7. ~Later(replica[x].remove[i], replica'[x].remove[i])
        BY <2>1
      <4>8. /\ replica[q].remove[i].id \in Nat
            /\ replica[x].remove[i].ts \in Nat /\ replica[x].remove[i].id \in Nat
            /\ replica'[x].remove[i].ts \in Nat /\ replica'[x].remove[i].id \in Nat
        <5>1. replica'[x].remove[i].ts \in Nat /\ replica'[x].remove[i].id \in Origin
          BY DEF SetsInv, TypeOK, NodeSetCRDT, Stamp
        <5>2. QED BY <5>1, EntryTypes, Constants
      <4>9. QED BY <3>1, <4>1, <4>6, <4>7, <4>8, StampOrder
    <3>2. CASE replica'[q].remove[i] # replica[q].remove[i]
      <4>1. q = p /\ replica'[q].remove[i].id = p /\ replica'[q].remove[i].ts = now + 3 + 1
        BY <3>2
      <4>2. x = p
        BY <1>2, <1>3, <2>4, <4>1
      <4>3. QED BY <1>2, <4>1, <4>2, Constants DEF Later
    <3>3. QED BY <3>1, <3>2
  <2>5. QED BY <2>3, <2>4 DEF NothingSkipped
<1>8. QED BY <1>4, <1>5, <1>6, <1>7 DEF ClocksInv

\* A replica p merges q: its clock goes no further than the further of the two,
\* and what that one has p has now.
LEMMA MergedClocks ==
  ASSUME SetsInv, ClocksInv, scenario' = scenario, now' \in Nat, now <= now',
         NEW p \in Replica, NEW q \in Replica,
         replica' = [replica EXCEPT ![p] = Merge(@, replica[q])]
  PROVE  ClocksInv'
<1> SUFFICES ASSUME Plain PROVE (Blank /\ PastOnly /\ OwnClock /\ NothingSkipped)'
  BY DEF ClocksInv, Plain
<1>1. Blank /\ PastOnly /\ OwnClock /\ NothingSkipped
  BY DEF ClocksInv
<1>2. /\ replica'[p] = Merge(replica[p], replica[q])
      /\ \A x \in Replica : x # p => replica'[x] = replica[x]
      /\ \A x \in Replica : Sound(replica'[x])
  BY MergedSets
<1>3. ASSUME NEW i \in Id
      PROVE  /\ replica'[p].add[i] = IF Has(replica[p], i) \/ ~Has(replica[q], i) THEN replica[p].add[i] ELSE replica[q].add[i]
             /\ replica'[p].remove[i] = IF Later(replica[q].remove[i], replica[p].remove[i]) THEN replica[q].remove[i] ELSE replica[p].remove[i]
  BY <1>2, SetsTyped, MergeFacts
<1>4. ASSUME NEW x \in Replica, NEW o \in Origin
      PROVE  /\ replica[x].clock[o] \in Nat /\ replica'[x].clock[o] \in Nat
             /\ replica[x].clock[o] <= replica'[x].clock[o]
             /\ replica'[x].clock[o] <= replica[x].clock[o] \/ (x = p /\ replica'[x].clock[o] <= replica[q].clock[o])
  <2>1. replica[x].clock[o] \in Nat /\ replica'[x].clock[o] \in Nat
    BY <1>2, SetsTyped DEF Sound, NodeSetCRDT
  <2>2. CASE x = p
    BY <1>2, <2>1, <2>2, SetsTyped, MergeFacts
  <2>3. CASE x # p
    BY <1>2, <2>1, <2>3
  <2>4. QED BY <2>2, <2>3, <2>1
<1>5. ASSUME NEW x \in Replica, NEW i \in Id
      PROVE  /\ \E y \in Replica : /\ replica'[x].add[i] = replica[y].add[i]
                                   /\ Has(replica'[x], i) => Has(replica[y], i)
             /\ \E y \in Replica : replica'[x].remove[i] = replica[y].remove[i]
  <2>1. CASE x = p
    BY <1>3, <2>1 DEF Has
  <2>2. CASE x # p
    BY <1>2, <2>2
  <2>3. QED BY <2>1, <2>2
<1>6. Blank'
  <2>1. ASSUME NEW x \in Replica, NEW i \in Id, ~Has(replica'[x], i) PROVE replica'[x].add[i].id = 0
    <3>1. PICK y \in Replica : replica'[x].add[i] = replica[y].add[i]
      BY <1>5
    <3>2. ~Has(replica[y], i)
      BY <2>1, <3>1 DEF Has
    <3>3. QED BY <1>1, <3>1, <3>2 DEF Blank
  <2>2. QED BY <2>1 DEF Blank
<1>7. PastOnly'
  <2>1. ASSUME NEW x \in Replica, NEW o \in Origin PROVE replica'[x].clock[o] <= now' + 1
    <3>1. replica[x].clock[o] <= now + 1 /\ replica[q].clock[o] <= now + 1
      BY <1>1 DEF PastOnly
    <3>2. now \in Nat /\ replica[q].clock[o] \in Nat
      BY <1>4, SetsTyped
    <3>3. QED BY <1>4, <3>1, <3>2
  <2>2. QED BY <2>1 DEF PastOnly
<1>8. OwnClock'
  <2>1. ASSUME NEW x \in Replica, NEW y \in Replica, NEW i \in Id
        PROVE  /\ replica'[y].add[i].id = x => replica'[y].add[i].ts <= replica'[x].clock[x]
               /\ replica'[y].remove[i].id = x => replica'[y].remove[i].ts <= replica'[x].clock[x]
    <3>1. PICK z \in Replica : replica'[y].add[i] = replica[z].add[i]
      BY <1>5
    <3>2. PICK w \in Replica : replica'[y].remove[i] = replica[w].remove[i]
      BY <1>5
    <3>3. /\ replica[z].add[i].id = x => replica[z].add[i].ts <= replica[x].clock[x]
          /\ replica[w].remove[i].id = x => replica[w].remove[i].ts <= replica[x].clock[x]
      BY <1>1 DEF OwnClock
    <3>4. /\ replica[z].add[i].ts \in Nat /\ replica[w].remove[i].ts \in Nat
          /\ replica[x].clock[x] \in Nat /\ replica'[x].clock[x] \in Nat
          /\ replica[x].clock[x] <= replica'[x].clock[x]
      BY <1>4, EntryTypes, Constants
    <3>5. QED BY <3>1, <3>2, <3>3, <3>4
  <2>2. QED BY <2>1 DEF OwnClock
\* What an entry of replica x or y is no later than, it is no later than after the merge.
<1>9. ASSUME NEW x \in Replica, NEW i \in Id, NEW y \in Replica, y = x \/ (x = p /\ y = q)
      PROVE  /\ Has(replica[y], i) => Has(replica'[x], i)
             /\ ~Later(replica[y].remove[i], replica'[x].remove[i])
  <2>1. /\ replica[p].remove[i].ts \in Nat /\ replica[p].remove[i].id \in Nat
        /\ replica[q].remove[i].ts \in Nat /\ replica[q].remove[i].id \in Nat
        /\ replica[y].remove[i].ts \in Nat /\ replica[y].remove[i].id \in Nat
    BY EntryTypes, Constants
  <2>2. CASE x = p
    BY <1>3, <1>9, <2>1, <2>2 DEF Has, Later
  <2>3. CASE x # p
    BY <1>2, <1>9, <2>1, <2>3 DEF Later
  <2>4. QED BY <2>2, <2>3
\* A time that the clock of x has reached now x or q had reached before.
<1>10. ASSUME NEW x \in Replica, NEW o \in Origin, NEW t \in Nat, t <= replica'[x].clock[o]
       PROVE  \E y \in Replica : (y = x \/ (x = p /\ y = q)) /\ t <= replica[y].clock[o]
  <2>1. /\ replica[x].clock[o] \in Nat /\ replica'[x].clock[o] \in Nat /\ replica[q].clock[o] \in Nat
        /\ replica'[x].clock[o] <= replica[x].clock[o] \/ (x = p /\ replica'[x].clock[o] <= replica[q].clock[o])
    BY <1>4
  <2>2. t <= replica[x].clock[o] \/ (x = p /\ t <= replica[q].clock[o])
    BY <1>10, <2>1
  <2>3. QED BY <2>2
<1>11. NothingSkipped'
  <2>1. ASSUME NEW x \in Replica, NEW y \in Replica, NEW i \in Id, Has(replica'[y], i),
               replica'[y].add[i].ts <= replica'[x].clock[replica'[y].add[i].id]
        PROVE  Has(replica'[x], i)
    <3>1. PICK z \in Replica : replica'[y].add[i] = replica[z].add[i] /\ Has(replica[z], i)
      BY <1>5, <2>1
    <3>2. replica[z].add[i].ts \in Nat /\ replica[z].add[i].id \in Origin
      BY EntryTypes
    <3>3. PICK w \in Replica : /\ w = x \/ (x = p /\ w = q)
                               /\ replica[z].add[i].ts <= replica[w].clock[replica[z].add[i].id]
      BY <1>10, <2>1, <3>1, <3>2
    <3>4. Has(replica[w], i)
      BY <1>1, <3>1, <3>3 DEF NothingSkipped
    <3>5. QED BY <1>9, <3>3, <3>4
  <2>2. ASSUME NEW x \in Replica, NEW y \in Replica, NEW i \in Id,
               replica'[y].remove[i].ts <= replica'[x].clock[replica'[y].remove[i].id]
        PROVE  ~Later(replica'[y].remove[i], replica'[x].remove[i])
    <3>1. PICK z \in Replica : replica'[y].remove[i] = replica[z].remove[i]
      BY <1>5
    <3>2. replica[z].remove[i].ts \in Nat /\ replica[z].remove[i].id \in Origin
      BY EntryTypes
    <3>3. PICK w \in Replica : /\ w = x \/ (x = p /\ w = q)
                               /\ replica[z].remove[i].ts <= replica[w].clock[replica[z].remove[i].id]
      BY <1>10, <2>2, <3>1, <3>2
    <3>4. ~Later(replica[z].remove[i], replica[w].remove[i])
      BY <1>1, <3>3 DEF NothingSkipped
    <3>5. ~Later(replica[w].remove[i], replica'[x].remove[i])
      BY <1>9, <3>3
    <3>6. /\ replica[z].remove[i].id \in Nat
          /\ replica[w].remove[i].ts \in Nat /\ replica[w].remove[i].id \in Nat
          /\ replica'[x].remove[i].ts \in Nat /\ replica'[x].remove[i].id \in Nat
      <4>1. PICK v \in Replica : replica'[x].remove[i] = replica[v].remove[i]
        BY <1>5
      <4>2. QED BY <3>2, <4>1, EntryTypes, Constants
    <3>7. QED BY <3>1, <3>2, <3>4, <3>5, <3>6, StampOrder
  <2>3. QED BY <2>1, <2>2 DEF NothingSkipped
<1>12. QED BY <1>6, <1>7, <1>8, <1>11

LEMMA CreateClocks ==
  ASSUME SetsInv, ClocksInv, NEW p \in Replica, NEW i \in Id, Create(p, i)
  PROVE  ClocksInv'
<1> SUFFICES ASSUME Plain PROVE ClocksInv'
  <2>1. scenario' = scenario
    BY CallFacts DEF Create
  <2>2. QED BY <2>1 DEF ClocksInv, Plain
<1>1. scenario' = scenario /\ now \in Nat /\ now' = now + 3 /\ SetsInv'
  BY CallFacts, CreateSets DEF Create, Plain
<1>2. /\ \A q \in Replica : q # p => replica'[q] = replica[q]
      /\ replica'[p].add[i].ts = now' /\ replica'[p].add[i].id = p
      /\ \A j \in Id : j # i => replica'[p].add[j] = replica[p].add[j]
      /\ replica'[p].remove = replica[p].remove
      /\ replica'[p].clock = Update(replica[p].clock, p, now')
  BY CreateFacts
<1>3. replica[p].clock \in [Origin -> Nat] /\ p \in Origin /\ now' \in Nat
      /\ replica[p].clock[p] \in Nat /\ replica[p].clock[p] <= now + 1
  BY <1>1, EntryTypes, Constants DEF ClocksInv, PastOnly
<1> DEFINE c == Update(replica[p].clock, p, now')
<1>4. /\ now' <= c[p] /\ c[p] \in {replica[p].clock[p], now'} /\ replica[p].clock[p] <= c[p]
      /\ \A o \in Origin : o # p => c[o] = replica[p].clock[o]
  BY <1>3, UpdateFacts
<1> HIDE DEF c
<1>5. replica'[p].clock = c
  BY <1>2 DEF c
<1>6. c[p] <= now' + 1
  BY <1>1, <1>3, <1>4
<1>7. QED BY <1>1, <1>2, <1>4, <1>5, <1>6, StampedClocks

LEMMA RemoveNodeClocks ==
  ASSUME SetsInv, ClocksInv, NEW p \in Replica, NEW i \in Id, RemoveNode(p, i)
  PROVE  ClocksInv'
<1> SUFFICES ASSUME Plain PROVE ClocksInv'
  <2>1. scenario' = scenario
    BY CallFacts DEF RemoveNode
  <2>2. QED BY <2>1 DEF ClocksInv, Plain
<1>1. scenario' = scenario /\ now \in Nat /\ now' = now + 3 /\ SetsInv'
  BY CallFacts, RemoveNodeSets DEF RemoveNode, Plain
<1> DEFINE s == [ts |-> now' + 1, id |-> p]
           c == Update(replica[p].clock, p, now' + 1)
<1>2. /\ \A q \in Replica : q # p => replica'[q] = replica[q]
      /\ replica'[p] = RemoveID(replica[p], i, s) /\ s \in Stamp
      /\ replica'[p].add = replica[p].add
  BY RemoveNodeFacts
<1>3. replica[p].clock \in [Origin -> Nat] /\ p \in Origin /\ now' + 1 \in Nat
      /\ replica[p].clock[p] \in Nat /\ replica[p].clock[p] <= now + 1
  BY <1>1, EntryTypes, Constants DEF ClocksInv, PastOnly
<1>4. /\ now' + 1 <= c[p] /\ c[p] \in {replica[p].clock[p], now' + 1} /\ replica[p].clock[p] <= c[p]
      /\ \A o \in Origin : o # p => c[o] = replica[p].clock[o]
  BY <1>3, UpdateFacts
<1>5. s.ts = now' + 1 /\ s.id = p
  OBVIOUS
<1> HIDE DEF s
<1>6. Later(s, replica[p].remove[i])
  <2>1. /\ replica[p].remove[i].ts \in Nat /\ replica[p].remove[i].id \in Origin
        /\ replica[p].remove[i].ts <= replica[p].clock[replica[p].remove[i].id]
        /\ \A o \in Origin : replica[p].clock[o] \in Nat
    BY EntryTypes
  <2>2. \A o \in Origin : replica[p].clock[o] <= now + 1
    BY DEF ClocksInv, PastOnly
  <2>3. replica[p].remove[i].ts <= now + 1
    BY <1>1, <2>1, <2>2
  <2>4. QED BY <1>1, <1>5, <2>1, <2>3 DEF Later
<1>7. /\ replica'[p].remove[i] = s
      /\ \A j \in Id : j # i => replica'[p].remove[j] = replica[p].remove[j]
      /\ replica'[p].clock = c
  <2>1. replica[p] \in NodeSetCRDT
    BY SetsTyped
  <2>2. QED BY <1>2, <1>5, <1>6, <2>1, RemoveFacts
<1> HIDE DEF c
<1>8. c[p] <= now' + 1
  BY <1>1, <1>3, <1>4
<1>9. QED BY <1>1, <1>2, <1>4, <1>5, <1>7, <1>8, StampedClocks

LEMMA NextClocks == ASSUME SetsInv, ClocksInv, [Next]_vars PROVE ClocksInv'
<1>1. now \in Nat
  BY SetsTyped
<1>2. CASE UNCHANGED vars
  BY <1>1, <1>2, SameClocks DEF vars
<1>3. ASSUME NEW p \in Replica, NEW i \in Id, Create(p, i) \/ RemoveNode(p, i)
      PROVE  ClocksInv'
  BY <1>3, CreateClocks, RemoveNodeClocks
<1>4. ASSUME NEW p \in Replica, NEW f \in File, NEW i \in Index,
             AppendLine(p, f, i) \/ RemoveLine(p, f, i)
      PROVE  ClocksInv'
  <2>1. scenario' = scenario /\ UNCHANGED replica /\ now' \in Nat /\ now <= now'
    BY <1>4, CallFacts DEF AppendLine, RemoveLine
  <2>2. QED BY <1>1, <2>1, SameClocks
<1>5. ASSUME NEW p \in Replica, NEW q \in Replica, MergeFrom(p, q)
      PROVE  ClocksInv'
  <2>1. /\ scenario' = scenario /\ now' \in Nat /\ now <= now'
        /\ replica' = [replica EXCEPT ![p] = Merge(@, replica[q])]
    BY <1>5, CallFacts DEF MergeFrom
  <2>2. QED BY <2>1, MergedClocks
<1>6. CASE SyncPair
  <2>1. PICK pq \in todo : replica' = [replica EXCEPT ![pq[1]] = Merge(@, replica[pq[2]])] /\ GoOn(pq)
    BY <1>6 DEF SyncPair
  <2>2. pq[1] \in Replica /\ pq[2] \in Replica
    BY <1>6 DEF SyncPair, SetsInv, Visiting
  <2>3. scenario' = scenario /\ now' \in Nat /\ now <= now'
    BY <2>1, SetsTyped DEF GoOn
  <2>4. QED BY <2>1, <2>2, <2>3, MergedClocks
<1>7. CASE \/ SyncAll \/ Return
           \/ \E p \in Replica, policy \in Policy : ReattachOrphans(p, policy)
           \/ \E p \in Replica : ResolveNameConflicts(p)
  <2>1. UNCHANGED replica /\ scenario' = scenario
    BY <1>7, CallFacts DEF SyncAll, Return, ReattachOrphans, ResolveNameConflicts, Start
  <2>2. now' \in Nat /\ now <= now'
    BY <1>1, <1>7, CallFacts DEF SyncAll, Return, ReattachOrphans, ResolveNameConflicts, Start
  <2>3. QED BY <1>1, <2>1, <2>2, SameClocks
<1>8. ASSUME NEW i \in todo, Reattach(i)
      PROVE  ClocksInv'
  <2>1. scenario' = scenario /\ running' = running /\ now' = now
    BY <1>8 DEF Reattach, KeepPlace, ReattachRoot, ReattachSkip, ReattachCompact,
                ReattachReappear, Visit, GoOn
  <2>2. CASE KeepPlace(i)
    BY <1>1, <2>1, <2>2, SameClocks DEF KeepPlace
  <2>3. CASE ReattachRoot(i) \/ ReattachCompact(i)
    <3>1. \A p \in Replica : /\ replica'[p].remove = replica[p].remove
                             /\ replica'[p].clock = replica[p].clock
                             /\ \A j \in Id : /\ replica'[p].add[j].ts = replica[p].add[j].ts
                                              /\ replica'[p].add[j].id = replica[p].add[j].id
      BY <2>1, <2>3, MoveSets DEF Here
    <3>2. QED BY <1>1, <2>1, <3>1, SameClocks
  <2>4. CASE ReattachSkip(i) \/ ReattachReappear(i)
    <3>1. ~Plain
      BY <2>4, VisitFacts DEF ReattachSkip, ReattachReappear, Plain
    <3>2. QED BY <2>1, <3>1 DEF ClocksInv, Plain
  <2>5. QED BY <1>8, <2>2, <2>3, <2>4 DEF Reattach
<1>9. ASSUME NEW i \in todo, Resolve(i)
      PROVE  ClocksInv'
  <2>1. scenario' = scenario /\ running.what = "resolve"
    BY <1>9 DEF Resolve, ResolveGone, ResolveNone, ResolveFiles, RenameVisited, RenameSeen,
                Resolving, GoOn
  <2>2. ~Plain
    BY <2>1 DEF SetsInv, Visiting, Plain
  <2>3. QED BY <2>1, <2>2 DEF ClocksInv, Plain
<1>10. QED
  BY <1>2, <1>3, <1>4, <1>5, <1>6, <1>7, <1>8, <1>9 DEF Next

LEMMA ClocksGive == SetsInv /\ OneStamp /\ ClocksInv => DominatesIsAhead
<1> SUFFICES ASSUME SetsInv, OneStamp, ClocksInv, Plain, NEW p \in Replica, NEW q \in Replica,
                    Dominates(replica[p].clock, replica[q].clock), NEW i \in Id
             PROVE  /\ ~Later(replica[q].add[i], replica[p].add[i])
                    /\ ~Later(replica[q].remove[i], replica[p].remove[i])
  BY DEF DominatesIsAhead, Plain
<1>1. Blank /\ NothingSkipped
  BY DEF ClocksInv
<1>2. \A o \in Origin : replica[q].clock[o] <= replica[p].clock[o]
  <2>1. DOMAIN replica[q].clock = Origin
    BY EntryTypes
  <2>2. \A o \in Origin : replica[p].clock[o] \in Nat /\ replica[q].clock[o] \in Nat
    BY EntryTypes
  <2>3. QED BY <2>1, <2>2 DEF Dominates
<1>3. /\ replica[q].add[i].ts \in Nat /\ replica[q].add[i].id \in Origin
      /\ replica[q].remove[i].ts \in Nat /\ replica[q].remove[i].id \in Origin
      /\ replica[q].add[i].ts <= replica[q].clock[replica[q].add[i].id]
      /\ replica[q].remove[i].ts <= replica[q].clock[replica[q].remove[i].id]
      /\ \A o \in Origin : replica[p].clock[o] \in Nat /\ replica[q].clock[o] \in Nat
  BY EntryTypes
<1>4. /\ replica[q].add[i].ts <= replica[p].clock[replica[q].add[i].id]
      /\ replica[q].remove[i].ts <= replica[p].clock[replica[q].remove[i].id]
  BY <1>2, <1>3
<1>5. ~Later(replica[q].remove[i], replica[p].remove[i])
  BY <1>1, <1>4 DEF NothingSkipped
<1>6. /\ replica[p].add[i].ts \in Nat /\ replica[p].add[i].id \in Nat /\ replica[q].add[i].id \in Nat
  BY EntryTypes, Constants
<1>7. CASE Has(replica[q], i)
  <2>1. Has(replica[p], i)
    BY <1>1, <1>4, <1>7 DEF NothingSkipped
  <2>2. "reappear" \notin scenario.does
    BY DEF Plain
  <2>3. replica[p].add[i].ts = replica[q].add[i].ts /\ replica[p].add[i].id = replica[q].add[i].id
    BY <1>7, <2>1, <2>2 DEF OneStamp
  <2>4. QED BY <1>3, <1>5, <1>6, <2>3 DEF Later
<1>8. CASE ~Has(replica[q], i)
  <2>1. replica[q].add[i].ts = 0 /\ replica[q].add[i].id = 0
    BY <1>1, <1>3, <1>8 DEF Blank, Has
  <2>2. QED BY <1>5, <1>6, <2>1 DEF Later
<1>9. QED BY <1>7, <1>8

\* A replica whose version vector dominates another's has all that one stored,
\* as long as no two calls see one time and no policy stamps in another
\* replica's name: no clock reaches a stamp that its replica has skipped.
THEOREM DominanceIsKnowledge == Spec => []DominatesIsAhead
<1>1. Spec => []OneStamp
  BY SetsInvariance, InitOneStamp, NextOneStamp, PTL DEF Spec
<1>2. Spec => []ClocksInv
  BY SetsInvariance, InitClocks, NextClocks, PTL DEF Spec
<1>3. QED BY <1>1, <1>2, SetsInvariance, ClocksGive, PTL
=============================================================================
