--------------------------- MODULE FsReplicaProofs ---------------------------
(***************************************************************************)
(* Proofs about FsReplica: for any replicas and keys, and any settings of  *)
(* the program, shared or not.                                             *)
(***************************************************************************)
EXTENDS FsReplica, TLAPS

\* A replica's clock counts commands.
ClockBehind == \A p \in Peer : clock[p] <= commands + 1

\* Unless stores race, nothing waits to be stored.
NothingWaits == ~setting.racy => \A p \in Peer, w \in Peer \cup {0} : store[p][w] = Nothing

\* What is on its way: each entry is the latest of its past; and while AddSet
\* alone was sent, the past has no tombstone.
SentIsLatest ==
  ~setting.racy /\ ~setting.shared => \A p, q \in Peer :
    /\ \A e \in conn[p][q].todo : IsLatest(e.val, Of(conn[p][q].past, e.set, e.key))
    /\ conn[p][q].stage = "sending" => \A x \in conn[p][q].todo \cup conn[p][q].past : x.set = "add"

\* The value under key k in one of the two sets.
Val(p, s, k) == IF s = "add" THEN addSet[p][k] ELSE removeSet[p][k]

\* No stamp is ahead of the clock of the replica it names.
StampsBehind ==
  ~setting.racy =>
    /\ \A p \in Peer, s \in {"add", "remove"}, k \in Key :
         Val(p, s, k).id \in Peer => Val(p, s, k).ts <= clock[Val(p, s, k).id]
    /\ \A p, q \in Peer : \A e \in conn[p][q].todo :
         e.val.id \in Peer => e.val.ts <= clock[e.val.id]

FsInv ==
  TypeOK /\ ClockBehind /\ NothingWaits /\ EntryIsLatest /\ SentIsLatest /\ StampsBehind

-----------------------------------------------------------------------------
(* Facts about the operators.                                              *)

LEMMA Numbers ==
  ASSUME TypeOK
  PROVE  /\ setting \in Setting /\ setting.racy \in BOOLEAN /\ setting.shared \in BOOLEAN
         /\ setting.commands \in Nat /\ commands \in Nat /\ commands <= setting.commands
         /\ Time \subseteq Nat /\ 0 \in Time
         /\ Peer \subseteq Nat /\ 0 \notin Peer /\ Peer \cup {0} \subseteq Nat
BY SettingAssumption, PeerAssumption DEF TypeOK, Time

\* Every stamp, in a set, in an entry or in a history.
LEMMA StampNumbers ==
  ASSUME TypeOK
  PROVE  /\ \A v \in Node \cup Stamp \cup EventType : v.ts \in Nat /\ v.id \in Nat
         /\ \A e \in Entry : /\ e.set \in {"add", "remove"} /\ e.key \in Key
                             /\ e.val \in Node \cup Stamp
                             /\ e.set = "add" => e.val \in Node
                             /\ e.set = "remove" => e.val \in Stamp
<1>1. Time \subseteq Nat /\ Peer \cup {0} \subseteq Nat
  BY Numbers
<1>2. \A v \in Node \cup Stamp \cup EventType : v.ts \in Nat /\ v.id \in Nat
  BY <1>1 DEF Node, Stamp, EventType
<1>3. QED BY <1>2 DEF Entry

LEMMA ValFacts ==
  ASSUME TypeOK
  PROVE  \A p \in Peer, s \in {"add", "remove"}, k \in Key :
           /\ Val(p, s, k) \in Node \cup Stamp
           /\ Val(p, s, k).ts \in Nat /\ Val(p, s, k).id \in Nat
<1>1. \A p \in Peer, s \in {"add", "remove"}, k \in Key : Val(p, s, k) \in Node \cup Stamp
  BY DEF TypeOK, Val
<1>2. QED BY <1>1, StampNumbers

\* Two histories together: the later of their latest is the latest.
LEMMA LatestOfBoth ==
  ASSUME NEW v, NEW w, NEW S, NEW T, IsLatest(v, S), IsLatest(w, T),
         v.ts \in Nat, v.id \in Nat, w.ts \in Nat, w.id \in Nat,
         \A o \in S \cup T : o.ts \in Nat /\ o.id \in Nat
  PROVE  /\ Later(w, v) => IsLatest(w, S \cup T)
         /\ ~Later(w, v) => IsLatest(v, S \cup T)
BY DEF IsLatest, Later

LEMMA SameStamp ==
  ASSUME NEW v, NEW w, NEW S, v.ts = w.ts, v.id = w.id, IsLatest(v, S)
  PROVE  IsLatest(w, S)
BY DEF IsLatest, Later

LEMMA OfUnion ==
  ASSUME NEW S, NEW T, NEW s, NEW k
  PROVE  Of(S \cup Of(T, s, k), s, k) = Of(S, s, k) \cup Of(T, s, k)
BY DEF Of

LEMMA OfOther ==
  ASSUME NEW S, NEW T, NEW s, NEW k, NEW s2, NEW k2, s2 # s \/ k2 # k
  PROVE  Of(S \cup Of(T, s, k), s2, k2) = Of(S, s2, k2)
BY DEF Of

\* Unless stores race: every value is the latest of what was seen of its key.
LEMMA LatestVal ==
  ASSUME ~setting.racy
  PROVE  EntryIsLatest <=> \A p \in Peer, s \in {"add", "remove"}, k \in Key :
                             IsLatest(Val(p, s, k), Of(seen[p], s, k))
BY DEF EntryIsLatest, Val

-----------------------------------------------------------------------------
(* Types.                                                                  *)

\* The values that are stored, by whom and when ever.
LEMMA AssignFacts ==
  ASSUME TypeOK, NEW p \in Peer, NEW e \in Entry, Assign(p, e)
  PROVE  /\ addSet' \in [Peer -> [Key -> Node]]
         /\ removeSet' \in [Peer -> [Key -> Stamp]]
         /\ \A q \in Peer, s \in {"add", "remove"}, k \in Key :
              Val(q, s, k)' = IF q = p /\ s = e.set /\ k = e.key THEN e.val ELSE Val(q, s, k)
<1>1. addSet \in [Peer -> [Key -> Node]] /\ removeSet \in [Peer -> [Key -> Stamp]]
  BY DEF TypeOK
<1>2. /\ e.set \in {"add", "remove"} /\ e.key \in Key
      /\ e.set = "add" => e.val \in Node
      /\ e.set = "remove" => e.val \in Stamp
  BY StampNumbers
<1>3. CASE e.set = "add"
  <2>1. addSet' = [addSet EXCEPT ![p][e.key] = e.val] /\ removeSet' = removeSet
    BY <1>3 DEF Assign
  <2>2. QED BY <1>1, <1>2, <1>3, <2>1 DEF Val
<1>4. CASE e.set = "remove"
  <2>1. removeSet' = [removeSet EXCEPT ![p][e.key] = e.val] /\ addSet' = addSet
    BY <1>4 DEF Assign
  <2>2. QED BY <1>1, <1>2, <1>4, <2>1 DEF Val
<1>5. QED BY <1>2, <1>3, <1>4

LEMMA PutFacts ==
  ASSUME TypeOK, NEW p \in Peer, NEW w \in Peer \cup {0}, NEW e \in Entry, Put(p, w, e)
  PROVE  /\ addSet' \in [Peer -> [Key -> Node]]
         /\ removeSet' \in [Peer -> [Key -> Stamp]]
         /\ store' \in [Peer -> [Peer \cup {0} -> SUBSET Entry]]
         /\ ~setting.racy => Assign(p, e) /\ store' = store
<1>1. /\ addSet \in [Peer -> [Key -> Node]] /\ removeSet \in [Peer -> [Key -> Stamp]]
      /\ store \in [Peer -> [Peer \cup {0} -> SUBSET Entry]]
  BY DEF TypeOK
<1>2. CASE setting.racy
  <2>1. store' = [store EXCEPT ![p][w] = {e}] /\ addSet' = addSet /\ removeSet' = removeSet
    BY <1>2 DEF Put
  <2>2. QED BY <1>1, <1>2, <2>1
<1>3. CASE ~setting.racy
  <2>1. Assign(p, e) /\ store' = store
    BY <1>3 DEF Put
  <2>2. QED BY <1>1, <2>1, AssignFacts
<1>4. QED BY <1>2, <1>3

FsTypes == TypeOK /\ ClockBehind /\ NothingWaits

LEMMA CommandFacts ==
  ASSUME FsTypes, NEW p \in Peer, Command(p)
  PROVE  /\ UNCHANGED <<setting, online, printing, conn>>
         /\ clock' \in [Peer -> Time] /\ commands' \in 0..setting.commands
         /\ ClockBehind'
         /\ clock'[p] = clock[p] + 1 /\ clock[p] \in Nat /\ clock'[p] \in Time \ {0}
         /\ \A q \in Peer \ {p} : clock'[q] = clock[q]
<1>1. /\ clock' = [clock EXCEPT ![p] = @ + 1] /\ commands' = commands + 1
      /\ commands < setting.commands
      /\ UNCHANGED <<setting, online, printing, conn>>
  BY DEF Command, Ready, NextTimestamp
<1>2. TypeOK /\ ClockBehind /\ clock \in [Peer -> Time] /\ Time \subseteq Nat
      /\ commands \in Nat /\ setting.commands \in Nat
  BY Numbers DEF FsTypes, TypeOK
<1>3. clock'[p] = clock[p] + 1 /\ \A q \in Peer \ {p} : clock'[q] = clock[q]
  BY <1>1, <1>2
<1>4. \A q \in Peer : clock[q] \in Nat /\ clock[q] <= commands + 1
  BY <1>2 DEF ClockBehind
<1>5. commands' \in 0..setting.commands
  BY <1>1, <1>2
<1>6. clock[p] + 1 \in Time \ {0}
  BY <1>1, <1>2, <1>4 DEF Time
<1>7. clock' \in [Peer -> Time]
  BY <1>1, <1>2, <1>6
<1>8. ClockBehind'
  <2> SUFFICES ASSUME NEW q \in Peer PROVE clock'[q] <= commands + 2
    BY <1>1, <1>2 DEF ClockBehind
  <2>1. CASE q = p
    BY <1>2, <1>3, <1>4, <2>1
  <2>2. CASE q # p
    BY <1>2, <1>3, <1>4, <2>2
  <2>3. QED BY <2>1, <2>2
<1>9. QED BY <1>1, <1>3, <1>4, <1>5, <1>6, <1>7, <1>8

\* A user's command makes an entry with the replica's next timestamp; it is
\* stored, or an entry as late is there.
LEMMA UserFacts ==
  ASSUME FsTypes, NEW p \in Peer, NEW k \in Key, NEW s \in {"add", "remove"},
         s = "add" => AddNode(p, k), s = "remove" => RemoveNode(p, k)
  PROVE  \E e \in Entry :
           /\ Command(p)
           /\ e.set = s /\ e.key = k /\ e.val.ts = clock[p] + 1 /\ e.val.id = p
           /\ Event(e) \in EventType
           /\ \/ /\ Put(p, p, e)
                 /\ seen' = [seen EXCEPT ![p] = @ \cup {Event(e)}]
                 /\ e.val.ts > Val(p, s, k).ts /\ e.val.ts > removeSet[p][k].ts
              \/ /\ PutNothing /\ UNCHANGED seen
                 /\ \/ ~(e.val.ts > removeSet[p][k].ts)
                    \/ s = "add" /\ ~(e.val.ts > addSet[p][k].ts)
<1>1. Command(p)
  BY DEF AddNode, RemoveNode
<1>2. clock'[p] = clock[p] + 1 /\ clock'[p] \in Time
  BY <1>1, CommandFacts
<1>3. CASE s = "add"
  <2> DEFINE node == [ts |-> clock'[p], id |-> p, parent |-> ParentOf[k]]
             e == [set |-> "add", key |-> k, val |-> node]
  <2>1. node \in Node
    BY <1>2, KeyAssumption DEF Node
  <2>2. e \in Entry /\ Event(e) \in EventType
    BY <1>2, <2>1 DEF Entry, Event, EventType
  <2>3. \/ /\ node.ts > removeSet[p][k].ts /\ node.ts > addSet[p][k].ts
           /\ Put(p, p, e) /\ seen' = [seen EXCEPT ![p] = @ \cup {Event(e)}]
        \/ /\ ~(node.ts > removeSet[p][k].ts /\ node.ts > addSet[p][k].ts)
           /\ PutNothing /\ UNCHANGED seen
    BY <1>3 DEF AddNode, Add
  <2>4. e.set = s /\ e.key = k /\ e.val = node /\ node.ts = clock[p] + 1 /\ node.id = p
    BY <1>2, <1>3
  <2> HIDE DEF e, node
  <2>5. QED BY <1>1, <1>3, <2>2, <2>3, <2>4 DEF Val
<1>4. CASE s = "remove"
  <2> DEFINE tomb == [ts |-> clock'[p], id |-> p]
             e == [set |-> "remove", key |-> k, val |-> tomb]
  <2>1. tomb \in Stamp
    BY <1>2 DEF Stamp
  <2>2. e \in Entry /\ Event(e) \in EventType
    BY <1>2, <2>1 DEF Entry, Event, EventType
  <2>3. \/ /\ tomb.ts > removeSet[p][k].ts
           /\ Put(p, p, e) /\ seen' = [seen EXCEPT ![p] = @ \cup {Event(e)}]
        \/ /\ ~(tomb.ts > removeSet[p][k].ts)
           /\ PutNothing /\ UNCHANGED seen
    BY <1>4 DEF RemoveNode
  <2>4. e.set = s /\ e.key = k /\ e.val = tomb /\ tomb.ts = clock[p] + 1 /\ tomb.id = p
    BY <1>2, <1>4
  <2> HIDE DEF e, tomb
  <2>5. QED BY <1>1, <1>4, <2>2, <2>3, <2>4 DEF Val
<1>5. QED BY <1>3, <1>4

\* What ReattachOrphan puts: the node with another parent.
LEMMA ReattachFacts ==
  ASSUME FsTypes, NEW p \in Peer, NEW k \in Key, ReattachOrphan(p, k)
  PROVE  /\ UNCHANGED <<setting, online, clock, commands, conn, seen>>
         /\ printing' \in [Peer -> SUBSET Key]
         /\ Printer(p) \in Peer \cup {0}
         /\ \/ PutNothing
            \/ \E e \in Entry : /\ Put(p, Printer(p), e)
                                /\ e.set = "add" /\ e.key = k
                                /\ e.val.ts = addSet[p][k].ts /\ e.val.id = addSet[p][k].id
<1>1. addSet[p][k] \in Node /\ printing \in [Peer -> SUBSET Key]
  BY DEF FsTypes, TypeOK
<1> DEFINE val == [addSet[p][k] EXCEPT !.parent = Root]
           e == [set |-> "add", key |-> k, val |-> val]
<1>2. val \in Node /\ val.ts = addSet[p][k].ts /\ val.id = addSet[p][k].id
  BY <1>1, KeyAssumption DEF Node
<1>3. e \in Entry
  BY <1>2 DEF Entry
<1>4. /\ UNCHANGED <<setting, online, clock, commands, conn, seen>>
      /\ printing' = [printing EXCEPT ![p] = @ \ {k}]
      /\ Put(p, Printer(p), e) \/ PutNothing
  BY DEF ReattachOrphan
<1>5. printing' \in [Peer -> SUBSET Key]
  BY <1>1, <1>4
<1>6. Printer(p) \in Peer \cup {0}
  BY DEF Printer
<1>7. e.set = "add" /\ e.key = k /\ e.val = val
  OBVIOUS
<1> HIDE DEF e, val
<1>8. QED BY <1>2, <1>3, <1>4, <1>5, <1>6, <1>7

\* What is merged: the entry's key, and its value as sent or as it is now.
LEMMA MergeFacts ==
  ASSUME FsTypes, NEW p \in Peer, NEW q \in Peer, NEW e \in conn[p][q].todo,
         HandleConnection(p, q, e)
  PROVE  \E entry \in Entry :
           /\ entry.set = e.set /\ entry.key = e.key /\ e \in Entry
           /\ entry.val = IF setting.shared THEN Val(p, e.set, e.key) ELSE e.val
           /\ UNCHANGED <<setting, online, clock, commands, printing>>
           /\ Merge(q, entry) = Later(entry.val, Val(q, e.set, e.key))
           /\ IF Merge(q, entry) THEN Put(q, p, entry) ELSE PutNothing
           /\ Past(p, q) \subseteq EventType
           /\ seen' = [seen EXCEPT ![q] = @ \cup Of(Past(p, q), e.set, e.key)]
           /\ EndMerge(p, q) \/ conn' = [conn EXCEPT ![p][q].todo = @ \ {e}]
<1>1. /\ addSet \in [Peer -> [Key -> Node]] /\ removeSet \in [Peer -> [Key -> Stamp]]
      /\ conn \in [Peer -> [Peer -> Connection]] /\ seen \in [Peer -> SUBSET EventType]
  BY DEF FsTypes, TypeOK
<1>2. e \in Entry /\ conn[p][q].past \subseteq EventType
  BY <1>1 DEF Connection
<1>3. e.set \in {"add", "remove"} /\ e.key \in Key
  BY <1>2, StampNumbers DEF FsTypes
<1> DEFINE entry == Current(p, e)
<1>4. /\ entry \in Entry /\ entry.set = e.set /\ entry.key = e.key
      /\ entry.val = IF setting.shared THEN Val(p, e.set, e.key) ELSE e.val
  <2>1. CASE ~setting.shared
    BY <1>2, <2>1 DEF Current
  <2>2. CASE setting.shared /\ e.set = "add"
    <3>1. entry = [e EXCEPT !.val = addSet[p][e.key]]
      BY <2>2 DEF Current
    <3>2. QED BY <1>1, <1>2, <1>3, <2>2, <3>1 DEF Entry, Val
  <2>3. CASE setting.shared /\ e.set = "remove"
    <3>1. entry = [e EXCEPT !.val = removeSet[p][e.key]]
      BY <2>3 DEF Current
    <3>2. QED BY <1>1, <1>2, <1>3, <2>3, <3>1 DEF Entry, Val
  <2>4. QED BY <1>3, <2>1, <2>2, <2>3
<1>5. Past(p, q) \subseteq EventType
  BY <1>1, <1>2 DEF Past
<1>6. /\ UNCHANGED <<setting, online, clock, commands, printing>>
      /\ IF Merge(q, entry) THEN Put(q, p, entry) ELSE PutNothing
      /\ seen' = [seen EXCEPT ![q] = @ \cup {o \in Past(p, q) : o.set = e.set /\ o.key = e.key}]
      /\ EndMerge(p, q) \/ conn' = [conn EXCEPT ![p][q].todo = @ \ {e}]
  BY DEF HandleConnection
<1> HIDE DEF entry
<1>7. Merge(q, entry) = Later(entry.val, Val(q, e.set, e.key))
  BY <1>3, <1>4 DEF Merge, Val
<1>8. QED BY <1>2, <1>4, <1>5, <1>6, <1>7 DEF Of

LEMMA ConnectionFacts ==
  ASSUME TypeOK
  PROVE  /\ Closed \in Connection /\ Visits \in Connection
         /\ \A p \in Peer : Adds(p) \subseteq Entry /\ Removes(p) \subseteq Entry
<1>1. Closed \in Connection
  BY DEF Closed, Connection
<1>2. 0 \in Time /\ KeyAssumption
  BY Numbers, KeyAssumption
<1>3. Visits \in Connection
  <2>1. \A k \in Key : /\ [set |-> "add", key |-> k, val |-> AbsentNode(k)] \in Entry
                       /\ [set |-> "remove", key |-> k, val |-> Absent] \in Entry
    BY <1>2, KeyAssumption DEF Entry, AbsentNode, Absent, Node, Stamp
  <2>2. Visits.todo \subseteq Entry
    BY <2>1 DEF Visits
  <2>3. QED BY <2>2 DEF Visits, Connection
<1>4. \A p \in Peer : Adds(p) \subseteq Entry /\ Removes(p) \subseteq Entry
  BY DEF Adds, Removes, Entry, TypeOK
<1>5. QED BY <1>1, <1>3, <1>4

\* The connections after a step, whoever took it.
LEMMA ConnType ==
  ASSUME TypeOK, NEW p \in Peer, NEW q \in Peer,
         \/ Dial(p, q) \/ EncodeRemoveSet(p, q) \/ Stop(p) \/ EndMerge(p, q)
         \/ \E e \in conn[p][q].todo : conn' = [conn EXCEPT ![p][q].todo = @ \ {e}]
  PROVE  conn' \in [Peer -> [Peer -> Connection]]
<1>1. /\ conn \in [Peer -> [Peer -> Connection]]
      /\ seen \in [Peer -> SUBSET EventType]
  BY DEF TypeOK
<1>2. /\ Closed \in Connection /\ Visits \in Connection
      /\ Adds(p) \subseteq Entry /\ Removes(p) \subseteq Entry
  BY ConnectionFacts
<1>3. CASE Dial(p, q)
  BY <1>1, <1>2, <1>3 DEF Dial, Connection
<1>4. CASE EncodeRemoveSet(p, q)
  BY <1>1, <1>2, <1>4 DEF EncodeRemoveSet, Connection
<1>5. CASE Stop(p)
  <2>1. conn' = [r \in Peer |-> [s \in Peer |->
           IF s = p \/ (r = p /\ conn[r][s].stage = "sending") THEN Closed ELSE conn[r][s]]]
    BY <1>5 DEF Stop
  <2>2. QED BY <1>1, <1>2, <2>1
<1>6. CASE EndMerge(p, q)
  <2>1. CASE setting.shared
    BY <1>1, <1>2, <1>6, <2>1 DEF EndMerge
  <2>2. CASE ~setting.shared
    BY <1>1, <1>2, <1>6, <2>2 DEF EndMerge
  <2>3. QED BY <2>1, <2>2
<1>7. CASE \E e \in conn[p][q].todo : conn' = [conn EXCEPT ![p][q].todo = @ \ {e}]
  <2>1. PICK e \in conn[p][q].todo : conn' = [conn EXCEPT ![p][q].todo = @ \ {e}]
    BY <1>7
  <2> DEFINE left == [conn[p][q] EXCEPT !.todo = @ \ {e}]
  <2>2. left \in Connection
    <3>1. conn[p][q] \in Connection
      BY <1>1
    <3>2. conn[p][q].todo \ {e} \in SUBSET Entry
      BY <3>1 DEF Connection
    <3>3. QED BY <3>1, <3>2 DEF Connection
  <2>3. conn' = [conn EXCEPT ![p] = [conn[p] EXCEPT ![q] = left]]
    BY <1>1, <2>1
  <2> HIDE DEF left
  <2>4. QED BY <1>1, <2>2, <2>3
<1>8. QED BY <1>3, <1>4, <1>5, <1>6, <1>7

\* The types of the sets are those of the setting, which no step changes.
LEMMA TypesFrom ==
  ASSUME FsTypes, setting' = setting,
         online' \in SUBSET Peer, clock' \in [Peer -> Time], commands' \in 0..setting.commands,
         addSet' \in [Peer -> [Key -> Node]], removeSet' \in [Peer -> [Key -> Stamp]],
         printing' \in [Peer -> SUBSET Key], conn' \in [Peer -> [Peer -> Connection]],
         store' \in [Peer -> [Peer \cup {0} -> SUBSET Entry]],
         seen' \in [Peer -> SUBSET EventType]
  PROVE  TypeOK'
<1>1. Time' = Time
  BY DEF Time
<1>2. Node' = Node /\ Stamp' = Stamp /\ EventType' = EventType
  BY <1>1 DEF Node, Stamp, EventType
<1>3. Entry' = Entry
  BY <1>2 DEF Entry
<1>4. Connection' = Connection
  BY <1>2, <1>3 DEF Connection
<1>5. setting' \in Setting
  BY DEF FsTypes, TypeOK
<1>6. QED BY <1>2, <1>3, <1>4, <1>5, <1>1 DEF TypeOK

LEMMA StoreTypes ==
  ASSUME FsTypes, NEW p \in Peer, NEW w \in Peer \cup {0}, Store(p, w) PROVE FsTypes'
<1>1. TypeOK /\ ClockBehind /\ NothingWaits
  BY DEF FsTypes
<1>2. PICK e \in store[p][w] : Assign(p, e)
  BY DEF Store
<1>3. e \in Entry
  BY <1>1 DEF TypeOK
<1>4. addSet' \in [Peer -> [Key -> Node]] /\ removeSet' \in [Peer -> [Key -> Stamp]]
  BY <1>1, <1>2, <1>3, AssignFacts
<1>5. /\ store' = [store EXCEPT ![p][w] = Nothing]
      /\ UNCHANGED <<setting, online, clock, commands, printing, conn, seen>>
  BY DEF Store
<1>6. store' \in [Peer -> [Peer \cup {0} -> SUBSET Entry]]
  BY <1>1, <1>5 DEF TypeOK, Nothing
<1>7. setting.racy
  BY <1>1, <1>2 DEF NothingWaits, Nothing
<1>8. TypeOK'
  BY <1>1, <1>4, <1>5, <1>6, TypesFrom DEF TypeOK
<1>9. ClockBehind' /\ NothingWaits'
  BY <1>1, <1>5, <1>7 DEF ClockBehind, NothingWaits
<1>10. QED BY <1>8, <1>9 DEF FsTypes

LEMMA UserTypes ==
  ASSUME FsTypes, NEW p \in Peer, NEW k \in Key, AddNode(p, k) \/ RemoveNode(p, k)
  PROVE  FsTypes'
<1>1. TypeOK /\ ClockBehind /\ NothingWaits
  BY DEF FsTypes
<1>2. PICK e \in Entry :
        /\ Command(p) /\ Event(e) \in EventType
        /\ \/ Put(p, p, e) /\ seen' = [seen EXCEPT ![p] = @ \cup {Event(e)}]
           \/ PutNothing /\ UNCHANGED seen
  <2>1. CASE AddNode(p, k)
    BY <2>1, UserFacts
  <2>2. CASE RemoveNode(p, k)
    BY <2>2, UserFacts
  <2>3. QED BY <2>1, <2>2
<1>3. /\ UNCHANGED <<setting, online, printing, conn>>
      /\ clock' \in [Peer -> Time] /\ commands' \in 0..setting.commands /\ ClockBehind'
  BY <1>2, CommandFacts
<1>4. seen' \in [Peer -> SUBSET EventType]
  <2>1. seen \in [Peer -> SUBSET EventType]
    BY <1>1 DEF TypeOK
  <2>2. seen' = seen \/ seen' = [seen EXCEPT ![p] = @ \cup {Event(e)}]
    BY <1>2
  <2>3. QED BY <1>2, <2>1, <2>2
<1>5. /\ addSet' \in [Peer -> [Key -> Node]] /\ removeSet' \in [Peer -> [Key -> Stamp]]
      /\ store' \in [Peer -> [Peer \cup {0} -> SUBSET Entry]]
      /\ ~setting.racy => store' = store
  <2>1. CASE Put(p, p, e)
    BY <1>1, <2>1, PutFacts
  <2>2. CASE PutNothing
    BY <1>1, <2>2 DEF PutNothing, TypeOK
  <2>3. QED BY <1>2, <2>1, <2>2
<1>6. TypeOK'
  BY <1>1, <1>3, <1>4, <1>5, TypesFrom DEF TypeOK
<1>7. NothingWaits'
  BY <1>1, <1>3, <1>5 DEF NothingWaits
<1>8. QED BY <1>3, <1>6, <1>7 DEF FsTypes

LEMMA ReattachTypes ==
  ASSUME FsTypes, NEW p \in Peer, NEW k \in Key, ReattachOrphan(p, k) PROVE FsTypes'
<1>1. TypeOK /\ ClockBehind /\ NothingWaits
  BY DEF FsTypes
<1>2. /\ UNCHANGED <<setting, online, clock, commands, conn, seen>>
      /\ printing' \in [Peer -> SUBSET Key] /\ Printer(p) \in Peer \cup {0}
      /\ PutNothing \/ \E e \in Entry : Put(p, Printer(p), e)
  BY ReattachFacts
<1>3. /\ addSet' \in [Peer -> [Key -> Node]] /\ removeSet' \in [Peer -> [Key -> Stamp]]
      /\ store' \in [Peer -> [Peer \cup {0} -> SUBSET Entry]]
      /\ ~setting.racy => store' = store
  <2>1. CASE \E e \in Entry : Put(p, Printer(p), e)
    BY <1>1, <1>2, <2>1, PutFacts
  <2>2. CASE PutNothing
    BY <1>1, <2>2 DEF PutNothing, TypeOK
  <2>3. QED BY <1>2, <2>1, <2>2
<1>4. TypeOK'
  BY <1>1, <1>2, <1>3, TypesFrom DEF TypeOK
<1>5. ClockBehind' /\ NothingWaits'
  BY <1>1, <1>2, <1>3 DEF ClockBehind, NothingWaits
<1>6. QED BY <1>4, <1>5 DEF FsTypes

LEMMA MergeTypes ==
  ASSUME FsTypes, NEW p \in Peer, NEW q \in Peer, NEW e \in conn[p][q].todo,
         HandleConnection(p, q, e)
  PROVE  FsTypes'
<1>1. TypeOK /\ ClockBehind /\ NothingWaits
  BY DEF FsTypes
<1>2. PICK entry \in Entry :
        /\ UNCHANGED <<setting, online, clock, commands, printing>>
        /\ IF Merge(q, entry) THEN Put(q, p, entry) ELSE PutNothing
        /\ Past(p, q) \subseteq EventType
        /\ seen' = [seen EXCEPT ![q] = @ \cup Of(Past(p, q), e.set, e.key)]
        /\ EndMerge(p, q) \/ conn' = [conn EXCEPT ![p][q].todo = @ \ {e}]
  BY MergeFacts
<1>3. conn' \in [Peer -> [Peer -> Connection]]
  BY <1>1, <1>2, ConnType
<1>4. seen' \in [Peer -> SUBSET EventType]
  BY <1>1, <1>2 DEF TypeOK, Of
<1>5. /\ addSet' \in [Peer -> [Key -> Node]] /\ removeSet' \in [Peer -> [Key -> Stamp]]
      /\ store' \in [Peer -> [Peer \cup {0} -> SUBSET Entry]]
      /\ ~setting.racy => store' = store
  <2>1. CASE Put(q, p, entry)
    BY <1>1, <2>1, PutFacts
  <2>2. CASE PutNothing
    BY <1>1, <2>2 DEF PutNothing, TypeOK
  <2>3. QED BY <1>2, <2>1, <2>2
<1>6. TypeOK'
  BY <1>1, <1>2, <1>3, <1>4, <1>5, TypesFrom DEF TypeOK
<1>7. ClockBehind' /\ NothingWaits'
  BY <1>1, <1>2, <1>5 DEF ClockBehind, NothingWaits
<1>8. QED BY <1>6, <1>7 DEF FsTypes

\* The steps that leave the two sets alone.
LEMMA OtherTypes ==
  ASSUME FsTypes, NEW p \in Peer, NEW q \in Peer,
         PrintTree(p) \/ Dial(p, q) \/ EncodeRemoveSet(p, q) \/ Stop(p)
  PROVE  FsTypes'
<1>1. TypeOK /\ ClockBehind /\ NothingWaits
  BY DEF FsTypes
<1>2. UNCHANGED <<setting, clock, addSet, removeSet, store, seen>>
  BY DEF PrintTree, Dial, EncodeRemoveSet, Stop
<1>3. conn' \in [Peer -> [Peer -> Connection]]
  <2>1. CASE PrintTree(p)
    BY <1>1, <2>1 DEF PrintTree, TypeOK
  <2>2. CASE Dial(p, q) \/ EncodeRemoveSet(p, q) \/ Stop(p)
    BY <1>1, <2>2, ConnType
  <2>3. QED BY <2>1, <2>2
<1>4. /\ commands' \in 0..setting.commands /\ commands <= commands'
      /\ printing' \in [Peer -> SUBSET Key] /\ online' \in SUBSET Peer
  <2>1. CASE PrintTree(p)
    <3>1. /\ commands < setting.commands /\ commands' = commands + 1
          /\ printing' = [printing EXCEPT ![p] = Key] /\ online' = online
      BY <2>1 DEF PrintTree, Ready
    <3>2. QED BY <1>1, <3>1, Numbers DEF TypeOK
  <2>2. CASE Dial(p, q) \/ EncodeRemoveSet(p, q) \/ Stop(p)
    <3>1. commands' = commands /\ printing' = printing /\ (online' = online \/ online' = online \ {p})
      BY <2>2 DEF Dial, EncodeRemoveSet, Stop
    <3>2. QED BY <1>1, <3>1, Numbers DEF TypeOK
  <2>3. QED BY <2>1, <2>2
<1>5. TypeOK'
  BY <1>1, <1>2, <1>3, <1>4, TypesFrom DEF TypeOK
<1>6. ClockBehind'
  <2>1. \A r \in Peer : clock[r] \in Nat /\ clock[r] <= commands + 1
    BY <1>1, Numbers DEF ClockBehind, TypeOK
  <2>2. commands \in Nat /\ commands' \in Nat
    BY <1>1, <1>4, Numbers
  <2>3. QED BY <1>2, <1>4, <2>1, <2>2 DEF ClockBehind
<1>7. NothingWaits'
  BY <1>1, <1>2 DEF NothingWaits
<1>8. QED BY <1>5, <1>6, <1>7 DEF FsTypes

LEMMA FsInit == Init => FsInv
<1> SUFFICES ASSUME Init PROVE FsInv
  OBVIOUS
<1>1. /\ setting \in Setting /\ setting.commands \in Nat
      /\ setting.racy \in BOOLEAN /\ setting.shared \in BOOLEAN
  BY SettingAssumption DEF Init
<1>2. 0 \in Time /\ 1 \in Time
  BY <1>1 DEF Time
<1>3. /\ addSet = [p \in Peer |-> [k \in Key |->
            IF k = Root THEN [ts |-> 1, id |-> p, parent |-> Root] ELSE AbsentNode(k)]]
      /\ removeSet = [p \in Peer |-> [k \in Key |-> Absent]]
      /\ conn = [p \in Peer |-> [q \in Peer |->
            IF setting.shared /\ p = 2 /\ q = 1 THEN Visits ELSE Closed]]
      /\ seen = [p \in Peer |-> {[set |-> "add", key |-> Root, ts |-> 1, id |-> p]}]
      /\ clock = [p \in Peer |-> 1] /\ commands = 0
      /\ store = [p \in Peer |-> [w \in Peer \cup {0} |-> Nothing]]
      /\ online = Peer /\ printing = [p \in Peer |-> {}]
  BY DEF Init
<1>4. TypeOK
  <2>1. addSet \in [Peer -> [Key -> Node]] /\ removeSet \in [Peer -> [Key -> Stamp]]
    <3>1. \A p \in Peer, k \in Key : [ts |-> 1, id |-> p, parent |-> Root] \in Node
      BY <1>2, KeyAssumption DEF Node
    <3>2. \A k \in Key : AbsentNode(k) \in Node
      BY <1>2, KeyAssumption DEF AbsentNode, Node
    <3>3. Absent \in Stamp
      BY <1>2 DEF Absent, Stamp
    <3>4. QED BY <1>3, <3>1, <3>2, <3>3
  <2>2. conn \in [Peer -> [Peer -> Connection]]
    <3>1. Closed \in Connection
      BY DEF Closed, Connection
    <3>2. Visits \in Connection
      <4>1. \A k \in Key : /\ [set |-> "add", key |-> k, val |-> AbsentNode(k)] \in Entry
                           /\ [set |-> "remove", key |-> k, val |-> Absent] \in Entry
        BY <1>2, KeyAssumption DEF Entry, AbsentNode, Absent, Node, Stamp
      <4>2. Visits.todo \subseteq Entry
        BY <4>1 DEF Visits
      <4>3. QED BY <4>2 DEF Visits, Connection
    <3>3. QED BY <1>3, <3>1, <3>2
  <2>3. store \in [Peer -> [Peer \cup {0} -> SUBSET Entry]]
    BY <1>3 DEF Nothing
  <2>4. seen \in [Peer -> SUBSET EventType]
    <3>1. \A p \in Peer : [set |-> "add", key |-> Root, ts |-> 1, id |-> p] \in EventType
      BY <1>2, KeyAssumption DEF EventType
    <3>2. QED BY <1>3, <3>1
  <2>5. QED BY <1>1, <1>2, <1>3, <2>1, <2>2, <2>3, <2>4 DEF TypeOK
<1>5. ClockBehind /\ NothingWaits
  BY <1>3 DEF ClockBehind, NothingWaits
<1>6. EntryIsLatest
  <2> SUFFICES ASSUME NEW p \in Peer, NEW k \in Key
               PROVE  /\ IsLatest(addSet[p][k], Of(seen[p], "add", k))
                      /\ IsLatest(removeSet[p][k], Of(seen[p], "remove", k))
    BY DEF EntryIsLatest
  <2>1. IsLatest(removeSet[p][k], Of(seen[p], "remove", k))
    BY <1>3 DEF IsLatest, Of, Absent
  <2>2. IsLatest(addSet[p][k], Of(seen[p], "add", k))
    <3>1. CASE k = Root
      <4>1. addSet[p][k] = [ts |-> 1, id |-> p, parent |-> Root] /\ p \in Nat
        BY <1>3, <3>1, PeerAssumption
      <4>2. Of(seen[p], "add", k) = {[set |-> "add", key |-> Root, ts |-> 1, id |-> p]}
        BY <1>3, <3>1 DEF Of
      <4>3. addSet[p][k].ts = 1 /\ addSet[p][k].id = p
        BY <4>1
      <4>4. \A o \in Of(seen[p], "add", k) : o.ts = 1 /\ o.id = p
        BY <4>2
      <4>5. \E o \in Of(seen[p], "add", k) : o.ts = 1 /\ o.id = p
        <5> DEFINE first == [set |-> "add", key |-> Root, ts |-> 1, id |-> p]
        <5>1. first \in Of(seen[p], "add", k) /\ first.ts = 1 /\ first.id = p
          BY <4>2
        <5> HIDE DEF first
        <5>2. QED BY <5>1
      <4>6. QED BY <4>1, <4>3, <4>4, <4>5 DEF IsLatest, Later
    <3>2. CASE k # Root
      BY <1>3, <3>2 DEF IsLatest, Of, AbsentNode
    <3>3. QED BY <3>1, <3>2
  <2>3. QED BY <2>1, <2>2
<1>7. SentIsLatest
  BY <1>3 DEF SentIsLatest, Closed
<1>8. StampsBehind
  <2>1. \A p \in Peer : clock[p] = 1
    BY <1>3
  <2>2. \A p \in Peer, s \in {"add", "remove"}, k \in Key : Val(p, s, k).ts <= 1
    BY <1>3 DEF AbsentNode, Absent, Val
  <2>3. \A p, q \in Peer : \A e \in conn[p][q].todo : e.val.ts = 0
    BY <1>3 DEF Visits, Closed, AbsentNode, Absent
  <2>4. QED BY <2>1, <2>2, <2>3 DEF StampsBehind
<1>9. QED BY <1>4, <1>5, <1>6, <1>7, <1>8 DEF FsInv

-----------------------------------------------------------------------------
(* The latest entries, when stores do not race.                            *)

-----------------------------------------------------------------------------
(* The latest entries, when stores do not race.                            *)

\* An entry is merged, with its past T: the latest entry stays, or becomes, it.
LEMMA LatestStep ==
  ASSUME FsInv, TypeOK', ~setting.racy, setting' = setting,
         NEW p \in Peer, NEW e \in Entry, NEW T \in SUBSET EventType,
         IsLatest(e.val, Of(T, e.set, e.key)),
         seen' = [seen EXCEPT ![p] = @ \cup Of(T, e.set, e.key)],
         IF Later(e.val, Val(p, e.set, e.key)) THEN Assign(p, e) ELSE UNCHANGED <<addSet, removeSet>>
  PROVE  /\ EntryIsLatest'
         /\ \A q \in Peer, s \in {"add", "remove"}, k \in Key :
              Val(q, s, k)' \in {Val(q, s, k), e.val}
<1>1. TypeOK /\ EntryIsLatest /\ seen \in [Peer -> SUBSET EventType]
  BY DEF FsInv, TypeOK
<1>2. /\ e.set \in {"add", "remove"} /\ e.key \in Key /\ e.val \in Node \cup Stamp
      /\ e.val.ts \in Nat /\ e.val.id \in Nat
  BY <1>1, StampNumbers
<1>3. \A q \in Peer, s \in {"add", "remove"}, k \in Key :
        IsLatest(Val(q, s, k), Of(seen[q], s, k))
  BY <1>1, LatestVal
<1> DEFINE old == Val(p, e.set, e.key)
<1>4. \A q \in Peer, s \in {"add", "remove"}, k \in Key :
        Val(q, s, k)' = IF /\ q = p /\ s = e.set /\ k = e.key
                           /\ Later(e.val, old)
                        THEN e.val ELSE Val(q, s, k)
  <2>1. CASE Later(e.val, old)
    BY <1>1, <2>1, AssignFacts
  <2>2. CASE ~Later(e.val, old)
    BY <2>2 DEF Val
  <2>3. QED BY <2>1, <2>2
<1>5. ASSUME NEW q \in Peer, NEW s \in {"add", "remove"}, NEW k \in Key
      PROVE  IsLatest(Val(q, s, k)', Of(seen'[q], s, k))
  <2>1. CASE q = p /\ s = e.set /\ k = e.key
    <3>1. Of(seen'[q], s, k) = Of(seen[p], s, k) \cup Of(T, s, k)
      <4>1. seen'[q] = seen[p] \cup Of(T, s, k)
        BY <1>1, <2>1
      <4>2. QED BY <4>1, OfUnion
    <3>2. \A o \in Of(seen[p], s, k) \cup Of(T, s, k) : o.ts \in Nat /\ o.id \in Nat
      BY <1>1, StampNumbers DEF Of
    <3>3. old \in Node \cup Stamp /\ old.ts \in Nat /\ old.id \in Nat /\ IsLatest(old, Of(seen[p], s, k))
      BY <1>1, <1>2, <1>3, <2>1, ValFacts
    <3>4. Val(q, s, k)' = IF Later(e.val, old) THEN e.val ELSE old
      BY <1>4, <2>1
    <3> HIDE DEF old
    <3> DEFINE before == Of(seen[p], s, k)
               new == Of(T, s, k)
    <3>5. IsLatest(old, before) /\ IsLatest(e.val, new)
      BY <2>1, <3>3
    <3> HIDE DEF before, new
    <3>6. \A o \in before \cup new : o.ts \in Nat /\ o.id \in Nat
      BY <3>2 DEF before, new
    <3>7. /\ Later(e.val, old) => IsLatest(e.val, before \cup new)
          /\ ~Later(e.val, old) => IsLatest(old, before \cup new)
      BY <1>2, <3>3, <3>5, <3>6, LatestOfBoth
    <3>8. Of(seen'[q], s, k) = before \cup new
      BY <3>1 DEF before, new
    <3>9. CASE Later(e.val, old)
      BY <3>4, <3>7, <3>8, <3>9
    <3>10. CASE ~Later(e.val, old)
      BY <3>4, <3>7, <3>8, <3>10
    <3>11. QED BY <3>9, <3>10
  <2>2. CASE ~(q = p /\ s = e.set /\ k = e.key)
    <3>1. Of(seen'[q], s, k) = Of(seen[q], s, k)
      <4>1. CASE q = p
        <5>1. seen'[q] = seen[q] \cup Of(T, e.set, e.key)
          BY <1>1, <4>1
        <5>2. s # e.set \/ k # e.key
          BY <2>2, <4>1
        <5>3. QED BY <5>1, <5>2, OfOther
      <4>2. CASE q # p
        BY <1>1, <4>2
      <4>3. QED BY <4>1, <4>2
    <3>2. Val(q, s, k)' = Val(q, s, k)
      BY <1>4, <2>2
    <3>3. QED BY <1>3, <3>1, <3>2
  <2>3. QED BY <2>1, <2>2
<1>6. EntryIsLatest'
  <2>1. \A q \in Peer, s \in {"add", "remove"}, k \in Key :
          IsLatest(Val(q, s, k), Of(seen[q], s, k))'
    BY <1>5 DEF IsLatest, Of, Later
  <2>2. QED BY <2>1 DEF EntryIsLatest, Val
<1>7. QED BY <1>4, <1>6

\* A step that keeps the stamps of the sets, and what was seen.
LEMMA SameLatest ==
  ASSUME EntryIsLatest, ~setting.racy, seen' = seen, setting' = setting,
         \A q \in Peer, s \in {"add", "remove"}, k \in Key :
           Val(q, s, k)'.ts = Val(q, s, k).ts /\ Val(q, s, k)'.id = Val(q, s, k).id
  PROVE  EntryIsLatest'
<1>1. ASSUME NEW q \in Peer, NEW s \in {"add", "remove"}, NEW k \in Key
      PROVE  IsLatest(Val(q, s, k)', Of(seen[q], s, k))
  <2>1. IsLatest(Val(q, s, k), Of(seen[q], s, k))
    BY LatestVal
  <2>2. QED BY <2>1, SameStamp
<1>2. \A q \in Peer, s \in {"add", "remove"}, k \in Key :
        IsLatest(Val(q, s, k), Of(seen[q], s, k))'
  BY <1>1 DEF IsLatest, Of, Later
<1>3. QED BY <1>2 DEF EntryIsLatest, Val

LEMMA UserOrdered ==
  ASSUME FsInv, FsTypes', ~setting.racy, NEW p \in Peer, NEW k \in Key,
         AddNode(p, k) \/ RemoveNode(p, k)
  PROVE  EntryIsLatest' /\ SentIsLatest' /\ StampsBehind'
<1>1. FsTypes /\ TypeOK /\ TypeOK' /\ EntryIsLatest /\ SentIsLatest /\ StampsBehind
  BY DEF FsInv, FsTypes
<1>2. PICK s \in {"add", "remove"}, e \in Entry :
        /\ Command(p)
        /\ e.set = s /\ e.key = k /\ e.val.ts = clock[p] + 1 /\ e.val.id = p
        /\ Event(e) \in EventType
        /\ \/ /\ Put(p, p, e) /\ seen' = [seen EXCEPT ![p] = @ \cup {Event(e)}]
              /\ e.val.ts > Val(p, s, k).ts
           \/ PutNothing /\ UNCHANGED seen
  <2>1. CASE AddNode(p, k)
    BY <1>1, <2>1, UserFacts
  <2>2. CASE RemoveNode(p, k)
    BY <1>1, <2>2, UserFacts
  <2>3. QED BY <2>1, <2>2
<1>3. /\ setting' = setting /\ conn' = conn
      /\ clock'[p] = clock[p] + 1 /\ \A q \in Peer \ {p} : clock'[q] = clock[q]
  BY <1>1, <1>2, CommandFacts
<1>4. \A q \in Peer : clock[q] \in Nat /\ clock'[q] \in Nat /\ clock[q] <= clock'[q]
  <2>1. \A q \in Peer : clock[q] \in Nat
    BY <1>1, Numbers DEF TypeOK
  <2>2. QED BY <1>3, <2>1
<1>5. /\ EntryIsLatest'
      /\ \A q \in Peer, t \in {"add", "remove"}, j \in Key : Val(q, t, j)' \in {Val(q, t, j), e.val}
  <2>1. CASE Put(p, p, e)
    <3>1. Assign(p, e)
      BY <1>1, <2>1, PutFacts
    <3>2. Of({Event(e)}, e.set, e.key) = {Event(e)}
      BY DEF Of, Event
    <3>3. e.val.ts \in Nat /\ e.val.id \in Nat
      BY <1>1, StampNumbers
    <3>4. IsLatest(e.val, {Event(e)})
      <4>1. Event(e).ts = e.val.ts /\ Event(e).id = e.val.id
        BY DEF Event
      <4>2. QED BY <3>3, <4>1 DEF IsLatest, Later
    <3>5. CASE PutNothing /\ UNCHANGED seen
      <4>1. \A q \in Peer, t \in {"add", "remove"}, j \in Key : Val(q, t, j)' = Val(q, t, j)
        BY <3>5 DEF PutNothing, Val
      <4>2. EntryIsLatest'
        BY <1>1, <1>3, <3>5, <4>1, SameLatest
      <4>3. QED BY <4>1, <4>2
    <3>6. CASE seen' = [seen EXCEPT ![p] = @ \cup {Event(e)}] /\ e.val.ts > Val(p, s, k).ts
      <4>1. Later(e.val, Val(p, e.set, e.key))
        BY <1>2, <3>6 DEF Later
      <4> DEFINE T == {Event(e)}
      <4>2. T \in SUBSET EventType /\ IsLatest(e.val, Of(T, e.set, e.key))
        BY <1>2, <3>2, <3>4
      <4>3. seen' = [seen EXCEPT ![p] = @ \cup Of(T, e.set, e.key)]
        BY <3>2, <3>6
      <4>4. IF Later(e.val, Val(p, e.set, e.key)) THEN Assign(p, e) ELSE UNCHANGED <<addSet, removeSet>>
        BY <3>1, <4>1
      <4> HIDE DEF T
      <4>5. QED BY <1>1, <1>3, <4>2, <4>3, <4>4, LatestStep
    <3>7. QED BY <1>2, <3>5, <3>6
  <2>2. CASE PutNothing /\ UNCHANGED seen
    <3>1. \A q \in Peer, t \in {"add", "remove"}, j \in Key : Val(q, t, j)' = Val(q, t, j)
      BY <2>2 DEF PutNothing, Val
    <3>2. EntryIsLatest'
      BY <1>1, <1>3, <2>2, <3>1, SameLatest
    <3>3. QED BY <3>1, <3>2
  <2>3. QED BY <1>2, <2>1, <2>2
<1>6. SentIsLatest'
  BY <1>1, <1>3 DEF SentIsLatest, IsLatest, Of, Later
<1>7. StampsBehind'
  <2>1. \A q \in Peer, t \in {"add", "remove"}, j \in Key :
          Val(q, t, j).ts \in Nat /\ (Val(q, t, j).id \in Peer => Val(q, t, j).ts <= clock[Val(q, t, j).id])
    BY <1>1, ValFacts DEF StampsBehind
  <2>2. e.val.id = p /\ e.val.ts <= clock'[p]
    BY <1>2, <1>3, <1>4
  <2>3. ASSUME NEW q \in Peer, NEW t \in {"add", "remove"}, NEW j \in Key, Val(q, t, j)'.id \in Peer
        PROVE  Val(q, t, j)'.ts <= clock'[Val(q, t, j)'.id]
    <3>1. CASE Val(q, t, j)' = e.val
      BY <2>2, <3>1
    <3>2. CASE Val(q, t, j)' = Val(q, t, j)
      BY <1>4, <2>1, <2>3, <3>2
    <3>3. QED BY <1>5, <3>1, <3>2
  <2>4. ASSUME NEW q \in Peer, NEW r \in Peer, NEW f \in conn[q][r].todo, f.val.id \in Peer
        PROVE  f.val.ts <= clock'[f.val.id]
    <3>1. f.val.ts <= clock[f.val.id]
      BY <1>1, <2>4 DEF StampsBehind
    <3>2. f \in Entry
      BY <1>1 DEF TypeOK, Connection
    <3>3. f.val.ts \in Nat
      BY <1>1, <3>2, StampNumbers
    <3>4. QED BY <1>4, <2>4, <3>1, <3>3
  <2>5. QED BY <1>3, <2>3, <2>4 DEF StampsBehind
<1>8. QED BY <1>5, <1>6, <1>7

LEMMA ReattachOrdered ==
  ASSUME FsInv, ~setting.racy, NEW p \in Peer, NEW k \in Key, ReattachOrphan(p, k)
  PROVE  EntryIsLatest' /\ SentIsLatest' /\ StampsBehind'
<1>1. FsTypes /\ TypeOK /\ EntryIsLatest /\ SentIsLatest /\ StampsBehind
  BY DEF FsInv, FsTypes
<1>2. /\ setting' = setting /\ clock' = clock /\ conn' = conn /\ seen' = seen
      /\ Printer(p) \in Peer \cup {0}
      /\ \/ PutNothing
         \/ \E e \in Entry : /\ Put(p, Printer(p), e)
                             /\ e.set = "add" /\ e.key = k
                             /\ e.val.ts = addSet[p][k].ts /\ e.val.id = addSet[p][k].id
  BY <1>1, ReattachFacts
<1>3. \A q \in Peer, s \in {"add", "remove"}, j \in Key :
        Val(q, s, j)'.ts = Val(q, s, j).ts /\ Val(q, s, j)'.id = Val(q, s, j).id
  <2>1. CASE PutNothing
    BY <2>1 DEF PutNothing, Val
  <2>2. CASE ~PutNothing
    <3>1. PICK e \in Entry : /\ Put(p, Printer(p), e)
                             /\ e.set = "add" /\ e.key = k
                             /\ e.val.ts = addSet[p][k].ts /\ e.val.id = addSet[p][k].id
      BY <1>2, <2>2
    <3>2. Assign(p, e)
      BY <1>1, <1>2, <3>1, PutFacts
    <3>3. \A q \in Peer, s \in {"add", "remove"}, j \in Key :
            Val(q, s, j)' = IF q = p /\ s = e.set /\ j = e.key THEN e.val ELSE Val(q, s, j)
      BY <1>1, <3>2, AssignFacts
    <3>4. Val(p, "add", k) = addSet[p][k]
      BY DEF Val
    <3>5. QED BY <3>1, <3>3, <3>4
  <2>3. QED BY <2>1, <2>2
<1>4. EntryIsLatest'
  BY <1>1, <1>2, <1>3, SameLatest
<1>5. SentIsLatest'
  BY <1>1, <1>2 DEF SentIsLatest, IsLatest, Of, Later
<1>6. StampsBehind'
  BY <1>1, <1>2, <1>3 DEF StampsBehind
<1>7. QED BY <1>4, <1>5, <1>6

\* An entry that is merged is the latest of its past, unless stores race.
LEMMA EntryOfPast ==
  ASSUME FsInv, ~setting.racy, NEW p \in Peer, NEW q \in Peer, NEW e \in conn[p][q].todo
  PROVE  IsLatest(IF setting.shared THEN Val(p, e.set, e.key) ELSE e.val,
                  Of(Past(p, q), e.set, e.key))
<1>1. TypeOK /\ EntryIsLatest /\ SentIsLatest
  BY DEF FsInv
<1>2. e.set \in {"add", "remove"} /\ e.key \in Key
  <2>1. e \in Entry
    BY <1>1 DEF TypeOK, Connection
  <2>2. QED BY <1>1, <2>1, StampNumbers
<1>3. CASE setting.shared
  <2>1. Past(p, q) = seen[p]
    BY <1>3 DEF Past
  <2>2. IsLatest(Val(p, e.set, e.key), Of(seen[p], e.set, e.key))
    BY <1>1, <1>2, LatestVal
  <2>3. QED BY <1>3, <2>1, <2>2
<1>4. CASE ~setting.shared
  BY <1>1, <1>4 DEF Past, SentIsLatest
<1>5. QED BY <1>3, <1>4

LEMMA MergeOrdered ==
  ASSUME FsInv, FsTypes', ~setting.racy, NEW p \in Peer, NEW q \in Peer,
         NEW e \in conn[p][q].todo, HandleConnection(p, q, e)
  PROVE  EntryIsLatest' /\ SentIsLatest' /\ StampsBehind'
<1>1. FsTypes /\ TypeOK /\ TypeOK' /\ EntryIsLatest /\ SentIsLatest /\ StampsBehind
  BY DEF FsInv, FsTypes
<1>2. PICK entry \in Entry :
        /\ entry.set = e.set /\ entry.key = e.key /\ e \in Entry
        /\ entry.val = IF setting.shared THEN Val(p, e.set, e.key) ELSE e.val
        /\ setting' = setting /\ clock' = clock
        /\ Merge(q, entry) = Later(entry.val, Val(q, e.set, e.key))
        /\ IF Merge(q, entry) THEN Put(q, p, entry) ELSE PutNothing
        /\ Past(p, q) \subseteq EventType
        /\ seen' = [seen EXCEPT ![q] = @ \cup Of(Past(p, q), e.set, e.key)]
        /\ EndMerge(p, q) \/ conn' = [conn EXCEPT ![p][q].todo = @ \ {e}]
  BY <1>1, MergeFacts
<1>3. e.set \in {"add", "remove"} /\ e.key \in Key
  BY <1>1, <1>2, StampNumbers
<1>4. IF Later(entry.val, Val(q, entry.set, entry.key))
        THEN Assign(q, entry) ELSE UNCHANGED <<addSet, removeSet>>
  <2>1. CASE Merge(q, entry)
    <3>1. Put(q, p, entry) /\ Later(entry.val, Val(q, entry.set, entry.key))
      BY <1>2, <2>1
    <3>2. Assign(q, entry)
      BY <1>1, <3>1, PutFacts
    <3>3. QED BY <3>1, <3>2
  <2>2. CASE ~Merge(q, entry)
    <3>1. PutNothing /\ ~Later(entry.val, Val(q, entry.set, entry.key))
      BY <1>2, <2>2
    <3>2. QED BY <3>1 DEF PutNothing
  <2>3. QED BY <2>1, <2>2
<1>5. IsLatest(entry.val, Of(Past(p, q), entry.set, entry.key))
  BY <1>1, <1>2, EntryOfPast
<1>6. /\ EntryIsLatest'
      /\ \A r \in Peer, s \in {"add", "remove"}, k \in Key : Val(r, s, k)' \in {Val(r, s, k), entry.val}
  <2>1. seen' = [seen EXCEPT ![q] = @ \cup Of(Past(p, q), entry.set, entry.key)]
    BY <1>2
  <2> DEFINE T == Past(p, q)
  <2>2. T \in SUBSET EventType
    BY <1>2
  <2> HIDE DEF T
  <2>3. QED BY <1>1, <1>2, <1>4, <1>5, <2>1, <2>2, LatestStep DEF T
<1>7. /\ \A r, s \in Peer : conn'[r][s].todo \subseteq conn[r][s].todo \cup Visits.todo
      /\ ~setting.shared => \A r, s \in Peer :
           \/ conn'[r][s] = Closed
           \/ /\ conn'[r][s].stage = conn[r][s].stage /\ conn'[r][s].past = conn[r][s].past
              /\ conn'[r][s].todo \subseteq conn[r][s].todo
  <2>1. conn \in [Peer -> [Peer -> Connection]]
    BY <1>1 DEF TypeOK
  <2>2. CASE conn' = [conn EXCEPT ![p][q].todo = @ \ {e}]
    BY <2>1, <2>2 DEF Connection
  <2>3. CASE EndMerge(p, q)
    <3>1. Closed.todo = {}
      BY DEF Closed
    <3>2. CASE setting.shared
      <4>1. conn' = [conn EXCEPT ![p][q] = Closed, ![q][p] = Visits]
        BY <2>3, <3>2 DEF EndMerge
      <4>2. \A r, s \in Peer : conn'[r][s] \in {conn[r][s], Closed, Visits}
        BY <2>1, <4>1
      <4>3. QED BY <3>1, <3>2, <4>2
    <3>3. CASE ~setting.shared
      <4>1. conn' = [conn EXCEPT ![p][q] = Closed]
        BY <2>3, <3>3 DEF EndMerge
      <4>2. \A r, s \in Peer : conn'[r][s] \in {conn[r][s], Closed}
        BY <2>1, <4>1
      <4>3. QED BY <3>1, <3>3, <4>2
    <3>4. QED BY <3>2, <3>3
  <2>4. QED BY <1>2, <2>2, <2>3
<1>8. SentIsLatest'
  <2> SUFFICES ASSUME ~setting.shared, NEW r \in Peer, NEW s \in Peer
               PROVE  /\ \A f \in conn'[r][s].todo :
                           IsLatest(f.val, Of(conn'[r][s].past, f.set, f.key))
                      /\ conn'[r][s].stage = "sending" =>
                           \A x \in conn'[r][s].todo \cup conn'[r][s].past : x.set = "add"
    BY <1>2 DEF SentIsLatest, IsLatest, Of, Later
  <2>1. CASE conn'[r][s] = Closed
    BY <2>1 DEF Closed
  <2>2. CASE conn'[r][s] # Closed
    <3>1. /\ conn'[r][s].stage = conn[r][s].stage /\ conn'[r][s].past = conn[r][s].past
          /\ conn'[r][s].todo \subseteq conn[r][s].todo
      BY <1>7, <2>2
    <3>2. QED BY <1>1, <3>1 DEF SentIsLatest
  <2>3. QED BY <2>1, <2>2
<1>9. StampsBehind'
  <2>1. entry.val.id \in Peer => entry.val.ts <= clock[entry.val.id]
    BY <1>1, <1>2, <1>3 DEF StampsBehind
  <2>2. ASSUME NEW r \in Peer, NEW s \in {"add", "remove"}, NEW k \in Key, Val(r, s, k)'.id \in Peer
        PROVE  Val(r, s, k)'.ts <= clock'[Val(r, s, k)'.id]
    <3>1. CASE Val(r, s, k)' = entry.val
      BY <1>2, <2>1, <2>2, <3>1
    <3>2. CASE Val(r, s, k)' = Val(r, s, k)
      BY <1>1, <1>2, <2>2, <3>2 DEF StampsBehind
    <3>3. QED BY <1>6, <3>1, <3>2
  <2>3. \A f \in Visits.todo : f.val.id = 0
    BY DEF Visits, AbsentNode, Absent
  <2>4. ASSUME NEW r \in Peer, NEW s \in Peer, NEW f \in conn'[r][s].todo, f.val.id \in Peer
        PROVE  f.val.ts <= clock'[f.val.id]
    <3>1. f \in conn[r][s].todo
      BY <1>1, <1>7, <2>3, <2>4, Numbers
    <3>2. QED BY <1>1, <1>2, <2>4, <3>1 DEF StampsBehind
  <2>5. QED BY <1>2, <2>2, <2>4 DEF StampsBehind
<1>10. QED BY <1>6, <1>8, <1>9

\* What is sent of the two sets.
LEMMA SentFacts ==
  ASSUME FsInv, ~setting.racy, NEW p \in Peer, NEW e \in Adds(p) \cup Removes(p)
  PROVE  /\ e.set \in {"add", "remove"} /\ e.key \in Key /\ e.val = Val(p, e.set, e.key)
         /\ e.set = IF e \in Adds(p) THEN "add" ELSE "remove"
         /\ IsLatest(e.val, Of(seen[p], e.set, e.key))
         /\ e.val.id \in Peer => e.val.ts <= clock[e.val.id]
<1>1. EntryIsLatest /\ StampsBehind
  BY DEF FsInv
<1>2. /\ e.set \in {"add", "remove"} /\ e.key \in Key /\ e.val = Val(p, e.set, e.key)
      /\ e.set = IF e \in Adds(p) THEN "add" ELSE "remove"
  BY DEF Adds, Removes, Val
<1>3. IsLatest(Val(p, e.set, e.key), Of(seen[p], e.set, e.key))
  BY <1>1, <1>2, LatestVal
<1>4. Val(p, e.set, e.key).id \in Peer =>
        Val(p, e.set, e.key).ts <= clock[Val(p, e.set, e.key).id]
  BY <1>1, <1>2 DEF StampsBehind
<1>5. QED BY <1>2, <1>3, <1>4

\* The steps that leave the two sets, and what was seen, alone.
LEMMA OtherOrdered ==
  ASSUME FsInv, ~setting.racy, NEW p \in Peer, NEW q \in Peer,
         PrintTree(p) \/ Dial(p, q) \/ EncodeRemoveSet(p, q) \/ Stop(p)
  PROVE  EntryIsLatest' /\ SentIsLatest' /\ StampsBehind'
<1>1. TypeOK /\ EntryIsLatest /\ SentIsLatest /\ StampsBehind
  BY DEF FsInv
<1>2. /\ UNCHANGED <<setting, clock, addSet, removeSet, seen>>
      /\ conn \in [Peer -> [Peer -> Connection]]
  BY <1>1 DEF PrintTree, Dial, EncodeRemoveSet, Stop, TypeOK
<1>3. EntryIsLatest'
  BY <1>1, <1>2 DEF EntryIsLatest, IsLatest, Of, Later
<1>4. ASSUME NEW r \in Peer, NEW s \in Peer
      PROVE  \/ conn'[r][s] = Closed
             \/ conn'[r][s] = conn[r][s]
             \/ /\ Dial(p, q) /\ r = p /\ s = q
                /\ conn'[r][s] = [stage |-> "sending", todo |-> Adds(p),
                                  past |-> {o \in seen[p] : o.set = "add"}]
             \/ /\ EncodeRemoveSet(p, q) /\ r = p /\ s = q
                /\ conn[p][q].stage = "sending"
                /\ conn'[r][s] = [stage |-> "sent", todo |-> conn[p][q].todo \cup Removes(p),
                                  past |-> conn[p][q].past \cup {o \in seen[p] : o.set = "remove"}]
  <2>1. CASE PrintTree(p)
    BY <2>1 DEF PrintTree
  <2>2. CASE Dial(p, q)
    BY <1>2, <2>2 DEF Dial
  <2>3. CASE EncodeRemoveSet(p, q)
    BY <1>2, <2>3 DEF EncodeRemoveSet
  <2>4. CASE Stop(p)
    <3>1. conn' = [a \in Peer |-> [b \in Peer |->
             IF b = p \/ (a = p /\ conn[a][b].stage = "sending") THEN Closed ELSE conn[a][b]]]
      BY <2>4 DEF Stop
    <3>2. QED BY <3>1
  <2>5. QED BY <2>1, <2>2, <2>3, <2>4
<1>5. SentIsLatest'
  <2> SUFFICES ASSUME ~setting.shared, NEW r \in Peer, NEW s \in Peer
               PROVE  /\ \A e \in conn'[r][s].todo :
                           IsLatest(e.val, Of(conn'[r][s].past, e.set, e.key))
                      /\ conn'[r][s].stage = "sending" =>
                           \A x \in conn'[r][s].todo \cup conn'[r][s].past : x.set = "add"
    BY <1>2 DEF SentIsLatest, IsLatest, Of, Later
  <2>1. CASE conn'[r][s] = Closed
    BY <2>1 DEF Closed
  <2>2. CASE conn'[r][s] = conn[r][s]
    BY <1>1, <2>2 DEF SentIsLatest
  <2>3. CASE conn'[r][s] = [stage |-> "sending", todo |-> Adds(p),
                            past |-> {o \in seen[p] : o.set = "add"}]
    <3>1. /\ conn'[r][s].todo = Adds(p)
          /\ conn'[r][s].past = {o \in seen[p] : o.set = "add"}
      BY <2>3
    <3>2. \A e \in Adds(p) : e.set = "add" /\ IsLatest(e.val, Of(seen[p], e.set, e.key))
      BY SentFacts
    <3>3. \A k \in Key : Of(conn'[r][s].past, "add", k) = Of(seen[p], "add", k)
      BY <3>1 DEF Of
    <3>4. \A e \in Adds(p) : e.key \in Key
      BY SentFacts
    <3>5. \A e \in conn'[r][s].todo : IsLatest(e.val, Of(conn'[r][s].past, e.set, e.key))
      BY <3>1, <3>2, <3>3, <3>4
    <3>6. \A x \in conn'[r][s].todo \cup conn'[r][s].past : x.set = "add"
      BY <3>1, <3>2
    <3>7. QED BY <3>5, <3>6
  <2>4. CASE /\ r = p /\ s = q /\ conn[p][q].stage = "sending"
             /\ conn'[r][s] = [stage |-> "sent", todo |-> conn[p][q].todo \cup Removes(p),
                               past |-> conn[p][q].past \cup {o \in seen[p] : o.set = "remove"}]
    <3>1. /\ conn'[r][s].stage = "sent"
          /\ conn'[r][s].todo = conn[p][q].todo \cup Removes(p)
          /\ conn'[r][s].past = conn[p][q].past \cup {o \in seen[p] : o.set = "remove"}
      BY <2>4
    <3>2. \A x \in conn[p][q].todo \cup conn[p][q].past : x.set = "add"
      BY <1>1, <2>4 DEF SentIsLatest
    <3>3. \A k \in Key : Of(conn'[r][s].past, "add", k) = Of(conn[p][q].past, "add", k)
      BY <3>1 DEF Of
    <3>4. \A k \in Key : Of(conn'[r][s].past, "remove", k) = Of(seen[p], "remove", k)
      BY <3>1, <3>2 DEF Of
    <3>5. ASSUME NEW e \in conn[p][q].todo
          PROVE  IsLatest(e.val, Of(conn'[r][s].past, e.set, e.key))
      <4>1. IsLatest(e.val, Of(conn[p][q].past, e.set, e.key))
        BY <1>1 DEF SentIsLatest
      <4>2. e \in Entry
        BY <1>1 DEF TypeOK, Connection
      <4>3. e.set = "add" /\ e.key \in Key
        BY <1>1, <3>2, <4>2, StampNumbers
      <4>4. QED BY <3>3, <4>1, <4>3
    <3>6. ASSUME NEW e \in Removes(p)
          PROVE  IsLatest(e.val, Of(conn'[r][s].past, e.set, e.key))
      <4>1. e.set = "remove"
        BY DEF Removes
      <4>2. e.key \in Key /\ IsLatest(e.val, Of(seen[p], e.set, e.key))
        BY SentFacts
      <4>3. QED BY <3>4, <4>1, <4>2
    <3>7. QED BY <3>1, <3>5, <3>6
  <2>5. QED BY <1>4, <2>1, <2>2, <2>3, <2>4
<1>6. StampsBehind'
  <2>1. ASSUME NEW r \in Peer, NEW s \in Peer, NEW e \in conn'[r][s].todo, e.val.id \in Peer
        PROVE  e.val.ts <= clock[e.val.id]
    <3>1. e \in conn[r][s].todo \/ e \in Adds(p) \/ e \in Removes(p)
      <4>1. CASE conn'[r][s] = Closed \/ conn'[r][s] = conn[r][s]
        BY <2>1, <4>1 DEF Closed
      <4>2. CASE conn'[r][s] = [stage |-> "sending", todo |-> Adds(p),
                                past |-> {o \in seen[p] : o.set = "add"}]
        <5>1. conn'[r][s].todo = Adds(p)
          BY <4>2
        <5>2. QED BY <2>1, <5>1
      <4>3. CASE /\ r = p /\ s = q
                 /\ conn'[r][s] = [stage |-> "sent", todo |-> conn[p][q].todo \cup Removes(p),
                                   past |-> conn[p][q].past \cup {o \in seen[p] : o.set = "remove"}]
        <5>1. conn'[r][s].todo = conn[r][s].todo \cup Removes(p)
          BY <4>3
        <5>2. QED BY <2>1, <5>1
      <4>4. QED BY <1>4, <4>1, <4>2, <4>3
    <3>2. CASE e \in conn[r][s].todo
      BY <1>1, <2>1, <3>2 DEF StampsBehind
    <3>3. CASE e \in Adds(p) \cup Removes(p)
      BY <2>1, <3>3, SentFacts
    <3>4. QED BY <3>1, <3>2, <3>3
  <2>2. \A r \in Peer, s \in {"add", "remove"}, k \in Key : Val(r, s, k)' = Val(r, s, k)
    BY <1>2 DEF Val
  <2>3. QED BY <1>1, <1>2, <2>1, <2>2 DEF StampsBehind
<1>7. QED BY <1>3, <1>5, <1>6

-----------------------------------------------------------------------------
(* The theorems.                                                           *)

LEMMA TypesNext == FsTypes /\ [Next]_vars => FsTypes'
<1> SUFFICES ASSUME FsTypes, [Next]_vars PROVE FsTypes'
  OBVIOUS
<1>1. CASE UNCHANGED vars
  BY <1>1 DEF vars, FsTypes, TypeOK, ClockBehind, NothingWaits, Time, Node, Stamp, EventType,
              Entry, Connection
<1>2. ASSUME NEW p \in Peer, NEW w \in Peer \cup {0}, Store(p, w) PROVE FsTypes'
  BY <1>2, StoreTypes
<1>3. ASSUME NEW p \in Peer, NEW k \in Key, AddNode(p, k) \/ RemoveNode(p, k) PROVE FsTypes'
  BY <1>3, UserTypes
<1>4. ASSUME NEW p \in Peer, FinishPrint(p) PROVE FsTypes'
  BY <1>2, <1>4, ReattachTypes DEF FinishPrint, Printer
<1>5. ASSUME NEW p \in Peer, PrintTree(p) \/ Stop(p) PROVE FsTypes'
  BY <1>5, OtherTypes
<1>6. ASSUME NEW p \in Peer, NEW q \in Peer, Gossip(p, q) PROVE FsTypes'
  BY <1>6, OtherTypes DEF Gossip
<1>7. ASSUME NEW p \in Peer, NEW q \in Peer, Serve(p, q) PROVE FsTypes'
  BY <1>2, <1>7, MergeTypes DEF Serve
<1>8. QED BY <1>1, <1>2, <1>3, <1>4, <1>5, <1>6, <1>7 DEF Next

LEMMA OrderedNext ==
  FsInv /\ FsTypes' /\ [Next]_vars => EntryIsLatest' /\ SentIsLatest' /\ StampsBehind'
<1> SUFFICES ASSUME FsInv, FsTypes', [Next]_vars
             PROVE  EntryIsLatest' /\ SentIsLatest' /\ StampsBehind'
  OBVIOUS
<1>1. CASE setting.racy
  <2>1. setting' = setting
    <3>1. \A p \in Peer, k \in Key : AddNode(p, k) \/ RemoveNode(p, k) => setting' = setting
      BY DEF AddNode, RemoveNode, Command
    <3>2. \A p \in Peer : PrintTree(p) \/ FinishPrint(p) \/ Stop(p) => setting' = setting
      BY DEF PrintTree, FinishPrint, Store, ReattachOrphan, Stop
    <3>3. \A w : \A p \in Peer : Store(p, w) => setting' = setting
      BY DEF Store
    <3>4. \A p, q \in Peer : Gossip(p, q) \/ Serve(p, q) => setting' = setting
      BY DEF Gossip, Dial, EncodeRemoveSet, Serve, Store, HandleConnection
    <3>5. UNCHANGED vars => setting' = setting
      BY DEF vars
    <3>6. QED BY <3>1, <3>2, <3>3, <3>4, <3>5 DEF Next
  <2>2. QED BY <1>1, <2>1 DEF EntryIsLatest, SentIsLatest, StampsBehind
<1>2. CASE ~setting.racy
  <2> DEFINE Goal == EntryIsLatest' /\ SentIsLatest' /\ StampsBehind'
  <2>1. CASE UNCHANGED vars
    BY <2>1 DEF vars, FsInv, EntryIsLatest, SentIsLatest, StampsBehind, Val, IsLatest, Of, Later
  <2>2. ASSUME NEW p \in Peer, NEW w \in Peer \cup {0} PROVE ~Store(p, w)
    BY <1>2 DEF Store, FsInv, NothingWaits, Nothing
  <2>3. ASSUME NEW p \in Peer, NEW k \in Key, AddNode(p, k) \/ RemoveNode(p, k) PROVE Goal
    BY <1>2, <2>3, UserOrdered
  <2>4. ASSUME NEW p \in Peer, FinishPrint(p) PROVE Goal
    BY <1>2, <2>2, <2>4, ReattachOrdered DEF FinishPrint, Printer
  <2>5. ASSUME NEW p \in Peer, PrintTree(p) \/ Stop(p) PROVE Goal
    BY <1>2, <2>5, OtherOrdered
  <2>6. ASSUME NEW p \in Peer, NEW q \in Peer, Gossip(p, q) PROVE Goal
    BY <1>2, <2>6, OtherOrdered DEF Gossip
  <2>7. ASSUME NEW p \in Peer, NEW q \in Peer, Serve(p, q) PROVE Goal
    BY <1>2, <2>2, <2>7, MergeOrdered DEF Serve
  <2> HIDE DEF Goal
  <2>8. Goal
    BY <2>1, <2>2, <2>3, <2>4, <2>5, <2>6, <2>7 DEF Next, Goal
  <2>9. QED BY <2>8 DEF Goal
<1>3. QED BY <1>1, <1>2

\* The invariant of the replicas (Merge, the listener, the gossip goroutine and the
\* user) holds in every reachable state.
THEOREM FsInvariance == Spec => []FsInv
<1>1. FsInv /\ [Next]_vars => FsInv'
  <2> SUFFICES ASSUME FsInv, [Next]_vars PROVE FsInv'
    OBVIOUS
  <2>1. FsTypes'
    BY TypesNext DEF FsInv, FsTypes
  <2>2. EntryIsLatest' /\ SentIsLatest' /\ StampsBehind'
    BY <2>1, OrderedNext
  <2>3. QED BY <2>1, <2>2 DEF FsInv, FsTypes
<1>2. QED BY <1>1, FsInit, PTL DEF Spec

\* Unless stores race, each key holds at each replica the latest entry that
\* reached it: whatever was merged, in whatever order and from whatever torn
\* snapshot, and whoever printed or stopped.
THEOREM LatestEntryWins == Spec => []EntryIsLatest
<1>1. FsInv => EntryIsLatest
  BY DEF FsInv
<1>2. QED BY <1>1, FsInvariance, PTL

\* Unless stores race, only another replica's stamp stands in the way of a
\* user's command.
THEOREM CommandsTakeEffect == Spec => OwnCommandsInOrder
<1>1. ASSUME FsInv, ~setting.racy, NEW p \in Peer, NEW k \in Key, AddNode(p, k)
      PROVE  Exists(p, k)' \/ removeSet[p][k].id # p
  <2>1. FsTypes /\ TypeOK /\ StampsBehind
    BY <1>1 DEF FsInv, FsTypes
  <2>2. PICK e \in Entry :
          /\ e.set = "add" /\ e.key = k /\ e.val.ts = clock[p] + 1 /\ Command(p)
          /\ \/ Put(p, p, e) /\ e.val.ts > removeSet[p][k].ts
             \/ /\ PutNothing
                /\ ~(e.val.ts > removeSet[p][k].ts) \/ ~(e.val.ts > addSet[p][k].ts)
    BY <1>1, <2>1, UserFacts
  <2>3. /\ Val(p, "add", k) = addSet[p][k] /\ Val(p, "remove", k) = removeSet[p][k]
        /\ addSet[p][k].ts \in Nat /\ removeSet[p][k].ts \in Nat
    BY <2>1, ValFacts DEF Val
  <2>4. clock[p] \in Nat
    BY <2>1, <2>2, CommandFacts
  <2>5. removeSet[p][k].id = p => removeSet[p][k].ts <= clock[p]
    BY <1>1, <2>1, <2>3 DEF StampsBehind
  <2>6. CASE Put(p, p, e) /\ e.val.ts > removeSet[p][k].ts
    <3>1. Assign(p, e)
      BY <1>1, <2>1, <2>6, PutFacts
    <3>2. addSet'[p][k] = e.val /\ removeSet' = removeSet
      BY <2>1, <2>2, <3>1 DEF Assign, TypeOK
    <3>3. QED BY <2>6, <3>2 DEF Exists
  <2>7. CASE /\ PutNothing
             /\ ~(e.val.ts > removeSet[p][k].ts) \/ ~(e.val.ts > addSet[p][k].ts)
    <3>1. addSet' = addSet /\ removeSet' = removeSet
      BY <2>7 DEF PutNothing
    <3>2. removeSet[p][k].id = p => addSet[p][k].ts > removeSet[p][k].ts
      BY <2>2, <2>3, <2>4, <2>5, <2>7
    <3>3. QED BY <3>1, <3>2 DEF Exists
  <2>8. QED BY <2>2, <2>6, <2>7
<1>2. ASSUME FsInv, ~setting.racy, NEW p \in Peer, NEW k \in Key, RemoveNode(p, k)
      PROVE  ~Exists(p, k)' \/ addSet[p][k].id # p
  <2>1. FsTypes /\ TypeOK /\ StampsBehind
    BY <1>2 DEF FsInv, FsTypes
  <2>2. PICK e \in Entry :
          /\ e.set = "remove" /\ e.key = k /\ e.val.ts = clock[p] + 1 /\ Command(p)
          /\ Put(p, p, e) \/ (PutNothing /\ ~(e.val.ts > removeSet[p][k].ts))
    BY <1>2, <2>1, UserFacts
  <2>3. /\ Val(p, "add", k) = addSet[p][k] /\ Val(p, "remove", k) = removeSet[p][k]
        /\ addSet[p][k].ts \in Nat /\ removeSet[p][k].ts \in Nat
    BY <2>1, ValFacts DEF Val
  <2>4. clock[p] \in Nat
    BY <2>1, <2>2, CommandFacts
  <2>5. addSet[p][k].id = p => addSet[p][k].ts <= clock[p]
    BY <1>2, <2>1, <2>3 DEF StampsBehind
  <2>6. CASE Put(p, p, e)
    <3>1. Assign(p, e)
      BY <1>2, <2>1, <2>6, PutFacts
    <3>2. removeSet'[p][k] = e.val /\ addSet' = addSet
      BY <2>1, <2>2, <3>1 DEF Assign, TypeOK
    <3>3. QED BY <2>2, <2>3, <2>4, <2>5, <3>2 DEF Exists
  <2>7. CASE PutNothing /\ ~(e.val.ts > removeSet[p][k].ts)
    <3>1. addSet' = addSet /\ removeSet' = removeSet
      BY <2>7 DEF PutNothing
    <3>2. QED BY <2>2, <2>3, <2>4, <2>5, <2>7, <3>1 DEF Exists
  <2>8. QED BY <2>2, <2>6, <2>7
<1> DEFINE InOrder == ~setting.racy => \A p \in Peer, k \in Key :
             /\ AddNode(p, k) => Exists(p, k)' \/ removeSet[p][k].id # p
             /\ RemoveNode(p, k) => ~Exists(p, k)' \/ addSet[p][k].id # p
<1>3. FsInv => InOrder
  BY <1>1, <1>2
<1>4. QED BY <1>3, FsInvariance, PTL DEF OwnCommandsInOrder

\* The stamps of one latest entry and of another of the same entries are equal.
LEMMA LatestIsUnique ==
  ASSUME NEW S, NEW v, NEW w, IsLatest(v, S), IsLatest(w, S),
         v.ts \in Nat, w.ts \in Nat, v.id \in Nat, w.id \in Nat
  PROVE  v.ts = w.ts /\ (v.ts > 0 => v.id = w.id)
<1>1. ~(v.ts > w.ts) /\ ~(w.ts > v.ts)
  BY DEF IsLatest, Later
<1>2. v.ts = w.ts
  BY <1>1
<1>3. v.ts > 0 => ~(v.id > w.id) /\ ~(w.id > v.id)
  BY <1>2 DEF IsLatest, Later
<1>4. QED BY <1>2, <1>3

\* Replicas that the same entries reached have the same nodes, created and
\* removed under the same stamps.
ReplicasAgree ==
  ~setting.racy => \A p, q \in Peer : seen[p] = seen[q] =>
    /\ Lookup(p) = Lookup(q)
    /\ \A k \in Key :
         /\ addSet[p][k].ts = addSet[q][k].ts /\ removeSet[p][k].ts = removeSet[q][k].ts
         /\ addSet[p][k].ts > 0 => addSet[p][k].id = addSet[q][k].id
         /\ removeSet[p][k].ts > 0 => removeSet[p][k].id = removeSet[q][k].id

\* Strong convergence, unless stores race: which nodes a replica has and under
\* which stamps depends on the entries that reached it, not on their order, nor
\* on how often they came or in which torn snapshots.  (Their parents may differ:
\* printing moves nodes under their old stamps.)
THEOREM SameEntriesSameNodes == Spec => []ReplicasAgree
<1>1. FsInv => ReplicasAgree
  <2> SUFFICES ASSUME FsInv, ~setting.racy, NEW p \in Peer, NEW q \in Peer, seen[p] = seen[q]
               PROVE  /\ Lookup(p) = Lookup(q)
                      /\ \A k \in Key :
                           /\ addSet[p][k].ts = addSet[q][k].ts /\ removeSet[p][k].ts = removeSet[q][k].ts
                           /\ addSet[p][k].ts > 0 => addSet[p][k].id = addSet[q][k].id
                           /\ removeSet[p][k].ts > 0 => removeSet[p][k].id = removeSet[q][k].id
    BY DEF ReplicasAgree
  <2>1. ASSUME NEW k \in Key
        PROVE  /\ addSet[p][k].ts = addSet[q][k].ts /\ removeSet[p][k].ts = removeSet[q][k].ts
               /\ addSet[p][k].ts > 0 => addSet[p][k].id = addSet[q][k].id
               /\ removeSet[p][k].ts > 0 => removeSet[p][k].id = removeSet[q][k].id
    <3>1. ASSUME NEW r \in Peer
          PROVE  /\ addSet[r][k].ts \in Nat /\ addSet[r][k].id \in Nat
                 /\ removeSet[r][k].ts \in Nat /\ removeSet[r][k].id \in Nat
      <4>1. addSet[r][k] \in Node /\ removeSet[r][k] \in Stamp
        BY DEF FsInv, TypeOK
      <4>2. QED BY <4>1, StampNumbers DEF FsInv
    <3>2. /\ IsLatest(addSet[p][k], Of(seen[p], "add", k)) /\ IsLatest(addSet[q][k], Of(seen[p], "add", k))
          /\ IsLatest(removeSet[p][k], Of(seen[p], "remove", k))
          /\ IsLatest(removeSet[q][k], Of(seen[p], "remove", k))
      BY DEF FsInv, EntryIsLatest
    <3>3. QED BY <3>1, <3>2, LatestIsUnique
  <2>2. Lookup(p) = Lookup(q)
    BY <2>1 DEF Lookup, Exists
  <2>3. QED BY <2>1, <2>2
<1>2. QED BY <1>1, FsInvariance, PTL
=============================================================================
