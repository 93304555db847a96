----------------------------- MODULE FsReplica -----------------------------
(***************************************************************************)
(* The interactive replicated file system (FS/Interactive_FS): the         *)
(* replication layer of fs.go and the processes of main.go around it.      *)
(*                                                                         *)
(* Each replica has a last-writer-wins set of nodes: AddSet holds one node *)
(* per key, with the stamp of its creation, and RemoveSet one tombstone    *)
(* per key.  The user's commands change them under a clock that counts the *)
(* replica's own commands.  A gossip goroutine sends them to every peer    *)
(* again and again, and one goroutine per incoming connection merges what  *)
(* it received, entry by entry, while the user goes on: nothing locks the  *)
(* two maps.  The command "print" changes them too (BuildTree calls        *)
(* ReattachOrphans with the policy "root" on the real state).              *)
(*                                                                         *)
(* The program of the MAN paper (FS/MAN_Paper) has the same node set, but  *)
(* two replicas in one process (shared): a goroutine of each issues        *)
(* commands, one merges each replica into the other through pointers, in   *)
(* turn and for ever, and one prints both.                                 *)
(*                                                                         *)
(* Two accesses to a map with no lock are a data race: what a goroutine    *)
(* tested may be stale when it stores (racy), and the Go runtime may stop  *)
(* the program ("concurrent map writes"), which is Stop.                   *)
(***************************************************************************)
EXTENDS Naturals, FiniteSets

CONSTANTS Peer,         \* the replicas; a greater number is a greater ReplicaID
          Key,          \* the NodeKeys (path and type) the users name
          Root,         \* the key of "/"
          ParentOf,     \* ParentOf[k]: the key of k's directory; Root for Root
          Setting       \* what may happen, in several versions; in each:
                        \*   printing: whether users issue "print"
                        \*   shared: whether the program is the MAN paper's
                        \*   racy: whether a store may come later than its test
                        \*   commands: bound, commands issued by all users
                        \*   stops: bound, replicas that stop

ASSUME PeerAssumption == Peer \subseteq Nat \ {0}
ASSUME KeyAssumption == Root \in Key /\ ParentOf \in [Key -> Key]
ASSUME SettingAssumption ==
  \A s \in Setting : /\ s.printing \in BOOLEAN /\ s.racy \in BOOLEAN
                     /\ s.shared \in BOOLEAN /\ (s.shared => Peer = {1, 2})
                     /\ s.commands \in Nat /\ s.stops \in Nat

VARIABLES
  setting,    \* the version that runs, chosen once
  online,     \* the replicas that are running
  clock,      \* clock[p]: Replica.Clock
  commands,   \* commands issued so far
  addSet,     \* addSet[p][k]: the node of key k: its stamp (Created,
              \* ReplicaID) and the key of its ParentPath
  removeSet,  \* removeSet[p][k]: the stamp of the tombstone of key k
  printing,   \* printing[p]: the keys a running "print" has yet to visit
  conn,       \* conn[p][q]: the connection from p to q, with what q still has
              \* to merge of p's two sets
  store,      \* store[p][w]: what goroutine w of p decided to store and has
              \* not stored yet; w = p is the goroutine of the commands, 0
              \* the one that prints if that is another, another w the one
              \* that merges what comes from w
  seen        \* history: the entries stored or merged at each replica

vars == <<setting, online, clock, commands, addSet, removeSet, printing, conn, store, seen>>

Time == 0..(setting.commands + 1)
Stamp == [ts : Time, id : Peer \cup {0}]
Node == [ts : Time, id : Peer \cup {0}, parent : Key]

\* No entry under a key: every stamp is later.
Absent == [ts |-> 0, id |-> 0]
AbsentNode(k) == [ts |-> 0, id |-> 0, parent |-> ParentOf[k]]

\* An entry of one of the sets on its way to another.
Entry == [set : {"add"}, key : Key, val : Node] \cup [set : {"remove"}, key : Key, val : Stamp]

\* The stored sets as entries.
Adds(p) == {[set |-> "add", key |-> k, val |-> addSet[p][k]] :
              k \in {j \in Key : addSet[p][j].ts > 0}}
Removes(p) == {[set |-> "remove", key |-> k, val |-> removeSet[p][k]] :
                 k \in {j \in Key : removeSet[p][j].ts > 0}}

\* What a history keeps of an entry: its identity.
Event(e) == [set |-> e.set, key |-> e.key, ts |-> e.val.ts, id |-> e.val.id]
EventType == [set : {"add", "remove"}, key : Key, ts : Time, id : Peer]

\* A connection: closed; open with AddSet sent and RemoveSet not yet; sent.
Connection == [stage : {"closed", "sending", "sent"}, todo : SUBSET Entry, past : SUBSET EventType]
Closed == [stage |-> "closed", todo |-> {}, past |-> {}]

\* A merge through pointers: todo has the keys to visit, with no value yet; an
\* entry added meanwhile may be visited or not.
Visits == [stage |-> "sent", past |-> {},
           todo |-> {[set |-> "add", key |-> k, val |-> AbsentNode(k)] : k \in Key}
                      \cup {[set |-> "remove", key |-> k, val |-> Absent] : k \in Key}]

Nothing == {}

\* Exists and Lookup.
Exists(p, k) == addSet[p][k].ts > removeSet[p][k].ts
Lookup(p) == {k \in Key : Exists(p, k)}

TypeOK ==
  /\ setting \in Setting
  /\ online \in SUBSET Peer
  /\ clock \in [Peer -> Time]
  /\ commands \in 0..setting.commands
  /\ addSet \in [Peer -> [Key -> Node]]
  /\ removeSet \in [Peer -> [Key -> Stamp]]
  /\ printing \in [Peer -> SUBSET Key]
  /\ conn \in [Peer -> [Peer -> Connection]]
  /\ store \in [Peer -> [Peer \cup {0} -> SUBSET Entry]]
  /\ seen \in [Peer -> SUBSET EventType]

\* main, runDistributedSys: every replica starts by adding "/" under its own
\* stamp; the first merge through pointers is of replica 2 into replica 1.
Init ==
  /\ setting \in Setting
  /\ online = Peer
  /\ clock = [p \in Peer |-> 1]
  /\ commands = 0
  /\ addSet = [p \in Peer |-> [k \in Key |->
        IF k = Root THEN [ts |-> 1, id |-> p, parent |-> Root] ELSE AbsentNode(k)]]
  /\ removeSet = [p \in Peer |-> [k \in Key |-> Absent]]
  /\ printing = [p \in Peer |-> {}]
  /\ conn = [p \in Peer |-> [q \in Peer |->
        IF setting.shared /\ p = 2 /\ q = 1 THEN Visits ELSE Closed]]
  /\ store = [p \in Peer |-> [w \in Peer \cup {0} |-> Nothing]]
  /\ seen = [p \in Peer |-> {[set |-> "add", key |-> Root, ts |-> 1, id |-> p]}]

-----------------------------------------------------------------------------
\* The order of stamps in Merge: the timestamp, then the ReplicaID.
Later(a, b) == a.ts > b.ts \/ (a.ts = b.ts /\ a.id > b.id)

Assign(p, e) ==
  IF e.set = "add"
    THEN addSet' = [addSet EXCEPT ![p][e.key] = e.val] /\ UNCHANGED removeSet
    ELSE removeSet' = [removeSet EXCEPT ![p][e.key] = e.val] /\ UNCHANGED addSet

\* Goroutine w of p assigns e: now or, if nothing orders the goroutines, later.
Put(p, w, e) ==
  IF setting.racy THEN /\ store' = [store EXCEPT ![p][w] = {e}]
                       /\ UNCHANGED <<addSet, removeSet>>
                  ELSE /\ Assign(p, e)
                       /\ UNCHANGED store

PutNothing == UNCHANGED <<addSet, removeSet, store>>

\* The store of an earlier decision.
Store(p, w) ==
  /\ p \in online
  /\ \E e \in store[p][w] : Assign(p, e)
  /\ store' = [store EXCEPT ![p][w] = Nothing]
  /\ UNCHANGED <<setting, online, clock, commands, printing, conn, seen>>

\* The goroutine that prints p.
Printer(p) == IF setting.shared THEN 0 ELSE p

\* A goroutine that issues commands at p, or prints p, is ready for one more.
CommandDone(p) == store[p][p] = Nothing /\ (setting.shared \/ printing[p] = {})
PrintDone(p) == store[p][Printer(p)] = Nothing /\ printing[p] = {}

Ready(p) == p \in online /\ commands < setting.commands

NextTimestamp_Stuck(p) == clock' = clock

\* NextTimestamp; the clock does not follow the stamps that merges bring.
NextTimestamp(p) == clock' = [clock EXCEPT ![p] = @ + 1]

\* One more command that changes the sets.
Command(p) ==
  /\ Ready(p)
  /\ CommandDone(p)
  /\ commands' = commands + 1
  /\ NextTimestamp(p)
  /\ UNCHANGED <<setting, online, printing, conn>>

\* NodeSetCRDT.Add: ignored under a tombstone as late; otherwise stored if
\* there is no node under the key, or an older one.
Add(p, k, node) ==
  /\ node.ts > removeSet[p][k].ts
  /\ node.ts > addSet[p][k].ts

\* "add": AddNode with the path's directory as parent.
AddNode(p, k) ==
  LET node == [ts |-> clock'[p], id |-> p, parent |-> ParentOf[k]]
      e == [set |-> "add", key |-> k, val |-> node]
  IN  /\ Command(p)
      /\ IF Add(p, k, node)
           THEN Put(p, p, e) /\ seen' = [seen EXCEPT ![p] = @ \cup {Event(e)}]
           ELSE PutNothing /\ UNCHANGED seen

\* "remove": RemoveNode and NodeSetCRDT.Remove, whether the node is there or not.
RemoveNode(p, k) ==
  LET tomb == [ts |-> clock'[p], id |-> p]
      e == [set |-> "remove", key |-> k, val |-> tomb]
  IN  /\ Command(p)
      /\ IF tomb.ts > removeSet[p][k].ts
           THEN Put(p, p, e) /\ seen' = [seen EXCEPT ![p] = @ \cup {Event(e)}]
           ELSE PutNothing /\ UNCHANGED seen

\* "print": BuildTree(NodeSet, "root") visits the nodes in no particular order.
\* One goroutine prints both replicas of a process, one after the other.
PrintTree(p) ==
  /\ setting.printing
  /\ Ready(p)
  /\ \A q \in Peer : q = p \/ setting.shared => PrintDone(q)
  /\ commands' = commands + 1
  /\ printing' = [printing EXCEPT ![p] = Key]
  /\ UNCHANGED <<setting, online, clock, addSet, removeSet, conn, store, seen>>

\* ReattachOrphans, one node: if its directory is not there, the node itself
\* is moved to "/", under the same key and stamp.
ReattachOrphan(p, k) ==
  LET node == addSet[p][k]
      orphan == node.ts > 0 /\ k # Root /\ ~Exists(p, node.parent)
  IN  /\ p \in online
      /\ k \in printing[p]
      /\ store[p][Printer(p)] = Nothing
      /\ printing' = [printing EXCEPT ![p] = @ \ {k}]
      /\ IF orphan
           THEN Put(p, Printer(p), [set |-> "add", key |-> k, val |-> [node EXCEPT !.parent = Root]])
           ELSE PutNothing
      /\ UNCHANGED <<setting, online, clock, commands, conn, seen>>

-----------------------------------------------------------------------------
\* mergeWithPeer: the gossip goroutine dials a peer and encodes AddSet...
Dial(p, q) ==
  /\ ~setting.shared
  /\ p \in online /\ q \in online /\ p # q
  /\ conn[p][q] = Closed
  /\ conn' = [conn EXCEPT ![p][q] =
       [stage |-> "sending", todo |-> Adds(p),
        past |-> {o \in seen[p] : o.set = "add"}]]
  /\ UNCHANGED <<setting, online, clock, commands, addSet, removeSet, printing, store, seen>>

\* ... then RemoveSet; other goroutines may have changed the sets meanwhile.
EncodeRemoveSet(p, q) ==
  /\ p \in online
  /\ conn[p][q].stage = "sending"
  /\ conn' = [conn EXCEPT ![p][q] =
       [stage |-> "sent", todo |-> @.todo \cup Removes(p),
        past |-> @.past \cup {o \in seen[p] : o.set = "remove"}]]
  /\ UNCHANGED <<setting, online, clock, commands, addSet, removeSet, printing, store, seen>>

Merge_KeepsLocal(q, e) ==
  IF e.set = "add" THEN addSet[q][e.key].ts = 0 ELSE removeSet[q][e.key].ts = 0

Merge_NoTieBreak(q, e) ==
  IF e.set = "add" THEN e.val.ts > addSet[q][e.key].ts
                   ELSE e.val.ts > removeSet[q][e.key].ts

\* Whether a received entry replaces the local one (or fills its absence).
Merge(q, e) ==
  IF e.set = "add" THEN Later(e.val, addSet[q][e.key])
                   ELSE Later(e.val, removeSet[q][e.key])

\* What is merged for an entry: what was sent or, through pointers, what the
\* other replica has now; and its past.
Current(p, e) ==
  IF ~setting.shared THEN e
  ELSE [e EXCEPT !.val = IF e.set = "add" THEN addSet[p][e.key] ELSE removeSet[p][e.key]]

Past(p, q) == IF setting.shared THEN seen[p] ELSE conn[p][q].past

\* The last entry was merged; through pointers, the other direction is next.
EndMerge(p, q) ==
  conn' = IF setting.shared THEN [conn EXCEPT ![p][q] = Closed, ![q][p] = Visits]
                            ELSE [conn EXCEPT ![p][q] = Closed]

\* handleConnection: the received nodes are merged in any order, and after
\* them the received tombstones.
HandleConnection(p, q, e) ==
  LET c == conn[p][q]
      entry == Current(p, e)
  IN  /\ q \in online
      /\ c.stage = "sent"
      /\ e \in c.todo
      /\ store[q][p] = Nothing /\ (setting.shared => store[p][q] = Nothing)
      /\ e.set = "remove" => \A f \in c.todo : f.set = "remove"
      /\ IF c.todo = {e} THEN EndMerge(p, q)
                         ELSE conn' = [conn EXCEPT ![p][q].todo = @ \ {e}]
      /\ IF Merge(q, entry) THEN Put(q, p, entry) ELSE PutNothing
      /\ seen' = [seen EXCEPT ![q] = @ \cup {o \in Past(p, q) : o.set = e.set /\ o.key = e.key}]
      /\ UNCHANGED <<setting, online, clock, commands, printing>>

\* A replica stops: "final" exits, or the runtime finds concurrent accesses to
\* a map.  Nothing is saved.  A connection it had not finished sending cannot
\* be decoded.
Stop(p) ==
  /\ p \in online
  /\ Cardinality(Peer \ online) < setting.stops
  /\ online' = online \ {p}
  /\ conn' = [r \in Peer |-> [q \in Peer |->
       IF q = p \/ (r = p /\ conn[r][q].stage = "sending") THEN Closed ELSE conn[r][q]]]
  /\ UNCHANGED <<setting, clock, commands, addSet, removeSet, printing, store, seen>>

Gossip(p, q) ==
  \/ Dial(p, q)
  \/ EncodeRemoveSet(p, q)

Serve(p, q) == Store(q, p) \/ \E e \in conn[p][q].todo : HandleConnection(p, q, e)

FinishPrint(p) == Store(p, Printer(p)) \/ \E k \in Key : ReattachOrphan(p, k)

Next ==
  \/ \E p \in Peer, k \in Key : AddNode(p, k) \/ RemoveNode(p, k)
  \/ \E p \in Peer : PrintTree(p) \/ FinishPrint(p) \/ Store(p, p) \/ Stop(p)
  \/ \E p, q \in Peer : p # q /\ (Gossip(p, q) \/ Serve(p, q))

Spec == Init /\ [][Next]_vars

\* The gossip goroutine loops for ever over its peers, every accepted
\* connection has a goroutine of its own, and a command once read is finished.
\* The MAN paper's program merges for ever, too.
Fairness ==
  \A p \in Peer : /\ WF_vars(FinishPrint(p)) /\ WF_vars(Store(p, p))
                  /\ \A q \in Peer \ {p} : WF_vars(Gossip(p, q)) /\ WF_vars(Serve(p, q))

FairSpec == Spec /\ Fairness

-----------------------------------------------------------------------------
(***************************************************************************)
(* Properties                                                              *)
(***************************************************************************)

\* The events S of key k's entry in set s; v is the latest of such a set.
Of(S, s, k) == {o \in S : o.set = s /\ o.key = k}
IsLatest(v, S) == /\ v.ts > 0 => \E o \in S : o.ts = v.ts /\ o.id = v.id
                  /\ \A o \in S : ~Later(o, v)

\* Unless stores race: whatever order the entries came in, how often, and how
\* torn the snapshots they came from, each key holds the latest entry that
\* reached the replica: so two replicas reached by the same entries agree.
EntryIsLatest ==
  ~setting.racy => \A p \in Peer, k \in Key :
    /\ IsLatest(addSet[p][k], Of(seen[p], "add", k))
    /\ IsLatest(removeSet[p][k], Of(seen[p], "remove", k))

\* A user's command takes effect at his own replica unless a stamp of another
\* replica is in the way: the clock is not advanced by merges, so that one can
\* be ahead of it, but his own earlier commands never are, even when they come
\* back from other replicas (if stores do not race).
OwnCommandsInOrder ==
  [][~setting.racy => \A p \in Peer, k \in Key :
       /\ AddNode(p, k) => Exists(p, k)' \/ removeSet[p][k].id # p
       /\ RemoveNode(p, k) => ~Exists(p, k)' \/ addSet[p][k].id # p]_vars

\* When the users stop, the running replicas come to show the same nodes, even
\* if racing goroutines lost stores and users printed.
NodesConverge ==
  <>[](\A p, q \in online : Lookup(p) = Lookup(q))

\* README.md:8 asks "that each update is transcripted as CRDT's Payload
\* respecting the SEC property": when the users stop, the running replicas
\* come to show the same nodes in the same places.
TreesConverge ==
  <>[](\A p, q \in online : /\ Lookup(p) = Lookup(q)
                            /\ \A k \in Lookup(p) : addSet[p][k].parent = addSet[q][k].parent)
=============================================================================
