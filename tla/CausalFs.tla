------------------------------ MODULE CausalFs ------------------------------
(***************************************************************************)
(* The replicated file system with contents (FS/Causal/mainCausal.go).     *)
(*                                                                         *)
(* Replicas live in one process and one goroutine: one call runs at a time.*)
(* SyncAll, ReattachOrphans and ResolveNameConflicts take a step per pair  *)
(* of replicas or per node they visit; the two latter range over a Go map, *)
(* in any order, and change it as they go.                                 *)
(*                                                                         *)
(* A node has a uuid, so that a name may be given twice.  A file's content *)
(* is a last-writer-wins map of lines with tombstones; nodes are copied    *)
(* with the pointer to their content, so that all the replicas that have a *)
(* file share the lines of it: lines and deleted below belong to the file. *)
(* Each replica keeps a version vector.                                    *)
(***************************************************************************)
EXTENDS Naturals, Sequences, FiniteSets

CONSTANTS Replica,      \* the replicas; a greater number is a greater ReplicaID
          Id,           \* the uuids of the nodes that users create
          Root,         \* the ID of "/"
          NoPlace,      \* the ParentID of "/"
          File,         \* the IDs of files; the others are directories
          Dead,         \* names that are no ID (see PlaceOf)
          NameOf,       \* NameOf[id]: the name the user gives
          PlaceOf,      \* PlaceOf[id]: the ParentID the user gives: an ID, or a
                        \* name as in main
          Index,        \* indexes of lines
          Scenario      \* what users do, in several versions; in each:
                        \*   ids: the nodes they may create
                        \*   does: what else they do (see Deed), besides merging
                        \*   ties: whether two calls may see one time
                        \*   calls: bound, calls issued

Policy == {"rootPol", "skip", "compact", "reappear"}
Deed == Policy \cup {"edit", "remove", "resolve"}

ASSUME ReplicaAssumption == Replica \subseteq Nat \ {0} /\ IsFiniteSet(Replica)
ASSUME IdAssumption == /\ Root \in Id /\ NoPlace \notin Id \cup Dead /\ Id \cap Dead = {}
                       /\ File \subseteq Id \ {Root} /\ IsFiniteSet(Id)

\* Users put nodes in directories.
ASSUME PlaceAssumption ==
  /\ PlaceOf \in [Id -> (Id \ File) \cup Dead \cup {NoPlace}]
  /\ \A i \in Id : /\ PlaceOf[i] = NoPlace <=> i = Root
                   /\ PlaceOf[i] # NameOf[i]
                   /\ NameOf[i] \notin Id /\ (NameOf[i] \in Dead => i \notin File)
ASSUME ScenarioAssumption ==
  \A s \in Scenario : /\ s.ids \subseteq Id /\ s.does \subseteq Deed
                      /\ s.ties \in BOOLEAN /\ s.calls \in Nat

VARIABLES
  scenario, \* the version that runs, chosen once
  now,      \* time.Now().UnixNano()
  ops,      \* calls issued so far
  running,  \* the call of several steps that runs, if one does: which, on which
            \* replica, with which policy
  todo,     \* what it has yet to visit: nodes, or pairs of replicas
  seen,     \* ResolveNameConflicts: seen, the node last seen per place and name
  replica,  \* replica[p]: its NodeSetCRDT
  lines,    \* lines[f][i]: FileCRDT.Lines of file f: the stamp of the line
  deleted,  \* deleted[f][i]: FileCRDT.Deleted of file f
  edits     \* history: edits[f]: the edits made to file f or merged into it

vars == <<scenario, now, ops, running, todo, seen, replica, lines, deleted, edits>>
callVars == <<running, todo, seen>>
contentVars == <<lines, deleted, edits>>

\* A stamp: the time and the ReplicaID; 0 is the ReplicaID "init" of "/".
Origin == Replica \cup {0}
Stamp == [ts : Nat, id : Origin]
Absent == [ts |-> 0, id |-> 0]
Later(a, b) == a.ts > b.ts \/ (a.ts = b.ts /\ a.id > b.id)

\* A node's name with the replicas that "[...]" was appended for.
Place == Id \cup Dead \cup {NoPlace}
Name == Seq({NameOf[i] : i \in Id} \cup Origin)
Node == [ts : Nat, id : Origin, place : Place, name : Name]
NewNode(i, ts, p) == [ts |-> ts, id |-> p, place |-> PlaceOf[i], name |-> <<NameOf[i]>>]
NoNode(i) == NewNode(i, 0, 0)

\* A NodeSetCRDT.
NodeSetCRDT == [add : [Id -> Node], remove : [Id -> Stamp], clock : [Origin -> Nat]]
Has(r, i) == i \in Id /\ r.add[i].ts > 0
Added(r) == {i \in Id : r.add[i].ts > 0}

Exists(r, i) == Has(r, i) /\ Later(r.add[i], r.remove[i])
Lookup(r) == {i \in Id : Exists(r, i)}

Edit == [kind : {"line", "tombstone"}, index : Index, ts : Nat, id : Replica]
NoCall == [what |-> "none", at |-> 0, policy |-> "none"]

TypeOK ==
  /\ scenario \in Scenario
  /\ now \in Nat /\ ops \in 0..scenario.calls
  /\ running \in [what : {"none", "sync", "reattach", "resolve"}, at : Origin, policy : Policy \cup {"none"}]
  /\ todo \subseteq Id \cup (Replica \X Replica)
  /\ seen \subseteq [place : Place, name : Name, id : Id]
  /\ replica \in [Replica -> NodeSetCRDT]
  /\ lines \in [File -> [Index -> Stamp]]
  /\ deleted \in [File -> [Index -> Stamp]]
  /\ edits \in [File -> SUBSET Edit]

-----------------------------------------------------------------------------
\* VersionVector.Update.
Update(clock, id, ts) == IF ts > clock[id] THEN [clock EXCEPT ![id] = ts] ELSE clock

Dominates(c, d) == \A r \in DOMAIN d : c[r] >= d[r]

\* NodeSetCRDT.Add.
Add(r, i, n) ==
  IF Later(n, r.add[i])
    THEN [r EXCEPT !.add[i] = n, !.clock = Update(@, n.id, n.ts)]
    ELSE r

\* NodeSetCRDT.Remove.
RemoveID(r, i, s) ==
  IF Later(s, r.remove[i])
    THEN [r EXCEPT !.remove[i] = s, !.clock = Update(@, s.id, s.ts)]
    ELSE r

\* The greatest of some times.
Latest(S) == CHOOSE t \in S : \A u \in S : t >= u

Merge_NoTombstones(r, s) ==
  LET new == {i \in Added(s) : ~Has(r, i)}
      Times(id) == {s.add[i].ts : i \in {j \in new : s.add[j].id = id}}
  IN  [add |-> [i \in Id |-> IF i \in new THEN s.add[i] ELSE r.add[i]],
       remove |-> r.remove,
       clock |-> [id \in Origin |-> Latest({r.clock[id]} \cup Times(id))]]

\* NodeSetCRDT.Merge: a node both have keeps its local entry ("Add(localNode)")
\* and its content, which is the remote one's too, is merged with itself; the
\* others are added; then the later tombstones.  The vector follows.
Merge(r, s) ==
  LET new == {i \in Added(s) : ~Has(r, i)}
      dead == {i \in Id : Later(s.remove[i], r.remove[i])}
      Times(id) == {s.add[i].ts : i \in {j \in new : s.add[j].id = id}}
                     \cup {s.remove[i].ts : i \in {j \in dead : s.remove[j].id = id}}
  IN  [add |-> [i \in Id |-> IF i \in new THEN s.add[i] ELSE r.add[i]],
       remove |-> [i \in Id |-> IF i \in dead THEN s.remove[i] ELSE r.remove[i]],
       clock |-> [id \in Origin |-> Latest({r.clock[id]} \cup Times(id))]]

-----------------------------------------------------------------------------
\* main: "/" is created once and added to every replica.
Init ==
  /\ scenario \in Scenario
  /\ now = 1
  /\ ops = 0
  /\ running = NoCall
  /\ todo = {}
  /\ seen = {}
  /\ replica = [p \in Replica |->
       [add |-> [i \in Id |-> IF i = Root THEN NewNode(i, 1, 0) ELSE NoNode(i)],
        remove |-> [i \in Id |-> Absent],
        clock |-> [r \in Origin |-> IF r = 0 THEN 1 ELSE 0]]]
  /\ lines = [f \in File |-> [i \in Index |-> Absent]]
  /\ deleted = [f \in File |-> [i \in Index |-> Absent]]
  /\ edits = [f \in File |-> {}]

\* One more call, at a time that may be that of the call before.  A step of 3
\* leaves room for the stamps one and two later that users and "reappear" make.
Call ==
  /\ running = NoCall
  /\ ops < scenario.calls
  /\ ops' = ops + 1
  /\ UNCHANGED scenario
  /\ \/ now' = now + 3
     \/ scenario.ties /\ now' = now

\* NewNode and Add: a uuid is used once.
Create(p, i) ==
  /\ Call
  /\ i \in scenario.ids
  /\ \A q \in Replica : ~Has(replica[q], i)
  /\ replica' = [replica EXCEPT ![p] = Add(@, i, NewNode(i, now', p))]
  /\ UNCHANGED <<callVars, contentVars>>

\* AppendLine to a file the replica finds by name.
AppendLine(p, f, i) ==
  LET line == [ts |-> now', id |-> p]
  IN  /\ Call
      /\ "edit" \in scenario.does
      /\ Exists(replica[p], f)
      /\ IF deleted[f][i].ts < now' /\ Later(line, lines[f][i])
           THEN lines' = [lines EXCEPT ![f][i] = line]
           ELSE UNCHANGED lines
      /\ edits' = [edits EXCEPT ![f] = @ \cup {[kind |-> "line", index |-> i, ts |-> now', id |-> p]}]
      /\ UNCHANGED <<callVars, replica, deleted>>

\* RemoveLine.
RemoveLine(p, f, i) ==
  LET tomb == [ts |-> now', id |-> p]
  IN  /\ Call
      /\ "edit" \in scenario.does
      /\ Exists(replica[p], f)
      /\ IF Later(tomb, deleted[f][i])
           THEN deleted' = [deleted EXCEPT ![f][i] = tomb]
           ELSE UNCHANGED deleted
      /\ edits' = [edits EXCEPT ![f] = @ \cup {[kind |-> "tombstone", index |-> i, ts |-> now', id |-> p]}]
      /\ UNCHANGED <<callVars, replica, lines>>

\* main removes a node with a stamp one later than now.
RemoveNode(p, i) ==
  /\ Call
  /\ "remove" \in scenario.does
  /\ i # Root /\ Exists(replica[p], i)
  /\ replica' = [replica EXCEPT ![p] = RemoveID(@, i, [ts |-> now' + 1, id |-> p])]
  /\ UNCHANGED <<callVars, contentVars>>

\* Merge of one replica into another.
MergeFrom(p, q) ==
  /\ Call
  /\ p # q
  /\ replica' = [replica EXCEPT ![p] = Merge(@, replica[q])]
  /\ UNCHANGED <<callVars, contentVars>>

-----------------------------------------------------------------------------
(* Calls of several steps.                                                 *)

Start(what, p, policy, nodes) ==
  /\ Call
  /\ running' = [what |-> what, at |-> p, policy |-> policy]
  /\ todo' = nodes
  /\ UNCHANGED <<seen, replica, contentVars>>

\* The call goes on to what is left.
GoOn(visited) ==
  /\ todo' = todo \ {visited}
  /\ UNCHANGED <<scenario, now, ops, running>>

\* The set of the replica the call works on.
Here == replica[running.at]
Store(r) == replica' = [replica EXCEPT ![running.at] = r]

Return ==
  /\ running # NoCall /\ todo = {}
  /\ running' = NoCall
  /\ seen' = {}
  /\ UNCHANGED <<scenario, now, ops, todo, replica, contentVars>>

\* SyncAll: each replica in turn merges each other one.
SyncAll == Start("sync", 0, "none", {pq \in Replica \X Replica : pq[1] # pq[2]})

Earlier(pq, st) == pq[1] < st[1] \/ (pq[1] = st[1] /\ pq[2] < st[2])

SyncPair ==
  /\ running.what = "sync"
  /\ \E pq \in todo :
       /\ \A st \in todo \ {pq} : Earlier(pq, st)
       /\ replica' = [replica EXCEPT ![pq[1]] = Merge(@, replica[pq[2]])]
       /\ GoOn(pq)
  /\ UNCHANGED <<seen, contentVars>>

-----------------------------------------------------------------------------
\* What a ParentID that no node in the set has may stand for: any node that has
\* it as its name (the first the map gives), or nothing but itself.
Named(r, x) ==
  LET hits == {i \in Added(r) : r.add[i].name = <<x>>}
  IN  IF hits = {} THEN {x} ELSE hits

\* The nearest ancestor that exists, NoPlace above "/", or a ParentID that no
\* node has.
Ancestor(r, x) ==
  LET above == [y \in Place |-> IF Has(r, y) /\ ~Exists(r, y) THEN r.add[y].place ELSE y]
      up[n \in 0..Cardinality(Id)] == IF n = 0 THEN x ELSE above[up[n - 1]]
  IN  up[Cardinality(Id)]

\* ReattachOrphans visits the nodes ("/" has no ParentID and is passed over).
ReattachOrphans(p, policy) ==
  /\ policy \in scenario.does
  /\ Start("reattach", p, policy, Added(replica[p]) \ {Root})

Orphan(i) == Here.add[i].place # NoPlace /\ ~Exists(Here, Here.add[i].place)

Visit(i, policy) ==
  /\ running.what = "reattach" /\ running.policy = policy
  /\ Orphan(i)
  /\ GoOn(i)
  /\ UNCHANGED <<seen, contentVars>>

KeepPlace(i) ==
  /\ running.what = "reattach"
  /\ ~Orphan(i)
  /\ GoOn(i)
  /\ UNCHANGED <<seen, replica, contentVars>>

ReattachRoot(i) == Visit(i, "rootPol") /\ Store([Here EXCEPT !.add[i].place = Root])

ReattachSkip(i) == Visit(i, "skip") /\ Store(RemoveID(Here, i, [ts |-> now, id |-> Here.add[i].id]))

ReattachCompact(i) ==
  /\ Visit(i, "compact")
  /\ \E x \in Named(Here, Here.add[i].place) :
       LET above == Ancestor(Here, x)
       IN  Store([Here EXCEPT !.add[i].place = IF above = NoPlace THEN Root ELSE above])

Reappear_SameTime(r, i, x) ==
  IF Has(r, x) /\ ~Exists(r, x)
    THEN Add(r, x, [r.add[x] EXCEPT !.ts = r.remove[x].ts, !.id = r.add[i].id])
    ELSE r

\* "reappear": the removed directory x of node i is added again, one later than
\* its removal and in the name of the replica that made i.
Reappear(r, i, x) ==
  IF Has(r, x) /\ ~Exists(r, x)
    THEN Add(r, x, [r.add[x] EXCEPT !.ts = r.remove[x].ts + 1, !.id = r.add[i].id])
    ELSE r

ReattachReappear(i) ==
  /\ Visit(i, "reappear")
  /\ \E x \in Named(Here, Here.add[i].place) : Store(Reappear(Here, i, x))

Reattach(i) == \/ KeepPlace(i) \/ ReattachRoot(i) \/ ReattachSkip(i)
               \/ ReattachCompact(i) \/ ReattachReappear(i)

-----------------------------------------------------------------------------
\* ResolveNameConflicts visits the nodes; "/" is alone in its place.
ResolveNameConflicts(p) ==
  /\ "resolve" \in scenario.does
  /\ Start("resolve", p, "none", Added(replica[p]) \ {Root})

Resolving(i) == running.what = "resolve" /\ GoOn(i)

\* The node last seen where i is, under its name (existing).
Existing(i) == {e \in seen : e.place = Here.add[i].place /\ e.name = Here.add[i].name}

\* i becomes the node seen in its place, under a name.
See(i, name) ==
  LET place == Here.add[i].place
  IN  seen' = {e \in seen : ~(e.place = place /\ e.name = name)}
                \cup {[place |-> place, name |-> name, id |-> i]}

\* "[ReplicaID]" is appended to a node's name.
Tagged(i) == Append(Here.add[i].name, Here.add[i].id)

ResolveGone(i) ==
  /\ Resolving(i)
  /\ ~Exists(Here, i)
  /\ UNCHANGED <<seen, replica, contentVars>>

\* No conflict, or two directories.
ResolveNone(i) ==
  /\ Resolving(i)
  /\ Exists(Here, i)
  /\ \A e \in Existing(i) : i \notin File /\ e.id \notin File
  /\ See(i, Here.add[i].name)
  /\ UNCHANGED <<replica, contentVars>>

MergeContent_NoDeletions(f, g) ==
  LET Line(i) == IF deleted[f][i].ts < lines[g][i].ts /\ Later(lines[g][i], lines[f][i])
                   THEN lines[g][i] ELSE lines[f][i]
  IN  /\ lines' = [lines EXCEPT ![f] = [i \in Index |-> Line(i)]]
      /\ edits' = [edits EXCEPT ![f] = @ \cup edits[g]]
      /\ UNCHANGED deleted

\* FileCRDT.Merge of the content of g into that of f: the tombstones, then the
\* lines that are later than theirs.
MergeContent(f, g) ==
  LET Tomb(i) == IF Later(deleted[g][i], deleted[f][i]) THEN deleted[g][i] ELSE deleted[f][i]
      Line(i) == IF Tomb(i).ts < lines[g][i].ts /\ Later(lines[g][i], lines[f][i])
                   THEN lines[g][i] ELSE lines[f][i]
  IN  /\ deleted' = [deleted EXCEPT ![f] = [i \in Index |-> Tomb(i)]]
      /\ lines' = [lines EXCEPT ![f] = [i \in Index |-> Line(i)]]
      /\ edits' = [edits EXCEPT ![f] = @ \cup edits[g]]

ResolveFiles_KeepsBoth(i) ==
  /\ Resolving(i)
  /\ Exists(Here, i) /\ i \in File
  /\ \E e \in Existing(i) : e.id \in File /\ MergeContent(i, e.id)
  /\ UNCHANGED <<seen, replica>>

\* Two files: the content of the one seen is merged into the other, and it is
\* removed; it stays the one seen.
ResolveFiles(i) ==
  /\ Resolving(i)
  /\ Exists(Here, i) /\ i \in File
  /\ \E e \in Existing(i) :
       /\ e.id \in File
       /\ MergeContent(i, e.id)
       /\ Store(RemoveID(Here, e.id, [ts |-> now, id |-> Here.add[e.id].id]))
  /\ UNCHANGED seen

\* A file where a directory was seen is renamed...
RenameVisited(i) ==
  /\ Resolving(i)
  /\ Exists(Here, i) /\ i \in File
  /\ \E e \in Existing(i) : e.id \notin File
  /\ Store([Here EXCEPT !.add[i].name = Tagged(i)])
  /\ See(i, Tagged(i))
  /\ UNCHANGED contentVars

\* ... and so is the file that was seen where a directory is.
RenameSeen(i) ==
  /\ Resolving(i)
  /\ Exists(Here, i) /\ i \notin File
  /\ \E e \in Existing(i) : e.id \in File /\ Store([Here EXCEPT !.add[e.id].name = Tagged(e.id)])
  /\ See(i, Here.add[i].name)
  /\ UNCHANGED contentVars

Resolve(i) == \/ ResolveGone(i) \/ ResolveNone(i) \/ ResolveFiles(i)
              \/ RenameVisited(i) \/ RenameSeen(i)

-----------------------------------------------------------------------------
Next ==
  \/ \E p \in Replica, i \in Id : Create(p, i) \/ RemoveNode(p, i)
  \/ \E p \in Replica, f \in File, i \in Index : AppendLine(p, f, i) \/ RemoveLine(p, f, i)
  \/ \E p, q \in Replica : MergeFrom(p, q)
  \/ SyncAll \/ SyncPair
  \/ \E p \in Replica, policy \in Policy : ReattachOrphans(p, policy)
  \/ \E p \in Replica : ResolveNameConflicts(p)
  \/ \E i \in todo : Reattach(i) \/ Resolve(i)
  \/ Return

Spec == Init /\ [][Next]_vars

-----------------------------------------------------------------------------
(***************************************************************************)
(* Properties                                                              *)
(***************************************************************************)

\* The lines PrintContent shows: those later than their tombstone.
Shown(f) == {i \in Index : lines[f][i].ts > deleted[f][i].ts}

\* The edits of one kind at an index of a file.
EditsOf(f, kind, i) == {e \in edits[f] : e.kind = kind /\ e.index = i}

\* However edits and merges of two files under one name are interleaved, a
\* line shown is the last one written at its index, and it is shown exactly
\* when no deletion is as late (AppendLine, RemoveLine, FileCRDT.Merge).
LineIsLatest ==
  \A f \in File, i \in Index :
    LET alive == \E e \in EditsOf(f, "line", i) :
                    \A d \in EditsOf(f, "tombstone", i) : d.ts < e.ts
    IN  /\ i \in Shown(f) <=> alive
        /\ alive => \A e \in EditsOf(f, "line", i) : ~Later(e, lines[f][i])

\* When SyncAll returns the replicas show the same nodes (Merge, Exists), as long
\* as nobody uses "reappear": Merge never takes over a later stamp of a node.
SyncedAgree ==
  running.what = "sync" /\ todo = {} /\ "reappear" \notin scenario.does =>
    \A p, q \in Replica : Lookup(replica[p]) = Lookup(replica[q])

\* The comment of VersionVector.Dominates ("determine if one dominates (is
\* causally equal to or ahead of) the other", mainCausal.go:164): a replica
\* whose vector dominates another's has everything the other has stored.  That
\* holds as long as no two calls see one time, and nobody resolves conflicts or
\* uses "skip" or "reappear": these stamp what one replica does with the
\* ReplicaID of another.
DominatesIsAhead ==
  ~scenario.ties /\ scenario.does \cap {"resolve", "skip", "reappear"} = {} =>
    \A p, q \in Replica :
      Dominates(replica[p].clock, replica[q].clock) =>
        \A i \in Id : /\ ~Later(replica[q].add[i], replica[p].add[i])
                      /\ ~Later(replica[q].remove[i], replica[p].remove[i])

\* When ResolveNameConflicts returns, two nodes that show in one directory under
\* one name are both directories ("Keep one of the files only", "Case of one
\* file, one dir, rename the file", mainCausal.go:395 and 408), unless a third one was given that name:
\* of three, a file that was removed or renamed can be mistaken for the one
\* that shows.
NamesResolved ==
  running.what = "resolve" /\ todo = {} =>
    \A i, j \in Lookup(Here) :
      /\ i # j /\ (i \in File \/ j \in File)
      /\ Here.add[i].place = Here.add[j].place /\ Here.add[i].name = Here.add[j].name
      => \E k \in Added(Here) \ {i, j} :
           Here.add[k].place = Here.add[i].place /\ NameOf[k] = NameOf[i]

\* ReattachOrphans with the policy "reappear", in whatever order it visits the
\* nodes, hides no node that was shown, and when it returns every node whose
\* directory the replica ever had is in a directory that exists.
Housed ==
  [][running.what = "reattach" /\ running.policy = "reappear" =>
       LET r == replica'[running.at] IN
         /\ Lookup(Here) \subseteq Lookup(r)
         /\ todo' = {} => \A i \in Added(r) : Has(r, r.add[i].place) => Exists(r, r.add[i].place)]_vars
=============================================================================
