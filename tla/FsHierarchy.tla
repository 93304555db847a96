---------------------------- MODULE FsHierarchy ----------------------------
(***************************************************************************)
(* The hierarchy and naming layers of the replicated file system (fs.go):  *)
(* FinalTree = ReattachOrphans; BuildTree; ResolveNameConflicts, as the    *)
(* command "final" runs them on whatever the replication layer merged.     *)
(*                                                                         *)
(* A concurrent "remove" of a directory and "add" below it leaves nodes    *)
(* whose directory does not exist.  ReattachOrphans goes over AddSet, in   *)
(* the order of a Go map (any), changing it and RemoveSet as it goes, so   *)
(* what it does to a node may depend on which nodes came before.           *)
(*                                                                         *)
(* The program of the MAN paper (FS/MAN_Paper) has the same text and ends  *)
(* with FinalTree, too.                                                    *)
(*                                                                         *)
(* "final" prints the tree and exits: what ResolveNameConflicts writes     *)
(* back to the two sets is read by nobody and is left out.                 *)
(***************************************************************************)
EXTENDS Naturals

CONSTANTS Key,        \* the NodeKeys
          Root,       \* the key of "/"
          Above,      \* the parent of "/": ParentPath = ""
          ParentOf,   \* the key of a node's directory, Above for Root
          IsDir,      \* IsDir[k]: whether the key's type is Dir
          BaseName,   \* the last component of the key's path
          Policy,     \* the policies users ask for
          Created,    \* the timestamp the nodes were created with
          Tombstone   \* the timestamps tombstones can have; 0: no tombstone

ASSUME KeyAssumption ==
  /\ Root \in Key /\ Above \notin Key
  /\ ParentOf \in [Key -> Key \cup {Above}]
  /\ \A k \in Key : ParentOf[k] = Above <=> k = Root
  /\ \A k \in Key \ {Root} : IsDir[ParentOf[k]]
  /\ IsDir \in [Key -> BOOLEAN]
\* Paths are finite: going up from any node ends at "/".
ASSUME PathAssumption ==
  \A S \in SUBSET (Key \ {Root}) : S # {} => \E k \in S : ParentOf[k] \notin S
ASSUME PolicyAssumption == Policy \subseteq {"root", "skip", "compact", "reappear"}
ASSUME TimeAssumption == Created \in Nat \ {0} /\ Tombstone \subseteq Nat

VARIABLES
  policy,     \* the argument of "final"
  created,    \* created[k]: Created of the node in AddSet, 0 if there is none
  parent,     \* parent[k]: the key of its ParentPath
  removed,    \* removed[k]: the timestamp in RemoveSet, 0 if there is none
  before,     \* history: created and removed when "final" was typed
  phase,      \* "reattach", "name", "done"
  todo,       \* nodes the running loop has yet to visit
  walk,       \* compact: the orphan whose ancestors are being walked and the
              \* directory reached (parentPath)
  top,        \* the tree's root node, Above if the tree is empty
  nameOf,     \* nameOf[k]: Node.Name in the tree, with its number of suffixes
  nameMap     \* nameMap[d]: the child last seen under a name, per directory

vars == <<policy, created, parent, removed, before, phase, todo, walk, top, nameOf, nameMap>>
setVars == <<created, parent, removed>>
treeVars == <<top, nameOf, nameMap>>

NotWalking == [orphan |-> Above, at |-> Above]

\* A node's name, and how often "[ReplicaID]" was appended to it.
Name == [base : {BaseName[k] : k \in Key}, suffixes : Nat]

ExistsIn(c, r, k) == k # Above /\ c[k] > r[k]
Exists(k) == ExistsIn(created, removed, k)
Visible == {k \in Key : Exists(k)}
Known(k) == k # Above /\ created[k] > 0

TypeOK ==
  /\ policy \in Policy
  /\ created \in [Key -> Nat] /\ removed \in [Key -> Nat]
  /\ parent \in [Key -> Key \cup {Above}]
  /\ phase \in {"reattach", "name", "done"}
  /\ todo \subseteq Key
  /\ walk \in [orphan : Key \cup {Above}, at : Key \cup {Above}]
  /\ top \in Key \cup {Above}
  /\ nameOf \in [Key -> Name]
  /\ nameMap \subseteq [dir : Key, name : Name, child : Key]

\* Any combination of added, removed and never received nodes: merges bring
\* the entries of a directory and of what it contains in any order.  Every
\* replica has added "/".
Init ==
  /\ policy \in Policy
  /\ created \in [Key -> {0, Created}] /\ created[Root] = Created
  /\ removed \in [Key -> Tombstone]
  /\ parent = ParentOf
  /\ before = [created |-> created, removed |-> removed]
  /\ phase = "reattach"
  /\ todo = {k \in Key : created[k] > 0}
  /\ walk = NotWalking
  /\ top = Above
  /\ nameOf = [k \in Key |-> [base |-> BaseName[k], suffixes |-> 0]]
  /\ nameMap = {}

-----------------------------------------------------------------------------
\* The next node of AddSet, if its directory does not exist.
Orphan(k) == parent[k] # Above /\ ~Exists(parent[k])

Visiting(k) == phase = "reattach" /\ walk = NotWalking /\ k \in todo

\* A node whose directory exists, or "/": nothing to do.
KeepPlace(k) ==
  /\ Visiting(k) /\ ~Orphan(k)
  /\ todo' = todo \ {k}
  /\ UNCHANGED <<policy, setVars, before, phase, walk, treeVars>>

Move(k, p) == parent' = [parent EXCEPT ![k] = p]

ReattachRoot_OneLevelUp(k) ==
  /\ policy = "root"
  /\ Visiting(k) /\ Orphan(k)
  /\ Move(k, parent[parent[k]])
  /\ todo' = todo \ {k}
  /\ UNCHANGED <<policy, created, removed, before, phase, walk, treeVars>>

\* Policy "root": the orphan moves to "/".
ReattachRoot(k) ==
  /\ policy = "root"
  /\ Visiting(k) /\ Orphan(k)
  /\ Move(k, Root)
  /\ todo' = todo \ {k}
  /\ UNCHANGED <<policy, created, removed, before, phase, walk, treeVars>>

\* NodeSetCRDT.Remove
Remove(k, ts) == removed' = [removed EXCEPT ![k] = IF ts > @ THEN ts ELSE @]

\* Policy "skip": the orphan is removed just after its creation.
ReattachSkip(k) ==
  /\ policy = "skip"
  /\ Visiting(k) /\ Orphan(k)
  /\ Remove(k, created[k] + 1)
  /\ todo' = todo \ {k}
  /\ UNCHANGED <<policy, created, parent, before, phase, walk, treeVars>>

\* Policy "compact": look for the closest existing ancestor, from the parent.
StartWalk(k) ==
  /\ policy = "compact"
  /\ Visiting(k) /\ Orphan(k)
  /\ walk' = [orphan |-> k, at |-> parent[k]]
  /\ UNCHANGED <<policy, setVars, before, phase, todo, treeVars>>

Walking == walk # NotWalking /\ walk.at # Above /\ ~Exists(walk.at)

\* One turn of the loop.  It looks up parentKey, which stays the orphan's
\* parent, not the directory reached.
WalkUp ==
  LET parentKey == parent[walk.orphan]
  IN  /\ Walking /\ Known(parentKey)
      /\ walk' = [walk EXCEPT !.at = parent[parentKey]]
      /\ UNCHANGED <<policy, setVars, before, phase, todo, treeVars>>

EndWalk_NoBreak ==
  /\ walk # NotWalking
  /\ ~Walking
  /\ Move(walk.orphan, IF walk.at = Above THEN Root ELSE walk.at)
  /\ todo' = todo \ {walk.orphan}
  /\ walk' = NotWalking
  /\ UNCHANGED <<policy, created, removed, before, phase, treeVars>>

\* The loop ends at an existing directory, above "/", or (break) because the
\* parent was never received; the orphan moves there.
EndWalk ==
  /\ walk # NotWalking
  /\ Walking => ~Known(parent[walk.orphan])
  /\ Move(walk.orphan, IF walk.at = Above THEN Root ELSE walk.at)
  /\ todo' = todo \ {walk.orphan}
  /\ walk' = NotWalking
  /\ UNCHANGED <<policy, created, removed, before, phase, treeVars>>

\* Policy "reappear": the directory, if it was ever received, is added again
\* just after its removal.  Removed orphans bring theirs back too.
ReattachReappear(k) ==
  LET p == parent[k]
  IN  /\ policy = "reappear"
      /\ Visiting(k) /\ Orphan(k)
      /\ created' = [created EXCEPT ![p] = IF Known(p) THEN removed[p] + 1 ELSE @]
      /\ todo' = todo \ {k}
      /\ UNCHANGED <<policy, parent, removed, before, phase, walk, treeVars>>

ReattachOrphans ==
  \/ \E k \in todo : \/ KeepPlace(k)
                     \/ ReattachRoot(k)
                     \/ ReattachSkip(k)
                     \/ StartWalk(k)
                     \/ ReattachReappear(k)
  \/ WalkUp
  \/ EndWalk

-----------------------------------------------------------------------------
\* A visible node is a child of its directory if that is visible as well.
Child(k) == k \in Visible /\ Exists(parent[k])

\* Otherwise it can be taken for the root of the tree.
RootCandidates == {k \in Visible : ~Child(k) /\ (k = Root \/ parent[k] = Root)}

\* BuildTree, once the orphans are reattached: the last candidate visited is
\* the root.
BuildTree ==
  /\ phase = "reattach" /\ todo = {}
  /\ phase' = "name"
  /\ IF RootCandidates = {} THEN top' = Above ELSE top' \in RootCandidates
  /\ todo' = {k \in Key : Child(k)}
  /\ UNCHANGED <<policy, setVars, before, walk, nameOf, nameMap>>

\* The file gets a suffix when it meets a directory of its name.
Rename(f) == nameOf' = [nameOf EXCEPT ![f].suffixes = @ + 1]

ResolveNameConflicts_LaterOnly(k) ==
  LET dir == parent[k]
      existing == {e \in nameMap : e.dir = dir /\ e.name = nameOf[k]}
  IN  /\ phase = "name" /\ k \in todo
      /\ IF \E e \in existing : IsDir[e.child] /\ ~IsDir[k] THEN Rename(k) ELSE UNCHANGED nameOf
      /\ nameMap' = {e \in nameMap : ~(e.dir = dir /\ e.name = nameOf'[k])}
                      \cup {[dir |-> dir, name |-> nameOf'[k], child |-> k]}
      /\ todo' = todo \ {k}
      /\ UNCHANGED <<policy, setVars, before, phase, walk, top>>

\* ResolveNameConflicts, one child: two files, or two directories, stay as they
\* are in the tree.  Directories do not share a nameMap, so the order in which
\* the recursion takes them does not matter.
ResolveNameConflicts(k) ==
  LET dir == parent[k]
      existing == {e \in nameMap : e.dir = dir /\ e.name = nameOf[k]}
  IN  /\ phase = "name" /\ k \in todo
      /\ \/ /\ \A e \in existing : IsDir[e.child] = IsDir[k]
            /\ UNCHANGED nameOf
         \/ /\ ~IsDir[k]
            /\ \E e \in existing : IsDir[e.child]
            /\ Rename(k)
         \/ /\ IsDir[k]
            /\ \E e \in existing : ~IsDir[e.child] /\ Rename(e.child)
      /\ nameMap' = {e \in nameMap : ~(e.dir = dir /\ e.name = nameOf'[k])}
                      \cup {[dir |-> dir, name |-> nameOf'[k], child |-> k]}
      /\ todo' = todo \ {k}
      /\ UNCHANGED <<policy, setVars, before, phase, walk, top>>

\* PrintTree, and exit.
Finish ==
  /\ phase = "name" /\ todo = {}
  /\ phase' = "done"
  /\ UNCHANGED <<policy, setVars, before, todo, walk, treeVars>>

Next ==
  \/ ReattachOrphans
  \/ BuildTree
  \/ \E k \in todo : ResolveNameConflicts(k)
  \/ Finish

\* A loop of one goroutine: it takes its next step as long as there is one.
Spec == Init /\ [][Next]_vars /\ WF_vars(Next)

-----------------------------------------------------------------------------
(***************************************************************************)
(* Properties                                                              *)
(***************************************************************************)

\* The directories above a node, nearest first, as the users created them.
Ancestors[k \in Key] == IF k = Root THEN {} ELSE {ParentOf[k]} \cup Ancestors[ParentOf[k]]

\* The directories above a node in the tree, nearest first.
Chain[k \in Key] == IF k = top \/ ~Child(k) THEN {} ELSE {parent[k]} \cup Chain[parent[k]]

\* The nodes printed: those with an unbroken chain of directories to the root.
Shown == {k \in Visible : top # Above /\ (k = top \/ top \in Chain[k])}

\* What the users would see without the hierarchy layer.
WasVisible(k) == ExistsIn(before.created, before.removed, k)
WasKnown(k) == before.created[k] > 0

\* "skip" shows the nodes all of whose directories exist, and no other.
SkipShown == {k \in Key : WasVisible(k) /\ \A a \in Ancestors[k] : WasVisible(a)}

\* "reappear" also shows the directories that have ever contained something.
Reappearing(d) == WasVisible(d) \/ (WasKnown(d) /\ \E k \in Key : ParentOf[k] = d /\ WasKnown(k))
ReappearShown == {k \in Key : Reappearing(k) /\ \A a \in Ancestors[k] : Reappearing(a)}

\* Where "compact" puts a node: under the closest directory that exists, if
\* no directory in between is unknown.
CompactParent(k) ==
  CHOOSE a \in Ancestors[k] : WasVisible(a) /\ \A b \in Ancestors[k] : WasVisible(b) => b \in Ancestors[a] \cup {a}

\* What "root" and "reappear" make of the two sets, whatever the order in which
\* the map is visited: "root" moves the nodes whose directory does not exist, and
\* those only; "reappear" moves none and brings back the directories that have
\* ever contained something, and those only.
MapOrderIsIrrelevant ==
  phase # "reattach" =>
    /\ policy = "root" => \A k \in Key :
         /\ Exists(k) <=> WasVisible(k)
         /\ WasKnown(k) /\ k # Root =>
              parent[k] = IF WasVisible(ParentOf[k]) THEN ParentOf[k] ELSE Root
    /\ policy = "reappear" => \A k \in Key :
         /\ Exists(k) <=> Reappearing(k)
         /\ parent[k] = ParentOf[k]

\* The tree depends on the policy and on what was merged, not on the order in
\* which the map is visited while it is being changed: each policy shows what
\* its own rule says, every node in the place the rule gives it.
TreeFollowsPolicy ==
  /\ MapOrderIsIrrelevant
  /\ phase = "done" =>
       /\ policy = "skip" => Shown = SkipShown
       /\ policy = "reappear" => Shown = ReappearShown
       /\ policy \in {"skip", "reappear"} => parent = ParentOf
       /\ policy = "root" /\ WasVisible(Root) =>
            /\ Shown = {k \in Key : WasVisible(k)}
            /\ \A k \in Shown \ {Root} :
                 parent[k] = IF WasVisible(ParentOf[k]) THEN ParentOf[k] ELSE Root
       /\ policy = "compact" /\ WasVisible(Root) =>
            \A k \in Key \ {Root} :
              WasVisible(k) /\ (\A a \in Ancestors[k] : WasKnown(a)) =>
                k \in Shown /\ parent[k] = CompactParent(k)

\* "File vs Dir -> Rename file" (fs.go:373), whichever of the two comes first: a
\* directory and a file in one directory keep one name only if another file of
\* that name gave way instead.  (nameMap keeps one child per name: of two files
\* met before the directory only the second is renamed.)
FileGivesWay ==
  phase = "done" =>
    \A k, l \in Key :
      /\ Child(k) /\ Child(l) /\ parent[k] = parent[l]
      /\ ~IsDir[k] /\ IsDir[l] /\ nameOf[k] = nameOf[l]
      => \E j \in Key :
           /\ Child(j) /\ parent[j] = parent[k]
           /\ ~IsDir[j] /\ BaseName[j] = BaseName[k] /\ nameOf[j].suffixes = 1

\* The command comes to an end.  With "compact" that needs that no directory
\* is missing together with the one above it: the walk looks up the first of
\* the two for ever ("Walk up ancestors until we find an existing one",
\* fs.go:268).
GapsAreShort ==
  \A k \in Key \ {Root} :
    LET dir == ParentOf[k]
    IN  /\ WasKnown(k) /\ WasKnown(dir)
        /\ ~WasVisible(dir) /\ dir # Root
        => WasVisible(ParentOf[dir])

FinalEnds == (policy = "compact" => GapsAreShort) ~> phase = "done"
=============================================================================
