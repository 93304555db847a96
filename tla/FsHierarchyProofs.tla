-------------------------- MODULE FsHierarchyProofs --------------------------
(***************************************************************************)
(* Proofs about FsHierarchy: for any tree of keys, any of them added or    *)
(* removed, any order of the maps.                                         *)
(***************************************************************************)
EXTENDS FsHierarchy, TLAPS

\* What "final" found.
Found ==
  /\ before.created \in [Key -> Nat] /\ before.removed \in [Key -> Nat]
  /\ before.created[Root] > 0
  /\ phase = "reattach" => \A k \in todo : WasKnown(k)

\* Only "compact" walks, and only to reattach.
WalksForCompact ==
  walk # NotWalking => policy = "compact" /\ phase = "reattach" /\ walk.orphan \in todo

\* The loop over AddSet has been at node k.
Visited(k) == WasKnown(k) /\ ~(phase = "reattach" /\ k \in todo)

\* "root": nodes are where they were created until they are visited.
RootRule ==
  policy = "root" =>
    /\ created = before.created /\ removed = before.removed
    /\ \A k \in Key : parent[k] = IF /\ Visited(k) /\ k # Root
                                     /\ ~WasVisible(ParentOf[k])
                                  THEN Root ELSE ParentOf[k]

\* "reappear": a directory that is not as it was contains something, and is there.
ReappearRule ==
  policy = "reappear" =>
    /\ parent = ParentOf /\ removed = before.removed
    /\ \A k \in Key :
         \/ created[k] = before.created[k]
         \/ /\ created[k] = removed[k] + 1 /\ WasKnown(k)
            /\ \E c \in Key : ParentOf[c] = k /\ WasKnown(c)
    /\ \A c \in Key : Visited(c) /\ c # Root /\ WasKnown(ParentOf[c]) => Exists(ParentOf[c])

\* "skip": a node that is shown in the end is never removed; one whose directory
\* was not there is.
SkipRule ==
  policy = "skip" =>
    /\ created = before.created /\ parent = ParentOf
    /\ \A k \in Key : Exists(k) => WasVisible(k)
    /\ \A k \in SkipShown : Exists(k)
    /\ \A k \in Key : Visited(k) /\ k # Root /\ ~WasVisible(ParentOf[k]) => ~Exists(k)

\* All directories above k were received, and "/" is there.
Reached(k) == WasVisible(Root) /\ \A a \in Ancestors[k] : WasKnown(a)

\* "compact": nodes only move up, and those visited are where they belong.
CompactRule ==
  policy = "compact" =>
    /\ created = before.created /\ removed = before.removed
    /\ parent[Root] = Above
    /\ \A k \in Key \ {Root} :
         /\ parent[k] \in Ancestors[k]
         /\ ~Visited(k) => parent[k] = ParentOf[k]
         /\ Visited(k) /\ Reached(k) => parent[k] = CompactParent(k)

\* The walk has not left the orphan's directory, or has reached where that is.
WalkRule ==
  walk # NotWalking =>
    LET k == walk.orphan
    IN  /\ k # Root /\ ~Exists(ParentOf[k])
        /\ walk.at \in {ParentOf[k], parent[ParentOf[k]]}

\* BuildTree takes one of the candidates for the root of the tree.
TopRule ==
  phase # "reattach" =>
    IF RootCandidates = {} THEN top = Above ELSE top \in RootCandidates

\* Before names are resolved.
Unnamed ==
  phase = "reattach" =>
    nameMap = {} /\ nameOf = [k \in Key |-> [base |-> BaseName[k], suffixes |-> 0]]

\* The children that have been through ResolveNameConflicts.
Named(k) == Child(k) /\ k \notin todo
NamedAlike(k, l) == Named(k) /\ Named(l) /\ parent[k] = parent[l] /\ nameOf[k] = nameOf[l]

\* Files that were named get one suffix at most, directories none.
Suffixes ==
  \A k \in Key :
    /\ nameOf[k].base = BaseName[k]
    /\ nameOf[k].suffixes \in {0, 1}
    /\ IsDir[k] \/ ~Named(k) => nameOf[k].suffixes = 0

\* nameMap has one named child per directory and name, and has one for each name
\* without a suffix.
OnePerName ==
  /\ \A e \in nameMap : Named(e.child) /\ e.dir = parent[e.child] /\ e.name = nameOf[e.child]
  /\ \A d, e \in nameMap : d.dir = e.dir /\ d.name = e.name => d = e
  /\ \A k \in Key : Named(k) /\ nameOf[k].suffixes = 0 =>
       \E e \in nameMap : e.dir = parent[k] /\ e.name = nameOf[k]

\* If a directory has the name, the child in nameMap is one.
DirectoryOnTop ==
  \A l \in Key, e \in nameMap :
    Named(l) /\ IsDir[l] /\ e.dir = parent[l] /\ e.name = nameOf[l] => IsDir[e.child]

OtherGaveWay ==
  \A k, l \in Key : NamedAlike(k, l) /\ ~IsDir[k] /\ IsDir[l] =>
    \E j \in Key : /\ Named(j) /\ parent[j] = parent[k]
                   /\ ~IsDir[j] /\ BaseName[j] = BaseName[k] /\ nameOf[j].suffixes = 1

Naming ==
  phase # "reattach" =>
    /\ \A k \in todo : Child(k)
    /\ Suffixes /\ OnePerName /\ DirectoryOnTop /\ OtherGaveWay
    /\ phase = "done" => todo = {}

HierarchyInv ==
  /\ TypeOK /\ Found /\ WalksForCompact
  /\ RootRule /\ ReappearRule /\ SkipRule /\ CompactRule /\ WalkRule /\ TopRule
  /\ Unnamed /\ Naming

-----------------------------------------------------------------------------
(* Types.                                                                  *)

LEMMA Keys ==
  /\ Root \in Key /\ Above \notin Key /\ Created \in Nat \ {0} /\ Tombstone \subseteq Nat
  /\ ParentOf \in [Key -> Key \cup {Above}]
  /\ ParentOf[Root] = Above
  /\ \A k \in Key : k # Root => ParentOf[k] \in Key
BY KeyAssumption, TimeAssumption

\* The suffix is all that renaming changes, and only of the node renamed.
LEMMA RenameFacts ==
  ASSUME nameOf \in [Key -> Name], NEW f \in Key, Rename(f)
  PROVE  /\ nameOf' \in [Key -> Name]
         /\ nameOf'[f] = [nameOf[f] EXCEPT !.suffixes = @ + 1]
         /\ nameOf'[f].base = nameOf[f].base
         /\ nameOf'[f].suffixes = nameOf[f].suffixes + 1
         /\ \A k \in Key : k # f => nameOf'[k] = nameOf[k]
<1> DEFINE n == [nameOf[f] EXCEPT !.suffixes = @ + 1]
<1>1. nameOf[f] \in Name
  OBVIOUS
<1>2. n \in Name /\ n.base = nameOf[f].base /\ n.suffixes = nameOf[f].suffixes + 1
  BY <1>1 DEF Name
<1>3. nameOf' = [nameOf EXCEPT ![f] = n]
  BY DEF Rename
<1> HIDE DEF n
<1>4. nameOf' \in [Key -> Name] /\ nameOf'[f] = n /\ \A k \in Key : k # f => nameOf'[k] = nameOf[k]
  BY <1>2, <1>3
<1>5. QED BY <1>2, <1>4 DEF n

LEMMA TypesKept ==
  ASSUME TypeOK, Found, WalksForCompact, Naming, [Next]_vars
  PROVE  TypeOK' /\ WalksForCompact'
<1> SUFFICES TypeOK'
  <2>1. ASSUME NEW k \in todo, StartWalk(k) PROVE WalksForCompact'
    BY <2>1 DEF StartWalk, Visiting, WalksForCompact, TypeOK
  <2>2. ASSUME walk' = walk, walk = NotWalking PROVE WalksForCompact'
    BY <2>2 DEF WalksForCompact, NotWalking
  <2>3. CASE EndWalk
    BY <2>3 DEF EndWalk, WalksForCompact, NotWalking
  <2>4. CASE WalkUp
    <3>1. walk'.orphan = walk.orphan /\ walk # NotWalking /\ UNCHANGED <<policy, phase, todo>>
      BY <2>4 DEF WalkUp, Walking, TypeOK
    <3>2. QED BY <3>1 DEF WalksForCompact
  <2>5. CASE BuildTree \/ Finish \/ \E k \in todo : ResolveNameConflicts(k)
    <3>1. walk = NotWalking /\ walk' = walk
      BY <2>5 DEF BuildTree, Finish, ResolveNameConflicts, WalksForCompact
    <3>2. QED BY <2>2, <3>1
  <2>6. CASE UNCHANGED vars
    BY <2>6 DEF vars, WalksForCompact, NotWalking
  <2>7. ASSUME NEW k \in todo, KeepPlace(k) \/ ReattachRoot(k) \/ ReattachSkip(k) \/ ReattachReappear(k)
        PROVE  WalksForCompact'
    BY <2>2, <2>7 DEF KeepPlace, ReattachRoot, ReattachSkip, ReattachReappear, Visiting
  <2>8. QED
    BY <2>1, <2>3, <2>4, <2>5, <2>6, <2>7 DEF Next, ReattachOrphans
<1> USE Keys
<1>1. ASSUME NEW k \in todo,
             KeepPlace(k) \/ ReattachRoot(k) \/ ReattachSkip(k) \/ StartWalk(k) \/ ReattachReappear(k)
      PROVE  TypeOK'
  <2>1. k \in Key
    BY <1>1 DEF TypeOK
  <2>2. CASE KeepPlace(k)
    BY <2>2 DEF KeepPlace, TypeOK, setVars, treeVars
  <2>3. CASE ReattachRoot(k)
    BY <2>3 DEF ReattachRoot, Move, TypeOK, treeVars
  <2>4. CASE ReattachSkip(k)
    <3>1. removed' \in [Key -> Nat]
      BY <2>1, <2>4 DEF ReattachSkip, Remove, TypeOK
    <3>2. QED BY <2>4, <3>1 DEF ReattachSkip, TypeOK, treeVars
  <2>5. CASE StartWalk(k)
    BY <2>1, <2>5 DEF StartWalk, TypeOK, setVars, treeVars
  <2>6. CASE ReattachReappear(k)
    <3>1. parent[k] \in Key
      BY <2>1, <2>6 DEF ReattachReappear, Orphan, TypeOK
    <3>2. created' \in [Key -> Nat]
      BY <2>6, <3>1 DEF ReattachReappear, TypeOK
    <3>3. QED BY <2>6, <3>2 DEF ReattachReappear, TypeOK, treeVars
  <2>7. QED BY <1>1, <2>2, <2>3, <2>4, <2>5, <2>6
<1>2. CASE WalkUp
  <2>1. walk.orphan \in Key
    BY <1>2 DEF WalkUp, Walking, WalksForCompact, TypeOK
  <2>2. parent[parent[walk.orphan]] \in Key \cup {Above}
    BY <1>2, <2>1 DEF WalkUp, TypeOK, Known
  <2>3. QED BY <1>2, <2>2 DEF WalkUp, TypeOK, setVars, treeVars
<1>3. CASE EndWalk
  BY <1>3 DEF EndWalk, Move, NotWalking, TypeOK, treeVars
<1>4. CASE BuildTree
  BY <1>4 DEF BuildTree, RootCandidates, Visible, TypeOK, setVars
<1>5. ASSUME NEW k \in todo, ResolveNameConflicts(k) PROVE TypeOK'
  <2>1. k \in Key
    BY <1>5 DEF TypeOK
  <2>2. nameOf' \in [Key -> Name]
    <3>1. ASSUME NEW f \in Key, Rename(f) PROVE nameOf' \in [Key -> Name]
      BY <3>1, RenameFacts DEF TypeOK
    <3>2. \A e \in nameMap : e.child \in Key
      BY DEF TypeOK
    <3>3. UNCHANGED nameOf \/ \E f \in Key : Rename(f)
      BY <1>5, <2>1, <3>2 DEF ResolveNameConflicts
    <3>4. QED BY <3>1, <3>3 DEF TypeOK
  <2>3. /\ nameMap' = {e \in nameMap : ~(e.dir = parent[k] /\ e.name = nameOf'[k])}
                       \cup {[dir |-> parent[k], name |-> nameOf'[k], child |-> k]}
        /\ todo' = todo \ {k}
        /\ UNCHANGED <<policy, setVars, before, phase, walk, top>>
    BY <1>5 DEF ResolveNameConflicts
  <2>4. parent[k] \in Key
    <3>1. Child(k)
      BY <1>5 DEF ResolveNameConflicts, Naming
    <3>2. QED BY <2>1, <3>1 DEF Child, Exists, ExistsIn, TypeOK
  <2>5. nameMap' \subseteq [dir : Key, name : Name, child : Key]
    BY <2>1, <2>2, <2>3, <2>4 DEF TypeOK
  <2>6. QED BY <2>2, <2>3, <2>5 DEF TypeOK, setVars
<1>6. CASE Finish
  BY <1>6 DEF Finish, TypeOK, setVars, treeVars
<1>7. CASE UNCHANGED vars
  BY <1>7 DEF vars, TypeOK
<1>8. QED
  BY <1>1, <1>2, <1>3, <1>4, <1>5, <1>6, <1>7 DEF Next, ReattachOrphans

-----------------------------------------------------------------------------
(* Going up a tree.                                                        *)

\* What can be reached from x going up to a key of stop.
Reach(stop, up, x) ==
  {a \in Key : \A S \in SUBSET Key :
     x \in S /\ (\A y \in S \ stop : up[y] \in S) => a \in S}

LEMMA ReachFacts ==
  ASSUME NEW stop, NEW up, \A k \in Key \ stop : up[k] \in Key, NEW x \in Key
  PROVE  Reach(stop, up, x) = IF x \in stop THEN {x} ELSE {x} \cup Reach(stop, up, up[x])
<1> DEFINE R(y) == Reach(stop, up, y)
           Closed(S) == \A y \in S \ stop : up[y] \in S
<1>1. ASSUME NEW S \in SUBSET Key, Closed(S), NEW y \in S PROVE R(y) \subseteq S
  BY <1>1 DEF Reach
<1>2. ASSUME NEW y \in Key PROVE R(y) \in SUBSET Key /\ y \in R(y) /\ Closed(R(y))
  BY <1>2 DEF Reach
<1>3. CASE x \in stop
  <2>1. {x} \in SUBSET Key /\ Closed({x})
    BY <1>3
  <2> HIDE DEF R, Closed
  <2>2. R(x) \subseteq {x} /\ x \in R(x)
    BY <1>1, <1>2, <2>1
  <2>3. R(x) = {x}
    BY <2>2
  <2>4. QED BY <1>3, <2>3 DEF R
<1>4. CASE x \notin stop
  <2> DEFINE T == {x} \cup R(up[x])
  <2>1. up[x] \in Key
    BY <1>4
  <2>2. T \in SUBSET Key /\ Closed(T)
    <3>1. R(up[x]) \in SUBSET Key /\ up[x] \in R(up[x]) /\ Closed(R(up[x]))
      BY <1>2, <2>1
    <3> HIDE DEF R
    <3>2. QED BY <3>1
  <2>3. x \in R(x) /\ R(x) \in SUBSET Key /\ Closed(R(x))
    BY <1>2
  <2>4. up[x] \in R(x)
    BY <1>4, <2>3
  <2> HIDE DEF R, Closed
  <2>5. R(x) \subseteq T
    BY <1>1, <2>2
  <2>6. R(up[x]) \subseteq R(x)
    BY <1>1, <2>3, <2>4
  <2>7. R(x) = T
    BY <2>3, <2>5, <2>6
  <2>8. QED BY <1>4, <2>7 DEF R
<1>5. QED BY <1>3, <1>4

\* f climbs as Ancestors and Chain do; there is such a function.
Climbs(f, stop, up) == f = [k \in Key |-> IF k \in stop THEN {} ELSE {up[k]} \cup f[up[k]]]

LEMMA ClimbDefined ==
  ASSUME NEW stop, NEW up, \A k \in Key \ stop : up[k] \in Key
  PROVE  \E f : Climbs(f, stop, up)
<1> DEFINE f == [k \in Key |-> IF k \in stop THEN {} ELSE Reach(stop, up, up[k])]
<1>1. ASSUME NEW k \in Key \ stop PROVE Reach(stop, up, up[k]) = {up[k]} \cup f[up[k]]
  <2>1. up[k] \in Key
    BY <1>1
  <2>2. f[up[k]] = IF up[k] \in stop THEN {} ELSE Reach(stop, up, up[up[k]])
    BY <2>1
  <2>3. Reach(stop, up, up[k]) =
          IF up[k] \in stop THEN {up[k]} ELSE {up[k]} \cup Reach(stop, up, up[up[k]])
    BY <2>1, ReachFacts
  <2> HIDE DEF f
  <2>4. QED BY <2>2, <2>3
<1>2. f = [k \in Key |-> IF k \in stop THEN {} ELSE {up[k]} \cup f[up[k]]]
  <2>1. \A k \in Key : f[k] = IF k \in stop THEN {} ELSE {up[k]} \cup f[up[k]]
    BY <1>1
  <2>2. f = [k \in Key |-> f[k]]
    OBVIOUS
  <2> HIDE DEF f
  <2>3. QED BY <2>1, <2>2
<1> HIDE DEF f
<1>3. QED BY <1>2 DEF Climbs

LEMMA AncestorsOf ==
  \A k \in Key : Ancestors[k] = IF k = Root THEN {} ELSE {ParentOf[k]} \cup Ancestors[ParentOf[k]]
<1> DEFINE Rec(h) == h = [k \in Key |-> IF k = Root THEN {} ELSE {ParentOf[k]} \cup h[ParentOf[k]]]
<1>1. \E h : Rec(h)
  <2> DEFINE stop == {Root}
  <2>1. \A k \in Key \ stop : ParentOf[k] \in Key
    BY Keys
  <2> HIDE DEF stop
  <2>2. \E h : Climbs(h, stop, ParentOf)
    BY <2>1, ClimbDefined
  <2>3. PICK h : Climbs(h, stop, ParentOf)
    BY <2>2
  <2>4. Rec(h)
    BY <2>3 DEF stop, Climbs
  <2>5. QED BY <2>4
<1>2. Ancestors = CHOOSE h : Rec(h)
  BY DEF Ancestors
<1>3. Rec(Ancestors)
  <2> HIDE DEF Rec
  <2>1. QED BY <1>1, <1>2
<1>4. QED BY <1>3

\* What holds at "/" and, with a directory, for what is in it holds everywhere.
LEMMA FromTheRoot ==
  ASSUME NEW G \in SUBSET Key, Root \in G,
         \A k \in Key \ {Root} : ParentOf[k] \in G => k \in G
  PROVE  G = Key
<1> DEFINE S == Key \ G
<1>1. SUFFICES ASSUME S # {} PROVE FALSE
  OBVIOUS
<1>2. S \in SUBSET (Key \ {Root})
  OBVIOUS
<1>3. PICK k \in S : ParentOf[k] \notin S
  BY <1>1, <1>2, PathAssumption
<1>4. k \in Key \ {Root} /\ ParentOf[k] \in G
  BY <1>2, <1>3, Keys
<1>5. QED BY <1>3, <1>4

LEMMA AncestorFacts ==
  /\ \A k \in Key : Ancestors[k] \subseteq Key
  /\ \A k \in Key \ {Root} : Root \in Ancestors[k] /\ ParentOf[k] \in Ancestors[k]
  /\ \A k \in Key : \A a \in Ancestors[k] : Ancestors[a] \subseteq Ancestors[k]
  /\ \A k \in Key : k \notin Ancestors[k]
<1> USE Keys
<1> DEFINE A(k) == Ancestors[k]
           p(k) == ParentOf[k]
<1>1. A(Root) = {} /\ \A k \in Key \ {Root} : A(k) = {p(k)} \cup A(p(k)) /\ p(k) \in Key
  BY AncestorsOf
<1> HIDE DEF A, p
<1>2. \A k \in Key : A(k) \subseteq Key
  <2> DEFINE G == {k \in Key : A(k) \subseteq Key}
  <2>1. Root \in G /\ \A k \in Key \ {Root} : p(k) \in G => k \in G
    BY <1>1
  <2> HIDE DEF G
  <2>2. G \in SUBSET Key
    BY DEF G
  <2>3. G = Key
    BY <2>1, <2>2, FromTheRoot DEF p
  <2>4. QED BY <2>3 DEF G
<1>3. \A k \in Key : k # Root => Root \in A(k)
  <2> DEFINE G == {k \in Key : k # Root => Root \in A(k)}
  <2>1. Root \in G /\ \A k \in Key \ {Root} : p(k) \in G => k \in G
    BY <1>1
  <2> HIDE DEF G
  <2>2. G \in SUBSET Key
    BY DEF G
  <2>3. G = Key
    BY <2>1, <2>2, FromTheRoot DEF p
  <2>4. QED BY <2>3 DEF G
<1>4. \A k \in Key : \A a \in A(k) : A(a) \subseteq A(k)
  <2> DEFINE G == {k \in Key : \A a \in A(k) : A(a) \subseteq A(k)}
  <2>1. Root \in G /\ \A k \in Key \ {Root} : p(k) \in G => k \in G
    <3>1. ASSUME NEW k \in Key \ {Root}, p(k) \in G, NEW a \in A(k) PROVE A(a) \subseteq A(k)
      <4>1. CASE a = p(k)
        BY <1>1, <4>1
      <4>2. CASE a \in A(p(k))
        BY <1>1, <3>1, <4>2
      <4>3. QED BY <1>1, <3>1, <4>1, <4>2
    <3>2. QED BY <1>1, <3>1
  <2> HIDE DEF G
  <2>2. G \in SUBSET Key
    BY DEF G
  <2>3. G = Key
    BY <2>1, <2>2, FromTheRoot DEF p
  <2>4. QED BY <2>3 DEF G
<1>5. \A k \in Key : k \notin A(k)
  <2> DEFINE G == {k \in Key : k \notin A(k)}
  <2>1. Root \in G /\ \A k \in Key \ {Root} : p(k) \in G => k \in G
    <3>1. ASSUME NEW k \in Key \ {Root}, p(k) \in G, k \in A(k) PROVE FALSE
      <4>1. CASE k = p(k)
        BY <3>1, <4>1
      <4>2. CASE k \in A(p(k))
        <5>1. p(k) \in A(k) /\ A(k) \subseteq A(p(k))
          BY <1>1, <1>4, <4>2
        <5>2. QED BY <3>1, <5>1
      <4>3. QED BY <1>1, <3>1, <4>1, <4>2
    <3>2. QED BY <1>1, <3>1
  <2> HIDE DEF G
  <2>2. G \in SUBSET Key
    BY DEF G
  <2>3. G = Key
    BY <2>1, <2>2, FromTheRoot DEF p
  <2>4. QED BY <2>3 DEF G
<1>6. QED BY <1>1, <1>2, <1>3, <1>4, <1>5 DEF A, p

\* What holds of a key when it holds of all above it holds everywhere.
LEMMA ByAncestors ==
  ASSUME NEW G \in SUBSET Key, \A k \in Key : Ancestors[k] \subseteq G => k \in G
  PROVE  G = Key
<1> USE Keys
<1> DEFINE H == {k \in Key : Ancestors[k] \subseteq G}
<1>1. Root \in H
  BY AncestorsOf
<1>2. \A k \in Key \ {Root} : ParentOf[k] \in H => k \in H
  BY AncestorsOf
<1>3. H = Key
  <2>1. H \in SUBSET Key
    OBVIOUS
  <2> HIDE DEF H
  <2>2. QED BY <1>1, <1>2, <2>1, FromTheRoot
<1>4. QED BY <1>3

-----------------------------------------------------------------------------
(* The hierarchy layer: what the policies make of the nodes.               *)

LEMMA InitHierarchy == Init => HierarchyInv
<1> SUFFICES ASSUME Init PROVE HierarchyInv
  OBVIOUS
<1> USE Keys
<1>1. created \in [Key -> Nat] /\ removed \in [Key -> Nat]
  <2>1. created \in [Key -> {0, Created}] /\ removed \in [Key -> Tombstone]
    BY DEF Init
  <2>2. {0, Created} \subseteq Nat
    OBVIOUS
  <2> DEFINE T == {0, Created}
  <2> HIDE DEF T
  <2>3. created \in [Key -> T] /\ T \subseteq Nat
    BY <2>1, <2>2 DEF T
  <2>4. QED BY <2>1, <2>3
<1>2. nameOf \in [Key -> Name]
  <2>1. \A k \in Key : [base |-> BaseName[k], suffixes |-> 0] \in Name
    BY DEF Name
  <2>2. QED BY <2>1 DEF Init
<1>3. TypeOK
  BY <1>1, <1>2 DEF Init, TypeOK, NotWalking
<1>4. Found
  BY <1>1 DEF Init, Found, WasKnown
<1>5. WalksForCompact /\ Unnamed /\ Naming
  BY DEF Init, WalksForCompact, Unnamed, Naming
<1>6. \A k \in Key : ~Visited(k)
  BY DEF Init, Visited, WasKnown
<1>7. RootRule /\ ReappearRule
  BY <1>6 DEF Init, RootRule, ReappearRule
<1>8. \A k \in Key : Exists(k) <=> WasVisible(k)
  BY DEF Init, Exists, WasVisible
<1>9. SkipRule
  BY <1>6, <1>8 DEF Init, SkipRule, SkipShown
<1>10. CompactRule
  BY <1>6, AncestorFacts DEF Init, CompactRule
<1>11. WalkRule /\ TopRule
  BY DEF Init, WalkRule, TopRule
<1>12. QED BY <1>3, <1>4, <1>5, <1>7, <1>9, <1>10, <1>11 DEF HierarchyInv

LEMMA FoundKept ==
  ASSUME TypeOK, Found, [Next]_vars
  PROVE  Found' /\ before' = before
<1>1. before' = before
  BY DEF Next, ReattachOrphans, KeepPlace, ReattachRoot, ReattachSkip, StartWalk, WalkUp,
     EndWalk, ReattachReappear, BuildTree, ResolveNameConflicts, Finish, vars
<1>2. phase' = "reattach" => phase = "reattach" /\ todo' \subseteq todo
  BY DEF Next, ReattachOrphans, KeepPlace, ReattachRoot, ReattachSkip, StartWalk, WalkUp,
     EndWalk, ReattachReappear, BuildTree, ResolveNameConflicts, Finish, vars
<1>3. QED BY <1>1, <1>2 DEF Found, WasKnown

\* Steps that reattach nothing: nodes still to be visited stay so.
LEMMA VisitedSame ==
  ASSUME before' = before, phase' = phase, todo' = todo
  PROVE  \A k \in Key : Visited(k)' <=> Visited(k)
BY DEF Visited, WasKnown

\* A node is visited.
LEMMA VisitedNow ==
  ASSUME TypeOK, Found, before' = before, NEW k \in todo, Visiting(k), todo' = todo \ {k}, phase' = phase
  PROVE  /\ k \in Key /\ WasKnown(k) /\ Visited(k)' /\ ~Visited(k)
         /\ \A c \in Key : c # k => (Visited(c)' <=> Visited(c))
BY DEF TypeOK, Found, Visiting, Visited, WasKnown

\* Once the loop is over it has visited all nodes there were.
LEMMA VisitedAll ==
  ASSUME TypeOK, before' = before, phase # "reattach" \/ todo = {}, phase' # "reattach"
  PROVE  \A k \in Key : Visited(k)' <=> Visited(k)
BY DEF Visited, WasKnown

LEMMA RootRuleKept ==
  ASSUME TypeOK, TypeOK', Found, WalksForCompact, RootRule, [Next]_vars
  PROVE  RootRule'
<1> USE Keys
<1>0. before' = before
  BY FoundKept
<1>a. policy' = policy
  BY DEF Next, ReattachOrphans, KeepPlace, ReattachRoot, ReattachSkip, StartWalk, WalkUp,
     EndWalk, ReattachReappear, BuildTree, ResolveNameConflicts, Finish, vars
<1> SUFFICES ASSUME policy = "root" PROVE RootRule'
  BY <1>a DEF RootRule
<1>b. \A k : WasVisible(k)' <=> WasVisible(k)
  BY <1>0 DEF WasVisible, ExistsIn
<1>c. \A k : Exists(k) <=> WasVisible(k)
  BY DEF RootRule, Exists, WasVisible
<1>1. ASSUME NEW k \in todo, KeepPlace(k) PROVE RootRule'
  <2>1. UNCHANGED <<created, removed, parent, phase>> /\ todo' = todo \ {k} /\ Visiting(k) /\ ~Orphan(k)
    BY <1>1 DEF KeepPlace, setVars
  <2>2. /\ k \in Key /\ ~Visited(k)
        /\ \A c \in Key : c # k => (Visited(c)' <=> Visited(c))
    BY <1>0, <2>1, VisitedNow
  <2>3. parent[k] = ParentOf[k]
    BY <2>2 DEF RootRule
  <2>4. k = Root \/ WasVisible(ParentOf[k])
    BY <1>c, <2>1, <2>2, <2>3 DEF Orphan
  <2>5. QED BY <1>0, <1>a, <1>b, <2>1, <2>2, <2>3, <2>4 DEF RootRule
<1>2. ASSUME NEW k \in todo, ReattachRoot(k) PROVE RootRule'
  <2>1. /\ UNCHANGED <<created, removed, phase>> /\ todo' = todo \ {k} /\ Visiting(k) /\ Orphan(k)
        /\ parent' = [parent EXCEPT ![k] = Root]
    BY <1>2 DEF ReattachRoot, Move
  <2>2. /\ k \in Key /\ ~Visited(k) /\ Visited(k)'
        /\ \A c \in Key : c # k => (Visited(c)' <=> Visited(c))
    BY <1>0, <2>1, VisitedNow
  <2>3. parent[k] = ParentOf[k]
    BY <2>2 DEF RootRule
  <2>4. k # Root /\ ~WasVisible(ParentOf[k])
    BY <1>c, <2>1, <2>2, <2>3 DEF Orphan
  <2>5. parent'[k] = Root /\ \A c \in Key : c # k => parent'[c] = parent[c]
    BY <2>1, <2>2 DEF TypeOK
  <2>6. QED BY <1>0, <1>a, <1>b, <2>1, <2>2, <2>4, <2>5 DEF RootRule
<1>3. ASSUME UNCHANGED <<created, removed, parent>>, \A k \in Key : Visited(k)' <=> Visited(k)
      PROVE  RootRule'
  BY <1>0, <1>a, <1>b, <1>3 DEF RootRule
<1>4. CASE BuildTree \/ Finish \/ \E k \in todo : ResolveNameConflicts(k)
  <2>1. /\ UNCHANGED <<created, removed, parent>>
        /\ phase # "reattach" \/ todo = {}
        /\ phase' # "reattach"
    BY <1>4 DEF BuildTree, Finish, ResolveNameConflicts, setVars
  <2>2. QED BY <1>0, <1>3, <2>1, VisitedAll
<1>5. CASE UNCHANGED vars
  BY <1>0, <1>3, <1>5, VisitedSame DEF vars
<1>6. CASE WalkUp \/ EndWalk
  BY <1>6 DEF WalkUp, EndWalk, Walking, WalksForCompact
<1>7. QED
  BY <1>1, <1>2, <1>4, <1>5, <1>6 DEF Next, ReattachOrphans, ReattachSkip, StartWalk, ReattachReappear

LEMMA ReappearRuleKept ==
  ASSUME TypeOK, TypeOK', Found, WalksForCompact, ReappearRule, [Next]_vars
  PROVE  ReappearRule'
<1> USE Keys
<1>0. before' = before
  BY FoundKept
<1>a. policy' = policy
  BY DEF Next, ReattachOrphans, KeepPlace, ReattachRoot, ReattachSkip, StartWalk, WalkUp,
     EndWalk, ReattachReappear, BuildTree, ResolveNameConflicts, Finish, vars
<1> SUFFICES ASSUME policy = "reappear" PROVE ReappearRule'
  BY <1>a DEF ReappearRule
<1>b. \A k : WasKnown(k)' <=> WasKnown(k)
  BY <1>0 DEF WasKnown
<1>c. parent = ParentOf
  BY DEF ReappearRule
<1>d. \A k \in Key : Known(k) <=> WasKnown(k)
  BY DEF ReappearRule, Known, WasKnown, TypeOK
<1>1. ASSUME NEW k \in todo, KeepPlace(k) PROVE ReappearRule'
  <2>1. UNCHANGED <<created, removed, parent, phase>> /\ todo' = todo \ {k} /\ Visiting(k) /\ ~Orphan(k)
    BY <1>1 DEF KeepPlace, setVars
  <2>2. k \in Key /\ \A c \in Key : c # k => (Visited(c)' <=> Visited(c))
    BY <1>0, <2>1, VisitedNow
  <2>3. k # Root => Exists(ParentOf[k])
    BY <1>c, <2>1, <2>2 DEF Orphan
  <2>4. \A c \in Key : Visited(c)' /\ c # Root /\ WasKnown(ParentOf[c]) => Exists(ParentOf[c])
    BY <2>2, <2>3 DEF ReappearRule
  <2>5. \A c : Exists(c)' <=> Exists(c)
    BY <2>1 DEF Exists, ExistsIn
  <2>6. QED BY <1>0, <1>a, <1>b, <2>1, <2>4, <2>5 DEF ReappearRule
<1>2. ASSUME NEW k \in todo, ReattachReappear(k) PROVE ReappearRule'
  <2> DEFINE p == ParentOf[k]
  <2>1. /\ UNCHANGED <<removed, parent, phase>> /\ todo' = todo \ {k} /\ Visiting(k) /\ Orphan(k)
        /\ created' = [created EXCEPT ![p] = IF Known(p) THEN removed[p] + 1 ELSE @]
    BY <1>2, <1>c DEF ReattachReappear
  <2>2. k \in Key /\ WasKnown(k) /\ \A c \in Key : c # k => (Visited(c)' <=> Visited(c))
    BY <1>0, <2>1, VisitedNow
  <2>3. k # Root /\ p \in Key
    BY <1>c, <2>1, <2>2 DEF Orphan
  <2> HIDE DEF p
  <2>4. /\ \A c \in Key : c # p \/ ~WasKnown(p) => created'[c] = created[c]
        /\ WasKnown(p) => created'[p] = removed[p] + 1 /\ removed[p] \in Nat
    BY <1>d, <2>1, <2>3 DEF TypeOK
  <2>5. WasKnown(p) => Exists(p)'
    BY <2>1, <2>3, <2>4 DEF Exists, ExistsIn
  <2>6. \A c \in Key : Exists(c) => Exists(c)'
    BY <2>1, <2>4, <2>5 DEF Exists, ExistsIn
  <2>7. \A c \in Key : Visited(c)' /\ c # Root /\ WasKnown(ParentOf[c]) => Exists(ParentOf[c])'
    <3>1. ASSUME NEW c \in Key, Visited(c)', c # Root, WasKnown(ParentOf[c])
          PROVE  Exists(ParentOf[c])'
      <4>1. CASE c = k
        BY <2>5, <3>1, <4>1 DEF p
      <4>2. CASE c # k
        BY <2>2, <2>6, <3>1, <4>2 DEF ReappearRule
      <4>3. QED BY <4>1, <4>2
    <3>2. QED BY <3>1
  <2>8. \A c \in Key :
          \/ created'[c] = before.created[c]
          \/ /\ created'[c] = removed[c] + 1 /\ WasKnown(c)
             /\ \E d \in Key : ParentOf[d] = c /\ WasKnown(d)
    BY <2>2, <2>4 DEF ReappearRule, p
  <2>9. QED BY <1>0, <1>a, <1>b, <1>c, <2>1, <2>7, <2>8 DEF ReappearRule
<1>3. ASSUME UNCHANGED <<created, removed, parent>>, \A k \in Key : Visited(k)' <=> Visited(k)
      PROVE  ReappearRule'
  <2>1. \A c : Exists(c)' <=> Exists(c)
    BY <1>3 DEF Exists, ExistsIn
  <2>2. QED BY <1>0, <1>a, <1>b, <1>3, <2>1 DEF ReappearRule
<1>4. CASE BuildTree \/ Finish \/ \E k \in todo : ResolveNameConflicts(k)
  <2>1. /\ UNCHANGED <<created, removed, parent>>
        /\ phase # "reattach" \/ todo = {}
        /\ phase' # "reattach"
    BY <1>4 DEF BuildTree, Finish, ResolveNameConflicts, setVars
  <2>2. QED BY <1>0, <1>3, <2>1, VisitedAll
<1>5. CASE UNCHANGED vars
  BY <1>0, <1>3, <1>5, VisitedSame DEF vars
<1>6. CASE WalkUp \/ EndWalk
  BY <1>6 DEF WalkUp, EndWalk, Walking, WalksForCompact
<1>7. QED
  BY <1>1, <1>2, <1>4, <1>5, <1>6 DEF Next, ReattachOrphans, ReattachSkip, StartWalk, ReattachRoot

LEMMA PolicyKept == [Next]_vars => policy' = policy
BY DEF Next, ReattachOrphans, KeepPlace, ReattachRoot, ReattachSkip, StartWalk, WalkUp,
   EndWalk, ReattachReappear, BuildTree, ResolveNameConflicts, Finish, vars

\* With a node its directory is shown.
LEMMA SkipShownUp ==
  ASSUME NEW k \in SkipShown, k # Root
  PROVE  k \in Key /\ ParentOf[k] \in SkipShown
<1>1. k \in Key /\ WasVisible(k) /\ \A a \in Ancestors[k] : WasVisible(a)
  BY DEF SkipShown
<1>2. ParentOf[k] \in Key /\ ParentOf[k] \in Ancestors[k] /\ Ancestors[ParentOf[k]] \subseteq Ancestors[k]
  BY <1>1, Keys, AncestorFacts
<1>3. QED BY <1>1, <1>2 DEF SkipShown

LEMMA SkipRuleKept ==
  ASSUME TypeOK, TypeOK', Found, WalksForCompact, SkipRule, [Next]_vars
  PROVE  SkipRule'
<1> USE Keys
<1>0. before' = before /\ policy' = policy
  BY FoundKept, PolicyKept
<1> SUFFICES ASSUME policy = "skip" PROVE SkipRule'
  BY <1>0 DEF SkipRule
<1>a. /\ \A k : WasVisible(k)' <=> WasVisible(k)
      /\ SkipShown' = SkipShown
  BY <1>0 DEF WasVisible, ExistsIn, SkipShown
<1>1. ASSUME NEW k \in todo, KeepPlace(k) PROVE SkipRule'
  <2>1. UNCHANGED <<created, removed, parent, phase>> /\ todo' = todo \ {k} /\ Visiting(k) /\ ~Orphan(k)
    BY <1>1 DEF KeepPlace, setVars
  <2>2. k \in Key /\ \A c \in Key : c # k => (Visited(c)' <=> Visited(c))
    BY <1>0, <2>1, VisitedNow
  <2>3. k # Root => WasVisible(ParentOf[k])
    BY <2>1, <2>2 DEF Orphan, SkipRule
  <2>4. \A c : Exists(c)' <=> Exists(c)
    BY <2>1 DEF Exists, ExistsIn
  <2>5. QED BY <1>0, <1>a, <2>1, <2>2, <2>3, <2>4 DEF SkipRule
<1>2. ASSUME NEW k \in todo, ReattachSkip(k) PROVE SkipRule'
  <2>1. /\ UNCHANGED <<created, parent, phase>> /\ todo' = todo \ {k} /\ Visiting(k) /\ Orphan(k)
        /\ removed' = [removed EXCEPT ![k] = IF created[k] + 1 > @ THEN created[k] + 1 ELSE @]
    BY <1>2 DEF ReattachSkip, Remove
  <2>2. k \in Key /\ \A c \in Key : c # k => (Visited(c)' <=> Visited(c))
    BY <1>0, <2>1, VisitedNow
  <2>3. ~Exists(k)' /\ \A c \in Key : c # k => (Exists(c)' <=> Exists(c))
    <3>1. removed'[k] = (IF created[k] + 1 > removed[k] THEN created[k] + 1 ELSE removed[k])
          /\ \A c \in Key : c # k => removed'[c] = removed[c]
      BY <2>1, <2>2 DEF TypeOK
    <3>2. created[k] \in Nat /\ removed[k] \in Nat
      BY <2>2 DEF TypeOK
    <3>3. QED BY <2>1, <3>1, <3>2 DEF Exists, ExistsIn
  <2>4. k \notin SkipShown
    <3>1. k # Root /\ ~Exists(ParentOf[k])
      BY <2>1, <2>2 DEF Orphan, SkipRule
    <3>2. QED BY <3>1, SkipShownUp DEF SkipRule
  <2>5. \A c \in SkipShown : c \in Key /\ Exists(c)'
    BY <2>3, <2>4 DEF SkipRule, SkipShown
  <2>6. QED BY <1>0, <1>a, <2>1, <2>2, <2>3, <2>5 DEF SkipRule
<1>3. ASSUME UNCHANGED <<created, removed, parent>>, \A k \in Key : Visited(k)' <=> Visited(k)
      PROVE  SkipRule'
  <2>1. \A c : Exists(c)' <=> Exists(c)
    BY <1>3 DEF Exists, ExistsIn
  <2>2. QED BY <1>0, <1>a, <1>3, <2>1 DEF SkipRule
<1>4. CASE BuildTree \/ Finish \/ \E k \in todo : ResolveNameConflicts(k)
  <2>1. /\ UNCHANGED <<created, removed, parent>>
        /\ phase # "reattach" \/ todo = {}
        /\ phase' # "reattach"
    BY <1>4 DEF BuildTree, Finish, ResolveNameConflicts, setVars
  <2>2. QED BY <1>0, <1>3, <2>1, VisitedAll
<1>5. CASE UNCHANGED vars
  BY <1>0, <1>3, <1>5, VisitedSame DEF vars
<1>6. CASE WalkUp \/ EndWalk
  BY <1>6 DEF WalkUp, EndWalk, Walking, WalksForCompact
<1>7. QED
  BY <1>1, <1>2, <1>4, <1>5, <1>6 DEF Next, ReattachOrphans, ReattachRoot, StartWalk, ReattachReappear

\* The closest directory above k that is visible, which CompactParent chooses.
Closest(k, a) ==
  /\ a \in Ancestors[k] /\ WasVisible(a)
  /\ \A b \in Ancestors[k] : WasVisible(b) => b \in Ancestors[a] \cup {a}

LEMMA ClosestFacts ==
  ASSUME WasVisible(Root), NEW k \in Key \ {Root}
  PROVE  Closest(k, CompactParent(k)) /\ \A a : Closest(k, a) => a = CompactParent(k)
<1> USE Keys
<1>1. ASSUME NEW c \in Key \ {Root}, WasVisible(ParentOf[c]) PROVE Closest(c, ParentOf[c])
  BY <1>1, AncestorsOf DEF Closest
<1>2. ASSUME NEW c \in Key \ {Root}, ~WasVisible(ParentOf[c]), NEW a, Closest(ParentOf[c], a)
      PROVE  Closest(c, a)
  BY <1>2, AncestorsOf DEF Closest
<1> DEFINE G == {c \in Key : c = Root \/ \E a : Closest(c, a)}
<1>3. Root \in G
  OBVIOUS
<1>4. ASSUME NEW c \in Key \ {Root}, ParentOf[c] \in G PROVE c \in G
  <2>1. CASE WasVisible(ParentOf[c])
    BY <1>1, <2>1
  <2>2. CASE ~WasVisible(ParentOf[c])
    <3>1. PICK a : Closest(ParentOf[c], a)
      BY <1>4, <2>2
    <3>2. QED BY <1>2, <2>2, <3>1
  <2>3. QED BY <2>1, <2>2
<1>5. G = Key
  <2>1. G \in SUBSET Key
    OBVIOUS
  <2> HIDE DEF G
  <2>2. QED BY <1>3, <1>4, <2>1, FromTheRoot
<1>6. \E a : Closest(k, a)
  BY <1>5
<1>7. Closest(k, CompactParent(k))
  BY <1>6 DEF Closest, CompactParent
<1>8. ASSUME NEW a, NEW b, Closest(k, a), Closest(k, b) PROVE a = b
  <2>1. a \in Ancestors[k] /\ b \in Ancestors[k] /\ a \in Key /\ b \in Key
    BY <1>8, AncestorFacts DEF Closest
  <2>2. a \in Ancestors[b] \cup {b} /\ b \in Ancestors[a] \cup {a}
    BY <1>8, <2>1 DEF Closest
  <2>3. ~(a \in Ancestors[b] /\ b \in Ancestors[a])
    BY <2>1, AncestorFacts
  <2>4. QED BY <2>2, <2>3
<1>9. QED BY <1>7, <1>8

\* Under a directory that is visible, or where the directory's own place is.
LEMMA CompactParentOf ==
  ASSUME WasVisible(Root), NEW k \in Key \ {Root}
  PROVE  /\ WasVisible(ParentOf[k]) => CompactParent(k) = ParentOf[k]
         /\ ~WasVisible(ParentOf[k]) => CompactParent(k) = CompactParent(ParentOf[k])
<1> USE Keys
<1>1. CASE WasVisible(ParentOf[k])
  <2>1. Closest(k, ParentOf[k])
    BY <1>1, AncestorsOf DEF Closest
  <2>2. QED BY <1>1, <2>1, ClosestFacts
<1>2. CASE ~WasVisible(ParentOf[k])
  <2>1. ParentOf[k] \in Key \ {Root}
    BY <1>2
  <2>2. Closest(ParentOf[k], CompactParent(ParentOf[k]))
    BY <2>1, ClosestFacts
  <2>3. Closest(k, CompactParent(ParentOf[k]))
    BY <1>2, <2>2, AncestorsOf DEF Closest
  <2>4. QED BY <1>2, <2>3, ClosestFacts
<1>3. QED BY <1>1, <1>2

LEMMA CompactRulesKept ==
  ASSUME TypeOK, TypeOK', Found, WalksForCompact, CompactRule, WalkRule, [Next]_vars
  PROVE  CompactRule' /\ WalkRule'
<1> USE Keys
<1>0. before' = before /\ policy' = policy
  BY FoundKept, PolicyKept
<1>a. CASE policy # "compact"
  <2>1. walk' = NotWalking
    BY <1>a DEF Next, ReattachOrphans, KeepPlace, ReattachRoot, ReattachSkip, StartWalk, WalkUp,
       EndWalk, ReattachReappear, BuildTree, ResolveNameConflicts, Finish, vars,
       WalksForCompact, Walking
  <2>2. QED BY <1>0, <1>a, <2>1 DEF CompactRule, WalkRule, NotWalking
<1> SUFFICES ASSUME policy = "compact" PROVE CompactRule' /\ WalkRule'
  BY <1>a
<1>b. /\ \A k : WasVisible(k)' <=> WasVisible(k)
      /\ \A k : Reached(k)' <=> Reached(k)
      /\ \A k : CompactParent(k)' = CompactParent(k)
  BY <1>0 DEF WasVisible, WasKnown, ExistsIn, Reached, CompactParent
<1>c. /\ created = before.created /\ removed = before.removed
      /\ \A k : Exists(k) <=> WasVisible(k)
  BY DEF CompactRule, Exists, WasVisible
<1>1. ASSUME NEW k \in todo, KeepPlace(k) PROVE CompactRule' /\ WalkRule'
  <2>1. /\ UNCHANGED <<created, removed, parent, phase, walk>>
        /\ todo' = todo \ {k} /\ Visiting(k) /\ ~Orphan(k)
    BY <1>1 DEF KeepPlace, setVars
  <2>2. k \in Key /\ ~Visited(k) /\ \A c \in Key : c # k => (Visited(c)' <=> Visited(c))
    BY <1>0, <2>1, VisitedNow
  <2>3. k # Root => parent[k] = ParentOf[k] /\ WasVisible(ParentOf[k])
    BY <1>c, <2>1, <2>2 DEF CompactRule, Orphan
  <2>4. k # Root /\ Reached(k) => parent[k] = CompactParent(k)
    BY <2>2, <2>3, CompactParentOf DEF Reached
  <2>5. WalkRule'
    BY <2>1 DEF Visiting, WalkRule, NotWalking
  <2>6. CompactRule'
    BY <1>0, <1>b, <2>1, <2>2, <2>3, <2>4 DEF CompactRule
  <2>7. QED BY <2>5, <2>6
<1>2. ASSUME NEW k \in todo, StartWalk(k) PROVE CompactRule' /\ WalkRule'
  <2>1. /\ UNCHANGED <<created, removed, parent, phase, todo>> /\ Visiting(k) /\ Orphan(k)
        /\ walk' = [orphan |-> k, at |-> parent[k]]
    BY <1>2 DEF StartWalk, setVars
  <2>2. k \in Key /\ ~Visited(k)
    BY <2>1 DEF TypeOK, Found, Visiting, Visited
  <2>3. k # Root /\ parent[k] = ParentOf[k] /\ ~Exists(ParentOf[k])
    BY <2>1, <2>2 DEF CompactRule, Orphan
  <2>4. WalkRule'
    <3>1. walk'.orphan = k /\ walk'.at = ParentOf[k] /\ ~Exists(ParentOf[k])'
      BY <2>1, <2>3 DEF Exists, ExistsIn
    <3>2. QED BY <2>3, <3>1 DEF WalkRule
  <2>5. \A c \in Key : Visited(c)' <=> Visited(c)
    BY <1>0, <2>1, VisitedSame
  <2>6. CompactRule'
    BY <1>0, <1>b, <2>1, <2>5 DEF CompactRule
  <2>7. QED BY <2>4, <2>6
<1>3. CASE WalkUp
  <2> DEFINE k == walk.orphan
  <2>1. /\ UNCHANGED <<created, removed, parent, phase, todo>>
        /\ walk # NotWalking /\ walk' = [walk EXCEPT !.at = parent[parent[k]]]
    BY <1>3 DEF WalkUp, Walking, setVars
  <2>2. k \in todo /\ phase = "reattach" /\ k \in Key
    BY <2>1 DEF WalksForCompact, TypeOK
  <2>3. k # Root /\ ~Exists(ParentOf[k])
    BY <2>1 DEF WalkRule
  <2>4. parent[k] = ParentOf[k]
    BY <2>2, <2>3 DEF CompactRule, Visited
  <2>5. WalkRule'
    <3>1. walk'.orphan = k /\ walk'.at = parent[ParentOf[k]]
      BY <2>1, <2>4 DEF TypeOK
    <3>2. ~Exists(ParentOf[k])'
      BY <2>1, <2>3 DEF Exists, ExistsIn
    <3>3. QED BY <2>1, <2>3, <3>1, <3>2 DEF WalkRule
  <2>6. \A c \in Key : Visited(c)' <=> Visited(c)
    BY <1>0, <2>1, VisitedSame
  <2>7. CompactRule'
    BY <1>0, <1>b, <2>1, <2>6 DEF CompactRule
  <2>8. QED BY <2>5, <2>7
<1>4. CASE EndWalk
  <2>0. PICK k : k = walk.orphan
    OBVIOUS
  <2> DEFINE p == ParentOf[k]
             to == IF walk.at = Above THEN Root ELSE walk.at
  <2>1. /\ UNCHANGED <<created, removed, phase>> /\ walk' = NotWalking
        /\ walk # NotWalking /\ (Walking => ~Known(parent[k]))
        /\ parent' = [parent EXCEPT ![k] = to]
        /\ todo' = todo \ {k}
    BY <1>4, <2>0 DEF EndWalk, Move
  <2>2. k \in todo /\ phase = "reattach" /\ k \in Key /\ ~Visited(k)
    BY <2>0, <2>1 DEF WalksForCompact, TypeOK, Visited
  <2>3. k # Root /\ ~Exists(p) /\ walk.at \in {p, parent[p]} /\ p \in Key
    BY <2>0, <2>1, <2>2 DEF WalkRule
  <2>4. parent[k] = p
    BY <2>2, <2>3 DEF CompactRule
  <2>5. \A c \in Key : c # k => (Visited(c)' <=> Visited(c))
    BY <1>0, <2>1, <2>2 DEF Visited, WasKnown
  <2>6. Root \in Ancestors[k] /\ p \in Ancestors[k] /\ Ancestors[p] \subseteq Ancestors[k]
    BY <2>2, <2>3, AncestorFacts
  <2> HIDE DEF p
  <2>7. to \in Ancestors[k]
    <3>1. p # Root => parent[p] \in Ancestors[p]
      BY <2>3 DEF CompactRule
    <3>2. p = Root => parent[p] = Above
      BY DEF CompactRule
    <3>3. QED BY <2>3, <2>6, <3>1, <3>2
  <2>8. Reached(k) => to = CompactParent(k)
    <3> SUFFICES ASSUME Reached(k) PROVE to = CompactParent(k)
      OBVIOUS
    <3>1. WasVisible(Root) /\ WasKnown(p) /\ ~WasVisible(p) /\ p # Root
      BY <1>c, <2>3, <2>6 DEF Reached
    <3>2. Known(p)
      BY <1>c, <2>3, <3>1 DEF Known, WasKnown
    <3>3. ~Walking
      BY <2>1, <2>4, <3>2
    <3>4. walk.at = Above \/ Exists(walk.at)
      BY <2>1, <3>3 DEF Walking
    <3>5. parent[p] \in Ancestors[p] /\ parent[p] \in Key
      BY <2>3, <3>1, AncestorFacts DEF CompactRule
    <3>6. walk.at = parent[p] /\ Exists(parent[p]) /\ to = parent[p]
      BY <2>3, <3>4, <3>5
    <3>7. CompactParent(k) = CompactParent(p)
      <4>1. k \in Key \ {Root} /\ p = ParentOf[k]
        BY <2>2, <2>3 DEF p
      <4>2. QED BY <3>1, <4>1, CompactParentOf
    <3>8. CASE Visited(p)
      <4>1. Reached(p)
        BY <2>6 DEF Reached
      <4>2. QED BY <2>3, <3>1, <3>6, <3>7, <3>8, <4>1 DEF CompactRule
    <3>9. CASE ~Visited(p)
      <4>1. parent[p] = ParentOf[p] /\ WasVisible(ParentOf[p])
        BY <1>c, <2>3, <3>1, <3>6, <3>9 DEF CompactRule
      <4>2. CompactParent(p) = ParentOf[p]
        BY <2>3, <3>1, <4>1, CompactParentOf
      <4>3. QED BY <3>6, <3>7, <4>1, <4>2
    <3>10. QED BY <3>8, <3>9
  <2> HIDE DEF to
  <2>9. parent'[k] = to /\ \A c \in Key : c # k => parent'[c] = parent[c]
    BY <2>1, <2>2 DEF TypeOK
  <2>10. Visited(k)'
    <3>1. WasKnown(k)
      BY <2>2 DEF Found
    <3>2. QED BY <1>0, <2>1, <3>1 DEF Visited, WasKnown
  <2>11. CompactRule'
    BY <1>0, <1>b, <2>1, <2>2, <2>3, <2>5, <2>7, <2>8, <2>9, <2>10 DEF CompactRule
  <2>12. WalkRule'
    BY <2>1 DEF WalkRule, NotWalking
  <2>13. QED BY <2>11, <2>12
<1>5. ASSUME UNCHANGED <<created, removed, parent, walk>>, \A k \in Key : Visited(k)' <=> Visited(k)
      PROVE  CompactRule' /\ WalkRule'
  <2>1. \A c : Exists(c)' <=> Exists(c)
    BY <1>5 DEF Exists, ExistsIn
  <2>2. WalkRule'
    BY <1>5, <2>1 DEF WalkRule, NotWalking
  <2>3. CompactRule'
    BY <1>0, <1>b, <1>5 DEF CompactRule
  <2>4. QED BY <2>2, <2>3
<1>6. CASE BuildTree \/ Finish \/ \E k \in todo : ResolveNameConflicts(k)
  <2>1. /\ UNCHANGED <<created, removed, parent, walk>>
        /\ phase # "reattach" \/ todo = {}
        /\ phase' # "reattach"
    BY <1>6 DEF BuildTree, Finish, ResolveNameConflicts, setVars
  <2>2. QED BY <1>0, <1>5, <2>1, VisitedAll
<1>7. CASE UNCHANGED vars
  BY <1>0, <1>5, <1>7, VisitedSame DEF vars
<1>8. QED
  BY <1>1, <1>2, <1>3, <1>4, <1>6, <1>7
     DEF Next, ReattachOrphans, ReattachRoot, ReattachSkip, ReattachReappear

LEMMA TopRuleKept ==
  ASSUME TypeOK, WalksForCompact, TopRule, [Next]_vars
  PROVE  TopRule'
<1>1. ASSUME UNCHANGED <<created, removed, parent>> PROVE RootCandidates' = RootCandidates
  BY <1>1 DEF RootCandidates, Visible, Child, Exists, ExistsIn
<1>2. CASE BuildTree
  <2>1. UNCHANGED <<created, removed, parent>>
        /\ IF RootCandidates = {} THEN top' = Above ELSE top' \in RootCandidates
    BY <1>2 DEF BuildTree, setVars
  <2>2. QED BY <1>1, <2>1 DEF TopRule
<1>3. CASE Finish \/ (\E k \in todo : ResolveNameConflicts(k)) \/ UNCHANGED vars
  <2>1. UNCHANGED <<created, removed, parent, top>> /\ (phase' # "reattach" => phase # "reattach")
    BY <1>3 DEF Finish, ResolveNameConflicts, setVars, treeVars, vars
  <2>2. QED BY <1>1, <2>1 DEF TopRule
<1>4. CASE ReattachOrphans
  <2>1. phase' = phase /\ phase = "reattach"
    BY <1>4 DEF ReattachOrphans, KeepPlace, ReattachRoot, ReattachSkip, StartWalk, WalkUp,
       EndWalk, ReattachReappear, Visiting, Walking, WalksForCompact
  <2>2. QED BY <2>1 DEF TopRule
<1>5. QED BY <1>2, <1>3, <1>4 DEF Next

\* The rules, once the loop is over.
LEMMA RulesGiveOrder ==
  ASSUME TypeOK, Found, RootRule, ReappearRule
  PROVE  MapOrderIsIrrelevant
<1> USE Keys
<1> SUFFICES ASSUME phase # "reattach", NEW k \in Key
             PROVE  /\ policy = "root" =>
                         /\ Exists(k) <=> WasVisible(k)
                         /\ WasKnown(k) /\ k # Root =>
                              parent[k] = IF WasVisible(ParentOf[k]) THEN ParentOf[k] ELSE Root
                    /\ policy = "reappear" =>
                         /\ Exists(k) <=> Reappearing(k)
                         /\ parent[k] = ParentOf[k]
  BY DEF MapOrderIsIrrelevant
<1>1. \A c \in Key : Visited(c) <=> WasKnown(c)
  BY DEF Visited
<1>2. ASSUME policy = "root"
      PROVE  /\ Exists(k) <=> WasVisible(k)
             /\ WasKnown(k) /\ k # Root =>
                  parent[k] = IF WasVisible(ParentOf[k]) THEN ParentOf[k] ELSE Root
  BY <1>1, <1>2 DEF RootRule, Exists, WasVisible
<1>3. ASSUME policy = "reappear" PROVE Exists(k) => Reappearing(k)
  BY <1>3 DEF ReappearRule, Reappearing, WasVisible, Exists, ExistsIn
<1>4. ASSUME policy = "reappear", Reappearing(k) PROVE Exists(k)
  <2>1. CASE WasVisible(k)
    BY <1>4, <2>1 DEF ReappearRule, WasVisible, Exists, ExistsIn, TypeOK
  <2>2. ASSUME NEW c \in Key, ParentOf[c] = k, WasKnown(c), WasKnown(k) PROVE Exists(k)
    BY <1>1, <1>4, <2>2 DEF ReappearRule
  <2>3. QED BY <1>4, <2>1, <2>2 DEF Reappearing
<1>5. policy = "reappear" => parent[k] = ParentOf[k]
  BY DEF ReappearRule
<1>6. QED BY <1>2, <1>3, <1>4, <1>5

-----------------------------------------------------------------------------
(* What is shown in the end.                                               *)

LEMMA ChainOf ==
  ASSUME TypeOK
  PROVE  \A k \in Key :
           Chain[k] = IF k = top \/ ~Child(k) THEN {} ELSE {parent[k]} \cup Chain[parent[k]]
<1> DEFINE Rec(h) == h = [k \in Key |-> IF k = top \/ ~Child(k) THEN {}
                                        ELSE {parent[k]} \cup h[parent[k]]]
           stop == {k \in Key : k = top \/ ~Child(k)}
<1>1. \A k \in Key \ stop : parent[k] \in Key
  BY DEF Child, Exists, ExistsIn, TypeOK
<1>2. \E h : Rec(h)
  <2>1. \E h : Climbs(h, stop, parent)
    <3> HIDE DEF stop
    <3>1. QED BY <1>1, ClimbDefined
  <2>2. PICK h : Climbs(h, stop, parent)
    BY <2>1
  <2>3. Rec(h)
    BY <2>2 DEF Climbs
  <2>4. QED BY <2>3
<1>3. Chain = CHOOSE h : Rec(h)
  BY DEF Chain
<1>4. Rec(Chain)
  <2> HIDE DEF Rec
  <2>1. QED BY <1>2, <1>3
<1>5. QED BY <1>4

\* A set of visible nodes with their directories is shown.
LEMMA ShownIf ==
  ASSUME TypeOK, top = Root, Exists(Root), NEW Good \in SUBSET Visible,
         \A k \in Good \ {Root} : parent[k] \in Good /\ parent[k] \in Ancestors[k]
  PROVE  Good \subseteq Shown
<1> USE Keys
<1> DEFINE G == {k \in Key : k \in Good => k = Root \/ Root \in Chain[k]}
<1>1. ASSUME NEW k \in Key, Ancestors[k] \subseteq G PROVE k \in G
  <2> SUFFICES ASSUME k \in Good, k # Root PROVE Root \in Chain[k]
    OBVIOUS
  <2>1. parent[k] \in Good /\ parent[k] \in G
    BY <1>1
  <2>2. Child(k)
    BY <2>1 DEF Child, Visible
  <2>3. Chain[k] = {parent[k]} \cup Chain[parent[k]]
    BY <2>2, ChainOf
  <2>4. QED BY <2>1, <2>3
<1>2. G = Key
  <2>1. G \in SUBSET Key
    OBVIOUS
  <2> HIDE DEF G
  <2>2. QED BY <1>1, <2>1, ByAncestors
<1>3. QED BY <1>2 DEF Shown, Visible

LEMMA TopIsRoot ==
  ASSUME TypeOK, TopRule, phase # "reattach", Exists(Root), parent[Root] = Above
  PROVE  top = Root
<1> USE Keys
<1>1. Root \in RootCandidates
  BY DEF RootCandidates, Visible, Child, Exists, ExistsIn
<1>2. \A k \in RootCandidates : k = Root
  BY DEF RootCandidates, Child
<1>3. QED BY <1>1, <1>2 DEF TopRule

\* Without moves, a node is shown if it exists with all directories above it.
LEMMA ShownInPlace ==
  ASSUME TypeOK, top = Root, Exists(Root), parent = ParentOf
  PROVE  Shown = {k \in Key : Exists(k) /\ \A a \in Ancestors[k] : Exists(a)}
<1> USE Keys
<1> DEFINE Good == {k \in Key : Exists(k) /\ \A a \in Ancestors[k] : Exists(a)}
<1>1. Good \subseteq Shown
  <2>1. Good \in SUBSET Visible
    BY DEF Visible
  <2>2. ASSUME NEW k \in Good \ {Root}
        PROVE  parent[k] \in Good /\ parent[k] \in Ancestors[k]
    <3>1. /\ ParentOf[k] \in Key /\ ParentOf[k] \in Ancestors[k]
          /\ Ancestors[ParentOf[k]] \subseteq Ancestors[k]
      BY AncestorFacts
    <3>2. QED BY <3>1
  <2> HIDE DEF Good
  <2>3. QED BY <2>1, <2>2, ShownIf
<1> DEFINE G == {k \in Key : k = Root \/ Root \in Chain[k] => \A a \in Ancestors[k] : Exists(a)}
<1>2. Root \in G
  BY AncestorsOf
<1>3. ASSUME NEW k \in Key \ {Root}, ParentOf[k] \in G PROVE k \in G
  <2> SUFFICES ASSUME Root \in Chain[k] PROVE \A a \in Ancestors[k] : Exists(a)
    OBVIOUS
  <2>1. Child(k) /\ (Root = ParentOf[k] \/ Root \in Chain[ParentOf[k]])
    <3>1. Chain[k] = IF k = top \/ ~Child(k) THEN {} ELSE {parent[k]} \cup Chain[parent[k]]
      BY ChainOf
    <3> HIDE DEF G, Good
    <3>2. QED BY <3>1
  <2>2. Exists(ParentOf[k]) /\ \A a \in Ancestors[ParentOf[k]] : Exists(a)
    BY <1>3, <2>1 DEF Child
  <2>3. QED BY <2>2, AncestorsOf
<1>4. G = Key
  <2>1. G \in SUBSET Key
    OBVIOUS
  <2> HIDE DEF G
  <2>2. QED BY <1>2, <1>3, <2>1, FromTheRoot
<1>5. Shown \subseteq Good
  BY <1>4 DEF Shown, Visible
<1>6. QED BY <1>1, <1>5

LEMMA NothingShown == ASSUME TopRule, phase # "reattach", RootCandidates = {} PROVE Shown = {}
BY DEF TopRule, Shown

LEMMA SkipShows ==
  ASSUME TypeOK, Found, SkipRule, TopRule, phase = "done", policy = "skip"
  PROVE  Shown = SkipShown /\ parent = ParentOf
<1> USE Keys
<1>1. parent = ParentOf /\ \A k \in Key : Visited(k) <=> WasKnown(k)
  BY DEF SkipRule, Visited
<1>2. CASE Exists(Root)
  <2>1. Shown = {k \in Key : Exists(k) /\ \A a \in Ancestors[k] : Exists(a)}
    BY <1>1, <1>2, TopIsRoot, ShownInPlace
  <2>2. ASSUME NEW k \in Shown PROVE k \in SkipShown
    BY <2>1, <2>2, AncestorFacts DEF SkipRule, SkipShown
  <2>3. ASSUME NEW k \in SkipShown PROVE k \in Shown
    <3>1. k \in Key /\ Exists(k)
      BY DEF SkipRule, SkipShown
    <3>2. ASSUME NEW a \in Ancestors[k] PROVE a \in SkipShown
      BY <3>1, <3>2, AncestorFacts DEF SkipShown
    <3>3. QED BY <2>1, <3>1, <3>2 DEF SkipRule
  <2>4. QED BY <1>1, <2>2, <2>3
<1>3. CASE ~Exists(Root)
  <2>1. Root \notin SkipShown
    BY <1>3 DEF SkipRule
  <2>2. ~WasVisible(Root)
    BY <2>1, AncestorsOf DEF SkipShown
  <2>3. SkipShown = {}
    BY <2>2, AncestorFacts DEF SkipShown
  <2>4. RootCandidates = {}
    <3> SUFFICES ASSUME NEW k \in RootCandidates PROVE FALSE
      OBVIOUS
    <3>1. k \in Key /\ Exists(k) /\ k # Root /\ ParentOf[k] = Root
      BY <1>1, <1>3 DEF RootCandidates, Visible
    <3>2. WasKnown(k)
      BY <3>1 DEF SkipRule, WasVisible, WasKnown, ExistsIn, Found
    <3>3. QED BY <1>1, <2>2, <3>1, <3>2 DEF SkipRule
  <2>5. QED BY <1>1, <2>3, <2>4, NothingShown
<1>4. QED BY <1>2, <1>3

LEMMA ReappearShows ==
  ASSUME TypeOK, Found, ReappearRule, TopRule, MapOrderIsIrrelevant,
         phase = "done", policy = "reappear"
  PROVE  Shown = ReappearShown /\ parent = ParentOf
<1> USE Keys
<1>1. parent = ParentOf /\ \A k \in Key : Exists(k) <=> Reappearing(k)
  BY DEF ReappearRule, MapOrderIsIrrelevant
<1>2. CASE Exists(Root)
  <2>1. Shown = {k \in Key : Exists(k) /\ \A a \in Ancestors[k] : Exists(a)}
    BY <1>1, <1>2, TopIsRoot, ShownInPlace
  <2>2. \A k \in Key : \A a \in Ancestors[k] : a \in Key
    BY AncestorFacts
  <2>3. QED BY <1>1, <2>1, <2>2 DEF ReappearShown
<1>3. CASE ~Exists(Root)
  <2>1. ReappearShown = {}
    BY <1>1, <1>3, AncestorFacts DEF ReappearShown
  <2>2. RootCandidates = {}
    <3> SUFFICES ASSUME NEW k \in RootCandidates PROVE FALSE
      OBVIOUS
    <3>1. k \in Key /\ Exists(k) /\ k # Root /\ ParentOf[k] = Root
      BY <1>1, <1>3 DEF RootCandidates, Visible
    <3>2. WasKnown(k)
      BY <1>1, <3>1 DEF Reappearing, WasVisible, WasKnown, ExistsIn, Found
    <3>3. WasKnown(Root)
      BY DEF Found, WasKnown
    <3>4. Reappearing(Root)
      BY <3>1, <3>2, <3>3 DEF Reappearing
    <3>5. QED BY <1>1, <1>3, <3>4
  <2>3. QED BY <1>1, <2>1, <2>2, NothingShown
<1>4. QED BY <1>2, <1>3

LEMMA RootShows ==
  ASSUME TypeOK, Found, RootRule, TopRule, phase = "done", policy = "root", WasVisible(Root)
  PROVE  /\ Shown = {k \in Key : WasVisible(k)}
         /\ \A k \in Shown \ {Root} :
              parent[k] = IF WasVisible(ParentOf[k]) THEN ParentOf[k] ELSE Root
<1> USE Keys
<1>1. /\ \A k : Exists(k) <=> WasVisible(k)
      /\ parent[Root] = Above
      /\ \A k \in Key : Visited(k) <=> WasKnown(k)
  BY DEF RootRule, Exists, WasVisible, Visited
<1>2. ASSUME NEW k \in Visible \ {Root}
      PROVE  parent[k] = IF WasVisible(ParentOf[k]) THEN ParentOf[k] ELSE Root
  <2>1. k \in Key /\ WasKnown(k)
    BY <1>1 DEF Visible, WasVisible, ExistsIn, WasKnown, Found
  <2>2. QED BY <1>1, <1>2, <2>1 DEF RootRule
<1>3. top = Root
  BY <1>1, TopIsRoot
<1>4. ASSUME NEW k \in Visible \ {Root} PROVE parent[k] \in Visible /\ parent[k] \in Ancestors[k]
  <2>1. k \in Key \ {Root} /\ Root \in Ancestors[k] /\ ParentOf[k] \in Ancestors[k]
    BY AncestorFacts DEF Visible
  <2>2. QED BY <1>1, <1>2, <2>1 DEF Visible
<1>5. Visible \subseteq Shown
  <2>1. Visible \in SUBSET Visible
    OBVIOUS
  <2>2. QED BY <1>1, <1>3, <1>4, <2>1, ShownIf
<1>6. Shown = Visible
  BY <1>5 DEF Shown
<1>7. QED BY <1>1, <1>2, <1>6 DEF Visible

LEMMA CompactShows ==
  ASSUME TypeOK, Found, CompactRule, TopRule, phase = "done", policy = "compact",
         WasVisible(Root)
  PROVE  \A k \in Key \ {Root} :
           WasVisible(k) /\ (\A a \in Ancestors[k] : WasKnown(a)) =>
             k \in Shown /\ parent[k] = CompactParent(k)
<1> USE Keys
<1>1. /\ \A k : Exists(k) <=> WasVisible(k)
      /\ parent[Root] = Above
      /\ \A k \in Key : Visited(k) <=> WasKnown(k)
  BY DEF CompactRule, Exists, WasVisible, Visited
<1> DEFINE Good == {k \in Key : WasVisible(k) /\ Reached(k)}
<1>2. ASSUME NEW k \in Good \ {Root}
      PROVE  parent[k] = CompactParent(k) /\ parent[k] \in Good /\ parent[k] \in Ancestors[k]
  <2>1. k \in Key \ {Root} /\ WasKnown(k) /\ Reached(k)
    BY DEF WasVisible, ExistsIn, WasKnown, Found
  <2>2. parent[k] = CompactParent(k)
    BY <1>1, <2>1 DEF CompactRule
  <2>3. Closest(k, parent[k])
    BY <2>1, <2>2, ClosestFacts
  <2>4. parent[k] \in Ancestors[k] /\ WasVisible(parent[k])
    BY <2>3 DEF Closest
  <2>5. parent[k] \in Key /\ Ancestors[parent[k]] \subseteq Ancestors[k]
    BY <2>1, <2>4, AncestorFacts
  <2>6. Reached(parent[k])
    BY <2>1, <2>5 DEF Reached
  <2>7. QED BY <2>2, <2>4, <2>5, <2>6
<1>3. top = Root
  BY <1>1, TopIsRoot
<1>4. Good \subseteq Shown
  <2>1. Good \in SUBSET Visible
    BY <1>1 DEF Visible
  <2> HIDE DEF Good
  <2>2. QED BY <1>1, <1>2, <1>3, <2>1, ShownIf
<1>5. QED BY <1>2, <1>4 DEF Reached

-----------------------------------------------------------------------------
(* The naming layer.                                                       *)

\* One child goes through ResolveNameConflicts: what the cases come down to.
LEMMA ResolveFacts ==
  ASSUME TypeOK, Naming, NEW k \in todo, ResolveNameConflicts(k)
  PROVE  /\ k \in Key /\ Child(k) /\ phase = "name" /\ phase' = "name"
         /\ UNCHANGED <<created, removed, parent>> /\ todo' = todo \ {k}
         /\ \A c \in Key : Named(c)' <=> (Named(c) \/ c = k)
         /\ ~Named(k) /\ nameOf[k].suffixes = 0
         /\ \A c \in Key : Child(c)' <=> Child(c)
<1>1. /\ phase = "name" /\ k \in Key /\ Child(k) /\ phase' = "name"
      /\ UNCHANGED <<created, removed, parent>> /\ todo' = todo \ {k}
  BY DEF ResolveNameConflicts, setVars, TypeOK, Naming
<1>2. \A c \in Key : Child(c)' <=> Child(c)
  BY <1>1 DEF Child, Visible, Exists, ExistsIn
<1>3. ~Named(k) /\ \A c \in Key : Named(c)' <=> (Named(c) \/ c = k)
  BY <1>1, <1>2 DEF Named
<1>4. nameOf[k].suffixes = 0
  BY <1>1, <1>3 DEF Naming, Suffixes
<1>5. QED BY <1>1, <1>2, <1>3, <1>4

\* The node that gets a suffix, if one does: the file that was visited while a
\* directory had its name, or that had the directory's name when it was visited.
LEMMA WhoGivesWay ==
  ASSUME TypeOK, Naming, NEW k \in todo, ResolveNameConflicts(k)
  PROVE  \/ /\ nameOf' = nameOf
            /\ \A e \in nameMap : e.dir = parent[k] /\ e.name = nameOf[k] => IsDir[e.child] = IsDir[k]
         \/ \E e \in nameMap :
              /\ e.dir = parent[k] /\ e.name = nameOf[k]
              /\ \/ ~IsDir[k] /\ IsDir[e.child] /\ Rename(k)
                 \/ IsDir[k] /\ ~IsDir[e.child] /\ Rename(e.child)
BY DEF ResolveNameConflicts

\* The new nameMap.
LEMMA NewNameMap ==
  ASSUME TypeOK, NEW k \in todo, ResolveNameConflicts(k)
  PROVE  \A e : e \in nameMap' <=>
           \/ e \in nameMap /\ ~(e.dir = parent[k] /\ e.name = nameOf'[k])
           \/ e = [dir |-> parent[k], name |-> nameOf'[k], child |-> k]
BY DEF ResolveNameConflicts

\* Two names without a suffix differ in their base only.
LEMMA SameName ==
  ASSUME TypeOK, NEW k \in Key, NEW l \in Key,
         nameOf[k].base = nameOf[l].base, nameOf[k].suffixes = nameOf[l].suffixes
  PROVE  nameOf[k] = nameOf[l]
<1>1. nameOf[k] \in Name /\ nameOf[l] \in Name
  BY DEF TypeOK
<1>2. QED BY <1>1 DEF Name

\* No child gives way.
LEMMA NobodyGivesWay ==
  ASSUME TypeOK, Naming, NEW k \in todo, ResolveNameConflicts(k), nameOf' = nameOf,
         \A e \in nameMap : e.dir = parent[k] /\ e.name = nameOf[k] => IsDir[e.child] = IsDir[k]
  PROVE  Suffixes' /\ OnePerName' /\ DirectoryOnTop' /\ OtherGaveWay'
<1>1. /\ k \in Key /\ Child(k) /\ parent' = parent
      /\ \A c \in Key : Named(c)' <=> (Named(c) \/ c = k)
      /\ ~Named(k) /\ nameOf[k].suffixes = 0 /\ phase = "name"
  BY ResolveFacts
<1> DEFINE m == [dir |-> parent[k], name |-> nameOf[k], child |-> k]
<1>2. m.dir = parent[k] /\ m.name = nameOf[k] /\ m.child = k
  OBVIOUS
<1>3. \A e : e \in nameMap' <=> (e \in nameMap /\ ~(e.dir = parent[k] /\ e.name = nameOf[k])) \/ e = m
  BY NewNameMap
<1> HIDE DEF m
<1>4. Suffixes /\ OnePerName /\ DirectoryOnTop /\ OtherGaveWay
  BY <1>1 DEF Naming
<1>5. Suffixes'
  BY <1>1, <1>4 DEF Suffixes
<1>6. OnePerName'
  <2>1. \A e \in nameMap' : Named(e.child)' /\ e.dir = parent'[e.child] /\ e.name = nameOf'[e.child]
    <3>1. \A e \in nameMap : e.child \in Key
      BY DEF TypeOK
    <3>2. QED BY <1>1, <1>2, <1>3, <1>4, <3>1 DEF OnePerName
  <2>2. \A d, e \in nameMap' : d.dir = e.dir /\ d.name = e.name => d = e
    BY <1>2, <1>3, <1>4 DEF OnePerName
  <2>3. ASSUME NEW c \in Key, Named(c) \/ c = k, nameOf[c].suffixes = 0
        PROVE  \E e \in nameMap' : e.dir = parent[c] /\ e.name = nameOf[c]
    <3>1. CASE parent[c] = parent[k] /\ nameOf[c] = nameOf[k]
      BY <1>2, <1>3, <3>1
    <3>2. CASE ~(parent[c] = parent[k] /\ nameOf[c] = nameOf[k])
      <4>1. PICK e \in nameMap : e.dir = parent[c] /\ e.name = nameOf[c]
        BY <1>4, <2>3, <3>2 DEF OnePerName
      <4>2. QED BY <1>3, <3>2, <4>1
    <3>3. QED BY <3>1, <3>2
  <2>4. QED BY <1>1, <2>1, <2>2, <2>3 DEF OnePerName
<1>7. \A l \in Key : /\ Named(l) /\ IsDir[l] /\ parent[l] = parent[k] /\ nameOf[l] = nameOf[k]
                    => IsDir[k]
  <2> SUFFICES ASSUME NEW l \in Key, Named(l), IsDir[l], parent[l] = parent[k], nameOf[l] = nameOf[k]
               PROVE  IsDir[k]
    OBVIOUS
  <2>1. nameOf[l].suffixes = 0
    BY <1>1
  <2>2. PICK e \in nameMap : e.dir = parent[l] /\ e.name = nameOf[l]
    BY <1>4, <2>1 DEF OnePerName
  <2>3. IsDir[e.child]
    BY <1>4, <2>2 DEF DirectoryOnTop
  <2>4. QED BY <2>2, <2>3
<1>8. DirectoryOnTop'
  <2> SUFFICES ASSUME NEW l \in Key, NEW e \in nameMap', Named(l) \/ l = k, IsDir[l],
                      e.dir = parent[l], e.name = nameOf[l]
               PROVE  IsDir[e.child]
    BY <1>1 DEF DirectoryOnTop
  <2>1. CASE e = m
    BY <1>2, <1>7, <2>1
  <2>2. CASE e \in nameMap /\ ~(e.dir = parent[k] /\ e.name = nameOf[k])
    BY <1>4, <2>2 DEF DirectoryOnTop
  <2>3. QED BY <1>3, <2>1, <2>2
<1>9. OtherGaveWay'
  <2> SUFFICES ASSUME NEW f \in Key, NEW l \in Key, Named(f) \/ f = k, Named(l) \/ l = k,
                      parent[f] = parent[l], nameOf[f] = nameOf[l], ~IsDir[f], IsDir[l]
               PROVE  \E j \in Key : /\ (Named(j) \/ j = k) /\ parent[j] = parent[f]
                                     /\ ~IsDir[j] /\ BaseName[j] = BaseName[f] /\ nameOf[j].suffixes = 1
    BY <1>1 DEF OtherGaveWay, NamedAlike
  <2>1. CASE Named(f) /\ Named(l)
    BY <1>4, <2>1 DEF OtherGaveWay, NamedAlike
  <2>2. CASE f = k
    BY <1>7, <2>2
  <2>3. CASE Named(f) /\ l = k
    <3>1. nameOf[f].suffixes = 0
      BY <1>1, <2>3
    <3>2. PICK e \in nameMap : e.dir = parent[f] /\ e.name = nameOf[f]
      BY <1>4, <2>3, <3>1 DEF OnePerName
    <3>3. e.child \in Key /\ IsDir[e.child] /\ NamedAlike(f, e.child)
      BY <1>4, <2>3, <3>2 DEF OnePerName, NamedAlike, TypeOK
    <3>4. QED BY <1>4, <3>3 DEF OtherGaveWay
  <2>4. QED BY <2>1, <2>2, <2>3
<1>10. QED BY <1>5, <1>6, <1>8, <1>9

\* The file visited gives way to a directory.
LEMMA VisitedGivesWay ==
  ASSUME TypeOK, Naming, NEW k \in todo, ResolveNameConflicts(k), ~IsDir[k], Rename(k),
         NEW h \in nameMap, h.dir = parent[k], h.name = nameOf[k], IsDir[h.child]
  PROVE  Suffixes' /\ OnePerName' /\ DirectoryOnTop' /\ OtherGaveWay'
<1>1. /\ k \in Key /\ Child(k) /\ parent' = parent
      /\ \A c \in Key : Named(c)' <=> (Named(c) \/ c = k)
      /\ ~Named(k) /\ nameOf[k].suffixes = 0 /\ phase = "name"
  BY ResolveFacts
<1>2. /\ nameOf'[k].base = nameOf[k].base /\ nameOf'[k].suffixes = 1
      /\ \A c \in Key : c # k => nameOf'[c] = nameOf[c]
  <2>1. nameOf \in [Key -> Name]
    BY DEF TypeOK
  <2>2. /\ nameOf'[k].base = nameOf[k].base /\ nameOf'[k].suffixes = nameOf[k].suffixes + 1
        /\ \A c \in Key : c # k => nameOf'[c] = nameOf[c]
    BY <1>1, <2>1, RenameFacts
  <2>3. QED BY <1>1, <2>2
<1> DEFINE n == nameOf'[k]
           m == [dir |-> parent[k], name |-> n, child |-> k]
<1>3. m.dir = parent[k] /\ m.name = n /\ m.child = k
  OBVIOUS
<1>4. \A e : e \in nameMap' <=> (e \in nameMap /\ ~(e.dir = parent[k] /\ e.name = n)) \/ e = m
  BY NewNameMap
<1> HIDE DEF m
<1>5. Suffixes /\ OnePerName /\ DirectoryOnTop /\ OtherGaveWay
  BY <1>1 DEF Naming
<1>6. Suffixes'
  BY <1>1, <1>2, <1>5 DEF Suffixes
<1>7. \A e \in nameMap : e.child \in Key /\ e.child # k
  BY <1>1, <1>5 DEF TypeOK, OnePerName
<1>8. OnePerName'
  <2>1. \A e \in nameMap' : Named(e.child)' /\ e.dir = parent'[e.child] /\ e.name = nameOf'[e.child]
    BY <1>1, <1>2, <1>3, <1>4, <1>5, <1>7 DEF OnePerName
  <2>2. \A d, e \in nameMap' : d.dir = e.dir /\ d.name = e.name => d = e
    BY <1>3, <1>4, <1>5 DEF OnePerName
  <2>3. ASSUME NEW c \in Key, Named(c) \/ c = k, nameOf'[c].suffixes = 0
        PROVE  \E e \in nameMap' : e.dir = parent[c] /\ e.name = nameOf'[c]
    <3>1. c # k /\ Named(c) /\ nameOf'[c] = nameOf[c]
      BY <1>2, <2>3
    <3>2. PICK e \in nameMap : e.dir = parent[c] /\ e.name = nameOf[c]
      BY <1>5, <2>3, <3>1 DEF OnePerName
    <3>3. e.name # n
      BY <1>2, <2>3, <3>1, <3>2
    <3>4. QED BY <1>4, <3>1, <3>2, <3>3
  <2>4. QED BY <1>1, <2>1, <2>2, <2>3 DEF OnePerName
<1>9. \A l \in Key : IsDir[l] => l # k /\ nameOf'[l] = nameOf[l] /\ nameOf'[l].suffixes = 0
  BY <1>2, <1>5 DEF Suffixes
<1>10. DirectoryOnTop'
  <2> SUFFICES ASSUME NEW l \in Key, NEW e \in nameMap', Named(l), IsDir[l],
                      e.dir = parent[l], e.name = nameOf[l]
               PROVE  IsDir[e.child]
    BY <1>1, <1>9 DEF DirectoryOnTop
  <2>1. e # m
    BY <1>2, <1>3, <1>9
  <2>2. QED BY <1>4, <1>5, <2>1 DEF DirectoryOnTop
<1>11. OtherGaveWay'
  <2> SUFFICES ASSUME NEW f \in Key, NEW l \in Key, Named(f) \/ f = k, Named(l) \/ l = k,
                      parent[f] = parent[l], nameOf'[f] = nameOf'[l], ~IsDir[f], IsDir[l]
               PROVE  \E j \in Key : /\ (Named(j) \/ j = k) /\ parent[j] = parent[f]
                                     /\ ~IsDir[j] /\ BaseName[j] = BaseName[f] /\ nameOf'[j].suffixes = 1
    BY <1>1 DEF OtherGaveWay, NamedAlike
  <2>1. l # k /\ f # k /\ nameOf[f] = nameOf[l]
    BY <1>2, <1>9
  <2>2. PICK j \in Key : /\ Named(j) /\ parent[j] = parent[f]
                         /\ ~IsDir[j] /\ BaseName[j] = BaseName[f] /\ nameOf[j].suffixes = 1
    BY <1>5, <2>1 DEF OtherGaveWay, NamedAlike
  <2>3. QED BY <1>1, <1>2, <2>2
<1>12. QED BY <1>6, <1>8, <1>10, <1>11

\* A file named before gives way to the directory visited.
LEMMA EarlierGivesWay ==
  ASSUME TypeOK, Naming, NEW k \in todo, ResolveNameConflicts(k), IsDir[k],
         NEW h \in nameMap, h.dir = parent[k], h.name = nameOf[k], ~IsDir[h.child], Rename(h.child)
  PROVE  Suffixes' /\ OnePerName' /\ DirectoryOnTop' /\ OtherGaveWay'
<1>1. /\ k \in Key /\ Child(k) /\ parent' = parent
      /\ \A c \in Key : Named(c)' <=> (Named(c) \/ c = k)
      /\ ~Named(k) /\ nameOf[k].suffixes = 0 /\ phase = "name"
  BY ResolveFacts
<1>2. Suffixes /\ OnePerName /\ DirectoryOnTop /\ OtherGaveWay
  BY <1>1 DEF Naming
<1> DEFINE g == h.child
<1>3. /\ g \in Key /\ Named(g) /\ g # k /\ parent[g] = parent[k] /\ nameOf[g] = nameOf[k]
      /\ ~IsDir[g]
  BY <1>1, <1>2 DEF TypeOK, OnePerName
<1>4. /\ nameOf'[g].base = nameOf[g].base /\ nameOf'[g].suffixes = 1
      /\ \A c \in Key : c # g => nameOf'[c] = nameOf[c]
  <2>1. nameOf \in [Key -> Name] /\ Rename(g)
    BY DEF TypeOK
  <2> HIDE DEF g
  <2>2. /\ nameOf'[g].base = nameOf[g].base /\ nameOf'[g].suffixes = nameOf[g].suffixes + 1
        /\ \A c \in Key : c # g => nameOf'[c] = nameOf[c]
    BY <1>3, <2>1, RenameFacts
  <2>3. QED BY <1>1, <1>3, <2>2
<1> HIDE DEF g
<1> DEFINE m == [dir |-> parent[k], name |-> nameOf[k], child |-> k]
<1>5. m.dir = parent[k] /\ m.name = nameOf[k] /\ m.child = k
  OBVIOUS
<1>6. nameOf'[k] = nameOf[k]
  BY <1>1, <1>3, <1>4
<1>7. \A e : e \in nameMap' <=> (e \in nameMap /\ ~(e.dir = parent[k] /\ e.name = nameOf[k])) \/ e = m
  BY <1>6, NewNameMap
<1> HIDE DEF m
<1>8. Suffixes'
  BY <1>1, <1>2, <1>3, <1>4 DEF Suffixes
<1>9. \A e \in nameMap : e.child \in Key /\ Named(e.child) /\ e.dir = parent[e.child] /\ e.name = nameOf[e.child]
  BY <1>2 DEF TypeOK, OnePerName
<1>10. OnePerName'
  <2>1. \A e \in nameMap' : Named(e.child)' /\ e.dir = parent'[e.child] /\ e.name = nameOf'[e.child]
    <3>1. ASSUME NEW e \in nameMap, ~(e.dir = parent[k] /\ e.name = nameOf[k])
          PROVE  Named(e.child)' /\ e.dir = parent'[e.child] /\ e.name = nameOf'[e.child]
      <4>1. e.child # g
        BY <1>3, <1>9, <3>1
      <4>2. QED BY <1>1, <1>4, <1>9, <4>1
    <3>2. QED BY <1>1, <1>5, <1>6, <1>7, <3>1
  <2>2. \A d, e \in nameMap' : d.dir = e.dir /\ d.name = e.name => d = e
    BY <1>2, <1>5, <1>7 DEF OnePerName
  <2>3. ASSUME NEW c \in Key, Named(c) \/ c = k, nameOf'[c].suffixes = 0
        PROVE  \E e \in nameMap' : e.dir = parent[c] /\ e.name = nameOf'[c]
    <3>1. nameOf'[c] = nameOf[c]
      BY <1>4, <2>3
    <3>2. CASE parent[c] = parent[k] /\ nameOf[c] = nameOf[k]
      BY <1>5, <1>7, <3>1, <3>2
    <3>3. CASE ~(parent[c] = parent[k] /\ nameOf[c] = nameOf[k])
      <4>1. PICK e \in nameMap : e.dir = parent[c] /\ e.name = nameOf[c]
        BY <1>2, <2>3, <3>1, <3>3 DEF OnePerName
      <4>2. QED BY <1>7, <3>1, <3>3, <4>1
    <3>4. QED BY <3>2, <3>3
  <2>4. QED BY <1>1, <2>1, <2>2, <2>3 DEF OnePerName
<1>11. \A l \in Key : IsDir[l] => l # g /\ nameOf'[l] = nameOf[l] /\ nameOf'[l].suffixes = 0
  BY <1>2, <1>3, <1>4 DEF Suffixes
<1>12. DirectoryOnTop'
  <2> SUFFICES ASSUME NEW l \in Key, NEW e \in nameMap', Named(l) \/ l = k, IsDir[l],
                      e.dir = parent[l], e.name = nameOf[l]
               PROVE  IsDir[e.child]
    BY <1>1, <1>11 DEF DirectoryOnTop
  <2>1. CASE e = m
    BY <1>5, <2>1
  <2>2. CASE e \in nameMap /\ ~(e.dir = parent[k] /\ e.name = nameOf[k])
    BY <1>2, <2>2 DEF DirectoryOnTop
  <2>3. QED BY <1>7, <2>1, <2>2
<1>13. OtherGaveWay'
  <2> SUFFICES ASSUME NEW f \in Key, NEW l \in Key, Named(f) \/ f = k, Named(l) \/ l = k,
                      parent[f] = parent[l], nameOf'[f] = nameOf'[l], ~IsDir[f], IsDir[l]
               PROVE  \E j \in Key : /\ (Named(j) \/ j = k) /\ parent[j] = parent[f]
                                     /\ ~IsDir[j] /\ BaseName[j] = BaseName[f] /\ nameOf'[j].suffixes = 1
    BY <1>1 DEF OtherGaveWay, NamedAlike
  <2>1. f # g /\ f # k /\ nameOf[f] = nameOf[l]
    BY <1>4, <1>11
  <2>2. CASE l = k
    <3>1. BaseName[g] = BaseName[f] /\ parent[g] = parent[f]
      BY <1>2, <1>3, <2>1, <2>2 DEF Suffixes
    <3>2. QED BY <1>3, <1>4, <3>1
  <2>3. CASE Named(l)
    <3>1. PICK j \in Key : /\ Named(j) /\ parent[j] = parent[f]
                           /\ ~IsDir[j] /\ BaseName[j] = BaseName[f] /\ nameOf[j].suffixes = 1
      BY <1>2, <2>1, <2>3 DEF OtherGaveWay, NamedAlike
    <3>2. nameOf'[j].suffixes = 1
      BY <1>4, <3>1
    <3>3. QED BY <3>1, <3>2
  <2>4. QED BY <2>2, <2>3
<1>14. QED BY <1>8, <1>10, <1>12, <1>13

LEMMA NamingKept ==
  ASSUME TypeOK, WalksForCompact, Unnamed, Naming, [Next]_vars
  PROVE  Unnamed' /\ Naming'
<1>1. CASE ReattachOrphans
  <2>1. phase = "reattach" => phase' = "reattach" /\ UNCHANGED <<nameOf, nameMap>>
    BY <1>1 DEF ReattachOrphans, KeepPlace, ReattachRoot, ReattachSkip, StartWalk, WalkUp,
       EndWalk, ReattachReappear, treeVars
  <2>2. phase = "reattach"
    BY <1>1 DEF ReattachOrphans, KeepPlace, ReattachRoot, ReattachSkip, StartWalk, WalkUp,
       EndWalk, ReattachReappear, Visiting, Walking, WalksForCompact
  <2>3. QED BY <2>1, <2>2 DEF Unnamed, Naming
<1>2. CASE BuildTree
  <2>1. /\ phase' = "name" /\ UNCHANGED <<created, removed, parent, nameOf, nameMap>>
        /\ todo' = {k \in Key : Child(k)}
        /\ nameMap = {} /\ nameOf = [k \in Key |-> [base |-> BaseName[k], suffixes |-> 0]]
    BY <1>2 DEF BuildTree, Unnamed, setVars
  <2>2. \A k \in Key : Child(k)' <=> Child(k)
    BY <2>1 DEF Child, Visible, Exists, ExistsIn
  <2>3. (\A k \in Key : ~Named(k)') /\ \A k \in todo' : Child(k)'
    BY <2>1, <2>2 DEF Named
  <2>4. Suffixes'
    BY <2>1 DEF Suffixes
  <2>5. OnePerName' /\ DirectoryOnTop' /\ OtherGaveWay'
    BY <2>1, <2>3 DEF OnePerName, DirectoryOnTop, OtherGaveWay, NamedAlike
  <2>6. QED BY <2>1, <2>3, <2>4, <2>5 DEF Unnamed, Naming
<1>3. ASSUME NEW k \in todo, ResolveNameConflicts(k) PROVE Unnamed' /\ Naming'
  <2>1. Suffixes' /\ OnePerName' /\ DirectoryOnTop' /\ OtherGaveWay'
    <3>1. ASSUME nameOf' = nameOf,
                 \A e \in nameMap : e.dir = parent[k] /\ e.name = nameOf[k] => IsDir[e.child] = IsDir[k]
          PROVE  Suffixes' /\ OnePerName' /\ DirectoryOnTop' /\ OtherGaveWay'
      BY <1>3, <3>1, NobodyGivesWay
    <3>2. ASSUME NEW e \in nameMap, e.dir = parent[k], e.name = nameOf[k],
                 ~IsDir[k], IsDir[e.child], Rename(k)
          PROVE  Suffixes' /\ OnePerName' /\ DirectoryOnTop' /\ OtherGaveWay'
      BY <1>3, <3>2, VisitedGivesWay
    <3>3. ASSUME NEW e \in nameMap, e.dir = parent[k], e.name = nameOf[k],
                 IsDir[k], ~IsDir[e.child], Rename(e.child)
          PROVE  Suffixes' /\ OnePerName' /\ DirectoryOnTop' /\ OtherGaveWay'
      BY <1>3, <3>3, EarlierGivesWay
    <3>4. QED BY <1>3, <3>1, <3>2, <3>3, WhoGivesWay
  <2>2. phase' = "name" /\ \A c \in todo' : Child(c)'
    BY <1>3, ResolveFacts DEF Naming, TypeOK
  <2>3. QED BY <2>1, <2>2 DEF Unnamed, Naming
<1>4. CASE Finish \/ UNCHANGED vars
  <2>1. /\ UNCHANGED <<created, removed, parent, nameOf, nameMap, todo>>
        /\ phase' = "done" => phase # "reattach" /\ (todo = {} \/ phase' = phase)
        /\ phase = "reattach" <=> phase' = "reattach"
    BY <1>4 DEF Finish, vars, setVars, treeVars
  <2>2. \A k : (Child(k)' <=> Child(k)) /\ (Named(k)' <=> Named(k))
    BY <2>1 DEF Named, Child, Visible, Exists, ExistsIn
  <2>3. QED
    BY <2>1, <2>2 DEF Unnamed, Naming, Suffixes, OnePerName, DirectoryOnTop, OtherGaveWay,
       NamedAlike
<1>5. QED BY <1>1, <1>2, <1>3, <1>4 DEF Next

-----------------------------------------------------------------------------
(* The invariant, and what follows from it.                                *)

\* The invariant holds in every reachable state.
THEOREM HierarchyInvariance == Spec => []HierarchyInv
<1>1. Init => HierarchyInv
  BY InitHierarchy
<1>2. HierarchyInv /\ [Next]_vars => HierarchyInv'
  BY TypesKept, FoundKept, RootRuleKept, ReappearRuleKept, SkipRuleKept, CompactRulesKept,
     TopRuleKept, NamingKept DEF HierarchyInv
<1>3. QED BY <1>1, <1>2, PTL DEF Spec

\* "root" and "reappear" give one result in whatever order ReattachOrphans visits
\* the map it is changing, for any tree and any merged state.
THEOREM OneResultPerPolicy == Spec => []MapOrderIsIrrelevant
<1>1. HierarchyInv => MapOrderIsIrrelevant
  BY RulesGiveOrder DEF HierarchyInv
<1>2. QED BY <1>1, HierarchyInvariance, PTL

\* What "final" shows is what the rule of the policy says, for any tree and any
\* merged state, in whatever order ReattachOrphans visits the map it is changing.
THEOREM PolicyDecidesTree == Spec => []TreeFollowsPolicy
<1>1. HierarchyInv => TreeFollowsPolicy
  <2> SUFFICES ASSUME HierarchyInv PROVE TreeFollowsPolicy
    OBVIOUS
  <2>1. MapOrderIsIrrelevant
    BY RulesGiveOrder DEF HierarchyInv
  <2>2. QED
    BY <2>1, SkipShows, ReappearShows, RootShows, CompactShows DEF HierarchyInv, TreeFollowsPolicy
<1>2. QED BY <1>1, HierarchyInvariance, PTL

\* ResolveNameConflicts leaves a file and a directory of one name in one directory
\* only if another file of that name gave way, in whatever order children come.
THEOREM FilesGiveWay == Spec => []FileGivesWay
<1>1. HierarchyInv => FileGivesWay
  <2> SUFFICES ASSUME HierarchyInv, phase = "done", NEW k \in Key, NEW l \in Key,
                      Child(k), Child(l), parent[k] = parent[l],
                      ~IsDir[k], IsDir[l], nameOf[k] = nameOf[l]
               PROVE  \E j \in Key : /\ Child(j) /\ parent[j] = parent[k]
                                     /\ ~IsDir[j] /\ BaseName[j] = BaseName[k]
                                     /\ nameOf[j].suffixes = 1
    BY DEF FileGivesWay
  <2>1. todo = {} /\ OtherGaveWay
    BY DEF HierarchyInv, Naming
  <2>2. NamedAlike(k, l)
    BY <2>1 DEF NamedAlike, Named
  <2>3. QED BY <2>1, <2>2 DEF OtherGaveWay, Named
<1>2. QED BY <1>1, HierarchyInvariance, PTL
=============================================================================
