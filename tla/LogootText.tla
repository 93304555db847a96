----------------------------- MODULE LogootText -----------------------------
(***************************************************************************)
(* The replicated text (LogootOpBased.go): lines inserted between two      *)
(* lines, at a position generated from theirs, into a tree of nodes.       *)
(*                                                                         *)
(* A position is generated from prefixes of one identifier, or not at all  *)
(* (see Generate), so that the tree is a root, the line "first", and its   *)
(* sons, in the order Insert puts them.  Delete panics whatever it is      *)
(* given, so that every node has its line.  Lookup rebuilds the tree from  *)
(* the operations in the order they became known.                          *)
(*                                                                         *)
(* An operation travels as JSON, and the fields of a position are not      *)
(* exported: what arrives has no identifier at all.  Insert of such a line *)
(* does nothing, Delete of one panics.                                     *)
(***************************************************************************)
EXTENDS LogootPosition

CONSTANTS Site,         \* the replicas; site 0 is "" and Creation the greatest
          Bootstrap,    \* the replica that inserts the initial value
          Removing,     \* whether lines are removed; no driver does
          MaxInserts    \* bound: lines inserted, the initial value included

Creation == 1 + Max(Site)
ASSUME SiteAssumption == Site \subseteq Nat \ {0} /\ Bootstrap \in Site /\ Removing \in BOOLEAN

VARIABLES
  sons,    \* sons[s]: the sons of the root, each [site, position, text]
  known,   \* known[s]: the operations of s's Merkle-DAG: the texts inserted,
           \* and 0 for a deletion
  state,   \* state[s]: "up", "looping" in generateLinePositions with the
           \* semaphore held, "panicked"
  author   \* history: author[t]: the replica that inserted text t, 0: none yet

vars == <<sons, known, state, author>>

Texts == 1..MaxInserts
Line(site, position, text) == [site |-> site, position |-> position, text |-> text]
IdentifierOf(l) == [site |-> l.site, position |-> l.position]
PosOf(l) == <<IdentifierOf(l)>>

FirstLine == Line(Creation, 0, 0)
LastLine == Line(Creation, MaxPos, 0)

\* Lookup: the root's line, then the lines of its sons.
Lookup(s) == <<FirstLine>> \o sons[s]

\* The numbers an int of this width holds.
IntRange == -(2 ^ (Width - 1))..(2 ^ (Width - 1) - 1)

TypeOK ==
  /\ \A s \in Site : /\ sons[s] \in Seq([site : Site \cup {Creation}, position : IntRange, text : Texts \cup {0}])
                     /\ known[s] \subseteq Texts \cup {0}
  /\ state \in [Site -> {"up", "looping", "panicked"}]
  /\ author \in [Texts -> Site \cup {0}]

-----------------------------------------------------------------------------
\* LowerThan of LogootOpBased.go: "lower or equal" on the number alone.
SonLowerThan(a, b) == a.position <= b.position

InsertSon_Overwrites(list, l) ==
  LET stops == {i \in 1..Len(list) : SonLowerThan(list[i], l)}
      at == IF stops = {} THEN Len(list) + 1 ELSE Min(stops)
  IN  IF at >= Len(list) THEN Append(list, l) ELSE ReplaceAt(list, at, l)

\* CRDTLogootOpBased.Insert among the sons: the search stops at the first son
\* that is the identifier (its line is replaced) or that is lower; the new node
\* goes there or, if that is the last place, to the end.
InsertSon(list, l) ==
  LET stops == {i \in 1..Len(list) : SonLowerThan(list[i], l)}
      at == IF stops = {} THEN Len(list) + 1 ELSE Min(stops)
  IN  IF at <= Len(list) /\ IdentifierOf(list[at]) = IdentifierOf(l) THEN ReplaceAt(list, at, l)
      ELSE IF at >= Len(list) THEN Append(list, l)
      ELSE InsertAt(list, at, l)

\* generateLinePositions(a, b, 1, s): the prefixes of one identifier do if
\* their distance is not 0, and longer ones, filled with equal identifiers,
\* have the same distance: the loop never ends.  "step" becomes an int, which
\* rand.Intn refuses unless it is positive.
Interval(a, b, index) == Distance(Prefix(PosOf(b), index), Prefix(PosOf(a), index))
Step(a, b) == Signed(Interval(a, b, 1))
Loops(a, b) == Interval(a, b, 1) = 0

\* The identifiers it may return; the addition starts from the lower line.
Generate(a, b, s) ==
  LET lo == PosOf(IF LowerThan(PosOf(a), PosOf(b)) THEN a ELSE b)
      hi == PosOf(IF LowerThan(PosOf(a), PosOf(b)) THEN b ELSE a)
  IN  {constructPosition(Add(Prefix(lo, 1), x), lo, hi, s)[1] : x \in 1..Step(a, b)}

\* The next text, inserted by s at identifier i.
Put(s, t, i) ==
  /\ sons' = [sons EXCEPT ![s] = InsertSon(@, Line(i.site, i.position, t))]
  /\ known' = [known EXCEPT ![s] = @ \cup {t}]
  /\ author' = [author EXCEPT ![t] = s]

Free == {t \in Texts : author[t] = 0}

\* Create_CRDTLogootOpBasedDag: the bootstrap replica inserts the initial value
\* between the first and the last line.
Init ==
  /\ \E i \in Generate(FirstLine, LastLine, Bootstrap) :
       sons = [s \in Site |-> IF s = Bootstrap THEN InsertSon(<<LastLine>>, Line(i.site, i.position, 1))
                              ELSE <<LastLine>>]
  /\ known = [s \in Site |-> IF s = Bootstrap THEN {1} ELSE {}]
  /\ author = [t \in Texts |-> IF t = 1 THEN Bootstrap ELSE 0]
  /\ state = [s \in Site |-> "up"]

\* Update_ForLogootOpBased, Insert: a line between two that are next to each
\* other in Lookup, drawn at random.
InsertLine(s) ==
  /\ state[s] = "up"
  /\ Free # {}
  /\ \E k \in 1..(Len(Lookup(s)) - 1) :
       LET a == Lookup(s)[k]
           b == Lookup(s)[k + 1]
       IN  /\ ~Loops(a, b) /\ Step(a, b) > 0
           /\ \E i \in Generate(a, b, s) : Put(s, Min(Free), i)
  /\ UNCHANGED state

\* The same, when no position comes out: the loop, or the panic of rand.Intn.
InsertFails(s) ==
  /\ state[s] = "up"
  /\ Free # {}
  /\ \E k \in 1..(Len(Lookup(s)) - 1) :
       LET a == Lookup(s)[k]
           b == Lookup(s)[k + 1]
       IN  \/ Loops(a, b) /\ state' = [state EXCEPT ![s] = "looping"]
           \/ ~Loops(a, b) /\ Step(a, b) <= 0 /\ state' = [state EXCEPT ![s] = "panicked"]
  /\ UNCHANGED <<sons, known, author>>

\* Remove: the deletion is added to the DAG and sent; then Lookup replays it
\* and Delete goes past the end of the position, or of the sons.
RemoveLine(s) ==
  /\ Removing
  /\ state[s] = "up"
  /\ known[s] # {}
  /\ known' = [known EXCEPT ![s] = @ \cup {0}]
  /\ state' = [state EXCEPT ![s] = "panicked"]
  /\ UNCHANGED <<sons, author>>

\* CheckUpdate and Merge: s learns a node of r and all it depends on.  The
\* lines come without positions: Lookup inserts none of them, and Delete fails.
\* A replica that loops holds the semaphore CheckUpdate waits for.
CheckUpdate(s, r) ==
  /\ state[s] = "up"
  /\ ~(known[r] \subseteq known[s])
  /\ known' = [known EXCEPT ![s] = @ \cup known[r]]
  /\ state' = [state EXCEPT ![s] = IF 0 \in known[r] THEN "panicked" ELSE @]
  /\ UNCHANGED <<sons, author>>

Next == \E s \in Site : \/ InsertLine(s) \/ InsertFails(s) \/ RemoveLine(s)
                        \/ \E r \in Site : CheckUpdate(s, r)

Spec == Init /\ [][Next]_vars

-----------------------------------------------------------------------------
(***************************************************************************)
(* Properties                                                              *)
(***************************************************************************)

\* No step takes a node out of a replica's text or changes the order of those
\* that were there (Insert, with its splicing of slices).
NodesKeepOrder ==
  [][\A s \in Site :
       \A i, j \in DOMAIN sons[s] : i < j =>
         \E k, l \in DOMAIN sons'[s] :
           /\ k < l
           /\ IdentifierOf(sons'[s][k]) = IdentifierOf(sons[s][i])
           /\ IdentifierOf(sons'[s][l]) = IdentifierOf(sons[s][j])]_vars

=============================================================================
