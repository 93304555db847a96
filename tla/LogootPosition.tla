--------------------------- MODULE LogootPosition ---------------------------
(***************************************************************************)
(* The positions of Logoot lines (LogootLinkedList.go): their order, their *)
(* distance, and the addition of a number to one.  A position is a         *)
(* sequence of identifiers, of a number "between 0 and 999" and the site   *)
(* that chose it.                                                          *)
(***************************************************************************)
EXTENDS Integers, Sequences, FiniteSetsExt, SequencesExt

CONSTANTS MaxPos,  \* 999 in the code
          Width    \* the bits of an int, 64 in the code

\* That a power of two is a number is said for the prover, which has no axiom
\* about powers.
ASSUME PositionAssumption ==
  MaxPos \in Nat \ {0} /\ Width \in Nat \ {0, 1} /\ 2 ^ Width \in Nat \ {0}

\* The uint64 that a number becomes.
Unsigned(n) == n % (2 ^ Width)

\* The int that a number becomes.
Signed(n) == LET u == Unsigned(n) IN IF u < 2 ^ (Width - 1) THEN u ELSE u - 2 ^ Width

\* Identifier.LowerThan.
IdentifierLowerThan(a, b) ==
  a.position < b.position \/ (a.position = b.position /\ a.site < b.site)

\* Position.LowerThan: "lower or equal", decided by the first identifier that
\* differs; q is as long as p up to there.
LowerThan(p, q) ==
  \A i \in 1..Len(p) :
    IdentifierLowerThan(q[i], p[i]) => \E j \in 1..(i - 1) : IdentifierLowerThan(p[j], q[j])

\* Prefix: cut, or filled with identifiers of position 0 and no site.
Prefix(p, n) == [i \in 1..n |-> IF i <= Len(p) THEN p[i] ELSE [site |-> 0, position |-> 0]]

\* Distance: the difference at the first position that differs, times a factor
\* for every position from that one on.
Distance(p, q) ==
  LET lo == IF LowerThan(p, q) THEN p ELSE q
      hi == IF LowerThan(p, q) THEN q ELSE p
      differ == {i \in 1..Len(lo) : lo[i].position # hi[i].position}
      first == IF differ = {} THEN 1 ELSE Min(differ)
      long == IF Len(lo) > Len(hi) THEN Len(lo) ELSE Len(hi)
      Factor(i) == MaxPos - (IF i <= Len(lo) THEN lo[i].position ELSE -1)
                          + (IF i <= Len(hi) THEN hi[i].position ELSE MaxPos + 1)
      Times(a, i) == Unsigned(a * Factor(i))
  IN  FoldLeft(Times, Unsigned(hi[first].position - lo[first].position),
               [k \in 1..(long - first + 1) |-> first + k - 1])

AddStep_NoCarry(a) ==
  LET n == Len(a.list)
      space == MaxPos - a.list[n].position
      full == {i \in 2..n : \A j \in i..n : a.list[j].position >= MaxPos}
      list == [i \in 1..n |-> IF i \in full THEN [a.list[i] EXCEPT !.position = 0] ELSE a.list[i]]
  IN  IF space < a.toAdd
        THEN [list |-> list, toAdd |-> Signed(a.toAdd - space)]
        ELSE [list |-> [a.list EXCEPT ![n].position = @ + a.toAdd], toAdd |-> 0]

\* One round of the loop of Position.Add.  If the last position has no room for
\* the whole of toAdd, the positions that are full at the end become 0, the one
\* before them (the first one, though it be full) is incremented, and toAdd is
\* less by what room there was.
AddStep(a) ==
  LET n == Len(a.list)
      space == MaxPos - a.list[n].position
      full == {i \in 2..n : \A j \in i..n : a.list[j].position >= MaxPos}
      carry == n - Cardinality(full)
      list == [i \in 1..n |-> IF i \in full THEN [a.list[i] EXCEPT !.position = 0] ELSE a.list[i]]
  IN  IF space < a.toAdd
        THEN [list |-> [list EXCEPT ![carry].position = @ + 1], toAdd |-> Signed(a.toAdd - space)]
        ELSE [list |-> [a.list EXCEPT ![n].position = @ + a.toAdd], toAdd |-> 0]

\* Position.Add.
Add(p, x) ==
  LET Loop[a \in [list : Seq([site : Nat, position : Int]), toAdd : Int]] ==
        IF a.toAdd > 0 THEN Loop[AddStep(a)] ELSE a.list
  IN  Loop[[list |-> p, toAdd |-> x]]

constructPosition_OwnSite(r, p, q, s) ==
  [i \in 1..Len(r) |-> [position |-> r[i].position, site |-> s]]

\* constructPosition: where the number is that of a neighbour, so is the site.
constructPosition(r, p, q, s) ==
  [i \in 1..Len(r) |->
    [position |-> r[i].position,
     site |-> CASE p[i].position = r[i].position -> p[i].site
                [] p[i].position # r[i].position /\ q[i].position = r[i].position -> q[i].site
                [] OTHER -> s]]
=============================================================================
