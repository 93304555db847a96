---------------------------- MODULE LogootProofs ----------------------------
(***************************************************************************)
(* Proofs about LogootAdd and LogootText, for any sites, any bounds and    *)
(* any width of an int.                                                    *)
(***************************************************************************)
EXTENDS LogootAdd, LogootText, FiniteSetTheorems, SequenceTheorems, WellFoundedInduction, TLAPS

-----------------------------------------------------------------------------
(* The order of positions.                                                 *)

\* What the numbers and sites of an identifier are to Go: ints, whatever
\* Position.Add made of them, and strings.
AnyIdentifier == [site : Nat, position : Int]

LEMMA IdentifiersOrdered ==
  ASSUME NEW a \in AnyIdentifier, NEW b \in AnyIdentifier
  PROVE  /\ ~IdentifierLowerThan(a, a)
         /\ a = b \/ IdentifierLowerThan(a, b) \/ IdentifierLowerThan(b, a)
         /\ ~(IdentifierLowerThan(a, b) /\ IdentifierLowerThan(b, a))
<1>1. a.site = b.site /\ a.position = b.position => a = b
  BY DEF AnyIdentifier
<1>2. a.site \in Int /\ a.position \in Int /\ b.site \in Int /\ b.position \in Int
  BY DEF AnyIdentifier
<1>3. QED BY <1>1, <1>2 DEF IdentifierLowerThan

LEMMA IdentifiersTransitive ==
  ASSUME NEW a \in AnyIdentifier, NEW b \in AnyIdentifier, NEW c \in AnyIdentifier,
         IdentifierLowerThan(a, b), IdentifierLowerThan(b, c)
  PROVE  IdentifierLowerThan(a, c)
<1>1. \A x \in {a, b, c} : x.site \in Int /\ x.position \in Int
  BY DEF AnyIdentifier
<1>2. QED BY <1>1 DEF IdentifierLowerThan

LEMMA LeastExists ==
  ASSUME NEW S \in SUBSET Nat, S # {}
  PROVE  \E m \in S : \A i \in S : m <= i
<1>1. PICK m \in S : \A i \in S : ~(<<i, m>> \in OpToRel(<, Nat))
  BY NatLessThanWellFounded, WFMin
<1>2. \A i \in S : ~(i < m)
  BY <1>1 DEF OpToRel
<1>3. QED BY <1>2

\* The first identifier at which two positions differ.
FirstDifference(a, b, k) ==
  k \in 1..Len(a) /\ a[k] # b[k] /\ \A j \in 1..(k - 1) : a[j] = b[j]

LEMMA FirstDifferenceExists ==
  ASSUME NEW a \in Seq(AnyIdentifier), NEW b \in Seq(AnyIdentifier), Len(a) = Len(b), a # b
  PROVE  \E k \in 1..Len(a) : FirstDifference(a, b, k)
<1> DEFINE D == {k \in 1..Len(a) : a[k] # b[k]}
<1>1. Len(a) \in Nat
  OBVIOUS
<1>2. D # {}
  <2>1. SUFFICES ASSUME \A k \in 1..Len(a) : a[k] = b[k] PROVE FALSE
    OBVIOUS
  <2>2. QED BY <2>1, SeqEqual
<1>3. PICK k \in D : \A i \in D : k <= i
  <2>1. D \in SUBSET Nat
    BY <1>1
  <2>2. QED BY <1>2, <2>1, LeastExists
<1>4. \A j \in 1..(k - 1) : a[j] = b[j]
  BY <1>1, <1>3
<1>5. QED BY <1>3, <1>4 DEF FirstDifference

\* The first difference decides.
LEMMA LowerByFirst ==
  ASSUME NEW a \in Seq(AnyIdentifier), NEW b \in Seq(AnyIdentifier), Len(a) = Len(b),
         NEW k \in 1..Len(a), \A j \in 1..(k - 1) : a[j] = b[j], IdentifierLowerThan(a[k], b[k])
  PROVE  LowerThan(a, b) /\ ~LowerThan(b, a)
<1>1. Len(a) \in Nat /\ \A i \in 1..Len(a) : a[i] \in AnyIdentifier /\ b[i] \in AnyIdentifier
  OBVIOUS
<1>2. ASSUME NEW i \in 1..Len(a), IdentifierLowerThan(b[i], a[i])
      PROVE  \E j \in 1..(i - 1) : IdentifierLowerThan(a[j], b[j])
  <2>1. ~(i < k)
    BY <1>1, <1>2, IdentifiersOrdered
  <2>2. i # k
    BY <1>1, <1>2, IdentifiersOrdered
  <2>3. k \in 1..(i - 1)
    BY <1>1, <2>1, <2>2
  <2>4. QED BY <2>3
<1>3. \A j \in 1..(k - 1) : ~IdentifierLowerThan(b[j], a[j])
  BY <1>1, IdentifiersOrdered
<1>4. QED BY <1>2, <1>3 DEF LowerThan

LEMMA FirstDecides ==
  ASSUME NEW a \in Seq(AnyIdentifier), NEW b \in Seq(AnyIdentifier), Len(a) = Len(b),
         NEW k \in 1..Len(a), FirstDifference(a, b, k)
  PROVE  /\ LowerThan(a, b) <=> IdentifierLowerThan(a[k], b[k])
         /\ LowerThan(a, b) <=> ~LowerThan(b, a)
<1>1. a[k] \in AnyIdentifier /\ b[k] \in AnyIdentifier /\ a[k] # b[k]
      /\ \A j \in 1..(k - 1) : a[j] = b[j] /\ b[j] = a[j]
  BY DEF FirstDifference
<1>2. CASE IdentifierLowerThan(a[k], b[k])
  BY <1>1, <1>2, LowerByFirst
<1>3. CASE IdentifierLowerThan(b[k], a[k])
  <2>1. LowerThan(b, a) /\ ~LowerThan(a, b)
    BY <1>1, <1>3, LowerByFirst
  <2>2. ~IdentifierLowerThan(a[k], b[k])
    BY <1>1, <1>3, IdentifiersOrdered
  <2>3. QED BY <2>1, <2>2
<1>4. QED BY <1>1, <1>2, <1>3, IdentifiersOrdered

LEMMA LowerReflexive ==
  ASSUME NEW a \in Seq(AnyIdentifier)
  PROVE  LowerThan(a, a)
<1>1. \A i \in 1..Len(a) : ~IdentifierLowerThan(a[i], a[i])
  BY IdentifiersOrdered
<1>2. QED BY <1>1 DEF LowerThan

LEMMA LowerTransitive ==
  ASSUME NEW a \in Seq(AnyIdentifier), NEW b \in Seq(AnyIdentifier), NEW c \in Seq(AnyIdentifier),
         Len(a) = Len(b), Len(b) = Len(c), LowerThan(a, b), LowerThan(b, c)
  PROVE  LowerThan(a, c)
<1>1. CASE a = b \/ b = c
  BY <1>1
<1>2. CASE a # b /\ b # c
  <2>1. PICK k \in 1..Len(a) : FirstDifference(a, b, k)
    BY <1>2, FirstDifferenceExists
  <2>2. PICK l \in 1..Len(b) : FirstDifference(b, c, l)
    BY <1>2, FirstDifferenceExists
  <2>3. IdentifierLowerThan(a[k], b[k]) /\ IdentifierLowerThan(b[l], c[l])
    BY <2>1, <2>2, FirstDecides
  <2>4. /\ \A j \in 1..(k - 1) : a[j] = b[j]
        /\ \A j \in 1..(l - 1) : b[j] = c[j]
    BY <2>1, <2>2 DEF FirstDifference
  <2> DEFINE m == IF k < l THEN k ELSE l
  <2>5. m \in 1..Len(a) /\ \A j \in 1..(m - 1) : a[j] = c[j]
    BY <2>4
  <2>6. IdentifierLowerThan(a[m], c[m])
    <3>1. CASE k < l
      BY <2>3, <2>4, <3>1
    <3>2. CASE l < k
      BY <2>3, <2>4, <3>2
    <3>3. CASE k = l
      <4>1. a[k] \in AnyIdentifier /\ b[k] \in AnyIdentifier /\ c[k] \in AnyIdentifier
        OBVIOUS
      <4>2. QED BY <2>3, <3>3, <4>1, IdentifiersTransitive
    <3>4. QED BY <3>1, <3>2, <3>3
  <2>7. QED
    <3> HIDE DEF m
    <3> QED BY <2>5, <2>6, LowerByFirst
<1>3. QED BY <1>1, <1>2

-----------------------------------------------------------------------------
(* The addition.                                                           *)

LEMMA MaxPosIsInt == MaxPos \in Int
BY PositionAssumption

LEMMA IdentifiersIncluded == Identifier \subseteq AnyIdentifier
<1> SUFFICES ASSUME NEW i \in Identifier PROVE i \in AnyIdentifier
  OBVIOUS
<1>1. i = [site |-> i.site, position |-> i.position] /\ i.site \in SiteName /\ i.position \in Int
  BY MaxPosIsInt DEF Identifier
<1>2. i.site \in Nat
  BY <1>1, NameAssumption
<1>3. QED BY <1>1, <1>2 DEF AnyIdentifier

LEMMA PositionsAreSequences ==
  ASSUME NEW a \in Position
  PROVE  a \in Seq(AnyIdentifier) /\ Len(a) \in Nat \ {0} /\ a \in [1..Len(a) -> Identifier]
<1>1. PICK n \in 1..MaxLength : a \in [1..n -> Identifier]
  BY DEF Position
<1>2. Identifier \subseteq AnyIdentifier
  BY IdentifiersIncluded
<1>3. a \in [1..n -> AnyIdentifier] /\ n \in Nat \ {0}
  BY <1>1, <1>2
<1>4. a \in Seq(AnyIdentifier)
  BY <1>3
<1>5. Len(a) = n
  BY <1>3, <1>4, LenProperties
<1>6. QED BY <1>1, <1>3, <1>4, <1>5

\* Every operation on the numbers of an int gives an int.
LEMMA SignedIsInt == ASSUME NEW n \in Int PROVE Signed(n) \in Int
<1> DEFINE w == 2 ^ Width
<1>1. w \in Nat \ {0}
  BY PositionAssumption
<1>2. Unsigned(n) \in Int
  <2>1. n % w \in Int
    <3> HIDE DEF w
    <3> QED BY <1>1
  <2>2. QED BY <2>1 DEF Unsigned
<1>3. Unsigned(n) - w \in Int
  <2> HIDE DEF w
  <2> QED BY <1>1, <1>2
<1>4. Signed(n) = Unsigned(n) \/ Signed(n) = Unsigned(n) - w
  <2> HIDE DEF Unsigned
  <2> QED BY DEF Signed
<1>5. QED BY <1>2, <1>3, <1>4

\* The positions that AddStep finds full, and the one before them.
Full(l) == {i \in 2..Len(l) : \A j \in i..Len(l) : l[j].position >= MaxPos}
Carry(l) == Len(l) - Cardinality(Full(l))

\* The full positions are all those after the one that is incremented.
LEMMA CarryFacts ==
  ASSUME NEW l \in Seq(AnyIdentifier), Len(l) > 0
  PROVE  Carry(l) \in 1..Len(l) /\ \A i \in Full(l) : Carry(l) < i
<1> DEFINE n == Len(l)
<1>1. n \in Nat \ {0}
  OBVIOUS
<1>2. PICK m \in 2..(n + 1) : Full(l) = m..n
  <2>1. CASE Full(l) = {}
    BY <1>1, <2>1
  <2>2. CASE Full(l) # {}
    <3>1. Full(l) \in SUBSET Nat
      BY <1>1 DEF Full
    <3>2. PICK m \in Full(l) : \A i \in Full(l) : m <= i
      BY <2>2, <3>1, LeastExists
    <3>3. m \in 2..n /\ \A j \in m..n : l[j].position >= MaxPos
      BY <3>2 DEF Full
    <3>4. m..n \subseteq Full(l)
      BY <1>1, <3>3 DEF Full
    <3>5. Full(l) \subseteq m..n
      BY <1>1, <3>2, <3>3 DEF Full
    <3>6. m \in 2..(n + 1)
      BY <1>1, <3>3
    <3>7. Full(l) = m..n
      BY <3>4, <3>5
    <3>8. QED BY <3>6, <3>7
  <2>3. QED BY <2>1, <2>2
<1>3. Cardinality(m..n) = IF m > n THEN 0 ELSE n - m + 1
  <2>1. m \in Int /\ n \in Int
    BY <1>1
  <2> HIDE DEF n
  <2>2. QED BY <2>1, FS_Interval
<1>4. Carry(l) = m - 1
  BY <1>1, <1>2, <1>3 DEF Carry
<1>5. QED BY <1>1, <1>2, <1>4

\* A round keeps the length of the list and makes it higher.
LEMMA RoundRaises ==
  ASSUME NEW l \in Seq(AnyIdentifier), Len(l) > 0, NEW x \in Int, x > 0,
         NEW a, a = AddStep([list |-> l, toAdd |-> x])
  PROVE  /\ a.list \in Seq(AnyIdentifier) /\ Len(a.list) = Len(l)
         /\ \A i \in 1..Len(l) : a.list[i].site = l[i].site
         /\ a.toAdd \in Int
         /\ LowerThan(l, a.list) /\ l # a.list
<1> DEFINE n == Len(l)
           space == MaxPos - l[n].position
           zeros == [i \in 1..n |-> IF i \in Full(l) THEN [l[i] EXCEPT !.position = 0] ELSE l[i]]
<1>1. n \in Nat \ {0} /\ l \in [1..n -> AnyIdentifier]
  BY LenProperties
<1>2. /\ \A i \in 1..n : l[i].position \in Int /\ l[i].site \in Nat
      /\ space \in Int
  BY <1>1, PositionAssumption DEF AnyIdentifier
<1>3. ASSUME NEW k \in 1..n, NEW list0 \in Seq(AnyIdentifier), Len(list0) = n,
             \A j \in 1..(k - 1) : list0[j] = l[j],
             NEW v \in Int, list0[k] = [l[k] EXCEPT !.position = @ + v], v > 0
      PROVE  LowerThan(l, list0) /\ l # list0
  <2>1. list0[k].position = l[k].position + v
    BY <1>1, <1>3 DEF AnyIdentifier
  <2>2. IdentifierLowerThan(l[k], list0[k]) /\ list0[k] # l[k]
    <3>1. l[k].position \in Int /\ v \in Int /\ v > 0
      BY <1>2, <1>3
    <3>2. l[k].position < list0[k].position /\ list0[k].position # l[k].position
      BY <2>1, <3>1
    <3>3. QED BY <3>2 DEF IdentifierLowerThan
  <2>3. LowerThan(l, list0)
    BY <1>3, <2>2, LowerByFirst
  <2>4. QED BY <2>2, <2>3
<1>4. CASE space < x
  <2> DEFINE c == Carry(l)
             r == [zeros EXCEPT ![c].position = @ + 1]
  <2>1. a = [list |-> r, toAdd |-> Signed(x - space)]
    BY <1>4 DEF AddStep, Full, Carry
  <2>2. c \in 1..n /\ \A i \in Full(l) : c < i
    BY <1>1, CarryFacts
  <2>3. zeros \in [1..n -> AnyIdentifier]
    BY <1>1 DEF AnyIdentifier
  <2>4. \A i \in 1..c : zeros[i] = l[i]
    BY <1>1, <2>2
  <2>5. r \in [1..n -> AnyIdentifier] /\ r[c] = [l[c] EXCEPT !.position = @ + 1]
        /\ \A j \in 1..(c - 1) : r[j] = l[j]
    <3> HIDE DEF zeros, c
    <3>1. r = [zeros EXCEPT ![c] = [zeros[c] EXCEPT !.position = @ + 1]]
      BY <2>2, <2>3
    <3>2. zeros[c] = l[c] /\ [l[c] EXCEPT !.position = @ + 1] \in AnyIdentifier
      <4>1. c \in 1..c /\ l[c] \in AnyIdentifier
        BY <1>1, <2>2
      <4>2. QED BY <2>4, <4>1 DEF AnyIdentifier
    <3>3. QED BY <1>1, <2>2, <2>3, <2>4, <3>1, <3>2
  <2>6. r \in Seq(AnyIdentifier) /\ Len(r) = n
    <3> HIDE DEF r
    <3> QED BY <1>1, <2>5
  <2>7. LowerThan(l, r) /\ l # r
    <3>1. r[c] = [l[c] EXCEPT !.position = @ + 1] /\ 1 \in Int /\ 1 > 0
      BY <2>5
    <3> HIDE DEF r, c, zeros
    <3>2. QED BY <1>3, <2>2, <2>5, <2>6, <3>1
  <2>8. Signed(x - space) \in Int
    BY <1>2, SignedIsInt
  <2>9. \A i \in 1..n : r[i].site = l[i].site
    <3>1. \A i \in 1..n : zeros[i].site = l[i].site
      BY <1>1 DEF AnyIdentifier
    <3>2. r[c].site = l[c].site
      <4>1. [l[c] EXCEPT !.position = @ + 1].site = l[c].site
        BY <1>1, <2>2 DEF AnyIdentifier
      <4> HIDE DEF r, c
      <4>2. QED BY <2>5, <4>1
    <3>3. \A i \in 1..n : i # c => r[i] = zeros[i]
      <4> HIDE DEF zeros, c
      <4> QED BY <2>3
    <3> HIDE DEF r, c, zeros
    <3>4. QED BY <3>1, <3>2, <3>3
  <2>10. QED
    <3> HIDE DEF r, space
    <3> QED BY <2>1, <2>6, <2>7, <2>8, <2>9
<1>5. CASE ~(space < x)
  <2> DEFINE r == [l EXCEPT ![n].position = @ + x]
  <2>1. a = [list |-> r, toAdd |-> 0]
    BY <1>5 DEF AddStep
  <2>2. r \in [1..n -> AnyIdentifier] /\ r[n] = [l[n] EXCEPT !.position = @ + x]
        /\ \A j \in 1..(n - 1) : r[j] = l[j]
    <3>1. r = [l EXCEPT ![n] = [l[n] EXCEPT !.position = @ + x]]
      BY <1>1
    <3>2. [l[n] EXCEPT !.position = @ + x] \in AnyIdentifier
      BY <1>1 DEF AnyIdentifier
    <3>3. QED BY <1>1, <3>1, <3>2
  <2>3. r \in Seq(AnyIdentifier) /\ Len(r) = n
    <3> HIDE DEF r
    <3> QED BY <1>1, <2>2
  <2>4. LowerThan(l, r) /\ l # r
    <3> HIDE DEF r
    <3> QED BY <1>1, <1>3, <2>2, <2>3
  <2>5. \A i \in 1..n : r[i].site = l[i].site
    BY <1>1 DEF AnyIdentifier
  <2>6. QED
    <3> HIDE DEF r
    <3> QED BY <2>1, <2>3, <2>4, <2>5
<1>6. QED BY <1>4, <1>5

-----------------------------------------------------------------------------
(* Position.Add as a loop, and the order it works in.                      *)

\* The two positions stay what they were, and the list stays a position,
\* though its numbers may pass MaxPos.
AddTypeOK ==
  /\ p \in Position /\ q \in Position /\ Len(p) = Len(q)
  /\ list \in Seq(AnyIdentifier) /\ Len(list) = Len(p)
  /\ toAdd \in Int

LEMMA AddTypeCorrect == AddSpec => []AddTypeOK
<1>1. AddInit => AddTypeOK
  <2> SUFFICES ASSUME AddInit PROVE AddTypeOK
    OBVIOUS
  <2>1. p \in Position /\ q \in Position /\ Len(p) = Len(q) /\ list = p /\ toAdd \in 1..MaxAdd
    BY DEF AddInit
  <2>2. p \in Seq(AnyIdentifier) /\ Len(p) \in Nat \ {0}
    BY <2>1, PositionsAreSequences
  <2>3. QED BY <2>1, <2>2 DEF AddTypeOK
<1>2. AddTypeOK /\ [Round]_addVars => AddTypeOK'
  <2> SUFFICES ASSUME AddTypeOK, [Round]_addVars PROVE AddTypeOK'
    OBVIOUS
  <2>1. CASE Round
    <3> DEFINE a == AddStep([list |-> list, toAdd |-> toAdd])
    <3>1. list' = a.list /\ toAdd' = a.toAdd /\ p' = p /\ q' = q /\ toAdd > 0 /\ Len(list) > 0
      BY <2>1, PositionsAreSequences DEF Round, AddTypeOK
    <3>2. a.list \in Seq(AnyIdentifier) /\ Len(a.list) = Len(list) /\ a.toAdd \in Int
      BY <3>1, RoundRaises DEF AddTypeOK
    <3>3. list' \in Seq(AnyIdentifier) /\ Len(list') = Len(p') /\ toAdd' \in Int
      <4> HIDE DEF a
      <4> QED BY <3>1, <3>2 DEF AddTypeOK
    <3>4. QED BY <3>1, <3>3 DEF AddTypeOK
  <2>2. CASE UNCHANGED addVars
    BY <2>2 DEF AddTypeOK, addVars
  <2>3. QED BY <2>1, <2>2
<1>3. QED BY <1>1, <1>2, PTL DEF AddSpec

\* No round of Position.Add gives a lower position or the same one, whatever
\* it carries and even when the first number passes MaxPos.
THEOREM AdditionRaises == AddSpec => AddIncreases
<1>1. AddTypeOK /\ [Round]_addVars => [LowerThan(list, list') /\ list # list']_addVars
  <2> SUFFICES ASSUME AddTypeOK, Round PROVE LowerThan(list, list') /\ list # list'
    OBVIOUS
  <2> DEFINE a == AddStep([list |-> list, toAdd |-> toAdd])
  <2>1. list' = a.list /\ toAdd > 0 /\ Len(list) > 0
    BY PositionsAreSequences DEF Round, AddTypeOK
  <2>2. LowerThan(list, a.list) /\ list # a.list
    BY <2>1, RoundRaises DEF AddTypeOK
  <2>3. QED
    <3> HIDE DEF a
    <3> QED BY <2>1, <2>2
<1>2. QED BY <1>1, AddTypeCorrect, PTL DEF AddSpec, AddIncreases

SumIsNotLower == LowerThan(p, list)

LEMMA SumFollows == AddSpec => []SumIsNotLower
<1>1. AddInit => SumIsNotLower
  <2> SUFFICES ASSUME AddInit PROVE SumIsNotLower
    OBVIOUS
  <2>1. p \in Seq(AnyIdentifier) /\ list = p
    BY PositionsAreSequences DEF AddInit
  <2>2. QED BY <2>1, LowerReflexive DEF SumIsNotLower
<1>2. AddTypeOK /\ AddTypeOK' /\ SumIsNotLower /\ [Round]_addVars => SumIsNotLower'
  <2> SUFFICES ASSUME AddTypeOK, AddTypeOK', SumIsNotLower, [Round]_addVars PROVE SumIsNotLower'
    OBVIOUS
  <2>1. CASE Round
    <3> DEFINE a == AddStep([list |-> list, toAdd |-> toAdd])
    <3>1. list' = a.list /\ toAdd > 0 /\ p' = p
      BY <2>1 DEF Round
    <3>2. /\ p \in Seq(AnyIdentifier) /\ list \in Seq(AnyIdentifier) /\ list' \in Seq(AnyIdentifier)
          /\ Len(p) = Len(list) /\ Len(list') = Len(list) /\ Len(list) > 0
      BY <3>1, PositionsAreSequences DEF AddTypeOK
    <3>3. LowerThan(list, a.list)
      BY <3>1, <3>2, RoundRaises DEF AddTypeOK
    <3>4. LowerThan(p, list')
      <4> HIDE DEF a
      <4>1. LowerThan(list, list') /\ LowerThan(p, list)
        BY <3>1, <3>3 DEF SumIsNotLower
      <4>2. QED BY <3>2, <4>1, LowerTransitive
    <3>5. QED BY <3>1, <3>4 DEF SumIsNotLower
  <2>2. CASE UNCHANGED addVars
    BY <2>2 DEF SumIsNotLower, addVars
  <2>3. QED BY <2>1, <2>2
<1>3. QED BY <1>1, <1>2, AddTypeCorrect, PTL DEF AddSpec

SitesKept == \A i \in 1..Len(p) : list[i].site = p[i].site

LEMMA SitesAreKept == AddSpec => []SitesKept
<1>1. AddInit => SitesKept
  BY DEF AddInit, SitesKept
<1>2. AddTypeOK /\ SitesKept /\ [Round]_addVars => SitesKept'
  <2> SUFFICES ASSUME AddTypeOK, SitesKept, [Round]_addVars PROVE SitesKept'
    OBVIOUS
  <2>1. CASE Round
    <3> DEFINE a == AddStep([list |-> list, toAdd |-> toAdd])
    <3>1. list' = a.list /\ toAdd > 0 /\ p' = p /\ Len(list) = Len(p) /\ Len(list) > 0
      BY <2>1, PositionsAreSequences DEF Round, AddTypeOK
    <3>2. \A i \in 1..Len(list) : a.list[i].site = list[i].site
      BY <3>1, RoundRaises DEF AddTypeOK
    <3>3. QED
      <4> HIDE DEF a
      <4> QED BY <3>1, <3>2 DEF SitesKept
  <2>2. CASE UNCHANGED addVars
    BY <2>2 DEF SitesKept, addVars
  <2>3. QED BY <2>1, <2>2
<1>3. QED BY <1>1, <1>2, AddTypeCorrect, PTL DEF AddSpec

\* A position generated above p shares p's identifiers up to a greater number,
\* not disturbed by what Position.Add carries nor by the sites that
\* constructPosition puts in, which it takes from the neighbours wherever the
\* number is theirs.
THEOREM GeneratedFollows == AddSpec => []GeneratedIsAbove
<1>1. AddTypeOK /\ SumIsNotLower /\ SitesKept => GeneratedIsAbove
  <2> SUFFICES ASSUME AddTypeOK, SumIsNotLower, SitesKept, list # p, NEW s \in SiteName
               PROVE  LET new == constructPosition(list, p, q, s)
                      IN  \E k \in 1..Len(p) : /\ p[k].position < new[k].position
                                               /\ \A j \in 1..(k - 1) : new[j] = p[j]
    BY DEF GeneratedIsAbove
  <2> DEFINE c == constructPosition(list, p, q, s)
  <2>1. /\ p \in Seq(AnyIdentifier) /\ q \in Seq(AnyIdentifier) /\ list \in Seq(AnyIdentifier)
        /\ Len(p) \in Nat \ {0} /\ Len(q) = Len(p) /\ Len(list) = Len(p)
    BY PositionsAreSequences DEF AddTypeOK
  <2>2. /\ \A i \in 1..Len(p) : /\ p[i] \in AnyIdentifier /\ q[i] \in AnyIdentifier
                                /\ list[i] \in AnyIdentifier
        /\ s \in Nat
    BY <2>1, NameAssumption
  <2>3. ASSUME NEW i \in 1..Len(p)
        PROVE  /\ c[i].position = list[i].position
               /\ c[i] \in AnyIdentifier
               /\ p[i].position = list[i].position => c[i] = p[i] /\ list[i] = p[i]
    <3>1. c[i] = [position |-> list[i].position,
                  site |-> CASE p[i].position = list[i].position -> p[i].site
                             [] p[i].position # list[i].position /\ q[i].position = list[i].position -> q[i].site
                             [] OTHER -> s]
      BY <2>1 DEF constructPosition
    <3>2. c[i].position = list[i].position /\ c[i].site \in Nat /\ c[i] \in AnyIdentifier
      <4>1. p[i].site \in Nat /\ q[i].site \in Nat /\ s \in Nat /\ list[i].position \in Int
        BY <2>2 DEF AnyIdentifier
      <4> HIDE DEF c
      <4>2. CASE p[i].position = list[i].position
        BY <3>1, <4>1, <4>2 DEF AnyIdentifier
      <4>3. CASE p[i].position # list[i].position /\ q[i].position = list[i].position
        BY <3>1, <4>1, <4>3 DEF AnyIdentifier
      <4>4. CASE p[i].position # list[i].position /\ q[i].position # list[i].position
        BY <3>1, <4>1, <4>4 DEF AnyIdentifier
      <4>5. QED BY <4>2, <4>3, <4>4
    <3>3. ASSUME p[i].position = list[i].position PROVE c[i] = p[i] /\ list[i] = p[i]
      <4>1. c[i] = [position |-> p[i].position, site |-> p[i].site]
        BY <3>1, <3>3
      <4>2. list[i].site = p[i].site
        BY DEF SitesKept
      <4> HIDE DEF c
      <4>3. QED BY <2>2, <3>3, <4>1, <4>2 DEF AnyIdentifier
    <3>4. QED BY <3>2, <3>3
  <2>4. PICK k \in 1..Len(p) : FirstDifference(p, list, k)
    BY <2>1, FirstDifferenceExists
  <2>5. p[k].position < c[k].position
    <3>1. IdentifierLowerThan(p[k], list[k])
      BY <2>1, <2>4, FirstDecides DEF SumIsNotLower
    <3>2. p[k].site = list[k].site /\ p[k].site \in Int
      BY <2>2 DEF SitesKept, AnyIdentifier
    <3> HIDE DEF c
    <3>3. QED BY <2>3, <3>1, <3>2 DEF IdentifierLowerThan
  <2>6. \A j \in 1..(k - 1) : c[j] = p[j]
    <3> SUFFICES ASSUME NEW j \in 1..(k - 1) PROVE c[j] = p[j]
      OBVIOUS
    <3>1. j \in 1..Len(p) /\ p[j] = list[j]
      BY <2>1, <2>4 DEF FirstDifference
    <3> HIDE DEF c
    <3>2. QED BY <2>3, <3>1
  <2>7. QED
    <3> HIDE DEF c
    <3>1. \E n \in 1..Len(p) : p[n].position < c[n].position /\ \A j \in 1..(n - 1) : c[j] = p[j]
      BY <2>5, <2>6
    <3>2. QED BY <3>1 DEF c
<1>2. QED BY <1>1, AddTypeCorrect, SumFollows, SitesAreKept, PTL

-----------------------------------------------------------------------------
(* The lines of a text.                                                    *)

LEMMA LeastOfNumbers ==
  ASSUME NEW S \in SUBSET Nat, S # {}
  PROVE  Min(S) \in S /\ \A i \in S : Min(S) <= i
<1>1. \E m \in S : \A i \in S : m <= i
  BY LeastExists
<1>2. QED BY <1>1 DEF Min

\* Every identifier of one list is in the other, those of two lines in the
\* same order.
OrderKept(old, new) ==
  \A i, j \in 1..Len(old) : i < j =>
    \E k, l \in 1..Len(new) : /\ k < l
                              /\ IdentifierOf(new[k]) = IdentifierOf(old[i])
                              /\ IdentifierOf(new[l]) = IdentifierOf(old[j])

\* Wherever Insert puts a line, the others are there, in their order.
LEMMA InsertSonFacts ==
  ASSUME NEW S, NEW lines \in Seq(S), NEW l \in S
  PROVE  InsertSon(lines, l) \in Seq(S) /\ OrderKept(lines, InsertSon(lines, l))
<1> DEFINE n == Len(lines)
           stops == {i \in 1..n : SonLowerThan(lines[i], l)}
           at == IF stops = {} THEN n + 1 ELSE Min(stops)
           new == InsertSon(lines, l)
<1>1. n \in Nat
  OBVIOUS
<1>2. at \in 1..(n + 1)
  <2>1. CASE stops = {}
    BY <1>1, <2>1
  <2>2. CASE stops # {}
    <3>1. stops \in SUBSET Nat
      BY <1>1
    <3>2. at \in stops
      <4> HIDE DEF stops
      <4> QED BY <2>2, <3>1, LeastOfNumbers
    <3>3. QED BY <1>1, <3>2
  <2>3. QED BY <2>1, <2>2
<1>3. CASE at <= n /\ IdentifierOf(lines[at]) = IdentifierOf(l)
  <2>1. new = [lines EXCEPT ![at] = l]
    BY <1>3 DEF InsertSon, ReplaceAt
  <2> HIDE DEF new, at, stops
  <2>2. /\ new \in Seq(S) /\ Len(new) = n
        /\ \A j \in 1..n : new[j] = IF j = at THEN l ELSE lines[j]
    BY <1>1, <1>2, <1>3, <2>1, ExceptSeq
  <2>3. \A j \in 1..n : IdentifierOf(new[j]) = IdentifierOf(lines[j])
    BY <1>3, <2>2
  <2>4. OrderKept(lines, new)
    BY <2>2, <2>3 DEF OrderKept
  <2>5. QED BY <2>2, <2>4 DEF new
<1>4. CASE ~(at <= n /\ IdentifierOf(lines[at]) = IdentifierOf(l)) /\ at >= n
  <2>1. new = Append(lines, l)
    BY <1>4 DEF InsertSon
  <2> HIDE DEF new, at, stops
  <2>2. new \in Seq(S) /\ Len(new) = n + 1 /\ \A j \in 1..n : new[j] = lines[j]
    BY <2>1
  <2>3. OrderKept(lines, new)
    BY <1>1, <2>2 DEF OrderKept
  <2>4. QED BY <2>2, <2>3 DEF new
<1>5. CASE ~(at <= n /\ IdentifierOf(lines[at]) = IdentifierOf(l)) /\ ~(at >= n)
  <2>1. new = SubSeq(lines, 1, at - 1) \o <<l>> \o SubSeq(lines, at, n)
    BY <1>5 DEF InsertSon, InsertAt
  <2> HIDE DEF new, at, stops
  <2> DEFINE before == SubSeq(lines, 1, at - 1)
             after == SubSeq(lines, at, n)
  <2>2. /\ before \in Seq(S) /\ Len(before) = at - 1
        /\ \A i \in 1..(at - 1) : before[i] = lines[i]
    BY <1>1, <1>2, SubSeqProperties
  <2>3. /\ after \in Seq(S) /\ Len(after) = n - at + 1
        /\ \A i \in 1..(n - at + 1) : after[i] = lines[at + i - 1]
    BY <1>1, <1>2, <1>5, SubSeqProperties
  <2> HIDE DEF before, after
  <2>4. <<l>> \in Seq(S) /\ Len(<<l>>) = 1
    OBVIOUS
  <2>5. /\ before \o <<l>> \in Seq(S) /\ Len(before \o <<l>>) = at
        /\ \A i \in 1..(at - 1) : (before \o <<l>>)[i] = lines[i]
    BY <1>1, <1>2, <2>2, <2>4, ConcatProperties
  <2>6. /\ new \in Seq(S) /\ Len(new) = n + 1
        /\ \A i \in 1..(n + 1) : new[i] = IF i <= at THEN (before \o <<l>>)[i] ELSE after[i - at]
    <3>1. new = (before \o <<l>>) \o after
      BY <2>1 DEF before, after
    <3>2. QED BY <1>1, <1>2, <2>3, <2>5, <3>1, ConcatProperties
  <2>7. /\ \A i \in 1..(at - 1) : new[i] = lines[i]
        /\ \A i \in at..n : new[i + 1] = lines[i]
    <3>1. ASSUME NEW i \in 1..(at - 1) PROVE new[i] = lines[i]
      BY <1>1, <1>2, <2>5, <2>6
    <3>2. ASSUME NEW i \in at..n PROVE new[i + 1] = lines[i]
      <4>1. i + 1 \in 1..(n + 1) /\ ~(i + 1 <= at) /\ i + 1 - at \in 1..(n - at + 1)
            /\ at + (i + 1 - at) - 1 = i
        BY <1>1, <1>2
      <4>2. new[i + 1] = after[i + 1 - at]
        <5>1. \A x \in 1..(n + 1) : ~(x <= at) => new[x] = after[x - at]
          BY <2>6
        <5>2. at \in Int /\ i + 1 \in Int
          BY <1>1, <1>2
        <5> HIDE DEF n
        <5>3. QED BY <4>1, <5>1, <5>2
      <4>3. after[i + 1 - at] = lines[at + (i + 1 - at) - 1]
        BY <2>3, <4>1
      <4>4. QED BY <4>1, <4>2, <4>3
    <3>3. QED BY <3>1, <3>2
  <2>8. OrderKept(lines, new)
    <3> SUFFICES ASSUME NEW i \in 1..n, NEW j \in 1..n, i < j
                 PROVE  \E k, m \in 1..(n + 1) : /\ k < m
                                                 /\ new[k] = lines[i] /\ new[m] = lines[j]
      BY <2>6 DEF OrderKept
    <3> DEFINE place(x) == IF x < at THEN x ELSE x + 1
    <3>1. ASSUME NEW x \in 1..n PROVE place(x) \in 1..(n + 1) /\ new[place(x)] = lines[x]
      BY <1>1, <1>2, <2>7
    <3>2. place(i) < place(j)
      BY <1>1, <1>2
    <3> HIDE DEF place
    <3>3. QED BY <3>1, <3>2
  <2>9. QED BY <2>6, <2>8 DEF new
<1>6. QED BY <1>3, <1>4, <1>5

\* A replica's sons are a sequence, whatever the lines are: a position that
\* came out of an overflow included.
SonsAreSequences ==
  /\ DOMAIN sons = Site /\ sons = [s \in Site |-> sons[s]]
  /\ \A s \in Site : sons[s] \in Seq({sons[s][i] : i \in DOMAIN sons[s]})

LEMMA SequenceOfItsOwn ==
  ASSUME NEW S, NEW t \in Seq(S)
  PROVE  t \in Seq({t[i] : i \in DOMAIN t})
<1> DEFINE V == {t[i] : i \in DOMAIN t}
<1>1. Len(t) \in Nat /\ DOMAIN t = 1..Len(t) /\ t = [i \in 1..Len(t) |-> t[i]]
  BY LenProperties
<1>2. \A i \in 1..Len(t) : t[i] \in V
  BY <1>1
<1> HIDE DEF V
<1>3. t \in [1..Len(t) -> V]
  BY <1>1, <1>2
<1>4. t \in Seq(V)
  BY <1>1, <1>3, SeqDef
<1>5. QED BY <1>4 DEF V

\* A line put into a replica's sons.
LEMMA PutFacts ==
  ASSUME NEW V, NEW lines \in Seq(V), NEW l
  PROVE  /\ \E S : InsertSon(lines, l) \in Seq(S)
         /\ OrderKept(lines, InsertSon(lines, l))
<1> DEFINE S == V \cup {l}
<1>1. lines \in Seq(S)
  <2>1. V \subseteq S
    OBVIOUS
  <2>2. QED BY <2>1, SeqMonotonic
<1>2. l \in S
  OBVIOUS
<1> HIDE DEF S
<1>3. QED BY <1>1, <1>2, InsertSonFacts

\* A step leaves a replica's sons alone, or puts one line into them.
LEMMA SonsOfAStep ==
  ASSUME SonsAreSequences, Next
  PROVE  \/ sons' = sons
         \/ \E s \in Site : \E l : sons' = [sons EXCEPT ![s] = InsertSon(@, l)]
<1>1. PICK s \in Site : \/ InsertLine(s) \/ InsertFails(s) \/ RemoveLine(s)
                        \/ \E r \in Site : CheckUpdate(s, r)
  BY DEF Next
<1>2. CASE InsertLine(s)
  <2>1. PICK t, i : Put(s, t, i)
    BY <1>2 DEF InsertLine
  <2>2. QED BY <2>1 DEF Put
<1>3. CASE InsertFails(s) \/ RemoveLine(s) \/ \E r \in Site : CheckUpdate(s, r)
  BY <1>3 DEF InsertFails, RemoveLine, CheckUpdate
<1>4. QED BY <1>1, <1>2, <1>3

LEMMA SonsStaySequences == Spec => []SonsAreSequences
<1>1. ASSUME Init PROVE SonsAreSequences
  <2>1. PICK l : sons = [s \in Site |-> IF s = Bootstrap THEN InsertSon(<<LastLine>>, l) ELSE <<LastLine>>]
    BY <1>1 DEF Init
  <2>2. ASSUME NEW s \in Site PROVE sons[s] \in Seq({sons[s][i] : i \in DOMAIN sons[s]})
    <3>1. <<LastLine>> \in Seq({LastLine})
      OBVIOUS
    <3>2. \E S : InsertSon(<<LastLine>>, l) \in Seq(S)
      BY <3>1, PutFacts
    <3>3. PICK S : sons[s] \in Seq(S)
      BY <2>1, <3>1, <3>2
    <3>4. QED BY <3>3, SequenceOfItsOwn
  <2>3. DOMAIN sons = Site /\ sons = [s \in Site |-> sons[s]]
    BY <2>1
  <2>4. QED BY <2>2, <2>3 DEF SonsAreSequences
<1>2. ASSUME SonsAreSequences, [Next]_vars PROVE SonsAreSequences'
  <2>1. CASE sons' = sons
    BY <1>2, <2>1 DEF SonsAreSequences
  <2>2. CASE Next /\ sons' # sons
    <3>1. PICK s \in Site : \E e : sons' = [sons EXCEPT ![s] = InsertSon(@, e)]
      BY <1>2, <2>2, SonsOfAStep
    <3> PICK l : sons' = [sons EXCEPT ![s] = InsertSon(@, l)]
      BY <3>1
    <3>2. /\ DOMAIN sons' = Site /\ sons' = [r \in Site |-> sons'[r]]
          /\ sons'[s] = InsertSon(sons[s], l)
          /\ \A r \in Site \ {s} : sons'[r] = sons[r]
      BY <1>2, <3>1 DEF SonsAreSequences
    <3>3. ASSUME NEW r \in Site PROVE sons'[r] \in Seq({sons'[r][i] : i \in DOMAIN sons'[r]})
      <4>1. CASE r = s
        <5>1. PICK S : InsertSon(sons[s], l) \in Seq(S)
          BY <1>2, PutFacts DEF SonsAreSequences
        <5>2. QED BY <3>2, <4>1, <5>1, SequenceOfItsOwn
      <4>2. CASE r # s
        <5>1. sons'[r] = sons[r]
          BY <3>2, <4>2
        <5>2. sons[r] \in Seq({sons[r][i] : i \in DOMAIN sons[r]})
          BY <1>2 DEF SonsAreSequences
        <5>3. QED BY <5>1, <5>2
      <4>3. QED BY <4>1, <4>2
    <3>4. QED BY <3>2, <3>3 DEF SonsAreSequences
  <2>3. QED BY <1>2, <2>1, <2>2 DEF vars
<1>3. QED BY <1>1, <1>2, PTL DEF Spec

\* No step, local or from another replica, takes a line out of a replica's text
\* or swaps two of them, however Insert splices the slice of sons.
THEOREM LinesKeepOrder == Spec => NodesKeepOrder
<1>1. ASSUME SonsAreSequences, Next, NEW s \in Site, NEW i \in DOMAIN sons[s], NEW j \in DOMAIN sons[s],
             i < j
      PROVE  \E k, l \in DOMAIN sons'[s] :
               /\ k < l
               /\ IdentifierOf(sons'[s][k]) = IdentifierOf(sons[s][i])
               /\ IdentifierOf(sons'[s][l]) = IdentifierOf(sons[s][j])
  <2>1. CASE sons' = sons
    BY <1>1, <2>1
  <2>2. CASE sons' # sons
    <3>1. PICK r \in Site : \E e : sons' = [sons EXCEPT ![r] = InsertSon(@, e)]
      BY <1>1, <2>2, SonsOfAStep
    <3> PICK l : sons' = [sons EXCEPT ![r] = InsertSon(@, l)]
      BY <3>1
    <3>2. CASE r # s
      <4>1. sons'[s] = sons[s]
        BY <1>1, <3>1, <3>2 DEF SonsAreSequences
      <4>2. QED BY <1>1, <4>1
    <3>3. CASE r = s
      <4>1. sons'[s] = InsertSon(sons[s], l)
        BY <1>1, <3>1, <3>3 DEF SonsAreSequences
      <4>2. PICK S : sons[s] \in Seq(S)
        BY <1>1 DEF SonsAreSequences
      <4>3. (\E T : InsertSon(sons[s], l) \in Seq(T)) /\ OrderKept(sons[s], InsertSon(sons[s], l))
        BY <4>2, PutFacts
      <4>4. PICK T : sons'[s] \in Seq(T)
        BY <4>1, <4>3
      <4>5. DOMAIN sons[s] = 1..Len(sons[s]) /\ DOMAIN sons'[s] = 1..Len(sons'[s])
        BY <4>2, <4>4, LenProperties
      <4>6. OrderKept(sons[s], sons'[s])
        BY <4>1, <4>3
      <4>7. i \in 1..Len(sons[s]) /\ j \in 1..Len(sons[s])
        BY <1>1, <4>5
      <4>8. PICK k \in 1..Len(sons'[s]), m \in 1..Len(sons'[s]) :
              /\ k < m
              /\ IdentifierOf(sons'[s][k]) = IdentifierOf(sons[s][i])
              /\ IdentifierOf(sons'[s][m]) = IdentifierOf(sons[s][j])
        BY <1>1, <4>6, <4>7 DEF OrderKept
      <4>9. QED BY <4>5, <4>8
    <3>4. QED BY <3>2, <3>3
  <2>3. QED BY <2>1, <2>2
<1>2. SonsAreSequences /\ [Next]_vars =>
        [\A s \in Site :
           \A i, j \in DOMAIN sons[s] : i < j =>
             \E k, l \in DOMAIN sons'[s] :
               /\ k < l
               /\ IdentifierOf(sons'[s][k]) = IdentifierOf(sons[s][i])
               /\ IdentifierOf(sons'[s][l]) = IdentifierOf(sons[s][j])]_vars
  BY <1>1
<1>3. QED BY <1>2, SonsStaySequences, PTL DEF Spec, NodesKeepOrder
=============================================================================
