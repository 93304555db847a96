------------------------------ MODULE LogootAdd ------------------------------
(***************************************************************************)
(* Position.Add as the loop it is, from any position and for any number,   *)
(* and the position constructPosition makes of the sum, beside any other.  *)
(***************************************************************************)
EXTENDS LogootPosition

CONSTANTS SiteName,   \* names of sites; a greater number is a later string
          MaxLength,  \* bound: identifiers in a position
          MaxAdd      \* bound: the number to add

ASSUME NameAssumption == SiteName \subseteq Nat

Identifier == [site : SiteName, position : 0..MaxPos]
Position == UNION {[1..n -> Identifier] : n \in 1..MaxLength}

VARIABLES p, q,  \* two positions
          list,  \* the list that Add builds from p
          toAdd  \* to_add

addVars == <<p, q, list, toAdd>>

AddInit ==
  /\ p \in Position /\ q \in Position
  /\ Len(p) = Len(q)
  /\ list = p
  /\ toAdd \in 1..MaxAdd

Round ==
  /\ toAdd > 0
  /\ LET a == AddStep([list |-> list, toAdd |-> toAdd])
     IN  list' = a.list /\ toAdd' = a.toAdd
  /\ UNCHANGED <<p, q>>

AddSpec == AddInit /\ [][Round]_addVars
FairAddSpec == AddSpec /\ WF_addVars(Round)

-----------------------------------------------------------------------------
\* generateLinePositions: a position made of a sum lies above the position p that
\* the sum started from, whatever Add carried and however far it went.  It has
\* p's identifiers, sites included (constructPosition), up to a greater number:
\* it lies below the same nodes of the tree, and is not p itself, whose line
\* Insert would replace.
GeneratedIsAbove ==
  list # p => \A s \in SiteName :
    LET new == constructPosition(list, p, q, s)
    IN  \E k \in 1..Len(p) : /\ p[k].position < new[k].position
                             /\ \A j \in 1..(k - 1) : new[j] = p[j]

\* Every round of Add gives a higher position, even past the last one.
AddIncreases == [][LowerThan(list, list') /\ list # list']_addVars

\* Add always ends: when there is no room left to_add grows, until an int is
\* too small for it and it is negative.
AddEnds == <>(toAdd <= 0)

=============================================================================
