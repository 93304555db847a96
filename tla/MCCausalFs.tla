----------------------------- MODULE MCCausalFs -----------------------------
(* A small instance of CausalFs, with the names and places that main uses. *)
EXTENDS CausalFs

CONSTANTS root, none,
          dir1, dir2, inner,  \* a directory in another, a file in the inner one
          outer,              \* a file in dir1, given by its name
          file2, again, dir3, \* two files and a directory of one name in "/"
          nSlash, nDir1, nDir2, nFile1, nFile2 \* names

Names == [i \in Id |-> CASE i = root -> nSlash [] i = dir1 -> nDir1 [] i = dir2 -> nDir2
                          [] i \in {inner, outer} -> nFile1 [] OTHER -> nFile2]
Places == [i \in Id |-> CASE i = root -> none [] i = dir2 -> dir1 [] i = inner -> dir2
                           [] i = outer -> nDir1 [] OTHER -> root]

Edits == [ids |-> {file2, again}, does |-> {"edit", "remove", "resolve"}, ties |-> TRUE, calls |-> 5]
Orphans == [ids |-> {dir1, dir2, inner}, does |-> Policy \cup {"remove"}, ties |-> FALSE, calls |-> 6]
Clocks == [ids |-> {dir1, outer}, does |-> {"remove", "rootPol", "compact"}, ties |-> FALSE, calls |-> 7]
Conflicts == [ids |-> {file2, dir3}, does |-> {"remove", "resolve"}, ties |-> FALSE, calls |-> 7]
ThreeOfAName == [ids |-> {file2, again, dir3}, does |-> {"resolve"}, ties |-> FALSE, calls |-> 6]
Scenarios == {Edits, Orphans, Clocks, Conflicts, ThreeOfAName}
=============================================================================
