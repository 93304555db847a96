---------------------------- MODULE MCFsReplica ----------------------------
(* Small instances of FsReplica: the root, a directory and a file in it. *)
EXTENDS FsReplica

CONSTANTS root, dir, file

RootOnly == [k \in Key |-> root]
FileInDir == [k \in Key |-> IF k = file THEN dir ELSE root]

\* Three commands and a replica that stops, or races and "print" all along, in
\* the program with connections and in the one without.
Settings == {[printing |-> FALSE, shared |-> FALSE, racy |-> FALSE, commands |-> 3, stops |-> 1],
             [printing |-> TRUE, shared |-> FALSE, racy |-> TRUE, commands |-> 2, stops |-> 0],
             [printing |-> TRUE, shared |-> TRUE, racy |-> TRUE, commands |-> 3, stops |-> 0]}
PrintOnly == {[printing |-> TRUE, shared |-> FALSE, racy |-> FALSE, commands |-> 2, stops |-> 0]}
=============================================================================
