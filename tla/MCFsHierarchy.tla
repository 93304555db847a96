--------------------------- MODULE MCFsHierarchy ---------------------------
(* A small tree for FsHierarchy: "/", the directories /d and /d/e, a file     *)
(* /d/e/f in the latter, and two files named e, /d/e (the path of a           *)
(* directory) and /e, which may meet with the directory in "/".               *)
EXTENDS FsHierarchy

CONSTANTS root, d, e, file_e, top_e, f, above

Parents == [k \in Key |-> CASE k = root -> above
                            [] k \in {e, file_e} -> d
                            [] k = f -> e
                            [] OTHER -> root]
Directories == [k \in Key |-> k \in {root, d, e}]
Names == [k \in Key |-> CASE k \in {e, file_e, top_e} -> e
                          [] OTHER -> k]
=============================================================================
