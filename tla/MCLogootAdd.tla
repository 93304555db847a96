---------------------------- MODULE MCLogootAdd ----------------------------
(* Small instances of LogootAdd: positions of one or two small numbers. *)
EXTENDS LogootAdd
=============================================================================
