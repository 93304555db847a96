---------------------------- MODULE MCLogootText ----------------------------
(* Small instances of LogootText. *)
EXTENDS LogootText
=============================================================================
