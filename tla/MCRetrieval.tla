---------------------------- MODULE MCRetrieval ----------------------------
(* Small instances of Retrieval. *)
EXTENDS Retrieval, TLC

CONSTANTS c1, c2, c3

=============================================================================
