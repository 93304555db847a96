-------------------------- MODULE MCStorageFolder --------------------------
(* Small instances of StorageFolder. *)
EXTENDS StorageFolder

CONSTANTS c1, c2, c3
=============================================================================
