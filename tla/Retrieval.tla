----------------------------- MODULE Retrieval -----------------------------
(***************************************************************************)
(* One retrieval: Merge takes the application's semaphore and calls        *)
(* GetNodeFromEncodedCid, which calls GetIPFS (ipfsLink/IpfsLink.go),      *)
(* writes what it returns to files, and Merge reads the files.  Every CID  *)
(* has its own deadline, for finding the block (GetMany) and reading the   *)
(* file in it (Unixfs().Get).                                              *)
(*                                                                         *)
(* Two modes are configured.  "parallel" starts a goroutine per CID, but   *)
(* waits for it before it starts the next: both modes ask for one CID      *)
(* after the other, and err and errhapened, which the goroutines write     *)
(* without a lock, are not contended.                                      *)
(*                                                                         *)
(* Meanwhile the other replicas come and go with their blocks, and another *)
(* goroutine may want the semaphore to make a local update.                *)
(***************************************************************************)
EXTENDS Naturals, Sequences, FiniteSets

CONSTANTS Cid,           \* content identifiers
          Nil,           \* no file
          MaxChanges,    \* bound: blocks that stop being served
          MaxDeadlines   \* bound: deadlines that pass

ASSUME BoundAssumption == MaxChanges \in Nat /\ MaxDeadlines \in Nat /\ Nil \notin Cid

VARIABLES
  mode,        \* ParalelRetrieve: "parallel" or "sequential"
  cids,        \* the list asked for
  local,       \* the CIDs in the local repository
  served,      \* the CIDs that running replicas serve
  phase,       \* "waiting" for the semaphore; "ask" (GetMany) and "read"
               \* (Unixfs().Get) of GetIPFS; "write", GetIPFS has returned;
               \* "returned", all files read; "panicked"
  index,       \* the place in cids
  files,       \* files[i]: what GetIPFS has for cids[i]
  err,         \* err # nil
  errhapened,  \* errhapened
  update,      \* a local update: "none", "waiting" for the semaphore, "made"
  changes, deadlines  \* how many there were

call == <<mode, cids>>
retrieval == <<phase, index, files, err, errhapened>>
environment == <<served, changes>>
vars == <<call, local, retrieval, environment, update, deadlines>>

Wanted == {cids[i] : i \in 1..Len(cids)}

\* Merge and the dependencies of a node name each CID once.
Lists == {s \in UNION {[1..n -> Cid] : n \in 1..Cardinality(Cid)} :
            \A i, j \in DOMAIN s : s[i] = s[j] => i = j}

TypeOK ==
  /\ mode \in {"sequential", "parallel"}
  /\ cids \in Lists
  /\ local \subseteq Cid /\ served \subseteq Cid
  /\ phase \in {"waiting", "ask", "read", "write", "returned", "panicked"}
  /\ index \in 1..Len(cids)
  /\ files \in [1..Len(cids) -> Cid \cup {Nil}]
  /\ err \in BOOLEAN /\ errhapened \in BOOLEAN
  /\ update \in {"none", "waiting", "made"}
  /\ changes \in 0..MaxChanges /\ deadlines \in 0..MaxDeadlines

Init ==
  /\ mode \in {"sequential", "parallel"}
  /\ cids \in Lists
  /\ local \in SUBSET Cid /\ served \in SUBSET Cid
  /\ phase = "waiting"
  /\ index = 1
  /\ files = [i \in 1..Len(cids) |-> Nil]
  /\ err = FALSE /\ errhapened = FALSE
  /\ update = "none"
  /\ changes = 0 /\ deadlines = 0

-----------------------------------------------------------------------------
\* getSema, then GetIPFS with an empty list of files.  An update holds the
\* semaphore within a step of its own.
Start ==
  /\ phase = "waiting"
  /\ phase' = "ask"
  /\ UNCHANGED <<call, local, index, files, err, errhapened, environment, update, deadlines>>

NextCid_NoReset(failed) ==
  IF index < Len(cids)
    THEN phase' = "ask" /\ index' = index + 1 /\ errhapened' = failed
    ELSE /\ index' = 1
         /\ errhapened' = TRUE
         /\ phase' = "ask"

\* The end of an iteration of the inner loop: the next CID; or all of them
\* again if something failed in this round; or the end.
NextCid(failed) ==
  IF index < Len(cids)
    THEN phase' = "ask" /\ index' = index + 1 /\ errhapened' = failed
    ELSE /\ index' = 1
         /\ errhapened' = FALSE
         /\ phase' = IF failed THEN "ask" ELSE "write"

Found_NotKept ==
  /\ phase = "ask"
  /\ cids[index] \in local \cup served
  /\ phase' = "read"
  /\ UNCHANGED <<call, local, index, files, err, errhapened, environment, update, deadlines>>

\* GetMany finds the block here or at another replica, and keeps it.
Found ==
  /\ phase = "ask"
  /\ cids[index] \in local \cup served
  /\ local' = local \cup {cids[index]}
  /\ phase' = "read"
  /\ UNCHANGED <<call, index, files, err, errhapened, environment, update, deadlines>>

DeadlinePasses ==
  /\ deadlines < MaxDeadlines
  /\ deadlines' = deadlines + 1

NotFound_NoRetry ==
  /\ phase = "ask"
  /\ cids[index] \notin local
  /\ DeadlinePasses
  /\ IF mode = "parallel"
       THEN NextCid(errhapened) /\ err' = TRUE
       ELSE phase' = "panicked" /\ UNCHANGED <<index, err, errhapened>>
  /\ UNCHANGED <<call, local, files, environment, update>>

\* GetMany gives up and sends an option without a node.  A goroutine sets err;
\* the sequential mode uses the node all the same.
NotFound ==
  /\ phase = "ask"
  /\ cids[index] \notin local
  /\ DeadlinePasses
  /\ IF mode = "parallel"
       THEN NextCid(TRUE) /\ err' = TRUE
       ELSE phase' = "panicked" /\ UNCHANGED <<index, err, errhapened>>
  /\ UNCHANGED <<call, local, files, environment, update>>

\* Unixfs().Get reads the file.  A goroutine then looks at err, which nothing
\* has reset since the first CID that was not found.
Read ==
  /\ phase = "read"
  /\ files' = [files EXCEPT ![index] = cids[index]]
  /\ NextCid(errhapened \/ err)
  /\ UNCHANGED <<call, local, err, environment, update, deadlines>>

\* The deadline passed in between: the error is dropped, the file is nil.
ReadFails ==
  /\ phase = "read"
  /\ DeadlinePasses
  /\ files' = [files EXCEPT ![index] = Nil]
  /\ NextCid(errhapened \/ err)
  /\ UNCHANGED <<call, local, err, environment, update>>

WriteFiles_SkipsNil ==
  /\ phase = "write"
  /\ phase' = "returned"
  /\ UNCHANGED <<call, local, index, files, err, errhapened, environment, update, deadlines>>

\* GetNodeFromEncodedCid: a file of the name is removed; WriteTo of nil fails
\* and nobody looks, so that FromFile does not find the file and panics.  The
\* semaphore is free when the nodes were added.
WriteFiles ==
  /\ phase = "write"
  /\ phase' = IF \E i \in DOMAIN files : files[i] = Nil THEN "panicked" ELSE "returned"
  /\ UNCHANGED <<call, local, index, files, err, errhapened, environment, update, deadlines>>

\* The replicas that serve a block leave, or one comes that has it.
Leave(c) ==
  /\ c \in served
  /\ changes < MaxChanges
  /\ served' = served \ {c} /\ changes' = changes + 1
  /\ UNCHANGED <<call, local, retrieval, update, deadlines>>

Join(c) ==
  /\ c \notin served
  /\ served' = served \cup {c}
  /\ UNCHANGED <<call, local, retrieval, changes, update, deadlines>>

\* The goroutine that writes: it waits for the semaphore, and makes its update
\* when it gets it.
WantUpdate ==
  /\ phase # "panicked"
  /\ update = "none"
  /\ update' = "waiting"
  /\ UNCHANGED <<call, local, retrieval, environment, deadlines>>

Update ==
  /\ phase \in {"waiting", "returned"}
  /\ update = "waiting"
  /\ update' = "made"
  /\ UNCHANGED <<call, local, retrieval, environment, deadlines>>

GetIPFS == Found \/ NotFound \/ Read \/ ReadFails

Next == \/ Start \/ GetIPFS \/ WriteFiles
        \/ \E c \in Cid : Leave(c) \/ Join(c)
        \/ WantUpdate \/ Update

Spec == Init /\ [][Next]_vars

\* The replica goes on while it can: a block that is served is found, a file
\* that is here is read.  No deadline has to pass, and nobody has to come.
Fairness == /\ WF_vars(Start) /\ WF_vars(Found) /\ WF_vars(Read) /\ WF_vars(WriteFiles)
            /\ WF_vars(Update)

FairSpec == Spec /\ Fairness

-----------------------------------------------------------------------------
(***************************************************************************)
(* Properties                                                              *)
(***************************************************************************)

\* Merge pairs the files with the CIDs by their places and adds what it reads
\* to the DAG: a file is that of its CID or none, whatever rounds and deadlines
\* there were, and none is never taken for a node.
FilesMatch ==
  /\ \A i \in DOMAIN files : files[i] \in {cids[i], Nil}
  /\ phase = "returned" => files = cids

\* No list is returned after a CID was not found.  The parallel mode asks again
\* until it finds everything, but never forgets the error: it finds everything
\* again and again, with the semaphore held.
NeverReturnsAfterError == err => phase \in {"ask", "read"}

\* When all blocks are served for ever, the call ends: it returns, unless a
\* deadline passed.
Returns ==
  (<>[](Wanted \subseteq local \cup served))
    => <>(phase = "returned" \/ deadlines > 0)

\* The retrieval keeps the promise that MerkleDag relies on.
BF == INSTANCE BlockFetch
        WITH wanted <- Wanted,
             status <- IF phase \in {"returned", "panicked"} THEN phase ELSE "running"
BlockFetchSpec == BF!Spec
=============================================================================
