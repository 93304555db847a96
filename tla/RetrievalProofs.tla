-------------------------- MODULE RetrievalProofs --------------------------
(***************************************************************************)
(* Proofs about Retrieval: for any CIDs and any number of deadlines that   *)
(* pass and of blocks that stop being served.                              *)
(***************************************************************************)
EXTENDS Retrieval, TLAPS

\* What was read is here, and so is what is about to be read.
ReadIsLocal ==
  /\ phase = "read" => cids[index] \in local
  /\ \A i \in DOMAIN files : files[i] # Nil => cids[i] \in local

\* The sequential mode panics at once: only a goroutine sets err.
OnlyGoroutinesErr == err => mode = "parallel"

RetrievalInv ==
  TypeOK /\ FilesMatch /\ NeverReturnsAfterError /\ ReadIsLocal /\ OnlyGoroutinesErr

LEMMA ListFacts ==
  ASSUME NEW s \in Lists
  PROVE  /\ Len(s) \in Nat \ {0}
         /\ s \in [1..Len(s) -> Cid]
BY DEF Lists

\* The end of an iteration: whatever failed, the call goes on asking; it only
\* writes if nothing did.
LEMMA NextCidFacts ==
  ASSUME TypeOK, NEW failed \in BOOLEAN, NextCid(failed)
  PROVE  /\ index' \in 1..Len(cids)
         /\ errhapened' \in BOOLEAN
         /\ phase' \in {"ask", "write"}
         /\ failed => phase' = "ask"
<1>1. Len(cids) \in Nat \ {0} /\ index \in 1..Len(cids)
  BY ListFacts DEF TypeOK
<1>2. CASE index < Len(cids)
  <2>1. index' = index + 1 /\ phase' = "ask"
    BY <1>2 DEF NextCid
  <2>2. errhapened' \in BOOLEAN
    BY <1>2 DEF NextCid
  <2>3. QED BY <1>1, <1>2, <2>1, <2>2
<1>3. CASE ~(index < Len(cids))
  <2>1. index' = 1 /\ phase' = IF failed THEN "ask" ELSE "write"
    BY <1>3 DEF NextCid
  <2>2. errhapened' \in BOOLEAN
    BY <1>3 DEF NextCid
  <2>3. QED BY <1>1, <2>1, <2>2
<1>4. QED BY <1>2, <1>3

LEMMA RetrievalInit == Init => RetrievalInv
<1> SUFFICES ASSUME Init PROVE RetrievalInv
  OBVIOUS
<1>1. err = FALSE /\ errhapened = FALSE /\ phase = "waiting"
  BY DEF Init
<1>2. Len(cids) \in Nat \ {0} /\ files = [i \in 1..Len(cids) |-> Nil]
  BY ListFacts DEF Init
<1>3. TypeOK
  <2>1. err \in BOOLEAN /\ errhapened \in BOOLEAN
    BY <1>1
  <2>2. QED BY <1>2, <2>1, BoundAssumption DEF Init, TypeOK
<1>4. FilesMatch /\ NeverReturnsAfterError /\ ReadIsLocal /\ OnlyGoroutinesErr
  BY <1>1, <1>2 DEF FilesMatch, NeverReturnsAfterError, ReadIsLocal, OnlyGoroutinesErr
<1>5. QED BY <1>3, <1>4 DEF RetrievalInv

LEMMA StartStep == RetrievalInv /\ Start => RetrievalInv'
BY DEF RetrievalInv, Start, call, environment,
       TypeOK, FilesMatch, NeverReturnsAfterError, ReadIsLocal, OnlyGoroutinesErr

LEMMA FoundStep == RetrievalInv /\ Found => RetrievalInv'
BY ListFacts
   DEF RetrievalInv, Found, call, environment,
       TypeOK, FilesMatch, NeverReturnsAfterError, ReadIsLocal, OnlyGoroutinesErr

LEMMA NotFoundStep == RetrievalInv /\ NotFound => RetrievalInv'
<1> SUFFICES ASSUME RetrievalInv, NotFound PROVE RetrievalInv'
  OBVIOUS
<1> USE DEF RetrievalInv
<1>1. /\ UNCHANGED <<call, local, files, environment, update>>
      /\ phase = "ask" /\ deadlines' \in 0..MaxDeadlines
  BY BoundAssumption DEF NotFound, DeadlinePasses, TypeOK
<1>2. CASE mode = "parallel"
  <2>1. NextCid(TRUE) /\ err' = TRUE
    BY <1>2 DEF NotFound
  <2>2. /\ index' \in 1..Len(cids) /\ errhapened' \in BOOLEAN /\ err' \in BOOLEAN
        /\ phase' = "ask"
    BY <2>1, NextCidFacts
  <2>3. QED BY <1>1, <1>2, <2>2 DEF call, environment, TypeOK, FilesMatch, NeverReturnsAfterError, ReadIsLocal, OnlyGoroutinesErr
<1>3. CASE mode # "parallel"
  <2>1. phase' = "panicked" /\ UNCHANGED <<index, err, errhapened>>
    BY <1>3 DEF NotFound
  <2>2. QED BY <1>1, <1>3, <2>1 DEF call, environment, TypeOK, FilesMatch, NeverReturnsAfterError, ReadIsLocal, OnlyGoroutinesErr
<1>4. QED BY <1>2, <1>3

LEMMA ReadStep == RetrievalInv /\ (Read \/ ReadFails) => RetrievalInv'
<1> SUFFICES ASSUME RetrievalInv, Read \/ ReadFails PROVE RetrievalInv'
  OBVIOUS
<1> USE DEF RetrievalInv
<1>1. /\ UNCHANGED <<call, local, err, environment, update>>
      /\ phase = "read" /\ deadlines' \in 0..MaxDeadlines
      /\ NextCid(errhapened \/ err)
  BY BoundAssumption DEF Read, ReadFails, DeadlinePasses, TypeOK
<1>2. PICK f \in {cids[index], Nil} : files' = [files EXCEPT ![index] = f]
  BY DEF Read, ReadFails
<1>3. /\ index' \in 1..Len(cids) /\ errhapened' \in BOOLEAN
      /\ phase' \in {"ask", "write"}
      /\ err => phase' = "ask"
  <2>1. (errhapened \/ err) \in BOOLEAN
    OBVIOUS
  <2>2. QED BY <1>1, <2>1, NextCidFacts
<1>4. cids \in [1..Len(cids) -> Cid] /\ cids' = cids /\ mode' = mode
  BY <1>1, ListFacts DEF TypeOK, call
<1>5. TypeOK'
  <2>1. files' \in [1..Len(cids) -> Cid \cup {Nil}]
    BY <1>2, <1>4 DEF TypeOK
  <2>2. err' \in BOOLEAN
    BY <1>1 DEF TypeOK
  <2>3. QED BY <1>1, <1>3, <1>4, <2>1, <2>2 DEF call, environment, TypeOK
<1>6. FilesMatch' /\ ReadIsLocal'
  BY <1>1, <1>2, <1>3, <1>4 DEF TypeOK, FilesMatch, ReadIsLocal
<1>7. NeverReturnsAfterError' /\ OnlyGoroutinesErr'
  BY <1>1, <1>3, <1>4 DEF NeverReturnsAfterError, OnlyGoroutinesErr
<1>8. QED BY <1>5, <1>6, <1>7

LEMMA WriteFilesStep == RetrievalInv /\ WriteFiles => RetrievalInv'
<1> SUFFICES ASSUME RetrievalInv, WriteFiles PROVE RetrievalInv'
  OBVIOUS
<1>1. /\ UNCHANGED <<mode, cids, local, index, files, err, errhapened, served, changes, update, deadlines>>
      /\ phase = "write" /\ phase' \in {"returned", "panicked"}
      /\ phase' = "returned" => \A i \in DOMAIN files : files[i] # Nil
  BY DEF WriteFiles, call, environment
<1>2. cids \in [1..Len(cids) -> Cid] /\ files \in [1..Len(cids) -> Cid \cup {Nil}]
  BY ListFacts DEF RetrievalInv, TypeOK
<1>3. phase' = "returned" => files = cids
  BY <1>1, <1>2 DEF RetrievalInv, FilesMatch
<1>4. QED
  BY <1>1, <1>3
     DEF RetrievalInv, TypeOK, FilesMatch, NeverReturnsAfterError, ReadIsLocal, OnlyGoroutinesErr

LEMMA EnvironmentStep ==
  ASSUME RetrievalInv, UNCHANGED <<call, local, retrieval>>,
         served' \subseteq Cid, changes' \in 0..MaxChanges,
         update' \in {"none", "waiting", "made"}, deadlines' = deadlines
  PROVE  RetrievalInv'
BY DEF call, retrieval, RetrievalInv, TypeOK, FilesMatch, NeverReturnsAfterError,
       ReadIsLocal, OnlyGoroutinesErr

LEMMA RetrievalNext == RetrievalInv /\ [Next]_vars => RetrievalInv'
<1> SUFFICES ASSUME RetrievalInv, [Next]_vars PROVE RetrievalInv'
  OBVIOUS
<1>1. /\ served \subseteq Cid /\ changes \in 0..MaxChanges
      /\ update \in {"none", "waiting", "made"}
  BY DEF RetrievalInv, TypeOK
<1>2. CASE Start
  BY <1>2, StartStep
<1>3. CASE GetIPFS
  BY <1>3, FoundStep, NotFoundStep, ReadStep DEF GetIPFS
<1>4. CASE WriteFiles
  BY <1>4, WriteFilesStep
<1>5. CASE \E c \in Cid : Leave(c) \/ Join(c)
  <2>1. /\ UNCHANGED <<call, local, retrieval, update, deadlines>>
        /\ served' \subseteq Cid /\ changes' \in 0..MaxChanges
    BY <1>1, <1>5, BoundAssumption DEF Leave, Join
  <2>2. QED BY <1>1, <2>1, EnvironmentStep
<1>6. CASE WantUpdate \/ Update
  <2>1. UNCHANGED <<call, local, retrieval, served, changes, deadlines>> /\ update' \in {"waiting", "made"}
    BY <1>6 DEF WantUpdate, Update, environment
  <2>2. QED BY <1>1, <2>1, EnvironmentStep
<1>7. CASE UNCHANGED vars
  BY <1>1, <1>7, EnvironmentStep DEF vars, environment
<1>8. QED BY <1>2, <1>3, <1>4, <1>5, <1>6, <1>7 DEF Next

\* The invariant of the retrieval (GetNodeFromEncodedCid, GetIPFS) holds in every
\* reachable state.
THEOREM RetrievalInvariance == Spec => []RetrievalInv
BY RetrievalInit, RetrievalNext, PTL DEF Spec

\* Merge gets the file of each CID in its place, or does not go on: whatever
\* deadlines passed and whoever left during the call.
THEOREM FilesMatchCids == Spec => []FilesMatch
<1>1. RetrievalInv => FilesMatch
  BY DEF RetrievalInv
<1>2. QED BY <1>1, RetrievalInvariance, PTL

\* Once a CID was not found, GetIPFS never returns.
THEOREM ErrorIsForEver == Spec => []NeverReturnsAfterError
<1>1. RetrievalInv => NeverReturnsAfterError
  BY DEF RetrievalInv
<1>2. QED BY <1>1, RetrievalInvariance, PTL

-----------------------------------------------------------------------------
(* Retrieval implements BlockFetch.                                        *)

LEMMA InitFetches == Init => BF!Init
<1> SUFFICES ASSUME Init PROVE BF!Init
  OBVIOUS
<1>1. Wanted \subseteq Cid
  BY ListFacts DEF Init, Wanted
<1>2. QED BY <1>1 DEF Init, BF!Init

LEMMA NextFetches ==
  ASSUME RetrievalInv, [Next]_vars PROVE [BF!Next]_(BF!vars)
<1>1. ASSUME UNCHANGED <<call, local, phase>> PROVE UNCHANGED BF!vars
  BY <1>1 DEF BF!vars, call, Wanted
<1>2. CASE Start
  BY <1>2 DEF Start, BF!vars, call, Wanted
<1>3. CASE Found
  <2>1. /\ call' = call /\ phase = "ask" /\ phase' = "read"
        /\ local' = local \cup {cids[index]}
    BY <1>3 DEF Found
  <2>2. cids[index] \in Wanted /\ cids[index] \in Cid /\ Wanted' = Wanted
    BY <2>1, ListFacts DEF RetrievalInv, TypeOK, Wanted, call
  <2>3. CASE cids[index] \in local
    BY <2>1, <2>2, <2>3 DEF BF!vars
  <2>4. CASE cids[index] \notin local
    <3>1. BF!Fetch(cids[index])
      BY <2>1, <2>2, <2>4 DEF BF!Fetch
    <3>2. QED BY <2>2, <3>1 DEF BF!Next
  <2>5. QED BY <2>3, <2>4
<1>4. CASE NotFound
  <2>1. UNCHANGED <<call, local>> /\ phase = "ask"
    BY <1>4 DEF NotFound
  <2>2. phase' \in {"ask", "write", "panicked"}
    BY <1>4, NextCidFacts DEF NotFound, RetrievalInv
  <2>3. CASE phase' = "panicked"
    <3>1. BF!Panic
      BY <2>1, <2>3 DEF BF!Panic, Wanted, call
    <3>2. QED BY <3>1 DEF BF!Next
  <2>4. CASE phase' # "panicked"
    BY <2>1, <2>2, <2>4 DEF BF!vars, Wanted, call
  <2>5. QED BY <2>3, <2>4
<1>5. CASE Read \/ ReadFails
  <2>1. UNCHANGED <<call, local>> /\ phase = "read" /\ NextCid(errhapened \/ err)
    BY <1>5 DEF Read, ReadFails
  <2>2. phase' \in {"ask", "write"}
    <3>1. (errhapened \/ err) \in BOOLEAN
      OBVIOUS
    <3>2. QED BY <2>1, <3>1, NextCidFacts DEF RetrievalInv
  <2>3. QED BY <2>1, <2>2 DEF BF!vars, Wanted, call
<1>6. CASE WriteFiles
  <2>1. /\ UNCHANGED <<call, local, files>> /\ phase = "write" /\ phase' \in {"returned", "panicked"}
        /\ phase' = "returned" => \A i \in DOMAIN files : files[i] # Nil
    BY <1>6 DEF WriteFiles
  <2>2. CASE phase' = "returned"
    <3>1. Wanted \subseteq local
      BY <2>1, <2>2, ListFacts DEF RetrievalInv, TypeOK, ReadIsLocal, Wanted
    <3>2. BF!Return
      BY <2>1, <2>2, <3>1 DEF BF!Return, Wanted, call
    <3>3. QED BY <3>2 DEF BF!Next
  <2>3. CASE phase' = "panicked"
    <3>1. BF!Panic
      BY <2>1, <2>3 DEF BF!Panic, Wanted, call
    <3>2. QED BY <3>1 DEF BF!Next
  <2>4. QED BY <2>1, <2>2, <2>3
<1>7. CASE (\E c \in Cid : Leave(c) \/ Join(c)) \/ WantUpdate \/ Update
  BY <1>1, <1>7 DEF Leave, Join, WantUpdate, Update, retrieval
<1>8. CASE UNCHANGED vars
  BY <1>1, <1>8 DEF vars, retrieval
<1>9. QED BY <1>2, <1>3, <1>4, <1>5, <1>6, <1>7, <1>8 DEF Next, GetIPFS

\* GetNodeFromEncodedCid only returns with every block fetched: what MerkleDag
\* assumes of it in GetNode and GetNodes.
THEOREM ImplementsBlockFetch == Spec => BlockFetchSpec
<1>1. RetrievalInv /\ [Next]_vars => [BF!Next]_(BF!vars)
  BY NextFetches
<1>2. QED BY <1>1, InitFetches, RetrievalInvariance, PTL DEF Spec, BlockFetchSpec, BF!Spec
=============================================================================
