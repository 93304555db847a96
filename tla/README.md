# TLA+ verification of CRONUS (IM-CRDT)

CRONUS replicates mutable data with Merkle-CRDTs: updates are nodes of a DAG whose
blocks are stored in IPFS and whose content identifiers (CIDs) are published over
libp2p pubsub.  The repository also holds replicated file systems built on
last-writer-wins sets.  This directory models the replication layers, the data types
and the local storage of that code, model-checks them with TLC and proves nearly all of
their safety properties with TLAPS.  All code is under `src/CRDT_IPFS`; file names below are relative to
it.

Contents: [the system](#the-system) · [modules and code](#modules-and-code) ·
[runs](#runs) · [bounds](#bounds) · [fairness](#fairness) · [proofs](#proofs) ·
[disagreements found](#disagreements-found) · [what is not modelled](#what-is-not-modelled) ·
[plan](#plan).

## The system

One process is one replica.  It has a receiving goroutine (`CheckForRemoteUpdates`), a
main loop that polls (`CheckUpdate`), a goroutine that makes updates, and an
application semaphore of one that the last two take.

| Component | State | Operations | What is hard | What makes it correct |
|---|---|---|---|---|
| Merkle-DAG manager (`CRDTDag/`) | `nodesId`, `nodesInterface`, `Root_nodes`, counters of file names, folder of files | `AddNode`, `RemoteAddNodeSuper` (recursive), `GetNodeFromEncodedCid`, `SendRemoteUpdates`, `CheckForRemoteUpdates` | messages lost and in any order, a batch with a node and its own dependency, replicas that stop with their blocks, fetches that block under the semaphore | a node is in only with its causal past; roots reach everything; identifiers go with contents; history stays retrievable; what is received is merged |
| Operation-based 2P-Set (`example/2PSet`) | a DAG of ADD/REMOVE operations | `Add`, `Remove`, `CheckUpdate`, `CheckUpdate_20Version`, `Merge`, `Lookup` | `IsKnown` asked before the semaphore, indexes into filtered and unfiltered lists | value a function of the nodes known; removals final |
| State- and delta-based causal-length sets (`example/CLSet`, `example/CLSetDelta`) | map element → causal length, pending delta | `Add`, `Remove`, `SendState`, `Merge` | nodes that arrive as dependencies only, the delta emptied after sending | replicas with the same nodes have the same entries (their lengths may differ); an author's states only grow; deltas cover all changes |
| Storage folder | files `node<n>`, `remote/<n>`, `remote/<n>.ArrivalTime` | names, the receiver's two files per CID, the scan of `CheckUpdate` | two threads and one counter without a lock, two files written one after the other | no CID is lost, none twice, the scan never fails |
| Logoot text (`example/LogootOpBased`) | tree of positions; a DAG of INSERT/DELETE | `Add`, `Distance`, `generateLinePositions`, `Insert`, `Delete`, `Lookup` | carries, overflow, equal numbers, slices spliced in place | a generated position lies above the line it starts from; insertions keep the nodes and their order |
| Counter (`example/Counter`) | a DAG of increments and decrements | `Increment`, `Decrement`, `Merge` | retrieval commented out | — (not modelled) |
| IPFS alone (`example/NoConcurrency`) | a list of strings | `Add`, `Remove`, `CheckUpdate` replaces the list | files read in the order of their names, while the receiver writes | a received set replaces a newer one only if the names are in the wrong order |
| IPFS link and pubsub client (`ipfsLink/`) | IPFS node, topic, subscription | `AddIPFS`, `GetIPFS`, `PubIPFS`, `Publish` | deadlines, retries, dropped errors, a temporary repository | a file is that of its CID; what is served is found, and a failed retrieval is never taken for a complete one |
| Interactive file system (`FS/Interactive_FS`) | `AddSet`, `RemoveSet`, clock; a TCP connection per gossip | `add`, `remove`, `print`, `final`, gossip, merge | maps without locks, torn snapshots, map order | latest entry wins; replicas converge; trees follow the policy |
| File system with contents (`FS/Causal`) | node set, version vector, line CRDT per file | `Merge`, `SyncAll`, `ReattachOrphans`, `ResolveNameConflicts`, line edits | map order, stamps in another's name | lines are the latest; synchronised replicas agree; names resolved |
| File system of the MAN paper (`FS/MAN_Paper`) | as `Interactive_FS` | as `Interactive_FS`, merged by pointer | goroutines without locks, merging maps that others change | the replicas converge all the same |
| Drivers (`main.go`, `example/tests`) | flags, CSV files | choose a data type; call update and `CheckUpdate` in loops | — | the loops are the schedules of the models |

How they interact: a driver creates a data type, which creates a `CRDTManager` and
starts the receiver.  An update makes a node on top of the roots, stores it
(`AddIPFS`), adds it (`AddNode`), and publishes the roots.  A publication becomes a file
at the others; their `CheckUpdate` reads and removes the files, drops the CIDs already
known, takes the semaphore, and `Merge` retrieves the nodes and calls
`RemoteAddNodeSuper`, which retrieves and adds all missing dependencies first.

Copies matter: the constructors of 2PSet, Logoot and Counter return a struct by value
after the receiver was given a pointer to the original, so the receiver's counter of
names is its own; CLSet, CLSetDelta and IPFS alone return pointers and share it.

The file systems do not use the DAG: their replicas exchange whole sets.

## Modules and code

| Module | Models | State ↔ code |
|---|---|---|
| `CausalBroadcast` | abstract specification: an update is incorporated after everything its author knew | — |
| `MerkleDag` | `CRDTDag.go` with the 2P-Set's `CheckUpdate`/`Merge` | `nodes` = `nodesId` + `nodesInterface`; `roots` = `Root_nodes`, a bag; `ipfs` and `blocks` = contents and each IPFS repository; `network`, `remote` = pubsub and the folder `remote/`; `batch` = `to_add`; `stack` = the calls of `Merge` and `RemoteAddNodeSuper` in progress; `hung` = replicas whose `GetIPFS` missed a deadline in parallel mode |
| `TwoPhaseSet` | the value read from the nodes | `Lookup` = what is added and not removed |
| `ClSet` | `CLSet.go` and `CLSetDelta.go`, by `variant` | `value` = `SetData`, `delta` = `DeltaState`; the DAG is what `CausalBroadcast` promises |
| `BlockFetch` | abstract specification: blocks are fetched one at a time, and a call returns only with all it wanted | — |
| `Retrieval` | `GetIPFS` and what `GetNodeFromEncodedCid` does with its result, under the semaphore | `index`, `files`, `err`, `errhapened` = its variables; `phase` = where it is; `local`, `served` = the repository and what others serve |
| `StorageFolder` | files and names of one replica, for 2PSet, CLSet (and CLSetDelta) or the set without a CRDT (`set`) | `nextNodeName` per counter in use, `loaded` = a non-atomic increment in progress, the folder, the receiver's and the scan's program counters; `applied` = the sets that replaced `StrSet.Set` |
| `LogootPosition` | pure operators of `LogootLinkedList.go` | an `int` has `Width` bits |
| `LogootAdd` | `Position.Add` as its loop, and the position made of its sum | `list`, `toAdd` |
| `LogootText` | `LogootOpBased.go` | `sons` = sons of the root, `known` = operations in the DAG, `state` = running, in an endless loop, or panicked |
| `FsReplica` | replication layer and processes of `Interactive_FS`; those of `MAN_Paper` if the setting is `shared` | `addSet`, `removeSet`, `clock`; `conn` = a snapshot on its way; `store` = a decision not yet written |
| `FsHierarchy` | `ReattachOrphans`, `BuildTree`, `ResolveNameConflicts` on one replica (one text in `Interactive_FS` and `MAN_Paper`) | `AddSet`/`RemoveSet`, the walk in progress, the tree |
| `CausalFs` | `mainCausal.go` | `replica` = its `NodeSetCRDT`; `lines`, `deleted` = the `FileCRDT`, shared by pointer |

`XProofs` holds the theorems about `X` and their proofs; `MerkleDagProofs` also those about
`TwoPhaseSet`, and `LogootProofs` those about `LogootAdd` and `LogootText`.  Each `MC…` module gives a specification its small constants; each `.cfg` is one run.
A definition named `X_Why` is a faulty variant of `X`, which no specification uses: it
is substituted for `X` to see that a property notices.

Steps are as large as the code's own atomicity.  What holds the semaphore is one step
unless it waits for the network: the recursion of `RemoteAddNodeSuper` is one step per
call and per block fetched, with its stack in the state, because receiving, publishing and
other replicas go on meanwhile.  `CheckUpdate` up to the semaphore and `Merge` after it
are two steps, because local updates come between.  In `StorageFolder` every file
operation and each half of an unlocked increment is a step.  In `FsReplica`, if
the setting is `racy`, test and store of a map entry are two steps.  `CausalFs` is one goroutine: a
call is a step, except that `SyncAll` takes one per pair of replicas and the two functions
that change the map they range over take one per node.  Iteration over a Go map is any
order.

`MerkleDag` relies on retrieval as `BlockFetch` states it: its `GetNode` is `Fetch`, its
`GetNodes` is `Return`.  `Retrieval` is shown to implement the same specification, so that
the rounds of a call need not be in the state of the DAG.  `BlockFetch` is a safety
specification; it does not say that a call returns.  What a missed deadline does to a
call is in both models: in parallel mode the call never returns, `NeverReturnsAfterError`
in `Retrieval` and the action `MissDeadline` in `MerkleDag`; in sequential mode the
program panics, a `Crash`.

A CID is the rank in which a node was stored; that content addressing never merges two
nodes is the property `ContentUnique`, which is checked and proved.

## Runs

| Run | Instance | Shows |
|---|---|---|
| `three_replicas` | 3 replicas, one of which reads two CIDs at a time, 4 nodes | `CausalHistory`, `RootsReachAll`, `BatchStillUnknown`, `RootsDistinct` at every step of the recursion, for concurrent branches and batches that mix a node with its dependency |
| `two_phase_set` | 2 replicas, all operations on an element, 4 nodes, lost messages, one crash, a missed deadline of one replica; one replica calls `CheckUpdate`, the other `CheckUpdate_20Version` with 2 for 20 | `ContentUnique`, `HistoryServable`, `PublishedOnce`, the inductive invariant of the proofs, that `MerkleDag` implements `CausalBroadcast`, `StrongConvergence` and `RemovedForGood` of the set's value; under fairness `ReceivedIsMerged` (with its whole past, even if the messages for the past were lost), `FullBatchIsMerged`, `SemaphoreReleased`, unless the replica stops, misses a deadline or waits for a block that was lost |
| `retrieval` | lists of up to 3 CIDs, both modes, one block that stops being served, two deadlines | `FilesMatch`, `NeverReturnsAfterError`, `Returns`, that `Retrieval` implements `BlockFetch` |
| `cl_sets` | 2 replicas, 2 elements, 3 nodes; both variants | `EntriesConverge` and `OwnStatesGrow` for states, which say little of lengths, as the run `cl_set_sec` shows; `DeltaComplete` for deltas |
| `folder` | 3 messages, 2 local updates; three sets | `NothingLost`, `AllCollected` (2PSet); `CollectedOnce` (all); `AppliedInOrder` (the set without a CRDT) |
| `fs_replica` | 2 replicas; 3 commands and a stop, 2 commands with racing stores and `print`, or 3 of those in the program without connections | `EntryIsLatest`, `OwnCommandsInOrder` (no races); `NodesConverge` |
| `fs_tree` | six keys (two files and a directory of one name among them), every choice of which are added and removed, four policies, all orders of the maps | `TreeFollowsPolicy`, `FileGivesWay`, `FinalEnds` |
| `causal` | 2 replicas, 5 to 7 calls, five scenarios | `LineIsLatest`, `SyncedAgree`, `DominatesIsAhead`, `NamesResolved`, `Housed` |
| `logoot_add` | all positions of up to two numbers, all additions | `GeneratedIsAbove`, `AddIncreases`, `AddEnds` |
| `logoot_text` | 2 replicas, 4 lines | `NodesKeepOrder` until the numbers run out |
| `cl_set_sec` | CLSet, 2 replicas, 3 nodes | a violation: see [disagreements found](#disagreements-found) |
| `fs_print` | a directory and a file in it, 2 commands | a violation: see [disagreements found](#disagreements-found) |

Some modules describe a family, of which one member is chosen in the initial state and
stays: the `variant` of `ClSet`, the `set` of `StorageFolder`, the `setting` of
`FsReplica`, the `scenario` of `CausalFs`.  One run then checks all members, and a
property that the code provides for some of them only says so in its first condition.

`TypeOK` says in every module what its variables hold.  Only that of `MerkleDag` is a part
of a run (of `Inductive`, which contains `IdentifierMatchesContent` as well); the others
are parts of the inductive invariants proved below, and no run spends its time on them,
but for that of `LogootText`, which only documents the state (it holds in the run's instance).

Every passing configuration has `CHECK_DEADLOCK FALSE`: the bounds on nodes, commands
or calls end the behaviours, and users may simply stop.

## Bounds

Every bound is a constant, used in the guards: `MaxNodes`, `MaxCrashes`, `MaxHung`,
`BatchSize` (`MerkleDag`), `MaxNodes`, `MaxLength` (`ClSet`), `MaxName`, `MaxUpdates`
(`StorageFolder`), `MaxChanges`, `MaxDeadlines` (`Retrieval`), `commands` and `stops` of a setting (`FsReplica`), `calls` of a
scenario (`CausalFs`), `MaxLength`, `MaxAdd` (`LogootAdd`), `MaxInserts` (`LogootText`).

- Four nodes among three replicas are enough for two concurrent branches, a node that
  joins them, and a batch with a node and its dependency; four or five among two for a
  chain that arrives in the reverse order with a crash in between.  The theorems hold
  for every value.
- Twenty is replaced by two in `CheckUpdate_20Version`; the count is only compared.
- Three messages in a folder let a name repeat while another file is read.  Names are
  written in base 3 (`Base`, 10 in the code), so that they get a second digit within
  the bound and are no longer sorted as they were given.
- Two deadlines and one block that goes away let each of several rounds of a retrieval
  fail in its own place; three CIDs put one before and one after it.
- `MaxPos` is 2 or 3 for 999 and `Width` 6 to 8 for 64 bits, so that carries, the end of
  the numbers and overflow occur within two numbers and four lines.  The
  arithmetic is the code's, in terms of `MaxPos` and `Width`.  (`PositionAssumption` says
  that `2 ^ Width` is a number because the prover has no axiom about powers.)
- Two files, a file and a directory, and a directory in another are the pairs and the
  nesting that the resolution functions distinguish; two files with a directory of their
  name are the least that goes wrong (see below).

## Fairness

- `MerkleDag`: weak fairness of the main loop of each replica (it polls for ever and
  gives the semaphore back) and of the reception of each message that pubsub has
  delivered.  None for updates, losses, crashes or missed deadlines.  So a block that is
  served is found unless its deadline passes first, which may happen in every retrieval.  A replica is excused (`Stuck`) if it stopped, by a panic of its retrieval or
  otherwise; if its retrieval missed a deadline and loops for ever; or if it waits for a
  block that stopped with the only replica that had it (`BlockLost`).  Without any one
  of the three, TLC finds the liveness properties violated.
- `Retrieval`: weak fairness of finding a block that is served, reading it, writing the
  files, and of the semaphore for the retrieval and the update.  None for deadlines, nor
  for replicas that come or go.
- `FsReplica`: weak fairness of a command or a print that was started, of the gossip to
  each peer (it repeats on a timer), and of serving each connection or, in the program
  of the MAN paper, of the goroutine that merges for ever.
- `FsHierarchy`: one goroutine runs to its end, `WF_vars(Next)`.
- `StorageFolder`: weak fairness of the receiver and of the scan.
- `LogootAdd`: weak fairness of the loop.

The other modules state safety properties only.

## Proofs

Each theorem holds for every value of the constants: any replicas, nodes, keys,
messages and bounds that satisfy the assumptions which the module names (`…Assumption`;
TLC evaluates them in the runs).

| Module | Theorem | States |
|---|---|---|
| `MerkleDagProofs` | `Invariance` | the inductive invariant, `Inductive` |
| | `TypeCorrect` | the state keeps its types |
| | `Causality` | `CausalHistory` |
| | `RootsComplete` | `RootsReachAll` |
| | `RootsAreDistinct` | `RootsDistinct` |
| | `CollectedStaysUnknown` | `BatchStillUnknown` |
| | `ContentMatches` | `IdentifierMatchesContent` |
| | `Servable` | `HistoryServable` |
| | `NoCollision` | `ContentUnique` |
| | `OnePublication` | `PublishedOnce` |
| | `Refinement` | `MerkleDag` implements `CausalBroadcast` |
| | `Convergence`, `RemovalIsFinal` | `StrongConvergence`, `RemovedForGood` |
| `RetrievalProofs` | `RetrievalInvariance` | the inductive invariant |
| | `FilesMatchCids`, `ErrorIsForEver` | `FilesMatch`, `NeverReturnsAfterError` |
| | `ImplementsBlockFetch` | `Retrieval` implements `BlockFetch` |
| `ClSetProofs` | `ClSetInvariance` | the inductive invariant |
| | `EntriesAgree`, `AuthorsNeverGoBack`, `NothingLeftOut` | `EntriesConverge`, `OwnStatesGrow`, `DeltaComplete` |
| `StorageFolderProofs` | `FolderInvariance` | the inductive invariant |
| | `CollectedAtMostOnce`, `TwoPhaseSetLosesNothing`, `ArrivalOrder` | `CollectedOnce`, `NothingLost`, `AppliedInOrder` |
| | `TwoPhaseSetScanRuns` | the scan of 2PSet does not panic |
| `FsReplicaProofs` | `FsInvariance` | the inductive invariant |
| | `LatestEntryWins`, `CommandsTakeEffect` | `EntryIsLatest`, `OwnCommandsInOrder` |
| | `SameEntriesSameNodes` | replicas that the same entries reached have the same nodes under the same stamps |
| `FsHierarchyProofs` | `HierarchyInvariance` | the inductive invariant |
| | `OneResultPerPolicy` | `MapOrderIsIrrelevant`, a conjunct of `TreeFollowsPolicy` |
| | `PolicyDecidesTree` | `TreeFollowsPolicy` |
| | `FilesGiveWay` | `FileGivesWay` |
| `CausalFsProofs` | `SetsInvariance` | the inductive invariant of the sets |
| | `LastWriterShows`, `NobodyIsHomeless`, `NamesGiveWay` | `LineIsLatest`, `Housed`, `NamesResolved` |
| | `SyncAllAgrees`, `DominanceIsKnowledge` | `SyncedAgree`, `DominatesIsAhead` |
| `LogootProofs` | `AdditionRaises` | `AddIncreases` |
| | `GeneratedFollows` | `GeneratedIsAbove` |
| | `LinesKeepOrder` | `NodesKeepOrder` |

Every proof of an invariant has one lemma or step per action, over lemmas on the
operators; few properties are inductive as they stand.  What had to be added:

**`MerkleDag`.**  `CausalHistory` is not inductive: a step of the recursion adds a node
whose dependencies were fetched by calls that have returned.  `Inductive` therefore
also says

- `DependenciesCoverPast`: the direct dependencies of a node (its author's roots) reach
  all its author knew, which is closed downwards.  So having the dependencies, each
  with its past, is having the past;
- `CallsAt`: every dependency of a node on the stack is known, still listed, or the
  node of the call above.  So when nothing is listed any more and the call is the top,
  all are known, and `AddRemoteNode` may add the node;
- `OnlyStoredAt`, `FetchedIsLocalAt`: what is known, received or wanted exists, and
  what was fetched or is known is in the local repository, which makes a history
  servable after its author has stopped;
- `AuthorKnows`: an author has its own nodes, each of which knew the earlier ones.
  With the first part this makes contents unique and the new node the only root
  that has to be published.

`RootsDistinct` needs that a call lists no node twice and that what a call is about to
add is no root yet, unless a call above it on the stack adds a node that depends on it
and so takes it out of the roots again.
The refinement maps `past` to the history variable of the nodes and `known` to the
identifiers a replica has; `Update` is `Write`, `AddRemoteNode` is `Deliver` or, when a
node is added a second time, a stutter, and every other action is a stutter.

**`TwoPhaseSet`.**  `Lookup` is a function of the nodes known, whatever the order of the
list and its repetitions (`Convergence`); nodes are never forgotten while a replica runs
(`RemovalIsFinal`).

**`Retrieval`.**  What has been read is in the local repository (`ReadIsLocal`), which is
what `BlockFetch` asks for at a return; only the parallel mode sets `err`.

**`ClSet`.**  A node's past is before it and is known to its author (`PastIsKnown`), and a
state that was sent is not ahead of its author's value (`StateSent`), although merging and
removing come between.  `EntriesSent`: a state has the entries of all states its author
knew; `EntriesKnown`: so has the value of whoever incorporated a node, although it
merged only the states of the nodes whose messages it got.  Entries are all this holds
of: an entry that comes by merging has length 0, which is not in the set, until its
replica adds the element itself.

**`StorageFolder`.**  A message is in one place at a time (`OnePlace`): with the
receiver, in one file, or being read; that is inductive even where names repeat.  For
2PSet names do not (`EveryNameNew`), so the scan finds what it listed (`ScanFindsFiles`)
and nothing is overwritten (`Kept`).  For the set without a CRDT `OlderFirst` says that of
two messages in the order of their names, the older one is listed, being read, or gone
when the newer one is read; it needs the name of the newer one to be new, a condition
which three messages do not show (see below).

**`FsReplica`.**  `SentIsLatest` extends `EntryIsLatest` to the snapshots on their way: each
entry is the latest of what the snapshot's sender had when it encoded that set, and the
entries already merged are in the receiver's past.  `StampsBehind`: no stamp is
ahead of the clock of the replica it names.
The latest of a set of entries is unique (`LatestIsUnique`), which makes the nodes of a
replica a function of the entries it saw (`SameEntriesSameNodes`); not their parents, as
`fs_print` shows.

**`FsHierarchy`.**  For "root" and "reappear" the invariant gives the state of each node
as a function of what was merged and of whether the node was visited (`RootRule`,
`ReappearRule`), so the order leaves no trace.  For the other two the order does leave
one, and the invariant bounds it:

- `SkipRule`: a node that is shown in the end (`SkipShown`) is never removed, and a visited
  one whose directory was not there is; nothing is brought back;
- `CompactRule`: nodes only move up; a node that was not visited has the parent its path
  gives, and one that was visited, if every directory above it was received, the closest
  one that exists (`CompactParent`);
- `WalkRule`: a walk is at the orphan's directory, which is missing, or at the parent that
  directory has by now;
- `TopRule`: `BuildTree` takes one of the candidates for the top of the tree.

`PolicyDecidesTree` then follows the chain of parents from a node to "/".  `Ancestors` and
`Chain` are recursive functions along the parents; that they satisfy their equation, and
that what holds at "/" and is handed down holds everywhere (`ByAncestors`), is proved from
`PathAssumption`: paths are finite, so every set of nodes has one whose parent is outside.
For names, `nameMap` holds one child per
directory and name, a directory if there is one (`OnePerName`, `DirectoryOnTop`).

**`CausalFs`.**  `SetsInv` says that each set is well formed (`Sound`), that its clock
covers its stamps, and that the nodes yet to be visited are in the set although the call
changes it.  On it stand five invariants, each for one property:

- `ContentInv`: each line and tombstone is the stamp of an edit of the history and none
  later was missed; a line behind its tombstone may be an old one;
- `HousedSoFar`: the nodes already visited stay housed: the only directories that change
  are those that reappear, and they stay;
- `NamingInv`: what is in `seen` was visited and bears its name, the only node of its name
  in a place is seen if it exists, and two visited nodes that share a place and a name
  are resolved or have a third beside them;
- `OneStamp` and `Syncing`: a node has one stamp; the pairs done come before those
  left, and the replica with the least ID has merged all others before any merges it;
- `ClocksInv`: a replica's own stamps are covered by its own clock, no clock is more than
  one ahead of the time, and no clock has reached a stamp that its replica missed.

`Ancestor` and its like are recursive functions; the two facts about them
(`IteratesFacts`, `AncestorFacts`) come from the least counterexample among the naturals
(`UpTo`), because the theorems on induction take an operator.

**Logoot.**  The first identifier at which two positions differ decides their order
(`FirstDecides`); it exists because the naturals are well founded.  `CarryFacts`: the
positions that `AddStep` sets to 0 are all those after the one it increments, so a round
raises the position at its first change.  `Add` keeps the sites (`SitesKept`), so where a
sum first differs from the line it starts from, it differs in the number, which
`constructPosition` keeps.  Of the texts no more than `SonsAreSequences` is needed; it puts
no bound on the numbers, so overflow cannot disturb the order of the lines.  The splice of
a slice is modelled by what Go defines `append` to do (it copies even where source and
target overlap); the model checks the place and what is replaced there.

Three properties turned out to be false beyond the instances first checked and now state
what the code does:

- `AppliedInOrder`: if the counter lost an increment, the name of the newer message may
  have been used before; five messages show it.  The order of names then means nothing;
- `FileGivesWay` and `NamesResolved`: of two files and a directory of one name, one file can
  keep it, because `nameMap` and `seen` remember one node per name (`fs.go:373`,
  `mainCausal.go:408`).  With two nodes nothing goes wrong.  `fs_tree` and `causal` now
  have the three;
- `DominatesIsAhead` needs that no two calls of one replica see one time.

Some properties leave out what the code does not keep, and say so in their first
condition.  `OwnCommandsInOrder` does not speak of a clock that is behind another
replica's stamp, `FinalEnds` not of the inputs on which `compact` never ends
(`GapsAreShort`), `SyncedAgree` not of scenarios with "reappear", whose later stamps are
never taken over.  `Housed` exempts the nodes whose
`ParentID` is the name of a directory and not its ID.

Every invariant and every action property of the passing runs is proved, and both
refinements.  Only model-checked is liveness (`ReceivedIsMerged`, `FullBatchIsMerged`,
`SemaphoreReleased`, `Returns`, `AllCollected`, `NodesConverge`, `FinalEnds`, `AddEnds`),
which this prover cannot treat.  What the function `Add` of `LogootPosition` returns is not
stated for every number either, as it would take an induction over the number; the
theorems on `LogootAdd` say it of the loop, at each of its rounds.

## Disagreements found

Two runs end in a violation of what the README of the repository says
(`../src/README.md:8`: each update "is transcripted as CRDT's Payload respecting the SEC
property"):

| Run | What the code does |
|---|---|
| `cl_set_sec` | `mergeState` compares an element's length with itself, so states do not merge (`CLSet.go:48`) |
| `fs_print` | printing a tree moves replicated nodes under their old stamps, so replicas disagree on their places for ever (`fs.go:253`) |

Modelling the rest brought the following to light.  The models contain this behaviour,
and the properties are stated where it does not interfere.

- 2PSet retrieves from IPFS while the semaphore is held, not before as its comment says
  (`2PSet.go:538`, `637`).  `SemaphoreReleased` shows that it is given back, unless the
  replica stops, a block it needs was lost, or a deadline was missed: after one missed
  deadline the parallel mode keeps it for ever, though all blocks are served (next item).
- `GetIPFS`: `err` is set when a block is not found and never reset, so that in the
  parallel mode a call with one failed round retrieves everything again and again, with
  the semaphore held (`IpfsLink.go:405`); in the sequential mode it uses the node that
  was not found, and panics (`IpfsLink.go:420`).  The flag for the mode is described as
  "If true, doesn't block algorithm while retrieving data" (`main.go:74`), but the loop
  waits for each goroutine before it starts the next (`IpfsLink.go:424`) and its caller
  holds the semaphore.
- IPFS alone takes the sets it received in the order of their file names, where "10"
  comes before "9": an older set replaces a newer one when the names get another digit
  (`ipfs_only.go:164`).
- CLSetDelta merges the deltas of the nodes it was called with only: one that comes as a
  dependency is never merged (`CLSetDelta.go:293`).
- CLSet's scan opens `.ArrivalTime` after it removed the CID, when the receiver may not
  have created it yet, and panics (`CLSet.go:577`).  CLSet's receiver and updating
  thread increment one counter without a lock; a name repeats, and the receiver removes
  a CID that nobody has read (`CRDTDag.go:365`, `673`).
- Fetched and own nodes take names of one form from two counters, so that a fetched node
  does replace a file, which "should never be the case" (`CRDTDag.go:211`).
- The policy `compact` of the interactive file system looks up one directory again and
  again, and does not end when it and the one above are missing (`fs.go:269`); the
  duplicate of a file stays in the tree that was built before (`fs.go:367`).
- `FS/Causal`: each of two replicas may remove the file the other keeps
  (`mainCausal.go:395`); of three files of one name two are kept (`mainCausal.go:404`);
  the later stamp of a node both have is never taken over, so that a directory brought
  back stays removed elsewhere (`mainCausal.go:246`); removals are stamped in another
  replica's name, which version vectors then misread (`mainCausal.go:400`).
- Logoot: numbers can exceed 999 (`LogootLinkedList.go:50`); the distance has one factor
  more than `TestDistance` asks for (`LogootLinkedList.go:142`); the search for a son
  stops at the first lower one, so an identifier may be inserted twice
  (`LogootOpBased.go:143`), and it orders sons by number alone (`LogootOpBased.go:123`):
  the sites decide in `Position.LowerThan` only, which generates positions and places
  no line; a new line may take the number and site of its upper neighbour, and replaces
  its text, that of the last line too (`LogootLinkedList.go:177`,
  `LogootOpBased.go:166`); positions are lost in JSON, as their fields are not exported
  (`LogootLinkedList.go:12`); the search for a position between equal numbers never ends
  (`LogootLinkedList.go:195`); `Delete` runs past an end and panics
  (`LogootOpBased.go:181`).

## What is not modelled

- The branch of `RemoteAddNodeSuper` for `retrieveMode = false`: the flag is true from
  creation on.
- The names and files of fetched nodes (`nextFileName2`): their content is read from
  memory.
- The content of the folder `rootNode/`: only `CheckRootNodes` of the counter reads it,
  which nothing calls.  The names it takes are in `StorageFolder`.
- Encryption of blocks (a bijection for all who have the key), time measurements,
  CSV files, configuration, the set-up of libraries.
- The counter: the retrieval in its `Merge` is commented out (`Counter.go:219`), so that
  every remote node makes it panic, and no driver that `main.go` selects uses it.  Its
  update and its DAG repeat those of 2PSet.
- What `Add` and `Remove` of IPFS alone do to the list of strings: `StorageFolder` has
  which set is in force, not what is in it.
- The final tree of the MAN paper's program, printed after ten seconds while its
  goroutines go on, and its fixed list of operations: any operations take their place.
- The set-up of the IPFS node, the DHT and GossipSub.
- Logoot's `CheckUpdate` and `Merge` are one step: they repeat those of the 2P-Set, whose
  interleaving is in `MerkleDag`.
- What `ResolveNameConflicts` writes to the sets when the command `final` calls it: the
  program prints and exits.

## Plan

Done, in this order because everything else stands on the first: `MerkleDag` with
`CausalBroadcast` and its proofs; `TwoPhaseSet`; `FsReplica`, `FsHierarchy`; `ClSet`;
`StorageFolder`; `CausalFs`; the Logoot modules; `Retrieval` with `BlockFetch`; the set
without a CRDT in `StorageFolder`; the MAN paper's goroutines in `FsReplica`.

Next:

1. `Counter`, once its retrieval is back: the value as a function of the nodes, over
   `MerkleDag`.
2. An abstract last-writer-wins set that `FsReplica` without races and `print`
   implements.
3. Logoot's `CheckUpdate` and `Merge` as the steps of `MerkleDag`.

Theorems worth proving next: what `Distance` bounds, so that `Generate` stays below the
upper line where nothing overflows; that `FsReplica` implements the abstract set of 2.
