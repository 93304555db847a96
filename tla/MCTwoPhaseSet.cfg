CONSTANTS
  p1 = p1
  p2 = p2
  a = a
  Elem = {a}
  Peer = {p1, p2}
  Bootstrap = p1
  Op <- Operations
  InitialOp <- AddA
  BatchSize <- P2Batches
  MaxNodes = 4
  MaxCrashes = 1
  MaxHung = 1
  Lossy = TRUE
SPECIFICATION FairSpec
INVARIANTS ContentUnique HistoryServable Inductive StrongConvergence
PROPERTIES PublishedOnce CausalBroadcastSpec RemovedForGood ReceivedIsMerged SemaphoreReleased FullBatchIsMerged
CHECK_DEADLOCK FALSE
