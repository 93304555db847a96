CONSTANTS
  c1 = c1
  c2 = c2
  c3 = c3
  Message = {c1, c2, c3}
  Set = {"2PSet", "CLSet", "StrSet"}
  Base = 3
  MaxName = 4
  MaxUpdates = 2
SPECIFICATION FairSpec
INVARIANTS NothingLost CollectedOnce AppliedInOrder
PROPERTIES AllCollected
CHECK_DEADLOCK FALSE
