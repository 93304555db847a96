CONSTANTS
  c1 = c1
  c2 = c2
  c3 = c3
  Cid = {c1, c2, c3}
  Nil = Nil
  MaxChanges = 1
  MaxDeadlines = 2
SPECIFICATION FairSpec
INVARIANTS FilesMatch NeverReturnsAfterError
PROPERTIES Returns BlockFetchSpec
CHECK_DEADLOCK FALSE
