CONSTANTS
  root = root
  none = none
  dir1 = dir1
  dir2 = dir2
  inner = inner
  outer = outer
  file2 = file2
  again = again
  dir3 = dir3
  nSlash = nSlash
  nDir1 = nDir1
  nDir2 = nDir2
  nFile1 = nFile1
  nFile2 = nFile2
  Root = root
  NoPlace = none
  Replica = {1, 2}
  Id = {root, dir1, dir2, inner, outer, file2, again, dir3}
  File = {inner, outer, file2, again}
  Dead = {nDir1}
  NameOf <- Names
  PlaceOf <- Places
  Index = {0}
  Scenario <- Scenarios
SPECIFICATION Spec
INVARIANTS LineIsLatest DominatesIsAhead SyncedAgree NamesResolved
PROPERTIES Housed
CHECK_DEADLOCK FALSE
