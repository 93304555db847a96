CONSTANTS
  root = root
  dir = dir
  file = file
  Peer = {1, 2}
  Key = {root, dir}
  Root = root
  ParentOf <- RootOnly
  Setting <- Settings
SPECIFICATION FairSpec
INVARIANTS EntryIsLatest
PROPERTIES OwnCommandsInOrder NodesConverge
CHECK_DEADLOCK FALSE
