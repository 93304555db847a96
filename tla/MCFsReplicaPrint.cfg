CONSTANTS
  root = root
  dir = dir
  file = file
  Peer = {1, 2}
  Key = {root, dir, file}
  Root = root
  ParentOf <- FileInDir
  Setting <- PrintOnly
SPECIFICATION FairSpec
PROPERTIES TreesConverge
