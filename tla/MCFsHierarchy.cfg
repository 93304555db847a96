CONSTANTS
  root = root
  d = d
  e = e
  file_e = file_e
  f = f
  top_e = top_e
  above = above
  Key = {root, d, e, file_e, top_e, f}
  Root = root
  Above = above
  ParentOf <- Parents
  IsDir <- Directories
  BaseName <- Names
  Policy = {"root", "skip", "compact", "reappear"}
  Created = 2
  Tombstone = {0, 3}
SPECIFICATION Spec
INVARIANTS TreeFollowsPolicy FileGivesWay
PROPERTIES FinalEnds
CHECK_DEADLOCK FALSE
