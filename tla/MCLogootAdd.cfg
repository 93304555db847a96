CONSTANTS
  MaxPos = 2
  Width = 6
  SiteName = {1, 2}
  MaxLength = 2
  MaxAdd = 5
SPECIFICATION FairAddSpec
INVARIANTS GeneratedIsAbove
PROPERTIES AddIncreases AddEnds
CHECK_DEADLOCK FALSE
