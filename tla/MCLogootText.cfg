CONSTANTS
  MaxPos = 2
  Width = 7
  Site = {1, 2}
  Bootstrap = 1
  Removing = TRUE
  MaxInserts = 4
SPECIFICATION Spec
PROPERTIES NodesKeepOrder
CHECK_DEADLOCK FALSE
