CONSTANTS
  p1 = p1
  p2 = p2
  p3 = p3
  add = add
  Peer = {p1, p2, p3}
  Bootstrap = p1
  Op = {add}
  InitialOp = add
  BatchSize <- P1Batches
  MaxNodes = 4
  MaxCrashes = 0
  MaxHung = 0
  Lossy = FALSE
SPECIFICATION Spec
SYMMETRY Symmetry
INVARIANTS CausalHistory RootsReachAll BatchStillUnknown RootsDistinct
CHECK_DEADLOCK FALSE
