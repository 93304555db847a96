CONSTANTS
  p1 = p1
  p2 = p2
  a = a
  b = b
  Peer = {p1, p2}
  Bootstrap = p1
  Elem = {a, b}
  InitialValue = a
  Variant = {"CLSet"}
  MaxNodes = 3
  MaxLength = 2
SPECIFICATION Spec
INVARIANTS StrongConvergence
CHECK_DEADLOCK FALSE
