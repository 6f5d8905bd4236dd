CONSTANTS
  i = i  o = o  b = b  r = r  c = c  d = d
  Node = {i, o, b, r, c, d}
  Kind <- MCKind
  Wires <- MCWires
SPECIFICATION Spec
INVARIANTS DataKept Settled OnePerPath
PROPERTIES Implements
CHECK_DEADLOCK FALSE
