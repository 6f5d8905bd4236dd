CONSTANTS
  i = i  o = o  b = b  r = r  c = c  d = d
  Node = {i, o, b, r, c, d}
  Kind <- MCKind
  Given <- MCGiven
SPECIFICATION Spec
INVARIANTS NoneEscapes Confluent
PROPERTIES Terminates Implements
CHECK_DEADLOCK FALSE
