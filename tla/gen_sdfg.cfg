CONSTANTS
  x = x  d = d  ck = ck  rs = rs  o = o  z = z
  Inst = Inst  Exp = Exp  Open = Open
  Full <- MCFull
  Designs <- MCDesigns
SPECIFICATION Spec
INVARIANTS Fed ArcsMapped
CHECK_DEADLOCK FALSE
