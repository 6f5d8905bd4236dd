CONSTANTS
  a = a x = x y = y z = z e = e
  Node = {a, x, y, z, e}
  Reg = {a}
  Starts = {a, x, e}
  Weights <- DiamondsAndLoops
  WalkBound = 10
SPECIFICATION Spec
INVARIANTS Sound Complete MemoExact NoReentry
PROPERTIES Terminates
CHECK_DEADLOCK FALSE
