CONSTANTS
  x = x  y = y  a = a  q = q
  Lvals <- MCLvals
  Rhs <- MCRhs
  Conds = {q}
  Cases <- DefaultFirst
  Values = {0, 1}
  MaxAssign = 2
SPECIFICATION Spec
INVARIANT FlowFound
CHECK_DEADLOCK FALSE
