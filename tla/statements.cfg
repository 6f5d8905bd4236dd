CONSTANTS
  x = x  y = y  a = a  q = q
  Lvals <- MCLvals
  Rhs <- MCRhs
  Conds = {q}
  Cases <- Orderly
  Values = {0, 1}
  MaxAssign = 3
SPECIFICATION Spec
INVARIANTS Disjoint HoldFound FlowFound HoldMeant
CHECK_DEADLOCK FALSE
