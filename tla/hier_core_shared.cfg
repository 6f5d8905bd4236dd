CONSTANTS
  i = i sg = sg t = t u = u o = o p1 = p1 p2 = p2 q = q q2 = q2 b = b k = k
  Open = Open Inst = Inst
  TNode = {i, sg, t, u, o}
  Port = {p1, p2, b, q, q2}
  Inner = {k}
  TKind <- MCTKind
  CKind <- MCCKind
  TArcs <- MCTArcs
  CArcs <- MCCArcs
  Conns <- TwoInputs
SPECIFICATION Spec
INVARIANTS HierCoreKept
CHECK_DEADLOCK FALSE
