CONSTANTS
  t1 = t1  v1 = v1  u1 = u1  s1 = s1  x1 = x1
  Src = {t1, v1, u1, s1, x1}
  Design <- MCDesign
  None = None
  MaxSuffix = 9
  Tops = {t1, v1}
  Targets = {}
  MaxForce = 0
SPECIFICATION XSpec
INVARIANT GraphBelow
