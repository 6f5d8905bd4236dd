CONSTANTS
  s = s  p = p  p2 = p2  plain = plain  work = work  ip = ip
  Src = {s, p, p2, plain}
  Title <- MCTitle
  Order <- MCLibs
  Work = work
  Val = {1, 2}
  None = None
  Default <- MCDefault
  Body <- MCBody
SPECIFICATION Spec
INVARIANTS OnceEach Closed Bound SavedFound
PROPERTIES Stable Terminates
