SPECIFICATION Spec
CONSTANTS
  NULL = NULL
  Lo = lo
  le = le
  sl = sl
  Ifs = {le, sl, lo}
  PointToPoint = {sl}
  Broadcast = {le}
  NameOf <- MCNameOf
  Inets = {a1, a2}
  LIMIT = 1
  ZERO = zero
  Values = {v}
  Quads <- MCQuads
  Spaces <- MCSpaces
  SaLens = {0, 16, 20, 30, 255}
SYMMETRY MCSymmetry
CHECK_DEADLOCK FALSE
PROPERTIES
  AddressKeepsInterface
