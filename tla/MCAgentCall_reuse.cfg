CONSTANTS
  Sessions = {own}
  Supplied = {own}
  Requests = {}
  None = None
  MaxGen = 2
  Calls = {c1, c2}
  MaxShown = 2
  MaxWire = 2
SPECIFICATION Spec
SYMMETRY CallSymmetry
INVARIANT TypeOK
INVARIANT OutputIsOwn
PROPERTY StopsOnlyOwnSession
CHECK_DEADLOCK FALSE
