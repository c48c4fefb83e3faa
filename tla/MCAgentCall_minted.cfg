CONSTANTS
  Sessions = {m1, m2}
  Supplied = {}
  Requests = {}
  None = None
  MaxGen = 2
  Calls = {c1}
  MaxShown = 2
  MaxWire = 2
SPECIFICATION Spec
SYMMETRY CallSymmetry
INVARIANT MintedSessionEnds
CHECK_DEADLOCK FALSE
