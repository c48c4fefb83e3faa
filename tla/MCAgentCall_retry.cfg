CONSTANTS
  Sessions = {own, m1, m2}
  Supplied = {own}
  Requests = {}
  None = None
  MaxGen = 2
  Calls = {c1}
  MaxShown = 2
  MaxWire = 2
SPECIFICATION Spec
SYMMETRY CallSymmetry
INVARIANT LeavesNoSession
INVARIANT NoToolReplay
CHECK_DEADLOCK FALSE
