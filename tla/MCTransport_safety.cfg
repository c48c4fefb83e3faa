CONSTANTS
  Tasks = {t1, t2, t3}
  Requests = {r1, r2}
  Children = {p1, p2}
  None = None
  MaxLines = 2
  MaxCancels = 2
SPECIFICATION Spec
SYMMETRY Symmetry
INVARIANT TypeOK
INVARIANT ChildOwned
INVARIANT CloseLeavesNoChild
PROPERTY ErrorIsLast
CHECK_DEADLOCK FALSE
