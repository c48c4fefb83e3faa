CONSTANTS
  Tasks = {t1, t2}
  Requests = {r1}
  Children = {p1, p2}
  None = None
  MaxLines = 1
  MaxCancels = 1
SPECIFICATION FairSpec
PROPERTY RequestsEndAfterClose
PROPERTY ChildrenEnd
PROPERTY CallsReturn
CHECK_DEADLOCK FALSE
