CONSTANTS
  Sessions = {s1, s2}
  ToolCalls = {c1}
  MsgIds = {id}
  None = None
  SentTypes = {"agent_start", "agent_message", "agent_stop"}
  MaxSeq = 3
  MaxGen = 2
  MaxWork = 1
  EventCap = 1
  StdinCap = 1
  MaxFrames = 4
SPECIFICATION Spec
SYMMETRY SessionSymmetry
INVARIANT InductiveInv
INVARIANT TypeOK
INVARIANT OneUnsettledMessage
INVARIANT OutputOfCurrentRegistration
INVARIANT BridgeOfCurrentRegistration
INVARIANT ResultIsForThisCall
PROPERTY QueuedResultWinsWait
CHECK_DEADLOCK FALSE
