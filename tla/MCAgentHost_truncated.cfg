CONSTANTS
  Sessions = {s1}
  ToolCalls = {c1}
  MsgIds = {id}
  None = None
  SentTypes = {"agent_start", "agent_message", "agent_stop"}
  MaxSeq = 3
  MaxGen = 2
  MaxWork = 1
  EventCap = 1
  StdinCap = 1
  MaxFrames = 5
SPECIFICATION Spec
PROPERTY NoTruncatedSuccess
CHECK_DEADLOCK FALSE
