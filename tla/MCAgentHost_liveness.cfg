CONSTANTS
  Sessions = {s1}
  ToolCalls = {c1}
  MsgIds = {id}
  None = None
  SentTypes = {"agent_start", "agent_message", "agent_stop", "agent_status", "models_request", "tool_list", "ping", "goodbye"}
  MaxSeq = 3
  MaxGen = 2
  MaxWork = 1
  EventCap = 1
  StdinCap = 1
  MaxFrames = 3
SPECIFICATION FairSpec
PROPERTY HostExitsAfterEof
PROPERTY AcceptedMessageSettles
PROPERTY ImplementsServer
CHECK_DEADLOCK FALSE
