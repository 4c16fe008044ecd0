SPECIFICATION Spec
CONSTANTS
  c1 = c1
  c2 = c2
  r1 = r1
  k1 = k1
  Reader = Reader
  None = None
  Calls <- TwoCalls
  Served <- TwoCalls
  Asks <- NoOne
  CloseCallers <- OneCloser
  AgentExits = "never"
  MaxUpdates = 1
  UpdateCap = 1
CHECK_DEADLOCK FALSE
INVARIANT UpdatesClosedByReader
