SPECIFICATION Spec
CONSTANTS
  c1 = c1
  c2 = c2
  r1 = r1
  k1 = k1
  Reader = Reader
  None = None
  Calls <- TwoCalls
  Served <- TwoCalls
  Asks <- OneAsk
  CloseCallers <- OneCloser
  AgentExits = "ever"
  MaxUpdates = 2
  UpdateCap = 1
CHECK_DEADLOCK FALSE
SYMMETRY Symmetry
INVARIANT TypeOK
INVARIANT PendingIsInFlight
INVARIANT AnswerNotLost
INVARIANT ReaderNotBlocked
INVARIANT UpdatesInOrder
INVARIANT NoStrandedCall
INVARIANT IdleMeansReturned
PROPERTY RpcSpec
