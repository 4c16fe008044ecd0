SPECIFICATION FairSpec
CONSTANTS
  c1 = c1
  c2 = c2
  None = None
  Ids <- TwoCalls
  KindOf <- FileAndMcp
  MissingId = TRUE
  Failures <- AllFailures
  WarnAt = 4
  MaxTurns = 2
  MaxRounds = 1
  MaxDeltas = 2
CHECK_DEADLOCK FALSE
INVARIANT RequestWellFormed
INVARIANT NoInterruptedResponse
INVARIANT EndTurnIsDurable
INVARIANT ReplayIsExact
PROPERTY CancelEndsTurn
