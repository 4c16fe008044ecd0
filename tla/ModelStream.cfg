SPECIFICATION FairSpec
CONSTANTS
  Messages <- MCMessages
  Chunks = 2
  SinkMayFail = TRUE
CHECK_DEADLOCK FALSE
INVARIANT AcceptedIsWhole
INVARIANT FailureHasCause
PROPERTY StreamIsReleased
