SPECIFICATION Spec
CONSTANTS
  p1 = p1
  p2 = p2
  s1 = s1
  s2 = s2
  None = None
  Sessions <- OneSession
  Requests <- TwoRequests
  SessionsOf <- SameSession
  Others <- Nothing
  Junk <- Nothing
  Overlap = TRUE
  MaxCancels = 1
  MaxFrames = 4
CHECK_DEADLOCK FALSE
PROPERTY CancelReachesActivePrompt
