SPECIFICATION FairSpec
CONSTANTS
  p1 = p1
  p2 = p2
  s1 = s1
  s2 = s2
  None = None
  Sessions <- TwoSessions
  Requests <- TwoRequests
  SessionsOf <- FixedFirst
  Others <- OnlySecond
  Junk <- AllJunk
  Overlap = TRUE
  MaxCancels = 1
  MaxFrames = 4
CHECK_DEADLOCK FALSE
INVARIANT TypeOK
INVARIANT DispatcherNotBlocked
INVARIANT NoStaleEntries
INVARIANT ResponseIsLast
PROPERTY CancelReachesOnlyPrompt
PROPERTY RequestsAnswered
