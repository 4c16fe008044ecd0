SPECIFICATION ProxySpec
CONSTANTS
  Chunks = 2
  Messages <- MCMessages
  Options <- MCOptions
  MaxParts = 3
  p1 = p1
  p2 = p2
  r1 = r1
  r2 = r2
  r3 = r3
  None = None
  Procs <- TwoProcs
  Requests <- ThreeRequests
  ProcOf <- TwoAndOne
  Faults <- AllFaults
INVARIANT FaithfulDelivery
INVARIANT NothingInvented
INVARIANT StreamIsWellFormed
INVARIANT AnsweredOnce
INVARIANT RequestCarried
INVARIANT RefusalIsTheClients
INVARIANT TypeOK
INVARIANT OnlyOthersInvalidate
INVARIANT LoginSurvives
INVARIANT FileNeverRegresses
CHECK_DEADLOCK FALSE
