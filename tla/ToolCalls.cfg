SPECIFICATION Spec
CONSTANTS
  None = None
  Servers = {"mcp", "web"}
  Profiles = {"all", "plain", "picked"}
  Listed <- MCListed
  MaxDelegateDepth = 2
  MaxCalls = 3
CHECK_DEADLOCK FALSE
INVARIANT TypeOK
INVARIANT OnlyUsableServersRun
PROPERTY ExecTellsTheTruth
PROPERTY CallsEnd
