SPECIFICATION RequestSpec
CONSTANTS
  Options <- MCOptions
  MaxParts = 3
INVARIANT PortableIsCarried
CHECK_DEADLOCK FALSE
