SPECIFICATION Spec
CONSTANTS
  p1 = p1
  p2 = p2
  p3 = p3
  s1 = s1
  s2 = s2
  Sessions <- TwoSessions
  Prompts <- ThreePrompts
  SessionOf <- Shared
  Deletes <- OneSession
  Crashes = TRUE
  SaveFaults <- OneSession
SYMMETRY Alike
CHECK_DEADLOCK FALSE
INVARIANT ReadableUnlessSaving
INVARIANT ListIsComplete
INVARIANT AnsweredInTurnIsRecorded
INVARIANT TurnsInPlace
