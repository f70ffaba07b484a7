CONSTANTS
  None = None
  MatchMode = FALSE
  Timed = TRUE
  HasObservers = TRUE
  TerminateWhenMatchEnd = FALSE
  MaxAsks = 2
  MaxQueue = 2
  MaxLate = 1
SPECIFICATION Spec
INVARIANTS AcceptedOnce PromptAnswerable
CHECK_DEADLOCK FALSE
