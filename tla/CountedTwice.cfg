CONSTANTS
  None = None
  MatchMode = FALSE
  Timed = FALSE
  HasObservers = FALSE
  TerminateWhenMatchEnd = TRUE
  MaxAsks = 1
  MaxQueue = 2
  MaxLate = 0
SPECIFICATION Spec
INVARIANTS OneWinnerPerDuel
CHECK_DEADLOCK FALSE
