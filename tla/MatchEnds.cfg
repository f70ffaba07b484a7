CONSTANTS
  None = None
  MatchMode = TRUE
  Timed = FALSE
  HasObservers = FALSE
  TerminateWhenMatchEnd = TRUE
  MaxAsks = 0
  MaxQueue = 2
  MaxLate = 0
SPECIFICATION FairSpec
INVARIANTS NobodyWaitsInVain
PROPERTIES MatchOverEnds AbandonedDuelEnds NotContinuedWhenOver
CHECK_DEADLOCK FALSE
