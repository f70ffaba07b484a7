CONSTANTS
  None = None
  MatchMode = TRUE
  Timed = TRUE
  HasObservers = FALSE
  TerminateWhenMatchEnd = TRUE
  MaxAsks = 1
  MaxQueue = 2
  MaxLate = 0
SPECIFICATION Spec
INVARIANTS TypeOK EnginePlaysBothDecks ReplayPlaysAgain AnswersUnderstood
PROPERTY WinnerIsTheEngines
CHECK_DEADLOCK FALSE
