CONSTANTS
  None = None
  NoMask = FALSE
  Timed = TRUE
  HasObservers = FALSE
  Hosts = {0, 3}
  TerminateWhenMatchEnd = TRUE
  MaxTurns = 5
  MaxQueue = 1
  MaxQuitters = 4
SPECIFICATION Spec
INVARIANTS DeckInPlay TheRightOneIsAsked SurrenderIsMutual HiddenStaysHidden OpenIsShown FileHoldsTheTable
CHECK_DEADLOCK FALSE
