SPECIFICATION Spec
CONSTANTS
  MaxCards = 6
  Codes = {1, 2, 3}
  KindOf <- MCKindOf
  DeckSize <- MCDeck
  ExtraSize <- MCExtra
  LastSlot = 1
  Deal <- MCDeal
  Opening <- MCOpening
  Scenarios <- MCScenarios
  MaxCounters = 1
INVARIANTS EveryCardInItsPlace CountsAgree LinksAreMutual KnownIsTrue
CHECK_DEADLOCK FALSE
