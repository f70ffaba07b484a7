CONSTANTS
  c1 = c1
  c2 = c2
  Nobody = Nobody
  Clients <- TwoClients
  MaxKey = 1
  Decks <- FourDecks
  EmptyDeck <- NoDeck
  Unloadable <- NotLoadable
  Illegal <- NotLegal
  NoCheckDeck = FALSE
  TerminateWhen = "All"
  Offers <- ReadyRequests
  MaxQueue = 2
  MaxLag = 1
  DeckMin = 1
  DeckMax = 2
  ExtraMax = 1
  SideMax = 1
  MaxCopies = 2
  ArtworkOffset = 3
  Database <- SixRows
SPECIFICATION Spec
SYMMETRY AnyPair
INVARIANTS TypeOK HandOver ReadAsMeant ChecksAreTheRules
PROPERTIES ReadyDeckFrozen
CHECK_DEADLOCK FALSE
