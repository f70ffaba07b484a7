CONSTANTS
  c1 = c1
  c2 = c2
  c3 = c3
  empty = empty
  fine = fine
  unknown = unknown
  banned = banned
  Nobody = Nobody
  Clients <- ThreeClients
  MaxKey = 2
  Decks <- OnlyEmpty
  EmptyDeck = empty
  Unloadable = {}
  Illegal <- OnlyEmpty
  NoCheckDeck = FALSE
  TerminateWhen = "All"
  Offers <- SeatRequests
  MaxQueue = 1
  MaxLag = 1
SPECIFICATION Spec
SYMMETRY AnyClient
INVARIANTS SenderInStep OnePlace HostSeated PositionTold
CHECK_DEADLOCK FALSE
