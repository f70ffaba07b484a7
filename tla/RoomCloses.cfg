CONSTANTS
  c1 = c1
  c2 = c2
  c3 = c3
  empty = empty
  fine = fine
  unknown = unknown
  banned = banned
  Nobody = Nobody
  Clients <- TwoClients
  MaxKey = 1
  Decks <- OnlyEmpty
  EmptyDeck = empty
  Unloadable = {}
  Illegal <- OnlyEmpty
  NoCheckDeck = TRUE
  TerminateWhen = "AllPlayer"
  Offers <- StartRequests
  MaxQueue = 2
  MaxLag = 1
SPECIFICATION FairSpec
PROPERTIES BridgesEnd KeepsLobby
CHECK_DEADLOCK FALSE
