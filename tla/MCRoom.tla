------------------------------- MODULE MCRoom -------------------------------
(* Small instances of Room for TLC.                                         *)
EXTENDS Room, TLC

CONSTANTS c1, c2, c3, empty, fine, unknown, banned

TwoClients == {c1, c2}
ThreeClients == {c1, c2, c3}
AnyClient == Permutations(ThreeClients)
AnyPair == Permutations(TwoClients)

OnlyEmpty == {empty}
FourDecks == {empty, fine, unknown, banned}

SeatRequests == {"JoinGame", "HsToDuelist", "HsToObserver", "HsKick"}
StartRequests == SeatRequests \cup {"HsReady", "HsStart"}
=============================================================================
