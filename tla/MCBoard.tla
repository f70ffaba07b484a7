------------------------------ MODULE MCBoard ------------------------------
EXTENDS Board
MCKindOf == (1 :> {}) @@ (2 :> {"Pendulum"}) @@ (3 :> {"ExtraDeck"})
MCDeal == <<1, 2, 2, 3, 1>>
MCOpening == << <<At(0, "Deck", 2), At(0, "MZone", 0)>>, <<At(1, "Deck", 0), At(1, "MZone", 0)>> >>
MCDeck == (0 :> 3) @@ (1 :> 1)
MCExtra == (0 :> 1) @@ (1 :> 0)
Upto(n, types, locations) == [types |-> types, most |-> n, locations |-> locations]
S1 == Upto(5, {"Move", "MoveUnder", "MoveOut"}, {"MZone", "Grave"})
S2 == Upto(5, {"Move", "Update", "ConfirmExtraTop"}, {"Extra", "MZone"})
S3 == Upto(4, {"Move", "Equip", "Token"}, {"SZone"})
S4 == Upto(4, {"Move", "CardTarget", "PositionChange"}, {"Deck", "Grave"})
S5 == Upto(4, {"Move", "Counter", "MoveUnder", "PositionChange", "Swap"}, {"MZone", "Removed"})
S6 == Upto(5, {"Move", "ShuffleSetCard", "MoveUnder", "Confirm"}, {"MZone"})
S7 == Upto(6, {"Move", "Shuffle", "Confirm", "Draw", "ReverseDeck"}, {"Deck", "Hand"})
S8 == Upto(6, {"Move", "Update", "SwapGraveDeck"}, {"Grave", "Extra"})
S9 == Upto(3, {"Draw", "Confirm", "ReverseDeck", "TagSwap"}, {})
S10 == Upto(4, {"Move", "MoveUnder", "ReloadField"}, {"MZone", "Extra"})
S11 == Upto(4, {"Draw", "Move", "Chain", "Attack"}, {"Hand"})
MCScenarios == {S1, S2, S3, S4, S5, S6, S7, S8, S9, S10, S11}
=============================================================================
