----------------------------- MODULE MCHistory -----------------------------
EXTENDS History, TLC
CONSTANTS l1, l2
Latecomers == Permutations({l1, l2})
MCFirstAttacker == <<0, 1>>
=============================================================================
