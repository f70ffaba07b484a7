--------------------------- MODULE MCTimeBudget ---------------------------
EXTENDS TimeBudget
MCConfigs == {
  [limit |-> 3, add |-> 2, max |-> 1, deposit |-> 1, under |-> 2, balance |-> 0],
  [limit |-> 2, add |-> 1, max |-> 0, deposit |-> 1, under |-> 2, balance |-> -1]}
=============================================================================
