SPECIFICATION FairSpec
CONSTANTS
  Players = {0, 1}
  Nobody = Nobody
  Configs <- MCConfigs
  U16 = 7
  MaxAsks = 5
  MaxTurns = 2
  MaxQueue = 2
INVARIANTS SecondsAccounted TurnIsBounded
PROPERTY QuestionIsSettled
CHECK_DEADLOCK FALSE
