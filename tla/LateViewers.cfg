CONSTANTS
  Nobody = Nobody
  OnTime = OnTime
  l1 = l1
  l2 = l2
  Late = {l1, l2}
  MaxKey = 1
  MaxDuels = 2
  FirstAttacker <- MCFirstAttacker
  MaxEvents = 2
  MaxRetries = 1
  MaxRequests = 1
  MaxQueue = 2
SPECIFICATION Spec
SYMMETRY Latecomers
INVARIANTS SameScreen PlayersSeeTheDuel QuestionOnScreen
CHECK_DEADLOCK FALSE
