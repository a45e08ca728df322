CONSTANTS
  Keys = {k1, k2}
  Txns = {x1}
  MaxToken = 3
SPECIFICATION TimersSpec
CHECK_DEADLOCK FALSE
INVARIANTS
  LaterScheduleProceeds
