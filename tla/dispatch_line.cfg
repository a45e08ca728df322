CONSTANTS
  d1 = d1
  d2 = d2
  d3 = d3
  p1 = p1
  p2 = p2
  NONE = NONE
  Drivers = {d1, d2, d3}
  NOrders = 1
  CreatorOf <- OnePassenger
  Dispatchers = {}
  ChatPeer = FALSE
  DeclineReasons = {"dislike", "away", "booking"}
  ParallelUsers = {}
SPECIFICATION Spec
CHECK_DEADLOCK FALSE
SYMMETRY DriverSymmetry
INVARIANTS
  TypeOK
  LinesOrdered
  FreeDriverHasRow
  NotOfferedAgain
PROPERTIES
  PlaceKept
  FirstInLineFirst
