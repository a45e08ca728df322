CONSTANTS
  d1 = d1
  d2 = d2
  d3 = d3
  p1 = p1
  p2 = p2
  NONE = NONE
  Drivers = {d1}
  NOrders = 2
  CreatorOf <- OnePassengerTwice
  Dispatchers = {p1}
  ChatPeer = FALSE
  DeclineReasons = {}
  ParallelUsers = {d1}
SPECIFICATION Spec
CHECK_DEADLOCK FALSE
SYMMETRY DriverSymmetry
PROPERTIES
  CancelSticks
