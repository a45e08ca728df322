CONSTANTS
  d1 = d1
  d2 = d2
  d3 = d3
  p1 = p1
  p2 = p2
  NONE = NONE
  Drivers = {d1}
  NOrders = 2
  CreatorOf <- TwoPassengers
  Dispatchers = {}
  ChatPeer = FALSE
  DeclineReasons = {"dislike"}
  ParallelUsers = {d1}
SPECIFICATION FairSpec
CHECK_DEADLOCK FALSE
PROPERTIES
  NotLeftWaiting
