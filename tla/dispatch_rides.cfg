CONSTANTS
  d1 = d1
  d2 = d2
  d3 = d3
  p1 = p1
  p2 = p2
  NONE = NONE
  Drivers = {d1, d2}
  NOrders = 2
  CreatorOf <- TwoPassengers
  Dispatchers = {}
  ChatPeer = TRUE
  DeclineReasons = {"far"}
  ParallelUsers = {d1, d2}
SPECIFICATION Spec
CHECK_DEADLOCK FALSE
SYMMETRY DriverSymmetry
CONSTRAINT OneRefused
INVARIANTS
  RideExclusive
  ReservationHasRide
  RiderNotFree
PROPERTIES
  RideInMenuIsStable
  RideKept
  CancelSticks
  ImplementsAssignment
