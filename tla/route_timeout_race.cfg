CONSTANTS
  Riders = {}
  Callers = {}
  Cabs = {d1, d2}
  Nobody = Nobody
  MaxTrips = 1
  MaxChances = 1
SPECIFICATION RouteSpec
CHECK_DEADLOCK FALSE
INVARIANTS
  OneWinner
