CONSTANTS
  m1 = m1
  m2 = m2
  p1 = p1
  p2 = p2
  c1 = c1
  d1 = d1
  d2 = d2
  k1 = k1
  e1 = e1
  e2 = e2
  w1 = w1
  w2 = w2
  x1 = x1
  Nobody = Nobody
  Messages = {m1, m2}
  PeerCap = 1
  Keys = {k1}
  Txns = {x1}
  MaxToken = 3
  Received = {e1, e2}
  Actors = {1, 2}
  Processes = {w1, w2}
  NShards = 2
  MaxPending = 2
  MaxDeliveries = 2
  Riders = {p1}
  Choosers = {p1, p2}
  Callers = {c1}
  Cabs = {d1, d2}
  OnLine = {d1, d2}
  MaxReminders = 1
  MaxDebts = 2
  MaxBookings = 2
  MaxRides = 2
  MaxTrips = 1
  MaxChances = 1
SPECIFICATION Components
CHECK_DEADLOCK FALSE
SYMMETRY CabSymmetry
CONSTRAINT Bounds
INVARIANTS
  TypesOK
  SentIsShown
  GoneIsWithdrawn
  ArmedIsDurable
  EffectOnce
  ActorInOrder
  OneActiveBooking
  CompletedEndsBooking
  DebtorIsLocked
  BusyHasDelivery
  OfferEndsWithTrip
  MarkHasReason
PROPERTIES
  WithdrawalIsFinal
  FiresWhenDue
  PendingExpires
  AgreementBinds
  TownIsFinal
  HoldIsHonoured
  PersonalStays
