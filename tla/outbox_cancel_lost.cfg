CONSTANTS
  m1 = m1
  m2 = m2
  Messages = {m1, m2}
  PeerCap = 1
SPECIFICATION Spec
CONSTRAINT SecondIsPlain
PROPERTIES
  CancelRequestHeld
