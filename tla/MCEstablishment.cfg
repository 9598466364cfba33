SPECIFICATION FairSpec
CONSTANTS
  Connector = c
  Listener = l
  BatchSizes = {1, 2}
  Bits = {0, 2}
  Leases = {3}
  LeaseUnit = 2
  Shake <- MCShake
  Links <- MCLinks
  MaxInFlight = 3
  None = None
INVARIANTS TypeOK FitsBothEnds FramesReachTransport NeverBothWait
PROPERTIES ImplementsConnection CompatibleOpens NoHalfOpenForever
CHECK_DEADLOCK FALSE
