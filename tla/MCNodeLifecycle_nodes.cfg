CONSTANTS
  Processes = {n1, n2}
  NumSlots = 2
  MaxFaults = 1
  MaxStarts = 3
  MaxSends = 1
  MaxSignals = 1
  Nobody = Nobody
SPECIFICATION FairSpec
INVARIANTS TypeOK DeviceReady RouteWhileUp NoLostWake
PROPERTY CallsEnd
CHECK_DEADLOCK FALSE
