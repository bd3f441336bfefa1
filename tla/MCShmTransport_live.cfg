CONSTANTS
  n1 = n1
  n2 = n2
  Nodes = {n1, n2}
  NumBuffers = 2
  LowPrioLimit = 1
  RingSize = 1
  CountModulus = 8
  NotifyMayFail = FALSE
  Traffic <- Crossing
  MaxSends <- OneAndTwo
SPECIFICATION FairSpec
PROPERTIES ImplementsTransport AcceptedArrives CallsReturn
CHECK_DEADLOCK FALSE
