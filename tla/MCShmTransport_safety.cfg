CONSTANTS
  n1 = n1
  n2 = n2
  Nodes = {n1, n2}
  NumBuffers = 3
  LowPrioLimit = 0
  RingSize = 2
  CountModulus = 8
  NotifyMayFail = FALSE
  Traffic <- Converging
  MaxSends <- TwoEach
SPECIFICATION Spec
INVARIANTS TypeOK BufferOwnedOnce FifoPerSender StatusTruthful
CHECK_DEADLOCK FALSE
