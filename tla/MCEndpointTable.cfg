CONSTANTS
  MaxEndpoints = 3
  NumPorts = 4
  FirstPort = 3
  MaxQueued = 1
SPECIFICATION Spec
INVARIANTS TypeOK OpenIsFound CountIsExact WaitersAnswered
PROPERTY ImplementsEndpoints
