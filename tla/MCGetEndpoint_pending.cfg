CONSTANTS
  srv = srv  cl1 = cl1  cl2 = cl2
  r1 = r1  r2 = r2  r3 = r3  r4 = r4
  Nodes = {srv, cl1, cl2}
  Ports = {1}
  Requests = {r1, r2, r3, r4}
  Caller <- MCCaller
  Server <- MCServer
  PortOf <- MCPortOf
  ControlPort = 900
  PoolSize = 1
  Late = {srv}
  Leaving = {srv}
  MaxFailures = 1
  MaxDeletes = 1
  Free = Free
SPECIFICATION FairSpec
INVARIANTS TypeOK WaiterRemembered ForeignConsistent
PROPERTY ResultIsFinal GetAnswered
CHECK_DEADLOCK FALSE
