CONSTANTS
  n1 = n1  n2 = n2
  t = t  r = r  s = s  q = q
  c1 = c1  c2 = c2  c3 = c3
  pkt = pkt  scl = scl
  Nodes = {n1, n2}
  Endpoints = {t, r, q}
  Home <- MCHome
  NoEndpoint = NoEndpoint
  NodeZero = n1
  Types = {pkt, scl}
  NoType = NoType
  Calls = {c1, c2}
  CallOf <- MCContend
  OpenAs <- MCOpenAs
  Datagrams <- MCNoDatagrams
  Closers = {t, r}
  MaxOpens <- MCOpenOnce
  MaxMishaps = 0
SPECIFICATION Spec
PROPERTY FinFromPeer
CHECK_DEADLOCK FALSE
