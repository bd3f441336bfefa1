CONSTANTS
  n1 = n1  n2 = n2
  t = t  r = r  s = s  q = q
  c1 = c1  c2 = c2  c3 = c3
  pkt = pkt  scl = scl
  Nodes = {n1, n2}
  Endpoints = {t, r, s, q}
  Home <- MCHome
  NoEndpoint = NoEndpoint
  NodeZero = n1
  Types = {pkt, scl}
  NoType = NoType
  Calls = {c1, c2, c3}
  CallOf <- MCContend
  OpenAs <- MCOpenAs
  Datagrams <- MCDatagrams
  Closers = {}
  MaxOpens <- MCOpenOnce
  MaxMishaps = 0
SPECIFICATION FairSpec
INVARIANTS TypeOK Paired BothOpen AnswersTruthful
PROPERTIES ConnectAnswered ChannelCompletes
CHECK_DEADLOCK FALSE
