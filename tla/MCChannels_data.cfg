CONSTANTS
  n1 = n1  n2 = n2
  t = t  r = r  s = s
  c1 = c1  c2 = c2
  Packet = Packet  Scalar = Scalar
  Nodes = {n1, n2}
  Endpoints = {t, r, s}
  Home <- MCHome
  NoEndpoint = NoEndpoint
  NodeZero = n1
  Types = {Packet, Scalar}
  NoType = NoType
  Calls = {c1, c2}
  CallOf <- MCCalls
  OpenAs <- MCOpenAs
  Datagrams = {}
  Closers = {t, r}
  Deleters = {r}
  MaxOpens <- MCMaxOpens
  MaxMishaps = 1
  MaxData <- MCMaxData
SPECIFICATION ChannelsSpec
INVARIANTS EndIsEnd StreamIntact
CHECK_DEADLOCK FALSE
