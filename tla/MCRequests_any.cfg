CONSTANTS
  x = x  y = y
  r1 = r1  r2 = r2  r3 = r3
  NoOp = NoOp
  Endpoints = {x, y}
  Kinds <- MCMessages
  Threads = {t1, t2}
  Ops = {r1, r2, r3}
  OpOf <- MCOpOf
  Packets <- MCPackets
  WaitLists <- MCList
  PoolSize = 3
  MaxPending <- MCPending
  MaxWaits = 1
SPECIFICATION FairSpec
PROPERTY AnyGoesOn
CHECK_DEADLOCK FALSE
