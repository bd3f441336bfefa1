CONSTANTS
  x = x  y = y
  r1 = r1  r2 = r2  r3 = r3
  NoOp = NoOp
  Endpoints = {x, y}
  Kinds <- MCKinds
  Threads = {t1, t2}
  Ops = {r1, r2, r3}
  OpOf <- MCOpOf
  Packets <- MCPackets
  WaitLists <- MCLists
  PoolSize = 3
  MaxPending <- MCPending
  MaxWaits = 2
SPECIFICATION Spec
SYMMETRY Symmetry
INVARIANTS TypeOK NoDataWhileWaiting ListedOnce PoolBalanced SuccessHasData PacketKept WaiterWoken
CHECK_DEADLOCK FALSE
