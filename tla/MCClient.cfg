CONSTANTS
  p1 = p1
  p2 = p2
  Peers <- MCPeers
  Threads = {t1, t2}
  Oversized = {2}
  MaxRecords = 4
SPECIFICATION Spec
INVARIANTS  InOrder
PROPERTY Stops
CHECK_DEADLOCK FALSE
