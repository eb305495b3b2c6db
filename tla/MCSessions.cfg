SPECIFICATION FairSpec
CONSTANTS
  q1 = q1
  q2 = q2
  w1 = w1
  w2 = w2
  d1 = d1
  d2 = d2
  Requests <- TwoRequests
  Sockets <- TwoSockets
  Conns <- TwoConns
  Home <- TwoHomes
  CacheTTL = 2
  Latency = 1
  MaxFaults = 1
INVARIANTS
  RevocationBounded
  NoFalseReject
PROPERTIES
  RevokedConnectionsClose
