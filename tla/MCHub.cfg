SPECIFICATION FairSpec
CONSTANTS
  c1 = c1
  c2 = c2
  p1 = p1
  p2 = p2
  r1 = r1
  r2 = r2
  Conns <- TwoConns
  Players <- TwoPlayers
  Owner <- Owners
  Rooms <- TwoRooms
  SendBuffer = 1
INVARIANTS
  MapsAgree
PROPERTIES
  PumpsEndTogether
