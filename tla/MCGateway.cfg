SPECIFICATION GatewaySpec
CONSTANTS
  i1 = i1
  i2 = i2
  p1 = p1
  p2 = p2
  IPs <- TwoIPs
  Players <- TwoPlayers
  Slots = {q1}
  NoOne = NoOne
  Burst = 3
  Rate = 1
  Cost = 2
  IdleLimit = 3
  Period = 2
  MaxEarned = 6
SYMMETRY Symmetry
INVARIANTS
  RateBounded
  IdleEvicted
  IdentityVerified
  
