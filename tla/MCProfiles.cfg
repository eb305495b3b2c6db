SPECIFICATION ProfilesSpec
CONSTANTS
  p1 = p1
  p2 = p2
  n1 = n1
  n2 = n2
  m1 = m1
  m2 = m2
  k1 = k1
  k2 = k2
  k3 = k3
  None = None
  Players <- TwoPlayers
  Names <- TwoNames
  Mails <- TwoMails
  Calls <- ThreeCalls
SYMMETRY ProfileSymmetry
INVARIANTS
  IdentityUnique
  
CHECK_DEADLOCK FALSE
