SPECIFICATION Spec
CONSTANTS
  k1 = k1
  k2 = k2
  k3 = k3
  NPlayers = 2
  Calls <- ThreeCalls
  Amounts <- UpAndDown
  Offsets = {0, 1}
  Limits = {1, 2}
  MaxFaults = 1
SYMMETRY CallSymmetry
INVARIANTS
  AnswersAreFresh
  FinalScoreAnnounced
CHECK_DEADLOCK FALSE
