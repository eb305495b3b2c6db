SPECIFICATION FairSpec
CONSTANTS
  m1 = m1
  m2 = m2
  w1 = w1
  w2 = w2
  Msgs <- TwoMsgs
  Malformed <- OneMalformed
  Workers <- TwoWorkers
  PullMax = 1
  Buffer = 1
  MaxDeliver = 2
  MaxFaults = 1
  MaxShutdowns = 2
INVARIANTS
  AckAfterHandling
  DuplicatesNeedFaults
PROPERTIES
  AtLeastOnce
  Settles
CHECK_DEADLOCK FALSE
