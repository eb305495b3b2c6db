SPECIFICATION FairSpec
CONSTANTS
  r1 = r1
  h1 = h1
  w1 = w1
  w2 = w2
  Requests <- OneRequest
  Needs <- Connections
  Secrets <- Validated
  WeakSecrets <- Environments
  Timeout <- Attempts
  HooksOf <- Hooked
  WorkersOf <- Working
  Looped = {"matchmaking", "relay"}
  Bridged = {"websocket"}
  Early = {"websocket"}
  PreStop = 5
  HTTP = 15
  Work = 5
  Flush = 3
  Grace = 35
  Interval = 5
  Deadline = 10
  Floor = 30
  Period = 10
  Threshold = 3
  MaxWait = 30
  FirstBackoff = 1
  MaxBackoff = 5
  Window = 60
INVARIANTS
  NeverKilled
  StartsInWindow
  StallsNoticed
PROPERTIES
  ExitsByItself
  ServesInTheEnd
CHECK_DEADLOCK FALSE
