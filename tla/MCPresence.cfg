SPECIFICATION PresenceFairSpec
CONSTANTS
  w1 = w1
  w2 = w2
  d1 = d1
  d2 = d2
  a1 = a1
  Replicas <- TwoReplicas
  Sockets <- TwoSockets
  Home <- HomeTwo
  TTL = 3
  Callers <- OneCaller
  Targets = {"OFFLINE", "IN_QUEUE"}
  MaxCalls = 2
  MaxFaults = 2
INVARIANTS
  NoLostUpdate
  GaugeExact
PROPERTIES
  ExpiryNeedsFaults
  QueueNeedsRecord
  SelfHeals
  GoesOffline
