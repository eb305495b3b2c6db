SPECIFICATION FairSpec
CONSTANTS
  r1 = r1
  r2 = r2
  NumEvents = 1
  Relays <- OneRelay
  BatchSize = 1
  Workers = 1
  MaxAttempts = 2
  Poison <- NoEvents
  Hanging <- FirstEvent
  MaxFaults = 0
PROPERTIES
  EventuallySettled
