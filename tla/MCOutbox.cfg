SPECIFICATION FairSpec
CONSTANTS
  r1 = r1
  r2 = r2
  NumEvents = 3
  Relays <- TwoRelays
  BatchSize = 2
  Workers = 2
  MaxAttempts = 2
  Poison <- FirstTwoEvents
  Hanging <- NoEvents
  MaxFaults = 1
INVARIANTS
  WriteAndEventTogether
  CopiesBounded
  DeadLetterExact
PROPERTIES
  ImplementsContract
  PoisonDoesNotBlock
