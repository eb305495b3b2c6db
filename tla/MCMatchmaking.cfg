SPECIFICATION FairSpec
CONSTANTS
  NumPlayers = 2
  Ranks = {1, 3}
  Window = 1
  BatchSize = 2
  Requests = {1, 2}
  MaxJoins = 3
  MaxFaults = 1
  MaxLen = 6
  MaxRank = 4
  MaxWindow = 2
INVARIANTS
  PairsMaximum
  ToldRoomsSound
  MatchedOnce
  NobodyForgotten
PROPERTIES
  CompatibleMatched
