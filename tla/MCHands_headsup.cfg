SPECIFICATION FairSessionSpec
CONSTANTS
  N = 2
  SmallBlind = 1
  BigBlind = 2
  InitialStacks <- PlayableStacks
  HandLimit = 3
  MaxStrength = 1
INVARIANTS
  ClosedRoundIsSettled
PROPERTIES
  HandsSettle
CHECK_DEADLOCK FALSE
