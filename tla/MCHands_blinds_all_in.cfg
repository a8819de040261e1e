SPECIFICATION FairSessionSpec
CONSTANTS
  N = 2
  SmallBlind = 1
  BigBlind = 2
  InitialStacks <- BlindSizedStacks
  HandLimit = 1
  MaxStrength = 1
PROPERTIES
  HandsSettle
CHECK_DEADLOCK FALSE
