SPECIFICATION FairAppSpec
CONSTANTS
  N = 2
  SmallBlind = 1
  BigBlind = 2
  InitialStacks <- TwoBlindsEach
  HandLimit = 2
  MaxStrength = 0
PROPERTIES
  IllegalIsIgnored
CHECK_DEADLOCK FALSE
