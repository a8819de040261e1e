SPECIFICATION FairAppSpec
CONSTANTS
  N = 2
  SmallBlind = 1
  BigBlind = 2
  InitialStacks <- TwoBlindsEach
  HandLimit = 2
  MaxStrength = 0
INVARIANTS
  OffersAreAccepted
  EveryMoveIsOffered
  FreshConnection
PROPERTIES
  TimeoutsAreFree
  HandGoesOn
CHECK_DEADLOCK FALSE
