SPECIFICATION SessionSpec
CONSTANTS
  N = 3
  SmallBlind = 1
  BigBlind = 2
  InitialStacks <- PlayableStacks
  HandLimit = 2
  MaxStrength = 1
INVARIANTS
  BoardFitsHand
PROPERTIES
  ImplementsLedger
CHECK_DEADLOCK FALSE
