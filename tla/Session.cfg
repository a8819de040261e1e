SPECIFICATION FairSpec
CONSTANTS
  Guests = {g1, g2}
  MinGuests = 2
  HandLimit = 2
  MaxFaults = 2
INVARIANTS
  HandsStayInStep
  AckedIsKept
  GameOverForAll
PROPERTIES
  GameEnds
CHECK_DEADLOCK FALSE
