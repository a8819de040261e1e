SPECIFICATION FairSpec
CONSTANTS
  Guests = {g1}
  MinGuests = 1
  HandLimit = 2
  MaxFaults = 1
INVARIANTS
  NothingLost
CHECK_DEADLOCK FALSE
