SPECIFICATION Spec
CONSTANTS
  N = 4
  MaxChips = 3
  MaxStrength = 1
INVARIANTS
  PotsGroupTheChips
  EveryChipIsPaid
  BestHandCollects
  NobodyWinsUncovered
  EqualHandsPaidAlike
CHECK_DEADLOCK FALSE
