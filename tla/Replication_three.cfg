SPECIFICATION Spec
CONSTANTS
  N = 3
  LastStreet = 2
  Moves = {"fold", "check", "call", "bet"}
  Ticks = 1
  Losses = 1
INVARIANTS
  AgreeInOrder
  NobodyWaitsForever
  GuestMovesAuthentic
CHECK_DEADLOCK FALSE
