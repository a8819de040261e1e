SPECIFICATION Spec
CONSTANTS
  N = 2
  Streets = 3
  Moves = {"stay", "fold", "allin"}
  BlindAllIn = {}
  Resends = 1
INVARIANTS
  BoardWaitsForBetting
  NobodyStuck
CHECK_DEADLOCK FALSE
