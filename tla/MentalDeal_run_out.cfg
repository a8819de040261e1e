SPECIFICATION Spec
CONSTANTS
  N = 2
  Streets = 3
  Moves = {"stay", "allin"}
  BlindAllIn = {}
  Resends = 0
INVARIANTS
  BoardInOrder
CHECK_DEADLOCK FALSE
