SPECIFICATION Spec
CONSTANTS
  N = 3
  Streets = 1
  Moves = {"stay", "fold"}
  BlindAllIn = {1}
  Resends = 0
INVARIANTS
  NobodyStuck
CHECK_DEADLOCK FALSE
