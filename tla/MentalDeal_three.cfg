SPECIFICATION Spec
CONSTANTS
  N = 3
  Streets = 1
  Moves = {"stay", "fold", "allin"}
  BlindAllIn = {}
  Resends = 1
INVARIANTS
  HoleCardsStayPrivate
  NothingAppliableWaits
  NobodyStuck
CHECK_DEADLOCK FALSE
