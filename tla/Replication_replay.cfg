SPECIFICATION Spec
CONSTANTS
  N = 2
  LastStreet = 1
  Moves = {"fold", "check", "call", "bet"}
  Ticks = 1
  Losses = 0
INVARIANTS
  RepeatsAreHarmless
CHECK_DEADLOCK FALSE
