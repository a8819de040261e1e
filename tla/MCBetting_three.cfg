SPECIFICATION FairSpec
CONSTANTS
  N = 3
  SmallBlind = 1
  BigBlind = 2
  InitialStacks <- ThreeSeatStacks
INVARIANTS
  NobodyAboveCurrentBet
  ActorOwesDecision
  ClosedRoundIsSettled
  ActedSeatsFacedFullRaise
  IInv
PROPERTIES
  ClosedActionReopensNothing
  HandEnds
CHECK_DEADLOCK FALSE
