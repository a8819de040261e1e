SPECIFICATION Spec
CONSTANTS
  N = 3
  Cards = 14
  Rearrangements <- OneRearrangement
  Button = 1
  Streets = 3
INVARIANTS
  ReplicasInStep
  CardsAsDealt
  CutPayloadsAreRefused
PROPERTIES
  ImplementsSingleDeal
  EveryDealEnds
CHECK_DEADLOCK FALSE
