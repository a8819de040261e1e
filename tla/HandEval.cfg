SPECIFICATION Spec
CONSTANT Deck <- SmallDeck
INVARIANTS PlaysByTheRules
CHECK_DEADLOCK FALSE
