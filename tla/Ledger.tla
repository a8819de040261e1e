-------------------------------- MODULE Ledger -------------------------------
(***************************************************************************)
(* What a game of several hands promises about money, whatever is bet, who *)
(* wins and how pots are split: a hand redistributes the chips of the      *)
(* seats that had some and creates or destroys none.                       *)
(***************************************************************************)
EXTENDS Seats, Functions

CONSTANTS InitialStacks, HandLimit

VARIABLES bankroll, hands

vars == <<bankroll, hands>>

Chips(f) == FoldFunction(+, 0, f)

Init == bankroll \in InitialStacks /\ hands = 0

PlayHand ==
  /\ hands < HandLimit
  /\ hands' = hands + 1
  /\ bankroll' \in [Seat -> Nat]
  /\ Chips(bankroll') = Chips(bankroll)
  /\ \A i \in Seat : bankroll[i] = 0 => bankroll'[i] = 0

Spec == Init /\ [][PlayHand]_vars
=============================================================================
