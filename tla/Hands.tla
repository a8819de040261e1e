-------------------------------- MODULE Hands --------------------------------
(***************************************************************************)
(* A run of hands as the host plays it with the placeholder deal: the loop *)
(* of run_host_generic (protocol/src/driver.rs) around the live hand of a  *)
(* Table (protocol/src/table.rs), whose betting is module Betting and      *)
(* whose settlement is module Pots.  One replica is modelled: what the     *)
(* state machine does when every message reaches it once and in order.     *)
(***************************************************************************)
EXTENDS Betting, Pots

CONSTANTS
  HandLimit,     \* HostOptions::hands
  MaxStrength    \* bound: hand values 0 .. MaxStrength

ASSUME Limits == HandLimit \in Nat \ {0} /\ MaxStrength \in Nat

VARIABLES
  bankroll,      \* `stacks` of the host loop: what each seat brings to the next hand
  nextButton,    \* `button` of the host loop
  handNo,        \* the hand last started
  live,          \* is a hand in progress?
  board          \* number of community cards on the table

sessionVars == <<bankroll, nextButton, handNo>>
allVars == <<vars, sessionVars, live, board>>

\* NewHand as the next state: BettingState::new replaces the one of the last hand.
Deal(stacks, b) ==
  /\ starting' = stacks
  /\ button' = b
  /\ stack' = [i \in Seat |-> stacks[i] - BlindOf(stacks, b, i)]
  /\ committed' = [i \in Seat |-> BlindOf(stacks, b, i)]
  /\ total' = [i \in Seat |-> BlindOf(stacks, b, i)]
  /\ folded' = [i \in Seat |-> FALSE]
  /\ allIn' = AllInBlind(stacks, b)
  /\ acted' = [i \in Seat |-> FALSE]
  /\ street' = "Preflop"
  /\ currentBet' = BigBlind
  /\ minRaise' = BigBlind
  /\ lastFullRaiseTo' = BigBlind
  /\ toAct' = Opener(stacks, b)
  /\ spoke' = {}

\* The host deals hand 1 from button 0 with the same stack for everyone.
SessionInit ==
  \E stacks \in InitialStacks :
    /\ NewHand(stacks, 0)
    /\ bankroll = stacks
    /\ nextButton = 0
    /\ handNo = 1
    /\ live = TRUE
    /\ board = 0

Act(i) ==
  /\ live
  /\ SeatActs(i)
  /\ UNCHANGED <<sessionVars, live, board>>

\* advance_streets_and_settle, the branch that opens and deals a street.
DealStreet ==
  /\ live
  /\ NextStreet
  /\ board' = board + IF street' = "Flop" THEN 3 ELSE 1
  /\ UNCHANGED <<sessionVars, live>>

\* Mutant of BettingOver: an all-in before the river does not end the betting.
BettingOverAtRiver ==
  /\ RoundClosed
  /\ HandOverByFolds \/ street = "River"
  /\ spoke # {}

\* Betting is over: by folds, with at most one seat left to bet, or after the
\* river.  advance_streets_and_settle only runs after an action was applied.
BettingOver ==
  /\ RoundClosed
  /\ BettingCompleteForHand \/ street = "River"
  /\ spoke # {}

\* What was not put in, as settle and play_hand compute it.
Kept == [i \in Seat |-> starting[i] - total[i]]

SettleWith(kept, contributions, cards) ==
  /\ live
  /\ BettingOver
  /\ \E strength \in [Seat -> 0 .. MaxStrength], pots \in {ComputePots(contributions, folded)} :
       \E won \in {Distribute(pots, strength, button)} :
         bankroll' = [i \in Seat |-> kept[i] + won[i]]
  /\ nextButton' = NextSeat(nextButton)
  /\ live' = FALSE
  /\ board' = cards
  /\ UNCHANGED <<vars, handNo>>

FinalBoard == IF HandOverByFolds THEN board ELSE 5

\* Mutants of Settle: only the last round goes into the pots; the board is not
\* run out.
SettleLastRound == SettleWith(Kept, committed, FinalBoard)
SettleShortBoard == SettleWith(Kept, total, board)

\* settle runs out the board of a contested hand, awards the pots and clears
\* the live hand; the host loop then takes over the new stacks and moves the
\* button.
Settle == SettleWith(Kept, total, FinalBoard)

StartHandFrom(stacks) ==
  /\ ~live
  /\ handNo < HandLimit
  /\ handNo' = handNo + 1
  /\ live' = TRUE
  /\ board' = 0
  /\ UNCHANGED <<bankroll, nextButton>>
  /\ Deal(stacks, nextButton)

StartHand == StartHandFrom(bankroll)

SessionNext == DealStreet \/ Settle \/ StartHand \/ \E i \in Seat : Act(i)

SessionSpec == SessionInit /\ [][SessionNext]_allVars

\* Every seat answers in its turn (bots at once, humans in the end) and the
\* table and the host loop run to completion.
FairSessionSpec ==
  /\ SessionSpec
  /\ WF_allVars(DealStreet)
  /\ WF_allVars(Settle)
  /\ WF_allVars(StartHand)
  /\ \A i \in Seat : WF_allVars(Act(i))

-----------------------------------------------------------------------------
(* Properties *)

\* The session variables have their types; those of the hand are Betting's.
SessionTypeOK ==
  /\ TypeOK
  /\ bankroll \in [Seat -> Nat]
  /\ nextButton \in Seat
  /\ handNo \in 1 .. HandLimit
  /\ live \in BOOLEAN
  /\ board \in 0 .. 5

\* The board shows what the street calls for, five cards after a showdown and
\* never a card more, whichever way the streets were cut short.
BoardFitsHand ==
  LET dealt == CASE street = "Preflop" -> 0 [] street = "Flop" -> 3
                 [] street = "Turn" -> 4 [] street = "River" -> 5
  IN board = IF live \/ HandOverByFolds THEN dealt ELSE 5

\* The hand being played uses the stacks the last one left, and its button
\* is the one after the last.
HandContinuesSession ==
  live => starting = bankroll /\ button = nextButton

\* A game of hands is a ledger: chips are redistributed, never created, lost or
\* given to a seat that had none to play with.
Books == INSTANCE Ledger WITH hands <- IF live THEN handNo - 1 ELSE handNo
ImplementsLedger == Books!Spec

\* The inductive invariant behind the properties above: the hand is one that Betting
\* reaches, though it started from stacks an earlier hand left.
SessionIInv ==
  /\ IInv
  /\ SessionTypeOK
  /\ BoardFitsHand
  /\ HandContinuesSession

\* The remark on drive_showdown_and_settle and betting_complete_for_hand: a hand
\* whose betting is complete is run out and settled.
HandsSettle == live ~> ~live
=============================================================================
