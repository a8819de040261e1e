------------------------------- MODULE Betting -------------------------------
(***************************************************************************)
(* One hand of No-Limit Hold'em betting: game/src/betting.rs, BettingState. *)
(*                                                                         *)
(* A hand starts with the blinds posted (BettingState::new); seats then    *)
(* act in turn (BettingState::apply, one action below per Action variant,  *)
(* each with the `advance` that ends apply), and whoever drives the hand - *)
(* play_hand in game/src/hand.rs, Table in protocol/src/table.rs - opens   *)
(* the next street when a round has closed and betting can go on.  A call  *)
(* of apply that returns an error leaves the state alone and is a          *)
(* stuttering step here.                                                   *)
(***************************************************************************)
EXTENDS Seats

CONSTANTS
  SmallBlind,
  BigBlind,
  InitialStacks    \* the stacks a hand may start with

ASSUME Blinds ==
  /\ SmallBlind \in Nat
  /\ BigBlind \in Nat \ {0}
  /\ SmallBlind <= BigBlind
ASSUME Stacks == InitialStacks \subseteq [Seat -> Nat]

VARIABLES
  starting,        \* LiveHand::starting, the stacks the hand began with
  button,
  stack,           \* chips in front of a seat, not committed
  committed,       \* chips committed this round
  total,           \* chips committed this hand (total_committed)
  folded,
  allIn,
  acted,           \* acted_since_raise
  street,
  currentBet,      \* the amount to match this round
  minRaise,        \* the least full raise increment
  lastFullRaiseTo, \* level of the last full bet or raise
  toAct,           \* the seat to act, NoSeat when the round is closed
  spoke            \* history: the seats that acted on this street

seatVars == <<stack, committed, total, allIn>>
raiseVars == <<currentBet, minRaise, lastFullRaiseTo>>
handVars == <<starting, button, street>>
vars == <<handVars, seatVars, folded, acted, raiseVars, toAct, spoke>>

Street == {"Preflop", "Flop", "Turn", "River"}
After == [Preflop |-> "Flop", Flop |-> "Turn", Turn |-> "River"]

-----------------------------------------------------------------------------
(* Whose turn it is *)

Active(i) == ~folded[i] /\ ~allIn[i]

ToCall(i) == currentBet - committed[i]

HandOverByFolds == \A i, j \in Seat : ~folded[i] /\ ~folded[j] => i = j

RoundClosed == toAct = NoSeat

\* At most one seat could still bet and the round is closed.
BettingCompleteForHand ==
  \/ HandOverByFolds
  \/ RoundClosed /\ \A i, j \in Seat : Active(i) /\ Active(j) => i = j

\* Mutant of MayReopen: a seat may raise again whatever it has faced.
MayReopenAlways(i) == TRUE

\* A seat that acted since the last full raise may only call or fold.
MayReopen(i) == ~acted[i]

\* Mutants of Owes: the all-in seats are asked too; a seat is asked only once.
OwesThoughAllIn(i) == ~folded[i] /\ (~acted[i] \/ ToCall(i) > 0)
OwesOnce(i) == Active(i) /\ ~acted[i]

\* Who still owes a decision: the test of the scan in `advance`.
Owes(i) == Active(i) /\ (~acted[i] \/ ToCall(i) > 0)

NextToAct(last) ==
  IF HandOverByFolds THEN NoSeat
  ELSE FirstOf({i \in Seat : Owes(i)}, NextSeat(last))

-----------------------------------------------------------------------------
(* A new hand: the blinds *)

SmallBlindSeat(b) == IF N = 2 THEN b ELSE NextSeat(b)
BigBlindSeat(b) == NextSeat(SmallBlindSeat(b))

AtMost(x, y) == IF x <= y THEN x ELSE y

\* What seat i puts in before the first decision, all of its stack if short.
BlindOf(stacks, b, i) ==
  IF i = SmallBlindSeat(b) THEN AtMost(SmallBlind, stacks[i])
  ELSE IF i = BigBlindSeat(b) THEN AtMost(BigBlind, stacks[i])
  ELSE 0

\* The seats a blind took all the chips of.
AllInBlind(stacks, b) ==
  [i \in Seat |-> /\ i \in {SmallBlindSeat(b), BigBlindSeat(b)}
                 /\ stacks[i] = BlindOf(stacks, b, i)]

\* Heads-up the button posts the small blind and opens; otherwise the seat
\* after the big blind opens.
Opener(stacks, b) ==
  FirstOf({i \in Seat : ~AllInBlind(stacks, b)[i]},
          IF N = 2 THEN b ELSE NextSeat(BigBlindSeat(b)))

\* The blinds are posted but have not acted: they keep an option.
NewHand(stacks, b) ==
  /\ starting = stacks
  /\ button = b
  /\ stack = [i \in Seat |-> stacks[i] - BlindOf(stacks, b, i)]
  /\ committed = [i \in Seat |-> BlindOf(stacks, b, i)]
  /\ total = [i \in Seat |-> BlindOf(stacks, b, i)]
  /\ folded = [i \in Seat |-> FALSE]
  /\ allIn = AllInBlind(stacks, b)
  /\ acted = [i \in Seat |-> FALSE]
  /\ street = "Preflop"
  /\ currentBet = BigBlind
  /\ minRaise = BigBlind
  /\ lastFullRaiseTo = BigBlind
  /\ toAct = Opener(stacks, b)
  /\ spoke = {}

Init == \E stacks \in InitialStacks, b \in Seat : NewHand(stacks, b)

-----------------------------------------------------------------------------
(* The actions of a seat.  Every one of them ends with Advance. *)

Turn(i) == toAct = i

Commit(i, amount) ==
  /\ stack' = [stack EXCEPT ![i] = @ - amount]
  /\ committed' = [committed EXCEPT ![i] = @ + amount]
  /\ total' = [total EXCEPT ![i] = @ + amount]
  /\ allIn' = [allIn EXCEPT ![i] = @ \/ stack[i] = amount]

MarkActed(i) == acted' = [acted EXCEPT ![i] = TRUE]

\* Mutant of ReopenAction: the others keep their mark.
ReopenNobody(raiser) == MarkActed(raiser)

\* After a full bet or raise everyone but the raiser owes a fresh decision.
ReopenAction(raiser) == acted' = [i \in Seat |-> i = raiser]

Advance(i) ==
  /\ toAct' = NextToAct(i)'
  /\ spoke' = spoke \union {i}
  /\ UNCHANGED handVars

\* What apply takes from a seat; anything else is an error.
MayCheck(i) == Turn(i) /\ ToCall(i) = 0
MayCall(i) == Turn(i) /\ ToCall(i) > 0
MayAllIn(i) == Turn(i) /\ stack[i] # 0

\* An opening bet of n is at least the big blind unless it is the whole stack.
MayBet(i, n) ==
  /\ Turn(i)
  /\ currentBet = 0
  /\ n <= stack[i]
  /\ n >= BigBlind \/ n = stack[i]

\* A raise to n is a full one unless it takes the whole stack.
MayRaise(i, n) ==
  /\ Turn(i)
  /\ currentBet # 0
  /\ MayReopen(i)
  /\ n > currentBet
  /\ n - committed[i] <= stack[i]
  /\ n - currentBet >= minRaise \/ n - committed[i] = stack[i]

Fold(i) ==
  /\ Turn(i)
  /\ folded' = [folded EXCEPT ![i] = TRUE]
  /\ MarkActed(i)
  /\ UNCHANGED <<seatVars, raiseVars>>
  /\ Advance(i)

\* Mutant of Check: a check does not count as having acted.
CheckUnmarked(i) ==
  /\ MayCheck(i)
  /\ UNCHANGED <<acted, seatVars, folded, raiseVars>>
  /\ Advance(i)

Check(i) ==
  /\ MayCheck(i)
  /\ MarkActed(i)
  /\ UNCHANGED <<seatVars, folded, raiseVars>>
  /\ Advance(i)

\* A call for less than the bet is capped at the stack: an all-in call.
Call(i) ==
  /\ MayCall(i)
  /\ Commit(i, AtMost(ToCall(i), stack[i]))
  /\ MarkActed(i)
  /\ UNCHANGED <<folded, raiseVars>>
  /\ Advance(i)

\* Open the betting with a total of n.  A short opening bet neither sets the
\* raise line nor reopens.
Bet(i, n) ==
  /\ MayBet(i, n)
  /\ Commit(i, n)
  /\ LET level == committed[i] + n
     IN /\ currentBet' = level
        /\ IF level >= BigBlind
             THEN /\ minRaise' = level
                  /\ lastFullRaiseTo' = level
                  /\ ReopenAction(i)
             ELSE /\ UNCHANGED <<minRaise, lastFullRaiseTo>>
                  /\ MarkActed(i)
  /\ UNCHANGED folded
  /\ Advance(i)

\* Raise to a total of n this round; only a full raise moves the raise line and
\* reopens the action.
Raise(i, n) ==
  /\ MayRaise(i, n)
  /\ Commit(i, n - committed[i])
  /\ currentBet' = n
  /\ IF n - currentBet >= minRaise
       THEN /\ minRaise' = n - currentBet
            /\ lastFullRaiseTo' = n
            /\ ReopenAction(i)
       ELSE /\ UNCHANGED <<minRaise, lastFullRaiseTo>>
            /\ MarkActed(i)
  /\ UNCHANGED folded
  /\ Advance(i)

\* Push the whole stack: a raise when it exceeds the bet, else a call for less.
AllIn(i) ==
  /\ MayAllIn(i)
  /\ Commit(i, stack[i])
  /\ LET level == committed[i] + stack[i]
         raises == level > currentBet
         full == raises /\ level - currentBet >= minRaise /\ MayReopen(i)
     IN /\ currentBet' = IF raises THEN level ELSE currentBet
        /\ IF full
             THEN minRaise' = level - currentBet /\ lastFullRaiseTo' = level
             ELSE UNCHANGED <<minRaise, lastFullRaiseTo>>
        /\ IF full \/ (raises /\ currentBet = 0)
             THEN ReopenAction(i)
             ELSE MarkActed(i)
  /\ UNCHANGED folded
  /\ Advance(i)

-----------------------------------------------------------------------------
(* The next street, opened by the driver of the hand once a round closed     *)
(* and a seat may still bet (play_hand, Table::advance_streets_and_settle).  *)

\* What next_street leaves of the round: the commitments, the marks and the
\* raise line of the new street.
OpenStreet(commitments, marks, line) ==
  /\ RoundClosed
  /\ ~BettingCompleteForHand
  /\ street # "River"
  /\ street' = After[street]
  /\ currentBet' = 0
  /\ minRaise' = BigBlind
  /\ lastFullRaiseTo' = line
  /\ committed' = commitments
  /\ acted' = marks
  /\ toAct' = FirstOf({i \in Seat : Active(i)}, NextSeat(button))
  /\ spoke' = {}
  /\ UNCHANGED <<starting, button, stack, total, allIn, folded>>

NothingCommitted == [i \in Seat |-> 0]
NobodyActed == [i \in Seat |-> FALSE]

\* Mutants of NextStreet: one of the resets is missing.
NextStreetKeepsCommitted == OpenStreet(committed, NobodyActed, 0)
NextStreetKeepsLine == OpenStreet(NothingCommitted, NobodyActed, lastFullRaiseTo)

NextStreet == OpenStreet(NothingCommitted, NobodyActed, 0)

SeatActs(i) ==
  \/ Fold(i)
  \/ Check(i)
  \/ Call(i)
  \/ \E n \in 0 .. stack[i] : Bet(i, n)
  \/ \E n \in currentBet .. committed[i] + stack[i] : Raise(i, n)
  \/ AllIn(i)

Next == NextStreet \/ \E i \in Seat : SeatActs(i)

Spec == Init /\ [][Next]_vars

\* play_hand asks each seat in turn and never waits on anything else.
FairSpec == Spec /\ WF_vars(Next)

-----------------------------------------------------------------------------
(* Properties *)

\* Every variable has its type; toAct names a seat or none.
TypeOK ==
  /\ starting \in [Seat -> Nat]
  /\ button \in Seat
  /\ stack \in [Seat -> Nat]
  /\ committed \in [Seat -> Nat]
  /\ total \in [Seat -> Nat]
  /\ folded \in [Seat -> BOOLEAN]
  /\ allIn \in [Seat -> BOOLEAN]
  /\ acted \in [Seat -> BOOLEAN]
  /\ street \in Street
  /\ currentBet \in Nat
  /\ minRaise \in Nat
  /\ lastFullRaiseTo \in Nat
  /\ toAct \in Seat \union {NoSeat}
  /\ spoke \in SUBSET Seat

\* Chips only move from a seat's stack into its own contribution, so the
\* `starting[i] - contributions[i]` of settle and play_hand is what the seat
\* has in front of it and cannot underflow (table.rs settle, hand.rs play_hand).
ContributionsExact == \A i \in Seat : stack[i] + total[i] = starting[i]

\* Nobody has put in more than the bet to match: the precondition
\* `already_in <= current_bet` of the verified amount_to_call, which to_call
\* uses and the release build does not check.
NobodyAboveCurrentBet == \A i \in Seat : committed[i] <= currentBet

\* The seat to act can act and owes a decision, whatever has folded, gone all
\* in or been raised since it last spoke.
ActorOwesDecision ==
  \A i \in Seat : Turn(i) => Active(i) /\ (~acted[i] \/ ToCall(i) > 0)

\* When a round closes with a contest left, every seat that can still bet has
\* acted on this street and has paid, over the whole hand, as much as anyone.
ClosedRoundIsSettled ==
  RoundClosed /\ ~HandOverByFolds =>
    \A i \in Seat : Active(i) =>
      i \in spoke /\ \A j \in Seat : total[j] <= total[i]

\* A seat marked acted has faced the standing full bet: it has paid up to the
\* raise line or is out of the betting (comment of may_reopen).
ActedSeatsFacedFullRaise ==
  \A i \in Seat : acted[i] /\ Active(i) => committed[i] >= lastFullRaiseTo

\* The least raise never shrinks within a street, whatever short all-ins come.
MinRaiseNeverShrinks ==
  [][street' = street => minRaise' >= minRaise]_vars

\* A hand whose seats all answer ends: no sequence of legal actions bets for ever.
HandEnds == <>(RoundClosed /\ (BettingCompleteForHand \/ street = "River"))

\* A seat asked again only because of an under-raise may not raise (module
\* documentation of betting.rs).  It may still push its last chips, but that gives
\* nobody a fresh right to raise and leaves the raise line where it was.
ClosedActionReopensNothing ==
  [][\A i \in Seat : Turn(i) /\ acted[i] =>
       /\ currentBet' > currentBet => allIn'[i]
       /\ minRaise' = minRaise /\ lastFullRaiseTo' = lastFullRaiseTo
       /\ \A j \in Seat : acted[j] => acted'[j]]_vars

-----------------------------------------------------------------------------
(* The inductive invariant behind the properties above *)

\* The raise line lies under the bet, and nothing below the big blind is full.
RaiseLine ==
  /\ lastFullRaiseTo <= currentBet
  /\ minRaise >= BigBlind
  /\ currentBet = 0 => minRaise = BigBlind

\* Over the earlier streets a seat that can still bet paid as much as anyone.
EarlierStreetsLevel ==
  \A i, j \in Seat :
    Active(i) => total[j] - committed[j] <= total[i] - committed[i]

\* A round closes on a contest only when nobody owes a decision.
ClosedMeansNobodyOwes ==
  RoundClosed /\ ~HandOverByFolds => \A i \in Seat : ~Owes(i)

ActedSeatsSpoke == \A i \in Seat : acted[i] => i \in spoke

IInv ==
  /\ TypeOK
  /\ ContributionsExact
  /\ NobodyAboveCurrentBet
  /\ ActorOwesDecision
  /\ ActedSeatsFacedFullRaise
  /\ RaiseLine
  /\ EarlierStreetsLevel
  /\ ClosedMeansNobodyOwes
  /\ ActedSeatsSpoke
=============================================================================
