-------------------------------- MODULE Pots ---------------------------------
(***************************************************************************)
(* How the chips of a finished hand are divided: the pot layers of         *)
(* game/src/pot.rs and the awards of game/src/showdown.rs.                 *)
(*                                                                         *)
(* contributions[i] is what seat i put in over the hand, folded[i] whether *)
(* it folded, strength[i] its place in the total order of hand values that *)
(* evaluate_best defines (equal numbers are equal hands).                  *)
(***************************************************************************)
EXTENDS Seats, FiniteSets, SequencesExt

-----------------------------------------------------------------------------
(* Pot layers *)

\* Mutant of Eligible: a seat that folded still contests what it paid into.
EligibleThoughFolded(paying, folded) == paying

Eligible(paying, folded) == {i \in paying : ~folded[i]}

\* Peel the smallest contribution left off every seat that still has some,
\* until nothing is left.
Layers(contributions, folded) ==
  LET peel[remaining \in [Seat -> Nat]] ==
        LET paying == {i \in Seat : remaining[i] > 0}
            level == Min({remaining[i] : i \in paying})
        IN IF paying = {} THEN <<>>
           ELSE <<[amount |-> level * Cardinality(paying),
                   contributors |-> paying,
                   eligible |-> Eligible(paying, folded)]>>
                \o peel[[i \in Seat |-> IF i \in paying THEN remaining[i] - level
                                                        ELSE 0]]
  IN peel[contributions]

Pot(amount, eligible) == [amount |-> amount, eligible |-> eligible]

\* Mutant of EvenShare: the odd chips are lost.
EvenShareRoundedDown(n, S, ahead) == n \div Cardinality(S)

\* One seat's part of n chips split as evenly as possible over S: the first seats
\* take the odd chips, and `ahead` are the seats of S before this one.
EvenShare(n, S, ahead) ==
  n \div Cardinality(S) + IF Cardinality(ahead) < n % Cardinality(S) THEN 1 ELSE 0

\* The chips of a layer no contestant of which is left, back to those who paid,
\* in the order of their seats.
Refunds(layer) ==
  LET payers == layer.contributors
      ahead(i) == {j \in payers : j < i}
      payer(k) == CHOOSE i \in payers : Cardinality(ahead(i)) = k - 1
  IN [k \in 1 .. Cardinality(payers) |->
        Pot(EvenShare(layer.amount, payers, ahead(payer(k))), {payer(k)})]

AddToLast(pots, amount) == [pots EXCEPT ![Len(pots)].amount = @ + amount]

\* A layer whose contributors all folded is dead money: it rolls into the pot
\* before it, or is refunded when no contested pot precedes it.
Absorb(acc, layer) ==
  IF layer.eligible # {}
    THEN [acc EXCEPT !.pots = Append(@, Pot(layer.amount, layer.eligible))]
  ELSE IF acc.pots # <<>>
    THEN [acc EXCEPT !.pots = AddToLast(@, layer.amount)]
  ELSE [acc EXCEPT !.refunds = @ \o Refunds(layer)]

PushUnlessEmpty(pots, pot) == IF pot.amount > 0 THEN Append(pots, pot) ELSE pots

AbsorbDeadLayers(layers) ==
  LET done == FoldLeft(Absorb, [pots |-> <<>>, refunds |-> <<>>], layers)
  IN FoldLeft(PushUnlessEmpty, done.pots, done.refunds)

\* Mutant of Merge: a side pot is merged into the pot before it.
MergeNested(merged, pot) ==
  IF merged # <<>> /\ pot.eligible \subseteq Last(merged).eligible
    THEN AddToLast(merged, pot.amount)
    ELSE Append(merged, pot)

\* A pot with the contestants of the pot before it is one pot with it.
Merge(merged, pot) ==
  IF merged # <<>> /\ Last(merged).eligible = pot.eligible
    THEN AddToLast(merged, pot.amount)
    ELSE Append(merged, pot)

MergeEqualEligible(pots) == FoldLeft(Merge, <<>>, pots)

ComputePots(contributions, folded) ==
  MergeEqualEligible(AbsorbDeadLayers(Layers(contributions, folded)))

-----------------------------------------------------------------------------
(* Awards *)

\* Mutant of Winners: every contestant wins.
WinnersAll(pot, strength) == pot.eligible

Winners(pot, strength) ==
  {i \in pot.eligible : \A j \in pot.eligible : strength[j] <= strength[i]}

\* Where the order of the odd chips starts: left of the button.
\* Mutant of FirstForOddChips: at the button itself.
ButtonFirst(button) == button

FirstForOddChips(button) == NextSeat(button)

\* The best hands share a pot; the odd chips go one each to the winners in
\* order from the seat left of the button.  A lone contestant needs no hand.
Payout(pot, strength, button, i) ==
  LET winners == IF Cardinality(pot.eligible) = 1 THEN pot.eligible
                 ELSE Winners(pot, strength)
      left == FirstForOddChips(button)
      ahead == {k \in winners : Distance(left, k) < Distance(left, i)}
  IN IF i \in winners THEN EvenShare(pot.amount, winners, ahead) ELSE 0

\* What everyone has won once the pot is paid out as well.
Collect(won, pot, strength, button) ==
  [i \in Seat |-> won[i] + Payout(pot, strength, button, i)]

Distribute(pots, strength, button) ==
  FoldLeft(LAMBDA won, pot : Collect(won, pot, strength, button), [i \in Seat |-> 0], pots)
=============================================================================
