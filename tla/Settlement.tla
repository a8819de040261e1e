------------------------------ MODULE Settlement -----------------------------
(***************************************************************************)
(* The end of a hand as Table::settle (protocol/src/table.rs) and          *)
(* play_hand (game/src/hand.rs) compute it: pots from the contributions,   *)
(* awards from the pots, new stacks from the awards.  The inputs range     *)
(* over every way a hand can end with chips up to MaxChips: short stacks   *)
(* make any vector of contributions possible, and a seat may fold a hand   *)
(* in which it has paid most.                                              *)
(***************************************************************************)
EXTENDS Pots

CONSTANTS
  MaxChips,      \* bound: the most a seat contributes
  MaxStrength    \* bound: hand values 0 .. MaxStrength

ASSUME Bounds == MaxChips \in Nat /\ MaxStrength \in Nat

VARIABLES
  contributions, folded, strength, button,
  pots,          \* the pots, once computed
  winnings,      \* per seat, once distributed
  phase          \* the step settle is at

inputs == <<contributions, folded, strength, button>>
vars == <<inputs, pots, winnings, phase>>

\* Seat names matter only relative to the button, which stays at seat 0.
Init ==
  /\ contributions \in [Seat -> 0 .. MaxChips]
  /\ folded \in {f \in [Seat -> BOOLEAN] : \E i \in Seat : ~f[i]}
  /\ strength \in [Seat -> 0 .. MaxStrength]
  /\ button = 0
  /\ pots = <<>>
  /\ winnings = [i \in Seat |-> 0]
  /\ phase = "pots"

SplitPots ==
  /\ phase = "pots"
  /\ pots' = ComputePots(contributions, folded)
  /\ phase' = "awards"
  /\ UNCHANGED <<inputs, winnings>>

AwardPots ==
  /\ phase = "awards"
  /\ winnings' = Distribute(pots, strength, button)
  /\ phase' = "done"
  /\ UNCHANGED <<inputs, pots>>

Next == SplitPots \/ AwardPots

Spec == Init /\ [][Next]_vars

-----------------------------------------------------------------------------
(* Reference: what the rules of table stakes say of the same hand *)

Sum(f) == FoldFunction(+, 0, f)

AtMost(x, y) == IF x <= y THEN x ELSE y

Live == {i \in Seat : ~folded[i]}

\* The h-th chip of seat j: it is contested by the live seats that paid an h-th
\* chip too; failing them, by the live seats that reached the highest level
\* below; failing those as well, it is j's own chip back.
Contestants(j, h) ==
  LET at(k) == {i \in Live : contributions[i] >= k}
      contested == {k \in 1 .. h : at(k) # {}}
  IN IF contested = {} THEN {j}
     ELSE at(CHOOSE k \in contested : \A m \in contested : m <= k)

Chip == {c \in Seat \X (1 .. MaxChips) : c[2] <= contributions[c[1]]}

\* The chips in the pots that exactly the seats of E contest.
HeldFor(E) ==
  FoldLeft(LAMBDA sum, pot : sum + IF pot.eligible = E THEN pot.amount ELSE 0, 0, pots)

\* What seat i can take from the others and its own, had it the best hand.
Covered(i) == Sum([j \in Seat |-> AtMost(contributions[i], contributions[j])])

\* The seats left of the button come first when chips do not divide.
Before(i, j) == Distance(NextSeat(button), i) < Distance(NextSeat(button), j)

-----------------------------------------------------------------------------
(* Properties *)

\* The layered pots are exactly the chips grouped by who contests each: no chip
\* is dropped, counted twice or offered to a seat that did not cover it, and no
\* pot is left without a contestant (the promise of compute_pots).
PotsGroupTheChips ==
  phase = "awards" =>
    /\ \A k \in DOMAIN pots : pots[k].eligible # {}
    /\ \A E \in SUBSET Seat :
         Cardinality({c \in Chip : Contestants(c[1], c[2]) = E}) = HeldFor(E)

\* The payouts of a hand are the chips put into it, odd chips and dead money
\* included.
EveryChipIsPaid == phase = "done" => Sum(winnings) = Sum(contributions)

\* The strictly best live hand collects, from every seat, all it had covered.
BestHandCollects ==
  phase = "done" =>
    \A i \in Live : (\A j \in Live \ {i} : strength[j] < strength[i])
                      => winnings[i] >= Covered(i)

\* Table stakes: a live seat never takes more than it covered, when somebody
\* who paid the most is still in.
NobodyWinsUncovered ==
  phase = "done" =>
    \A i, j \in Live : (\A k \in Seat : contributions[k] <= contributions[j])
                         => winnings[i] <= Covered(i)

\* Two live seats with equal hands and equal contributions are paid alike, up to
\* one odd chip a pot, and the seat nearer the left of the button is not behind.
EqualHandsPaidAlike ==
  phase = "done" =>
    \A i, j \in Live :
      strength[i] = strength[j] /\ contributions[i] = contributions[j] /\ Before(i, j)
        => winnings[i] - winnings[j] \in 0 .. Len(pots)

\* A folded seat is paid nothing while a live seat has put chips in.
FoldedSeatsLose ==
  phase = "done" /\ (\E j \in Live : contributions[j] > 0) =>
    \A i \in Seat : folded[i] => winnings[i] = 0
=============================================================================
