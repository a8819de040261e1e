--------------------------- MODULE SettlementProofs --------------------------
(***************************************************************************)
(* What is proved of the settlement of a hand, for every table size, every *)
(* amount and every order of the hands.                                    *)
(***************************************************************************)
EXTENDS Settlement, PotsProofs

\* The inputs stay what they were, the pots are those of the contributions, and the
\* winnings what the pots pay.
IInv ==
  /\ contributions \in [Seat -> 0 .. MaxChips]
  /\ strength \in [Seat -> 0 .. MaxStrength]
  /\ button \in Seat
  /\ phase \in {"pots", "awards", "done"}
  /\ phase # "pots" => pots = ComputePots(contributions, folded)
  /\ phase = "done" => winnings = Distribute(pots, strength, button)

\* The invariant holds of a hand that has just ended.
LEMMA InitHolds == Init => IInv
<1>1. 0 \in Seat
  BY SeatCount DEF Seat
<1> QED
  BY <1>1, Bounds DEF Init, IInv

\* Each step of settle keeps it.
LEMMA NextKeeps == IInv /\ [Next]_vars => IInv'
<1> SUFFICES ASSUME IInv, [Next]_vars PROVE IInv'
  OBVIOUS
<1>1. CASE SplitPots
  BY <1>1 DEF SplitPots, IInv, inputs
<1>2. CASE AwardPots
  BY <1>2 DEF AwardPots, IInv, inputs
<1>3. CASE UNCHANGED vars
  BY <1>3 DEF vars, IInv, inputs
<1> QED
  BY <1>1, <1>2, <1>3 DEF Next

\* The invariant in every behaviour.
LEMMA Always == Spec => []IInv
BY InitHolds, NextKeeps, PTL DEF Spec

\* Nobody puts in a negative amount.
LEMMA PaidIn == IInv => contributions \in Stakes
BY Bounds DEF IInv, Stakes

\* Every chip put into a hand is paid out again, odd chips and dead money included:
\* what compute_pots and distribute promise together.
THEOREM ChipsPaid == Spec => []EveryChipIsPaid
<1>1. IInv => EveryChipIsPaid
  <2> SUFFICES ASSUME IInv, phase = "done" PROVE Sum(winnings) = Sum(contributions)
    BY DEF EveryChipIsPaid
  <2>1. winnings = Distribute(ComputePots(contributions, folded), strength, button)
    BY DEF IInv
  <2>2. /\ contributions \in Stakes /\ MaxStrength \in Nat /\ button \in Seat
        /\ \A i \in Seat : strength[i] \in 0 .. MaxStrength
    BY PaidIn, Bounds DEF IInv
  <2>3. Chips(winnings) = Chips(contributions)
    BY <2>1, <2>2, ChipsConserved
  <2> QED BY <2>3 DEF Sum, Chips
<1> QED
  BY <1>1, Always, PTL

\* What a seat has covered, seat by seat, is the reference's.
LEMMA CoveredIs ==
  ASSUME contributions \in Stakes, NEW i \in Seat
  PROVE  Covered(i) = Chips(Covering(i, contributions))
<1>1. [j \in Seat |-> AtMost(contributions[i], contributions[j])] = Covering(i, contributions)
  BY DEF AtMost, Covering
<1> QED
  BY <1>1 DEF Covered, Sum, Chips

\* The hand as it was settled.
LEMMA Settled ==
  ASSUME IInv, phase = "done"
  PROVE  /\ pots = ComputePots(contributions, folded)
         /\ winnings = Distribute(pots, strength, button)
         /\ contributions \in Stakes /\ MaxStrength \in Nat /\ button \in Seat
         /\ \A i \in Seat : strength[i] \in 0 .. MaxStrength
BY PaidIn, Bounds DEF IInv

\* The strictly best hand that has not folded collects, from every seat, all it had
\* covered, whatever was merged, rolled into the pot before or refunded on the way.
THEOREM BestHandPaid == Spec => []BestHandCollects
<1>1. IInv => BestHandCollects
  <2> SUFFICES ASSUME IInv, phase = "done", NEW i \in Live,
                      \A j \in Live \ {i} : strength[j] < strength[i]
               PROVE  winnings[i] >= Covered(i)
    BY DEF BestHandCollects
  <2>1. i \in Seat /\ ~folded[i] /\ \A j \in Seat \ {i} : ~folded[j] => strength[j] < strength[i]
    BY DEF Live
  <2>2. winnings[i] >= Chips(Covering(i, contributions))
    BY <2>1, Settled, BestHandWins
  <2> QED BY <2>1, <2>2, Settled, CoveredIs
<1> QED
  BY <1>1, Always, PTL

\* Table stakes: a seat that has not folded wins no more than it covered, while a seat
\* that paid the most has not folded.
THEOREM UncoveredLost == Spec => []NobodyWinsUncovered
<1>1. IInv => NobodyWinsUncovered
  <2> SUFFICES ASSUME IInv, phase = "done", NEW i \in Live, NEW j \in Live,
                      \A k \in Seat : contributions[k] <= contributions[j]
               PROVE  winnings[i] <= Covered(i)
    BY DEF NobodyWinsUncovered
  <2>1. i \in Seat /\ ~folded[i] /\ j \in Seat /\ ~folded[j]
    BY DEF Live
  <2>2. winnings[i] <= Chips(Covering(i, contributions))
    BY <2>1, Settled, CoveredAtMost
  <2> QED BY <2>1, <2>2, Settled, CoveredIs
<1> QED
  BY <1>1, Always, PTL

\* Equal hands with equal contributions are paid alike, up to one odd chip a pot, which
\* is never the one further from the left of the button's.
THEOREM EqualHandsPaid == Spec => []EqualHandsPaidAlike
<1>1. IInv => EqualHandsPaidAlike
  <2> SUFFICES ASSUME IInv, phase = "done", NEW i \in Live, NEW j \in Live,
                      strength[i] = strength[j], contributions[i] = contributions[j], Before(i, j)
               PROVE  winnings[i] - winnings[j] \in 0 .. Len(pots)
    BY DEF EqualHandsPaidAlike
  <2>1. i \in Seat /\ ~folded[i] /\ j \in Seat /\ ~folded[j]
    BY DEF Live
  <2>2. Distance(FirstForOddChips(button), i) < Distance(FirstForOddChips(button), j)
    BY DEF Before, FirstForOddChips
  <2> QED BY <2>1, <2>2, Settled, EqualHandsWinAlike
<1> QED
  BY <1>1, Always, PTL

-----------------------------------------------------------------------------
(* The pots against the rules of table stakes *)

\* Adding up the pots exactly the seats of E contest gives what they hold for {E}.
LEMMA HeldForIs ==
  ASSUME NEW F \in Families, pots \in PotsOf(F), NEW E
  PROVE  HeldFor(E) = Held({E}, pots)
<1> DEFINE n == Len(pots)
           parts == Parts({E}, pots)
           mine(k) == IF pots[k].eligible = E THEN pots[k].amount ELSE 0
           step == [p \in (1 .. n) \X Nat |-> p[2] + mine(p[1])]
           Recursive(g) == g = [t \in SUBSET (1 .. n) |->
                              IF t = {} THEN 0
                              ELSE LET x == Max(t) IN g[t \ {x}] + mine(x)]
           it == CHOOSE g : Recursive(g)
<1>1. n \in Nat /\ DOMAIN pots = 1 .. n /\ \A pot \in PotOf(F) : pot.amount \in Nat
  BY DEF PotsOf, PotOf
<1>2. \A k \in 1 .. n : mine(k) \in Nat
  BY <1>1 DEF PotsOf
<1>3. /\ parts \in Seq(Amounts) /\ Len(parts) = n
      /\ \A k \in 1 .. n : parts[k].amount = mine(k)
  <2>1. parts \in Seq(Amounts) /\ Len(parts) = n
    BY <1>1, PartsType DEF PotsOf
  <2>2. \A k \in 1 .. n : parts[k].amount = mine(k)
    BY <1>1 DEF Parts, Part
  <2> QED BY <2>1, <2>2
<1>4. HeldFor(E) = it[1 .. n]
  BY <1>1 DEF HeldFor, FoldLeft, MapThenFoldSet
<1>5. \A k \in 1 .. n, v \in Nat : step[<<k, v>>] = v + mine(k) /\ step[<<k, v>>] \in Nat
  BY <1>2
<1> HIDE DEF n, parts, mine, step
<1>6. PICK g : Iteration(g, 1 .. n, Nat, 0, Latest, step)
  <2>1. 0 \in Nat
    OBVIOUS
  <2> QED BY <1>1, <1>5, <2>1, FoldExists
<1>7. \A t \in SUBSET (1 .. n) : t # {} => Max(t) \in 1 .. n /\ Latest[t] = Max(t)
  BY <1>1, LatestOf
<1>8. Recursive(g)
  <2>1. \A t \in SUBSET (1 .. n) : g[t] = IF t = {} THEN 0 ELSE g[t \ {Max(t)}] + mine(Max(t))
    <3> TAKE t \in SUBSET (1 .. n)
    <3>1. g \in [SUBSET (1 .. n) -> Nat] /\ g[{}] = 0
      BY <1>6 DEF Iteration
    <3>2. CASE t # {}
      <4>1. Max(t) \in 1 .. n /\ Latest[t] = Max(t) /\ t \ {Max(t)} \in SUBSET (1 .. n)
        BY <1>7, <3>2
      <4>2. g[t] = step[<<Max(t), g[t \ {Max(t)}]>>]
        BY <1>6, <3>2, <4>1 DEF Iteration
      <4> QED BY <1>5, <3>1, <3>2, <4>1, <4>2
    <3> QED BY <3>1, <3>2
  <2> QED BY <1>6, <2>1 DEF Iteration
<1>9. Recursive(it)
  BY <1>8
<1>10. Folds(it, n, Nat, 0, step)
  <2>1. \A t \in SUBSET (1 .. n) :
          it[t] = IF t = {} THEN 0 ELSE it[t \ {Max(t)}] + mine(Max(t))
    <3> HIDE DEF it
    <3> QED BY <1>9
  <2> HIDE DEF it
  <2> QED BY <1>5, <1>7, <2>1 DEF Folds
<1> HIDE DEF it
<1>11. PICK acc : Run(acc, n, Nat, 0, step, it[1 .. n])
  <2> DEFINE V == Nat
  <2>1. 0 \in V /\ (\A k \in 1 .. n, v \in V : step[<<k, v>>] \in V) /\ Folds(it, n, V, 0, step)
    BY <1>5, <1>10
  <2>2. SUFFICES \E acc : Run(acc, n, V, 0, step, it[1 .. n])
    OBVIOUS
  <2> HIDE DEF V
  <2> QED BY <1>1, <2>1, FoldRuns
<1>12. Tally(acc, parts)
  <2>1. acc \in [0 .. n -> Nat] /\ acc[0] = 0
    BY <1>11 DEF Run
  <2>2. ASSUME NEW k \in 1 .. n PROVE acc[k] = acc[k - 1] + parts[k].amount
    <3>1. acc[k - 1] \in Nat
      BY <1>1, <2>1
    <3>2. acc[k] = step[<<k, acc[k - 1]>>]
      BY <1>11 DEF Run
    <3> QED BY <1>3, <1>5, <3>1, <3>2
  <2> QED BY <1>3, <2>1, <2>2 DEF Tally
<1>13. Worth(parts) = acc[n]
  <2>1. \A x \in Amounts : x.amount \in Nat
    BY DEF Amounts
  <2> QED BY <1>3, <1>12, <2>1, WorthIs
<1> QED
  BY <1>4, <1>11, <1>13 DEF Run, Held, parts

\* The chips the rules of table stakes give the seats of E to contest are those the peeled
\* layers give them.
LEMMA ContestantsAre ==
  ASSUME IInv, NEW E
  PROVE  {c \in Chip : Contestants(c[1], c[2]) = E} =
           Group(contributions, folded, [j \in Seat |-> {j}], {E})
<1> DEFINE fallback == [j \in Seat |-> {j}]
<1>1. ChipsIn(contributions) = Chip
  <2>1. \A j \in Seat : contributions[j] \in 0 .. MaxChips
    BY DEF IInv
  <2>2. \A j \in Seat, h \in Nat \ {0} : h <= contributions[j] => h \in 1 .. MaxChips
    BY <2>1, Bounds
  <2> QED BY <2>2, Bounds DEF ChipsIn, Chip
<1>2. ASSUME NEW j \in Seat, NEW h
      PROVE  Contestants(j, h) = Claimants(contributions, folded, fallback, j, h)
  <2>1. \A k : {i \in Live : contributions[i] >= k} = Reached(contributions, folded, k)
    BY DEF Live, Reached
  <2> QED BY <2>1 DEF Contestants, Claimants
<1>3. \A c \in Chip : c[1] \in Seat
  BY DEF Chip
<1> HIDE DEF fallback
<1>4. Group(contributions, folded, fallback, {E}) =
        {c \in Chip : Claimants(contributions, folded, fallback, c[1], c[2]) \in {E}}
  BY <1>1 DEF Group
<1> QED
  BY <1>2, <1>3, <1>4 DEF fallback

\* The layered pots are exactly the chips grouped by who contests each, and every pot has
\* a contestant: peeling the stakes layer by layer, rolling a layer nobody is left in into
\* the pot before it, refunding it when there is none and merging equal neighbours comes
\* to what the rules of table stakes say of every single chip.
THEOREM ChipsGrouped == Spec => []PotsGroupTheChips
<1>1. IInv => PotsGroupTheChips
  <2> SUFFICES ASSUME IInv, phase = "awards"
               PROVE  /\ \A k \in DOMAIN pots : pots[k].eligible # {}
                      /\ \A E \in SUBSET Seat :
                           Cardinality({c \in Chip : Contestants(c[1], c[2]) = E}) = HeldFor(E)
    BY DEF PotsGroupTheChips
  <2> DEFINE F == Contested(folded)
  <2>1. pots = ComputePots(contributions, folded) /\ contributions \in Stakes
    BY PaidIn DEF IInv
  <2>2. F \in Families /\ pots \in PotsOf(F)
    BY <2>1, PotsHoldTheirChips
  <2>3. \A G : Held(G, pots) = Cardinality(Group(contributions, folded, [j \in Seat |-> {j}], G))
    BY <2>1, PotsHoldTheirChips
  <2> HIDE DEF F
  <2>4. \A k \in DOMAIN pots : pots[k].eligible # {}
    <3>1. \A pot \in PotOf(F) : pot.eligible # {}
      BY <2>2 DEF PotOf, Families
    <3> DEFINE T == PotOf(F)
    <3>2. pots \in Seq(T) /\ \A pot \in T : pot.eligible # {}
      BY <2>2, <3>1 DEF PotsOf
    <3> HIDE DEF T
    <3> QED BY <3>2
  <2>5. ASSUME NEW E \in SUBSET Seat
        PROVE  Cardinality({c \in Chip : Contestants(c[1], c[2]) = E}) = HeldFor(E)
    BY <2>2, <2>3, ContestantsAre, HeldForIs
  <2> QED BY <2>4, <2>5
<1> QED
  BY <1>1, Always, PTL

\* No seat that folded has a chip to contest once a seat still in has put one in: every
\* chip is contested by those still in at some level.
LEMMA FoldedContestNone ==
  ASSUME NEW i \in Seat, folded[i], contributions \in Stakes,
         NEW l \in Live, contributions[l] > 0
  PROVE  Group(contributions, folded, [j \in Seat |-> {j}], Contests(i)) = {}
<1> DEFINE fallback == [j \in Seat |-> {j}]
<1>1. ASSUME NEW c \in ChipsIn(contributions)
      PROVE  i \notin Claimants(contributions, folded, fallback, c[1], c[2])
  <2>1. c[2] \in Nat /\ 1 \in 1 .. c[2]
    BY DEF ChipsIn
  <2>2. l \in Reached(contributions, folded, 1)
    <3>1. l \in Seat /\ ~folded[l] /\ contributions[l] \in Nat
      BY DEF Live, Stakes
    <3> QED BY <3>1 DEF Reached
  <2>3. PICK k \in 1 .. c[2] :
          /\ Reached(contributions, folded, k) # {}
          /\ \A m \in 1 .. c[2] : Reached(contributions, folded, m) # {} => m <= k
    BY <2>1, <2>2, HighestLevel
  <2>4. Claimants(contributions, folded, fallback, c[1], c[2]) = Reached(contributions, folded, k)
    <3> HIDE DEF fallback
    <3> QED BY <2>1, <2>3, ClaimedAt
  <2> QED BY <2>4 DEF Reached
<1> HIDE DEF fallback
<1>2. Group(contributions, folded, fallback, Contests(i)) = {}
  BY <1>1 DEF Group, Contests
<1> QED
  BY <1>2 DEF fallback

\* A folded seat is paid nothing once a seat still in has put chips in: dead money goes to
\* the pots of others, and nothing is refunded.
THEOREM FoldedLose == Spec => []FoldedSeatsLose
<1>1. IInv => FoldedSeatsLose
  <2> SUFFICES ASSUME IInv, phase = "done", NEW l \in Live, contributions[l] > 0,
                      NEW i \in Seat, folded[i]
               PROVE  winnings[i] = 0
    BY DEF FoldedSeatsLose
  <2> DEFINE F == Contested(folded)
             G == Contests(i)
             own == [j \in Seat |-> {j}]
             paid == Distribute(pots, strength, button)
  <2>1. /\ pots = ComputePots(contributions, folded) /\ winnings = paid
        /\ contributions \in Stakes /\ MaxStrength \in Nat /\ button \in Seat
        /\ \A k \in Seat : strength[k] \in 0 .. MaxStrength
    BY Settled
  <2>2. F \in Families /\ pots \in PotsOf(F)
    BY <2>1, PotsHoldTheirChips
  <2>3. Held(G, pots) = Cardinality(Group(contributions, folded, own, G))
    BY <2>1, PotsHoldTheirChips
  <2>4. Reach(i, pots) = 0
    BY <2>1, <2>3, FoldedContestNone, FS_EmptySet DEF Reach
  <2> HIDE DEF F
  <2>5. paid \in WonBy(F) /\ paid[i] <= Reach(i, pots)
    BY <2>1, <2>2, DistributePays
  <2>6. paid[i] \in Nat
    BY <2>5 DEF WonBy
  <2> QED BY <2>1, <2>4, <2>5, <2>6
<1> QED
  BY <1>1, Always, PTL
=============================================================================
