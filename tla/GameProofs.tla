------------------------------ MODULE GameProofs ------------------------------
(***************************************************************************)
(* What is proved of a hand of betting, of a run of hands, and of a player *)
(* of that run at a window, for every table size, blinds, stacks and       *)
(* number of hands: what holds of the betting; that every hand of a run is *)
(* one that Betting reaches, that the board fits it, and that the hands    *)
(* together are a ledger; that what the window offers is what the engine   *)
(* takes, that the clock is free, and that a connection starts fresh.      *)
(***************************************************************************)
EXTENDS FreePlay, PotsProofs

-----------------------------------------------------------------------------
(* The end of every action *)

\* Whatever an action did to the seats, `advance` hands the turn to a seat that
\* owes a decision, and closes the round only if there is none.
LEMMA AdvanceFinds ==
  ASSUME NEW i \in Seat, Advance(i)
  PROVE  /\ toAct' \in Seat \union {NoSeat}
         /\ ActorOwesDecision'
         /\ ClosedMeansNobodyOwes'
<1> DEFINE S == {k \in Seat : Owes(k)'}
<1>1. NextSeat(i) \in Seat
  BY NextSeatType
<1>2. /\ S = {} => FirstOf(S, NextSeat(i)) = NoSeat
      /\ S # {} => FirstOf(S, NextSeat(i)) \in S
  <2> HIDE DEF S
  <2>1. S \subseteq Seat
    BY DEF S
  <2> QED BY <1>1, <2>1, FirstOfFinds
<1>3. toAct' = IF HandOverByFolds' THEN NoSeat ELSE FirstOf(S, NextSeat(i))
  BY DEF Advance, NextToAct
<1>4. NoSeat \notin Seat
  BY DEF NoSeat, Seat
<1>5. toAct' = NoSeat \/ toAct' \in S
  BY <1>2, <1>3
<1>6. toAct' = NoSeat => HandOverByFolds' \/ S = {}
  BY <1>2, <1>3, <1>4
<1>7. toAct' \in Seat \union {NoSeat}
  BY <1>5
<1>8. ActorOwesDecision'
  BY <1>4, <1>5 DEF ActorOwesDecision, Turn, Owes
<1>9. ClosedMeansNobodyOwes'
  BY <1>6 DEF ClosedMeansNobodyOwes, RoundClosed
<1>10. QED
  BY <1>7, <1>8, <1>9

-----------------------------------------------------------------------------
(* What the building blocks of an action keep *)

\* Putting in chips a seat has moves them from its stack to its contribution.
LEMMA CommitKeeps ==
  ASSUME IInv, NEW i \in Seat, NEW a \in Nat, a <= stack[i],
         Commit(i, a), UNCHANGED <<starting, folded>>
  PROVE  /\ stack' \in [Seat -> Nat]
         /\ committed' \in [Seat -> Nat]
         /\ total' \in [Seat -> Nat]
         /\ allIn' \in [Seat -> BOOLEAN]
         /\ ContributionsExact'
         /\ EarlierStreetsLevel'
<1> USE DEF IInv, TypeOK, Commit
<1>1. stack' \in [Seat -> Nat]
  OBVIOUS
<1>2. committed' \in [Seat -> Nat] /\ total' \in [Seat -> Nat]
  OBVIOUS
<1>3. allIn' \in [Seat -> BOOLEAN]
  OBVIOUS
<1>4. ContributionsExact'
  BY DEF ContributionsExact
<1>5. EarlierStreetsLevel'
  <2>1. \A k \in Seat : Active(k)' => Active(k)
    BY DEF Active
  <2>2. \A k \in Seat : total'[k] - committed'[k] = total[k] - committed[k]
    OBVIOUS
  <2>3. QED
    BY <2>1, <2>2 DEF EarlierStreetsLevel
<1>6. QED
  BY <1>1, <1>2, <1>3, <1>4, <1>5

\* Whoever is marked acted has spoken, reopened or not.
LEMMA ActedMarks ==
  ASSUME IInv, NEW i \in Seat, MarkActed(i) \/ ReopenAction(i), Advance(i)
  PROVE  /\ acted' \in [Seat -> BOOLEAN]
         /\ spoke' \in SUBSET Seat
         /\ ActedSeatsSpoke'
         /\ \A k \in Seat : k # i /\ acted'[k] => acted[k]
         /\ ReopenAction(i) => \A k \in Seat : acted'[k] => k = i
BY DEF IInv, TypeOK, MarkActed, ReopenAction, Advance, ActedSeatsSpoke

-----------------------------------------------------------------------------
(* Every action preserves the invariant *)

\* A fold keeps the invariant: the seat is out of the round, the chips stay.
LEMMA FoldPreserves ==
  ASSUME IInv, NEW i \in Seat, Fold(i)
  PROVE  IInv'
<1> USE DEF Fold, seatVars, raiseVars, handVars
<1>1. TypeOK'
  <2>1. folded' \in [Seat -> BOOLEAN]
    BY DEF IInv, TypeOK
  <2>2. QED
    BY <2>1, AdvanceFinds, ActedMarks DEF IInv, TypeOK, Advance
<1>2. ContributionsExact' /\ NobodyAboveCurrentBet' /\ RaiseLine'
  BY DEF IInv, Advance, ContributionsExact, NobodyAboveCurrentBet, RaiseLine
<1>3. \A k \in Seat : Active(k)' => Active(k) /\ k # i
  BY DEF IInv, TypeOK, Active
<1>4. ActedSeatsFacedFullRaise'
  BY <1>3, ActedMarks DEF IInv, ActedSeatsFacedFullRaise
<1>5. EarlierStreetsLevel'
  BY <1>3 DEF IInv, EarlierStreetsLevel
<1>6. QED
  BY <1>1, <1>2, <1>4, <1>5, AdvanceFinds, ActedMarks DEF IInv

\* A check keeps it: the seat owes nothing.
LEMMA CheckPreserves ==
  ASSUME IInv, NEW i \in Seat, Check(i)
  PROVE  IInv'
<1> USE DEF Check, MayCheck, seatVars, raiseVars, handVars
<1>1. TypeOK'
  BY AdvanceFinds, ActedMarks DEF IInv, TypeOK, Advance
<1>2. ContributionsExact' /\ NobodyAboveCurrentBet' /\ RaiseLine'
  BY DEF IInv, Advance, ContributionsExact, NobodyAboveCurrentBet, RaiseLine
<1>3. \A k \in Seat : Active(k)' => Active(k)
  BY DEF Active
<1>4. ActedSeatsFacedFullRaise'
  <2>1. committed[i] >= lastFullRaiseTo
    BY DEF IInv, TypeOK, RaiseLine, ToCall
  <2>2. QED
    BY <1>3, <2>1, ActedMarks DEF IInv, ActedSeatsFacedFullRaise
<1>5. EarlierStreetsLevel'
  BY <1>3 DEF IInv, EarlierStreetsLevel
<1>6. QED
  BY <1>1, <1>2, <1>4, <1>5, AdvanceFinds, ActedMarks DEF IInv

\* A call keeps it, an all-in call for less included.
LEMMA CallPreserves ==
  ASSUME IInv, NEW i \in Seat, Call(i)
  PROVE  IInv'
<1> DEFINE a == AtMost(ToCall(i), stack[i])
<1>1. /\ a \in Nat
      /\ a <= stack[i]
      /\ a <= ToCall(i)
      /\ a = ToCall(i) \/ a = stack[i]
  BY DEF Call, MayCall, IInv, TypeOK, AtMost, ToCall
<1>2. Commit(i, a) /\ MarkActed(i) /\ Advance(i) /\ UNCHANGED <<folded, raiseVars>>
  BY DEF Call
<1> HIDE DEF a
<1> USE DEF raiseVars, handVars
<1>3. /\ stack' \in [Seat -> Nat]
      /\ committed' \in [Seat -> Nat]
      /\ total' \in [Seat -> Nat]
      /\ allIn' \in [Seat -> BOOLEAN]
      /\ ContributionsExact'
      /\ EarlierStreetsLevel'
  BY <1>1, <1>2, CommitKeeps DEF Advance
<1>4. TypeOK'
  BY <1>2, <1>3, AdvanceFinds, ActedMarks DEF IInv, TypeOK, Advance
<1>5. NobodyAboveCurrentBet' /\ RaiseLine'
  BY <1>1, <1>2 DEF IInv, TypeOK, Commit, ToCall, NobodyAboveCurrentBet, RaiseLine
<1>6. ActedSeatsFacedFullRaise'
  <2>1. Active(i)' => committed'[i] = currentBet
    <3>1. stack[i] = a => allIn'[i]
      BY <1>2 DEF IInv, TypeOK, Commit
    <3>2. a = ToCall(i) => committed'[i] = currentBet
      BY <1>2 DEF IInv, TypeOK, Commit, ToCall
    <3>3. QED
      BY <1>1, <3>1, <3>2 DEF Active
  <2>2. Active(i)' => committed'[i] >= lastFullRaiseTo
    BY <2>1 DEF IInv, TypeOK, RaiseLine
  <2>3. \A k \in Seat : k # i => committed'[k] = committed[k] /\ (Active(k)' => Active(k))
    BY <1>2 DEF IInv, TypeOK, Commit, Active
  <2>4. QED
    BY <1>2, <2>2, <2>3, ActedMarks DEF IInv, ActedSeatsFacedFullRaise
<1>7. QED
  BY <1>2, <1>3, <1>4, <1>5, <1>6, AdvanceFinds, ActedMarks DEF IInv

\* An opening bet keeps it, and never lowers the minimum raise.
LEMMA BetPreserves ==
  ASSUME IInv, NEW i \in Seat, NEW n \in 0 .. stack[i], Bet(i, n)
  PROVE  IInv' /\ minRaise' >= minRaise
<1> DEFINE level == committed[i] + n
<1>1. /\ Turn(i) /\ currentBet = 0 /\ Commit(i, n) /\ Advance(i)
      /\ currentBet' = level
      /\ \/ /\ level >= BigBlind
            /\ minRaise' = level /\ lastFullRaiseTo' = level
            /\ ReopenAction(i)
         \/ /\ UNCHANGED <<minRaise, lastFullRaiseTo>>
            /\ MarkActed(i)
      /\ UNCHANGED folded
  BY DEF Bet, MayBet
<1>2. /\ n \in Nat /\ n <= stack[i] /\ level \in Nat
      /\ committed'[i] = level
      /\ \A k \in Seat : k # i => committed'[k] = committed[k]
  BY <1>1 DEF IInv, TypeOK, Commit
<1> HIDE DEF level
<1>3. /\ stack' \in [Seat -> Nat]
      /\ committed' \in [Seat -> Nat]
      /\ total' \in [Seat -> Nat]
      /\ allIn' \in [Seat -> BOOLEAN]
      /\ ContributionsExact'
      /\ EarlierStreetsLevel'
  BY <1>1, <1>2, CommitKeeps DEF Advance, handVars
<1>4. TypeOK'
  <2>1. minRaise' \in Nat /\ lastFullRaiseTo' \in Nat /\ currentBet' \in Nat
    BY <1>1, <1>2 DEF IInv, TypeOK
  <2>2. QED
    BY <1>1, <1>3, <2>1, AdvanceFinds, ActedMarks DEF IInv, TypeOK, Advance, handVars
<1>5. NobodyAboveCurrentBet'
  BY <1>1, <1>2 DEF IInv, TypeOK, NobodyAboveCurrentBet
<1>6. RaiseLine'
  BY <1>1, <1>2, Blinds DEF IInv, TypeOK, RaiseLine
<1>7. ActedSeatsFacedFullRaise'
  <2>1. lastFullRaiseTo' <= committed'[i]
    BY <1>1, <1>2, <1>6 DEF RaiseLine
  <2>2. \A k \in Seat : Active(k)' => Active(k) \/ k = i
    BY <1>1 DEF IInv, TypeOK, Commit, Active
  <2>3. ASSUME NEW k \in Seat, k # i, acted'[k], Active(k)'
        PROVE  committed'[k] >= lastFullRaiseTo'
    <3>1. CASE ReopenAction(i)
      BY <1>1, <2>3, <3>1, ActedMarks
    <3>2. CASE MarkActed(i) /\ UNCHANGED lastFullRaiseTo
      BY <1>1, <1>2, <2>2, <2>3, <3>2, ActedMarks DEF IInv, ActedSeatsFacedFullRaise
    <3>3. QED
      BY <1>1, <3>1, <3>2
  <2>4. QED
    BY <1>2, <1>3, <1>4, <2>1, <2>3 DEF ActedSeatsFacedFullRaise, TypeOK
<1>8. minRaise' >= minRaise
  BY <1>1, <1>2, Blinds DEF IInv, TypeOK, RaiseLine
<1>9. QED
  BY <1>1, <1>3, <1>4, <1>5, <1>6, <1>7, <1>8, AdvanceFinds, ActedMarks DEF IInv

\* A raise keeps it, and never lowers the minimum raise.
LEMMA RaisePreserves ==
  ASSUME IInv, NEW i \in Seat,
         NEW n \in currentBet .. committed[i] + stack[i], Raise(i, n)
  PROVE  IInv' /\ minRaise' >= minRaise
<1> DEFINE a == n - committed[i]
<1>1. /\ Turn(i) /\ n > currentBet /\ Commit(i, a) /\ Advance(i)
      /\ a <= stack[i]
      /\ currentBet' = n
      /\ \/ /\ n - currentBet >= minRaise
            /\ minRaise' = n - currentBet /\ lastFullRaiseTo' = n
            /\ ReopenAction(i)
         \/ /\ UNCHANGED <<minRaise, lastFullRaiseTo>>
            /\ MarkActed(i)
      /\ UNCHANGED folded
  BY DEF Raise, MayRaise
<1>2. /\ n \in Nat /\ a \in Nat
      /\ committed'[i] = n
      /\ \A k \in Seat : k # i => committed'[k] = committed[k]
  BY <1>1 DEF IInv, TypeOK, Commit, NobodyAboveCurrentBet
<1> HIDE DEF a
<1>3. /\ stack' \in [Seat -> Nat]
      /\ committed' \in [Seat -> Nat]
      /\ total' \in [Seat -> Nat]
      /\ allIn' \in [Seat -> BOOLEAN]
      /\ ContributionsExact'
      /\ EarlierStreetsLevel'
  BY <1>1, <1>2, CommitKeeps DEF Advance, handVars
<1>4. TypeOK'
  <2>1. minRaise' \in Nat /\ lastFullRaiseTo' \in Nat /\ currentBet' \in Nat
    BY <1>1, <1>2 DEF IInv, TypeOK
  <2>2. QED
    BY <1>1, <1>3, <2>1, AdvanceFinds, ActedMarks DEF IInv, TypeOK, Advance, handVars
<1>5. NobodyAboveCurrentBet'
  <2>1. \A k \in Seat : committed[k] <= n
    BY <1>1, <1>2 DEF IInv, TypeOK, NobodyAboveCurrentBet
  <2>2. QED
    BY <1>1, <1>2, <2>1 DEF NobodyAboveCurrentBet
<1>6. RaiseLine'
  BY <1>1, <1>2, Blinds DEF IInv, TypeOK, RaiseLine
<1>7. ActedSeatsFacedFullRaise'
  <2>1. lastFullRaiseTo' <= committed'[i]
    BY <1>1, <1>2, <1>6 DEF RaiseLine
  <2>2. \A k \in Seat : Active(k)' => Active(k) \/ k = i
    BY <1>1 DEF IInv, TypeOK, Commit, Active
  <2>3. ASSUME NEW k \in Seat, k # i, acted'[k], Active(k)'
        PROVE  committed'[k] >= lastFullRaiseTo'
    <3>1. CASE ReopenAction(i)
      BY <1>1, <2>3, <3>1, ActedMarks
    <3>2. CASE MarkActed(i) /\ UNCHANGED lastFullRaiseTo
      BY <1>1, <1>2, <2>2, <2>3, <3>2, ActedMarks DEF IInv, ActedSeatsFacedFullRaise
    <3>3. QED
      BY <1>1, <3>1, <3>2
  <2>4. QED
    BY <1>2, <1>3, <1>4, <2>1, <2>3 DEF ActedSeatsFacedFullRaise, TypeOK
<1>8. minRaise' >= minRaise
  BY <1>1, <1>2 DEF IInv, TypeOK
<1>9. QED
  BY <1>1, <1>3, <1>4, <1>5, <1>6, <1>7, <1>8, AdvanceFinds, ActedMarks DEF IInv

\* An all-in keeps it whether or not it is a full raise.
LEMMA AllInPreserves ==
  ASSUME IInv, NEW i \in Seat, AllIn(i)
  PROVE  IInv' /\ minRaise' >= minRaise
<1> DEFINE level == committed[i] + stack[i]
<1>1. /\ Commit(i, stack[i]) /\ Advance(i)
      /\ currentBet' = IF level > currentBet THEN level ELSE currentBet
      /\ \/ /\ level > currentBet
            /\ level - currentBet >= minRaise
            /\ minRaise' = level - currentBet /\ lastFullRaiseTo' = level
            /\ ReopenAction(i)
         \/ /\ UNCHANGED <<minRaise, lastFullRaiseTo>>
            /\ MarkActed(i) \/ ReopenAction(i)
      /\ UNCHANGED folded
  BY DEF AllIn
<1>2. /\ stack[i] \in Nat /\ level \in Nat
      /\ committed'[i] = level
      /\ \A k \in Seat : k # i => committed'[k] = committed[k]
  BY <1>1 DEF IInv, TypeOK, Commit
<1> HIDE DEF level
<1>3. /\ stack' \in [Seat -> Nat]
      /\ committed' \in [Seat -> Nat]
      /\ total' \in [Seat -> Nat]
      /\ allIn' \in [Seat -> BOOLEAN]
      /\ ContributionsExact'
      /\ EarlierStreetsLevel'
  <2>1. stack[i] <= stack[i]
    BY <1>2
  <2>2. QED
    BY <1>1, <1>2, <2>1, CommitKeeps DEF Advance, handVars
<1>4. TypeOK'
  <2>1. minRaise' \in Nat /\ lastFullRaiseTo' \in Nat /\ currentBet' \in Nat
    BY <1>1, <1>2 DEF IInv, TypeOK
  <2>2. QED
    BY <1>1, <1>3, <2>1, AdvanceFinds, ActedMarks DEF IInv, TypeOK, Advance, handVars
<1>5. NobodyAboveCurrentBet'
  <2>1. \A k \in Seat : committed[k] <= currentBet
    BY DEF IInv, NobodyAboveCurrentBet
  <2>2. currentBet \in Nat /\ \A k \in Seat : committed[k] \in Nat
    BY DEF IInv, TypeOK
  <2>3. QED
    BY <1>1, <1>2, <2>1, <2>2 DEF NobodyAboveCurrentBet
<1>6. RaiseLine'
  BY <1>1, <1>2, Blinds DEF IInv, TypeOK, RaiseLine
<1>7. ActedSeatsFacedFullRaise'
  <2>1. ~Active(i)'
    BY <1>1 DEF IInv, TypeOK, Commit, Active
  <2>2. \A k \in Seat : Active(k)' => Active(k) \/ k = i
    BY <1>1 DEF IInv, TypeOK, Commit, Active
  <2>3. ASSUME NEW k \in Seat, k # i, acted'[k], Active(k)'
        PROVE  committed'[k] >= lastFullRaiseTo'
    <3>1. CASE ReopenAction(i)
      BY <1>1, <2>3, <3>1, ActedMarks
    <3>2. CASE MarkActed(i) /\ UNCHANGED lastFullRaiseTo
      BY <1>1, <1>2, <2>2, <2>3, <3>2, ActedMarks DEF IInv, ActedSeatsFacedFullRaise
    <3>3. QED
      BY <1>1, <3>1, <3>2
  <2>4. QED
    BY <2>1, <2>3 DEF ActedSeatsFacedFullRaise
<1>8. minRaise' >= minRaise
  BY <1>1, <1>2 DEF IInv, TypeOK
<1>9. QED
  BY <1>1, <1>3, <1>4, <1>5, <1>6, <1>7, <1>8, AdvanceFinds, ActedMarks DEF IInv

\* Opening the next street keeps it: all commitments start over at nothing.
LEMMA NextStreetPreserves ==
  ASSUME IInv, NextStreet
  PROVE  IInv'
<1> USE DEF NextStreet, OpenStreet, NothingCommitted, NobodyActed
<1>1. \A k \in Seat : Active(k)' <=> Active(k)
  BY DEF Active
<1>2. /\ toAct' \in Seat \union {NoSeat}
      /\ toAct' = NoSeat => \A k \in Seat : ~Active(k)
      /\ toAct' # NoSeat => Active(toAct')
  <2> DEFINE S == {k \in Seat : Active(k)}
  <2>1. NextSeat(button) \in Seat
    BY NextSeatType DEF IInv, TypeOK
  <2>2. /\ S = {} => FirstOf(S, NextSeat(button)) = NoSeat
        /\ S # {} => FirstOf(S, NextSeat(button)) \in S
    <3> HIDE DEF S
    <3>1. S \subseteq Seat
      BY DEF S
    <3> QED BY <2>1, <3>1, FirstOfFinds
  <2>3. toAct' = FirstOf(S, NextSeat(button))
    OBVIOUS
  <2>4. NoSeat \notin Seat
    BY DEF NoSeat, Seat
  <2>5. QED
    BY <2>2, <2>3, <2>4
<1>3. TypeOK'
  <2>1. /\ street' \in Street
        /\ currentBet' \in Nat /\ minRaise' \in Nat /\ lastFullRaiseTo' \in Nat
    BY Blinds DEF IInv, TypeOK, Street, After
  <2>2. committed' \in [Seat -> Nat] /\ acted' \in [Seat -> BOOLEAN]
    OBVIOUS
  <2>3. QED
    BY <1>2, <2>1, <2>2 DEF IInv, TypeOK
<1>4. ContributionsExact' /\ NobodyAboveCurrentBet' /\ RaiseLine' /\ ActedSeatsSpoke'
  BY Blinds DEF IInv, TypeOK, ContributionsExact, NobodyAboveCurrentBet, RaiseLine,
                ActedSeatsSpoke
<1>5. ActorOwesDecision'
  BY <1>1, <1>2 DEF ActorOwesDecision, Turn, NoSeat, Seat
<1>6. ActedSeatsFacedFullRaise'
  BY DEF ActedSeatsFacedFullRaise
<1>7. EarlierStreetsLevel'
  \* The round that closes left every seat that can still bet level.
  <2>1. ~HandOverByFolds
    BY DEF BettingCompleteForHand
  <2>2. \A k \in Seat : Active(k) => committed[k] >= currentBet
    BY <2>1 DEF IInv, TypeOK, ClosedMeansNobodyOwes, Owes, ToCall
  <2>3. \A j, k \in Seat : Active(k) => total[j] <= total[k]
    BY <2>2 DEF IInv, TypeOK, EarlierStreetsLevel, NobodyAboveCurrentBet
  <2>4. QED
    BY <1>1, <2>3 DEF EarlierStreetsLevel, IInv, TypeOK
<1>8. ClosedMeansNobodyOwes'
  BY <1>1, <1>2 DEF ClosedMeansNobodyOwes, RoundClosed, Owes
<1>9. QED
  BY <1>3, <1>4, <1>5, <1>6, <1>7, <1>8 DEF IInv

\* The blinds post at most what the two seats have, whatever stacks the hand starts from.
LEMMA NewHandFits ==
  \A stacks \in [Seat -> Nat], b \in Seat : NewHand(stacks, b) => IInv
<1> SUFFICES ASSUME NEW stacks \in [Seat -> Nat], NEW b \in Seat, NewHand(stacks, b)
             PROVE  IInv
  OBVIOUS
<1>1. stacks \in [Seat -> Nat]
  OBVIOUS
<1>2. /\ SmallBlindSeat(b) \in Seat /\ BigBlindSeat(b) \in Seat
      /\ (IF N = 2 THEN b ELSE NextSeat(BigBlindSeat(b))) \in Seat
  BY NextSeatType DEF SmallBlindSeat, BigBlindSeat
<1>3. \A i \in Seat : /\ BlindOf(stacks, b, i) \in Nat
                      /\ BlindOf(stacks, b, i) <= stacks[i]
                      /\ BlindOf(stacks, b, i) <= BigBlind
  BY <1>1, Blinds DEF BlindOf, AtMost
<1>4. /\ stack \in [Seat -> Nat]
      /\ committed \in [Seat -> Nat]
      /\ total \in [Seat -> Nat]
      /\ allIn \in [Seat -> BOOLEAN]
      /\ acted = [i \in Seat |-> FALSE]
      /\ folded = [i \in Seat |-> FALSE]
      /\ \A i \in Seat : /\ stack[i] = stacks[i] - BlindOf(stacks, b, i)
                         /\ committed[i] = BlindOf(stacks, b, i)
                         /\ total[i] = BlindOf(stacks, b, i)
  BY <1>1, <1>3 DEF NewHand, AllInBlind
<1>5. /\ toAct \in Seat \union {NoSeat}
      /\ toAct = NoSeat => \A i \in Seat : ~Active(i)
      /\ toAct # NoSeat => Active(toAct)
  <2> DEFINE S == {i \in Seat : Active(i)}
             first == IF N = 2 THEN b ELSE NextSeat(BigBlindSeat(b))
  <2>1. toAct = FirstOf(S, first)
    <3>1. S = {i \in Seat : ~AllInBlind(stacks, b)[i]}
      BY <1>4 DEF NewHand, Active
    <3>2. QED
      BY <3>1 DEF NewHand, Opener
  <2>2. S \subseteq Seat /\ first \in Seat
    BY <1>2
  <2>3. /\ S = {} => FirstOf(S, first) = NoSeat
        /\ S # {} => FirstOf(S, first) \in S
    <3> HIDE DEF S, first
    <3> QED BY <2>2, FirstOfFinds
  <2>4. NoSeat \notin Seat
    BY DEF NoSeat, Seat
  <2>5. QED
    BY <2>1, <2>3, <2>4
<1>6. TypeOK
  BY <1>1, <1>4, <1>5, Blinds DEF TypeOK, NewHand, Street
<1>7. ContributionsExact
  BY <1>1, <1>3, <1>4 DEF ContributionsExact, NewHand
<1>8. NobodyAboveCurrentBet /\ RaiseLine
  BY <1>3, <1>4, Blinds DEF NobodyAboveCurrentBet, RaiseLine, NewHand
<1>9. ActorOwesDecision
  BY <1>4, <1>5 DEF ActorOwesDecision, Turn, NoSeat, Seat
<1>10. EarlierStreetsLevel
  BY <1>3, <1>4 DEF EarlierStreetsLevel
<1>11. ClosedMeansNobodyOwes
  BY <1>5 DEF ClosedMeansNobodyOwes, RoundClosed, Owes
<1>12. ActedSeatsFacedFullRaise /\ ActedSeatsSpoke
  BY <1>4 DEF ActedSeatsFacedFullRaise, ActedSeatsSpoke
<1>13. QED
  BY <1>6, <1>7, <1>8, <1>9, <1>10, <1>11, <1>12 DEF IInv

\* A hand that starts from the stacks of the game is a new hand.
LEMMA InitEstablishes == Init => IInv
BY NewHandFits, Stacks DEF Init

\* One step of the hand keeps the invariant and, within a street, the minimum raise.
LEMMA NextPreserves ==
  ASSUME IInv, [Next]_vars
  PROVE  IInv' /\ (street' = street => minRaise' >= minRaise)
<1>1. CASE NextStreet
  <2>1. street' # street
    BY <1>1 DEF NextStreet, OpenStreet, NothingCommitted, NobodyActed, IInv, TypeOK, Street, After
  <2>2. QED
    BY <1>1, <2>1, NextStreetPreserves
<1>2. ASSUME NEW i \in Seat, SeatActs(i)
      PROVE  IInv' /\ minRaise' >= minRaise
  <2>1. minRaise <= minRaise
    BY DEF IInv, TypeOK
  <2>2. CASE Fold(i)
    BY <2>1, <2>2, FoldPreserves DEF Fold, raiseVars
  <2>3. CASE Check(i)
    BY <2>1, <2>3, CheckPreserves DEF Check, raiseVars
  <2>4. CASE Call(i)
    BY <2>1, <2>4, CallPreserves DEF Call, raiseVars
  <2>5. CASE \E n \in 0 .. stack[i] : Bet(i, n)
    BY <2>5, BetPreserves
  <2>6. CASE \E n \in currentBet .. committed[i] + stack[i] : Raise(i, n)
    BY <2>6, RaisePreserves
  <2>7. CASE AllIn(i)
    BY <2>7, AllInPreserves
  <2>8. QED
    BY <1>2, <2>2, <2>3, <2>4, <2>5, <2>6, <2>7 DEF SeatActs
<1>3. CASE UNCHANGED vars
  <2> USE DEF vars, handVars, seatVars, raiseVars
  <2>1. minRaise' >= minRaise
    BY <1>3 DEF IInv, TypeOK
  <2>2. IInv'
    BY <1>3 DEF IInv, TypeOK, ContributionsExact, NobodyAboveCurrentBet,
      ActorOwesDecision, ActedSeatsFacedFullRaise, RaiseLine, EarlierStreetsLevel,
      ClosedMeansNobodyOwes, ActedSeatsSpoke, Owes, Active, ToCall, Turn,
      RoundClosed, HandOverByFolds
  <2>3. QED
    BY <2>1, <2>2
<1>4. QED
  BY <1>1, <1>2, <1>3 DEF Next

-----------------------------------------------------------------------------
(* The theorems *)

\* The strengthened invariant of a hand holds in every reachable state.
THEOREM Invariant == Spec => []IInv
<1>1. Init => IInv
  BY InitEstablishes
<1>2. IInv /\ [Next]_vars => IInv'
  BY NextPreserves
<1>3. QED
  BY <1>1, <1>2, PTL DEF Spec

\* Type correctness of BettingState, whatever the table, blinds and stacks.
THEOREM TypeCorrect == Spec => []TypeOK
<1>1. IInv => TypeOK
  BY DEF IInv
<1>2. QED
  BY <1>1, Invariant, PTL

\* No chip appears or disappears between a stack and its contribution, and the
\* subtraction that settles a hand never underflows.
THEOREM ChipsAccounted == Spec => []ContributionsExact
<1>1. IInv => ContributionsExact
  BY DEF IInv
<1>2. QED
  BY <1>1, Invariant, PTL

\* The precondition of the verified amount_to_call holds at every use of it.
THEOREM CallAmountDefined == Spec => []NobodyAboveCurrentBet
<1>1. IInv => NobodyAboveCurrentBet
  BY DEF IInv
<1>2. QED
  BY <1>1, Invariant, PTL

\* The turn is only ever given to a seat that can act and owes a decision.
THEOREM TurnIsOwed == Spec => []ActorOwesDecision
<1>1. IInv => ActorOwesDecision
  BY DEF IInv
<1>2. QED
  BY <1>1, Invariant, PTL

\* Nobody owes and the rounds before are level, so nobody behind can still bet.
LEMMA ClosedRoundFollows == IInv => ClosedRoundIsSettled
<1>1. SUFFICES ASSUME IInv, RoundClosed, ~HandOverByFolds,
                      NEW i \in Seat, Active(i)
               PROVE  i \in spoke /\ \A j \in Seat : total[j] <= total[i]
  BY DEF ClosedRoundIsSettled
<1>2. ~Owes(i)
  BY <1>1 DEF IInv, ClosedMeansNobodyOwes
<1>3. acted[i] /\ committed[i] >= currentBet
  BY <1>1, <1>2 DEF Owes, ToCall, IInv, TypeOK
<1>4. \A j \in Seat : total[j] <= total[i]
  BY <1>1, <1>3 DEF IInv, TypeOK, EarlierStreetsLevel, NobodyAboveCurrentBet
<1>5. QED
  BY <1>1, <1>3, <1>4 DEF IInv, ActedSeatsSpoke

\* No round closes before every seat that can bet has spoken and paid its share.
THEOREM ClosedRoundsSettled == Spec => []ClosedRoundIsSettled
BY ClosedRoundFollows, Invariant, PTL

\* A seat loses its right to raise only after facing the standing full bet.
THEOREM RaiseRightsKept == Spec => []ActedSeatsFacedFullRaise
<1>1. IInv => ActedSeatsFacedFullRaise
  BY DEF IInv
<1>2. QED
  BY <1>1, Invariant, PTL

\* Within a street the minimum raise only grows.
THEOREM MinRaiseMonotone == Spec => MinRaiseNeverShrinks
<1>1. IInv /\ [Next]_vars => [street' = street => minRaise' >= minRaise]_vars
  BY NextPreserves
<1>2. QED
  BY <1>1, Invariant, PTL DEF Spec, MinRaiseNeverShrinks

\* What a seat that has acted does changes neither the raise line nor anybody's
\* right to raise, and moves the bet only with its last chips.
LEMMA ClosedSeatActs ==
  ASSUME IInv, NEW i \in Seat, Turn(i), acted[i], NEW j \in Seat, SeatActs(j)
  PROVE  /\ currentBet' > currentBet => allIn'[i]
         /\ minRaise' = minRaise /\ lastFullRaiseTo' = lastFullRaiseTo
         /\ \A k \in Seat : acted[k] => acted'[k]
<1>1. j = i
  BY DEF SeatActs, Turn, Fold, Check, Call, Bet, Raise, AllIn,
         MayCheck, MayCall, MayBet, MayRaise, MayAllIn
<1>2. currentBet \in Nat /\ currentBet > 0
  BY DEF IInv, TypeOK, ActorOwesDecision, ToCall
<1>3. ~(currentBet > currentBet)
  BY <1>2
<1>4. acted \in [Seat -> BOOLEAN] /\ allIn \in [Seat -> BOOLEAN]
  BY DEF IInv, TypeOK
<1>5. ASSUME MarkActed(i) PROVE \A k \in Seat : acted[k] => acted'[k]
  BY <1>4, <1>5 DEF MarkActed
<1>6. CASE Fold(i)
  BY <1>3, <1>5, <1>6 DEF Fold, raiseVars
<1>7. CASE Check(i)
  BY <1>3, <1>5, <1>7 DEF Check, raiseVars
<1>8. CASE Call(i)
  BY <1>3, <1>5, <1>8 DEF Call, raiseVars
<1>9. CASE \E n \in 0 .. stack[i] : Bet(i, n)
  BY <1>2, <1>9 DEF Bet, MayBet
<1>10. CASE \E n \in currentBet .. committed[i] + stack[i] : Raise(i, n)
  BY <1>10 DEF Raise, MayRaise, MayReopen
<1>11. CASE AllIn(i)
  <2>1. MarkActed(i) /\ minRaise' = minRaise /\ lastFullRaiseTo' = lastFullRaiseTo
    BY <1>2, <1>11 DEF AllIn, MayReopen
  <2>2. allIn'[i]
    BY <1>4, <1>11 DEF AllIn, Commit, IInv, TypeOK
  <2>3. QED
    BY <1>5, <2>1, <2>2
<1>12. QED
  BY <1>1, <1>6, <1>7, <1>8, <1>9, <1>10, <1>11 DEF SeatActs

\* A seat whose right to raise is closed reopens the action to nobody.
THEOREM ClosedActionStaysClosed == Spec => ClosedActionReopensNothing
<1>1. ASSUME IInv, [Next]_vars, NEW i \in Seat, Turn(i), acted[i], ~UNCHANGED vars
      PROVE  /\ currentBet' > currentBet => allIn'[i]
             /\ minRaise' = minRaise /\ lastFullRaiseTo' = lastFullRaiseTo
             /\ \A k \in Seat : acted[k] => acted'[k]
  <2>1. ~NextStreet
    BY <1>1 DEF NextStreet, OpenStreet, RoundClosed, Turn, NoSeat, Seat
  <2>2. PICK j \in Seat : SeatActs(j)
    BY <1>1, <2>1 DEF Next
  <2>3. QED
    BY <1>1, <2>2, ClosedSeatActs
<1>2. IInv /\ [Next]_vars =>
        [\A i \in Seat : Turn(i) /\ acted[i] =>
           /\ currentBet' > currentBet => allIn'[i]
           /\ minRaise' = minRaise /\ lastFullRaiseTo' = lastFullRaiseTo
           /\ \A j \in Seat : acted[j] => acted'[j]]_vars
  BY <1>1
<1>3. QED
  BY <1>2, Invariant, PTL DEF Spec, ClosedActionReopensNothing

-----------------------------------------------------------------------------
(* The inductive invariant of a run of hands *)

\* The first hand.
LEMMA SessionInitHolds == SessionInit => SessionIInv
<1> SUFFICES ASSUME NEW stacks \in InitialStacks, NewHand(stacks, 0), bankroll = stacks,
                    nextButton = 0, handNo = 1, live = TRUE, board = 0
             PROVE  SessionIInv
  BY DEF SessionInit
<1>1. stacks \in [Seat -> Nat] /\ 0 \in Seat
  BY Stacks, SeatCount DEF Seat
<1>2. IInv
  BY <1>1, NewHandFits
<1>3. SessionTypeOK
  <2>1. handNo \in 1 .. HandLimit
    BY Limits
  <2>2. board \in 0 .. 5 /\ live \in BOOLEAN /\ bankroll \in [Seat -> Nat] /\ nextButton \in Seat
    BY <1>1
  <2> QED BY <1>2, <2>1, <2>2 DEF SessionTypeOK, IInv
<1>4. BoardFitsHand /\ HandContinuesSession
  BY DEF BoardFitsHand, HandContinuesSession, NewHand
<1> QED
  BY <1>2, <1>3, <1>4 DEF SessionIInv

\* A seat acts: the hand stays one that Betting reaches, the street where it is.
LEMMA ActKeeps ==
  ASSUME SessionIInv, NEW i \in Seat, Act(i)
  PROVE  SessionIInv'
<1>1. /\ live /\ UNCHANGED <<starting, button, street>>
      /\ UNCHANGED <<bankroll, nextButton, handNo, live, board>>
  BY DEF Act, SeatActs, Fold, Check, Call, Bet, Raise, AllIn, Advance, handVars, sessionVars
<1>2. IInv'
  <2>1. IInv /\ [Next]_vars
    BY DEF SessionIInv, Act, Next
  <2> QED BY <2>1, NextPreserves
<1>3. SessionTypeOK'
  BY <1>1, <1>2 DEF SessionIInv, SessionTypeOK, IInv
<1>4. BoardFitsHand'
  <2>1. live /\ live'
    BY <1>1
  <2>2. board' = board /\ street' = street
    BY <1>1
  <2>3. BoardFitsHand /\ street \in Street
    BY DEF SessionIInv, IInv, TypeOK
  <2> QED BY <2>1, <2>2, <2>3 DEF BoardFitsHand, Street
<1>5. HandContinuesSession'
  BY <1>1 DEF SessionIInv, HandContinuesSession
<1> QED
  BY <1>2, <1>3, <1>4, <1>5 DEF SessionIInv

\* A street is dealt.
LEMMA DealStreetKeeps ==
  ASSUME SessionIInv, DealStreet
  PROVE  SessionIInv'
<1>1. /\ live /\ street \in Street /\ street # "River" /\ street' = After[street]
      /\ board' = board + IF street' = "Flop" THEN 3 ELSE 1
      /\ UNCHANGED <<starting, button, bankroll, nextButton, handNo, live>>
  BY DEF DealStreet, NextStreet, OpenStreet, sessionVars, SessionIInv, IInv, TypeOK
<1>2. IInv'
  <2>1. IInv /\ [Next]_vars
    BY DEF SessionIInv, DealStreet, Next
  <2> QED BY <2>1, NextPreserves
<1>3. BoardFitsHand' /\ board' \in 0 .. 5
  BY <1>1 DEF SessionIInv, SessionTypeOK, BoardFitsHand, Street, After
<1>4. SessionTypeOK'
  BY <1>1, <1>2, <1>3 DEF SessionIInv, SessionTypeOK, IInv
<1>5. HandContinuesSession'
  BY <1>1 DEF SessionIInv, HandContinuesSession
<1> QED
  BY <1>2, <1>3, <1>4, <1>5 DEF SessionIInv

\* What settling does to the stacks: the chips stay, and stay with seats that had some.
LEMMA SettleConserves ==
  ASSUME SessionIInv, Settle
  PROVE  /\ bankroll' \in [Seat -> Nat]
         /\ Chips(bankroll') = Chips(bankroll)
         /\ \A i \in Seat : bankroll[i] = 0 => bankroll'[i] = 0
<1>1. PICK strength \in [Seat -> 0 .. MaxStrength] :
        bankroll' = [i \in Seat |->
                       Kept[i] + Distribute(ComputePots(total, folded), strength, button)[i]]
  BY DEF Settle, SettleWith
<1> DEFINE won == Distribute(ComputePots(total, folded), strength, button)
<1>2. /\ starting \in [Seat -> Nat] /\ stack \in [Seat -> Nat] /\ total \in [Seat -> Nat]
      /\ button \in Seat
      /\ \A i \in Seat : stack[i] + total[i] = starting[i]
      /\ bankroll = starting
  BY DEF SessionIInv, IInv, TypeOK, ContributionsExact, HandContinuesSession, Settle, SettleWith
<1>3. /\ won \in [Seat -> Nat] /\ Chips(won) = Chips(total)
      /\ \A i \in Seat : total[i] = 0 => won[i] = 0
  <2>1. total \in Stakes /\ MaxStrength \in Nat /\ \A i \in Seat : strength[i] \in 0 .. MaxStrength
    BY <1>2, Limits DEF Stakes
  <2> QED BY <1>2, <2>1, ChipsConserved
<1> HIDE DEF won
<1>4. \A i \in Seat : Kept[i] = stack[i]
  BY <1>2 DEF Kept
<1>5. bankroll' = [i \in Seat |-> stack[i] + won[i]]
  BY <1>1, <1>4 DEF won
<1>6. bankroll' \in [Seat -> Nat] /\ \A i \in Seat : bankroll'[i] = stack[i] + won[i]
  BY <1>2, <1>3, <1>5
<1>7. Chips(bankroll') = Chips(stack) + Chips(won)
  <2>1. bankroll' \in [Seat -> Int] /\ stack \in [Seat -> Int] /\ won \in [Seat -> Int]
    BY <1>2, <1>3, <1>6
  <2> QED BY <1>6, <2>1, ChipsAdd
<1>8. Chips(bankroll) = Chips(stack) + Chips(total)
  <2>1. bankroll \in [Seat -> Int] /\ stack \in [Seat -> Int] /\ total \in [Seat -> Int]
    BY <1>2
  <2>2. \A i \in Seat : bankroll[i] = stack[i] + total[i]
    BY <1>2
  <2> QED BY <2>1, <2>2, ChipsAdd
<1>9. \A i \in Seat : bankroll[i] = 0 => bankroll'[i] = 0
  BY <1>2, <1>3, <1>6
<1> QED
  BY <1>3, <1>6, <1>7, <1>8, <1>9

\* A hand is settled.
LEMMA SettleKeeps ==
  ASSUME SessionIInv, Settle
  PROVE  SessionIInv'
<1>1. /\ live /\ ~live' /\ UNCHANGED vars /\ UNCHANGED handNo
      /\ nextButton' = NextSeat(nextButton) /\ board' = FinalBoard
  BY DEF Settle, SettleWith
<1>2. IInv'
  <2>1. IInv /\ [Next]_vars
    BY <1>1 DEF SessionIInv
  <2> QED BY <2>1, NextPreserves
<1>3. BoardFitsHand' /\ board' \in 0 .. 5
  <2>1. BoardFitsHand /\ board \in 0 .. 5
    BY DEF SessionIInv, SessionTypeOK
  <2>2. street' = street /\ (HandOverByFolds' <=> HandOverByFolds)
    BY <1>1 DEF vars, handVars, HandOverByFolds
  <2>3. CASE HandOverByFolds
    <3>1. board' = board /\ HandOverByFolds'
      BY <1>1, <2>2, <2>3 DEF FinalBoard
    <3> QED BY <1>1, <2>1, <2>2, <2>3, <3>1 DEF BoardFitsHand
  <2>4. CASE ~HandOverByFolds
    <3>1. board' = 5 /\ ~HandOverByFolds'
      BY <1>1, <2>2, <2>4 DEF FinalBoard
    <3> QED BY <1>1, <3>1 DEF BoardFitsHand
  <2> QED BY <2>3, <2>4
<1>4. SessionTypeOK'
  <2>1. bankroll' \in [Seat -> Nat]
    BY SettleConserves
  <2>2. nextButton' \in Seat
    BY <1>1, NextSeatType DEF SessionIInv, SessionTypeOK
  <2>3. handNo' \in 1 .. HandLimit /\ live' \in BOOLEAN
    BY <1>1 DEF SessionIInv, SessionTypeOK, Settle, SettleWith
  <2> QED BY <1>2, <1>3, <2>1, <2>2, <2>3 DEF SessionTypeOK, IInv
<1>5. HandContinuesSession'
  BY <1>1 DEF HandContinuesSession
<1> QED
  BY <1>2, <1>3, <1>4, <1>5 DEF SessionIInv

\* The next hand starts from what the last one left.
LEMMA StartHandKeeps ==
  ASSUME SessionIInv, StartHand
  PROVE  SessionIInv'
<1>1. /\ handNo < HandLimit /\ handNo' = handNo + 1 /\ live' = TRUE /\ board' = 0
      /\ UNCHANGED <<bankroll, nextButton>>
      /\ Deal(bankroll, nextButton)
  BY DEF StartHand, StartHandFrom
<1>2. bankroll \in [Seat -> Nat] /\ nextButton \in Seat /\ handNo \in 1 .. HandLimit
  BY DEF SessionIInv, SessionTypeOK
<1>3. IInv'
  <2>1. (\A stacks \in [Seat -> Nat], b \in Seat : NewHand(stacks, b) => IInv)'
    BY NewHandFits, PTL
  <2>2. \A stacks, b : Deal(stacks, b) => NewHand(stacks, b)'
    BY DEF Deal, NewHand
  <2> QED BY <1>1, <1>2, <2>1, <2>2
<1>4. SessionTypeOK'
  <2>1. handNo' \in 1 .. HandLimit
    BY <1>1, <1>2, Limits
  <2>2. board' \in 0 .. 5 /\ live' \in BOOLEAN
    BY <1>1
  <2> QED BY <1>1, <1>2, <1>3, <2>1, <2>2 DEF SessionTypeOK, IInv
<1>5. BoardFitsHand' /\ HandContinuesSession'
  BY <1>1 DEF BoardFitsHand, HandContinuesSession, Deal
<1> QED
  BY <1>3, <1>4, <1>5 DEF SessionIInv

\* Every step keeps the invariant.
LEMMA SessionNextKeeps == SessionIInv /\ [SessionNext]_allVars => SessionIInv'
<1> SUFFICES ASSUME SessionIInv, [SessionNext]_allVars PROVE SessionIInv'
  OBVIOUS
<1>1. CASE UNCHANGED allVars
  <2>1. IInv'
    <3>1. IInv /\ [Next]_vars
      BY <1>1 DEF SessionIInv, allVars
    <3> QED BY <3>1, NextPreserves
  <2>2. UNCHANGED <<bankroll, nextButton, handNo, live, board, starting, button, street, folded>>
    BY <1>1 DEF allVars, sessionVars, vars, handVars
  <2>3. SessionTypeOK'
    BY <2>1, <2>2 DEF SessionIInv, SessionTypeOK, IInv
  <2>4. BoardFitsHand' /\ HandContinuesSession'
    BY <2>2 DEF SessionIInv, BoardFitsHand, HandContinuesSession, HandOverByFolds
  <2> QED BY <2>1, <2>3, <2>4 DEF SessionIInv
<1> QED
  BY <1>1, ActKeeps, DealStreetKeeps, SettleKeeps, StartHandKeeps DEF SessionNext

\* In a run of hands every hand is one that Betting reaches.
THEOREM SessionInvariant == SessionSpec => []SessionIInv
BY SessionInitHolds, SessionNextKeeps, PTL DEF SessionSpec

-----------------------------------------------------------------------------
(* The theorems *)

\* The board shows what the street calls for, and five cards after a showdown.
THEOREM BoardFits == SessionSpec => []BoardFitsHand
<1>1. SessionIInv => BoardFitsHand
  BY DEF SessionIInv
<1> QED
  BY <1>1, SessionInvariant, PTL

\* No round of any hand of a game closes before every seat that can bet has spoken
\* and paid its share, whatever the hands before it left in the stacks.
THEOREM RoundsSettledAllGame == SessionSpec => []ClosedRoundIsSettled
<1>1. SessionIInv => ClosedRoundIsSettled
  BY ClosedRoundFollows DEF SessionIInv
<1> QED
  BY <1>1, SessionInvariant, PTL

\* A step of the game is a step of the ledger or none.
LEMMA StepIsBooked ==
  SessionIInv /\ [SessionNext]_allVars => [Books!PlayHand]_Books!vars
<1> SUFFICES ASSUME SessionIInv, [SessionNext]_allVars PROVE [Books!PlayHand]_Books!vars
  OBVIOUS
<1>1. handNo \in 1 .. HandLimit /\ HandLimit \in Nat /\ live \in BOOLEAN
  BY Limits DEF SessionIInv, SessionTypeOK
<1>2. CASE Settle
  <2>1. live /\ ~live' /\ handNo' = handNo
    BY <1>2 DEF Settle, SettleWith
  <2>2. /\ bankroll' \in [Seat -> Nat]
        /\ Books!Chips(bankroll') = Books!Chips(bankroll)
        /\ \A i \in Seat : bankroll[i] = 0 => bankroll'[i] = 0
    <3>1. \A f : Books!Chips(f) = Chips(f)
      BY DEF Books!Chips, Chips, Books!FoldFunction, Books!FoldFunctionOnSet,
             Books!MapThenFoldSet, FoldFunction, FoldFunctionOnSet, MapThenFoldSet
    <3> QED BY <1>2, <3>1, SettleConserves
  <2>3. /\ (IF live THEN handNo - 1 ELSE handNo) < HandLimit
        /\ (IF live' THEN handNo' - 1 ELSE handNo')
             = (IF live THEN handNo - 1 ELSE handNo) + 1
    BY <1>1, <2>1
  <2> QED BY <2>2, <2>3 DEF Books!PlayHand, Books!Seat, Seat
<1>3. CASE StartHand
  <2>1. ~live /\ live' /\ handNo' = handNo + 1 /\ bankroll' = bankroll
    BY <1>3 DEF StartHand, StartHandFrom
  <2>2. (IF live' THEN handNo' - 1 ELSE handNo') = (IF live THEN handNo - 1 ELSE handNo)
    BY <1>1, <2>1
  <2> QED BY <2>1, <2>2 DEF Books!vars
<1>4. CASE \/ DealStreet \/ \E i \in Seat : Act(i)
           \/ UNCHANGED allVars
  <2>1. UNCHANGED <<bankroll, handNo, live>>
    BY <1>4 DEF DealStreet, Act, allVars, sessionVars
  <2> QED BY <2>1 DEF Books!vars
<1> QED
  BY <1>2, <1>3, <1>4 DEF SessionNext

\* A game of hands implements the ledger: whatever is bet, folded, won and split, the
\* chips of the game stay, and a seat without any gets none.
THEOREM GameIsLedger == SessionSpec => ImplementsLedger
<1>1. SessionInit => Books!Init
  BY DEF SessionInit, Books!Init
<1> QED
  BY <1>1, StepIsBooked, SessionInvariant, PTL DEF SessionSpec, ImplementsLedger, Books!Spec

-----------------------------------------------------------------------------
(* Playing in the window: what the steps do to the hand *)

\* Chips committed in a round are chips committed in the hand.
LEMMA CommitWithinHand ==
  ASSUME IInv, RoundWithinHand, NEW i \in Seat, NEW a \in Int, Commit(i, a)
  PROVE  RoundWithinHand'
BY DEF IInv, TypeOK, RoundWithinHand, Commit

\* A step of the game keeps the invariant of the game under the window.
LEMMA GameNextKeeps ==
  ASSUME GameIInv, [SessionNext]_allVars
  PROVE  GameIInv'
<1>1. SessionIInv'
  BY SessionNextKeeps DEF GameIInv
<1>2. IInv /\ RoundWithinHand /\ stack \in [Seat -> Nat] /\ committed \in [Seat -> Nat]
      /\ total \in [Seat -> Nat] /\ currentBet \in Nat
  BY DEF GameIInv, SessionIInv, IInv, TypeOK
<1>3. ASSUME NEW i \in Seat, SeatActs(i) PROVE RoundWithinHand'
  <2>1. CASE Fold(i) \/ Check(i)
    BY <1>2, <2>1 DEF Fold, Check, seatVars, RoundWithinHand
  <2>2. CASE Call(i)
    <3>1. AtMost(ToCall(i), stack[i]) \in Int
      BY <1>2 DEF AtMost, ToCall
    <3> QED BY <1>2, <2>2, <3>1, CommitWithinHand DEF Call
  <2>3. CASE \E n \in 0 .. stack[i] : Bet(i, n)
    BY <1>2, <2>3, CommitWithinHand DEF Bet
  <2>4. CASE \E n \in currentBet .. committed[i] + stack[i] : Raise(i, n)
    <3>1. PICK n \in Int : Commit(i, n - committed[i])
      BY <1>2, <2>4 DEF Raise
    <3>2. n - committed[i] \in Int
      BY <1>2
    <3> QED BY <1>2, <3>1, <3>2, CommitWithinHand
  <2>5. CASE AllIn(i)
    BY <1>2, <2>5, CommitWithinHand DEF AllIn
  <2> QED BY <1>3, <2>1, <2>2, <2>3, <2>4, <2>5 DEF SeatActs
<1>4. RoundWithinHand'
  <2>1. CASE DealStreet
    BY <1>2, <2>1 DEF DealStreet, NextStreet, OpenStreet, NothingCommitted, RoundWithinHand
  <2>2. CASE Settle \/ UNCHANGED allVars
    BY <1>2, <2>2 DEF Settle, SettleWith, allVars, vars, seatVars, RoundWithinHand
  <2>3. CASE StartHand
    <3>1. committed' = total'
      BY <2>3 DEF StartHand, StartHandFrom, Deal
    <3>2. committed' \in [Seat -> Nat]
      BY <1>1 DEF SessionIInv, IInv, TypeOK
    <3> QED BY <3>1, <3>2 DEF RoundWithinHand
  <2>4. CASE \E i \in Seat : Act(i)
    BY <1>3, <2>4 DEF Act
  <2> QED BY <2>1, <2>2, <2>3, <2>4 DEF SessionNext
<1> QED
  BY <1>1, <1>4 DEF GameIInv

\* So does clearing the table for the next connection.
LEMMA NewTableKeeps ==
  ASSUME NewTable
  PROVE  GameIInv'
<1>1. (\A stacks \in [Seat -> Nat], b \in Seat : NewHand(stacks, b) => IInv)'
  BY NewHandFits, PTL
<1>2. nextButton' = 0 /\ handNo' = 1 /\ live' = TRUE /\ board' = 0
  BY DEF NewTable
<1>3. PICK chips \in InitialStacks : Deal(chips, 0) /\ bankroll' = chips
  BY DEF NewTable
<1>4. IInv' /\ chips \in [Seat -> Nat] /\ 0 \in Seat
  <2>1. chips \in [Seat -> Nat] /\ 0 \in Seat
    BY Stacks, SeatCount DEF Seat
  <2>2. \A s, b : Deal(s, b) => NewHand(s, b)'
    BY DEF Deal, NewHand
  <2> QED BY <1>1, <1>3, <2>1, <2>2
<1>5. SessionTypeOK'
  <2>1. handNo' \in 1 .. HandLimit
    BY <1>2, Limits
  <2> QED BY <1>2, <1>3, <1>4, <2>1 DEF SessionTypeOK, IInv
<1>6. BoardFitsHand' /\ HandContinuesSession'
  BY <1>2, <1>3 DEF BoardFitsHand, HandContinuesSession, Deal
<1>7. RoundWithinHand'
  <2>1. committed' = total' /\ committed' \in [Seat -> Nat]
    BY <1>3, <1>4 DEF Deal, IInv, TypeOK
  <2> QED BY <2>1 DEF RoundWithinHand
<1> QED
  BY <1>4, <1>5, <1>6, <1>7 DEF GameIInv, SessionIInv

\* The action the driver applies is a legal one of the player's seat in its turn.
LEMMA ApplyActs ==
  ASSUME AppIInv, Apply
  PROVE  Act(me)
<1>1. me \in Seat /\ taken \in Actions /\ live /\ Turn(me)
  BY DEF AppIInv, AppTypeOK, TakenInTurn, MyTurn, Apply
<1>2. stack[me] \in Nat /\ committed[me] \in Nat /\ currentBet \in Nat /\ taken.to \in Nat
  BY <1>1 DEF AppIInv, GameIInv, SessionIInv, IInv, TypeOK, Actions
<1>3. SeatActs(me)
  <2>1. CASE taken.kind = "Bet" /\ Bet(me, taken.to)
    <3>1. taken.to \in 0 .. stack[me]
      BY <1>2, <2>1 DEF Bet, MayBet
    <3> QED BY <2>1, <3>1 DEF SeatActs
  <2>2. CASE taken.kind = "Raise" /\ Raise(me, taken.to)
    <3>1. taken.to \in currentBet .. committed[me] + stack[me]
      BY <1>2, <2>2 DEF Raise, MayRaise
    <3> QED BY <2>2, <3>1 DEF SeatActs
  <2> QED BY <2>1, <2>2 DEF Apply, Perform, SeatActs
<1> QED
  BY <1>1, <1>3 DEF Act, Apply

\* Every step of window and driver keeps the invariant of the game.
LEMMA GameKept ==
  ASSUME AppIInv, [AppNext]_appVars
  PROVE  GameIInv'
<1>1. GameIInv /\ me \in Seat
  BY DEF AppIInv, AppTypeOK
<1>2. CASE UNCHANGED allVars
  BY <1>1, <1>2, GameNextKeeps
<1>3. CASE Reap \/ FinishLeave
  BY <1>3, NewTableKeeps DEF Reap, FinishLeave
<1>4. CASE OtherActs \/ TableGoes \/ Apply
  <2>1. SessionNext
    BY <1>1, <1>4, ApplyActs DEF OtherActs, TableGoes, SessionNext
  <2> QED BY <1>1, <2>1, GameNextKeeps
<1> QED
  BY <1>2, <1>3, <1>4
     DEF AppNext, Driver, Window, GameBegins, GameFails, GameOver, PeerLeaves, Take, ApplyFails,
         Finish, StartAs, Frame, Expire, Submit, BeginLeave, ConfirmLeave, StayAtTable,
         LeaveStage, appVars

-----------------------------------------------------------------------------
(* What travels in the channel *)

\* What the player's choice maps to is an action, not one of the clock.
LEMMA MapActionTyped ==
  ASSUME GameIInv, me \in Seat, NEW size \in Nat, NEW act \in Acts(size),
         NEW a \in MapAction(act, Offer)
  PROVE  a \in Actions /\ ~a.timed
<1>1. /\ stack[me] \in Nat /\ committed[me] \in Nat /\ starting[me] \in Nat
      /\ currentBet \in Nat /\ minRaise \in Nat /\ BigBlind \in Nat
  BY Blinds DEF GameIInv, SessionIInv, IInv, TypeOK
<1>2. Offer.minBet \in Nat /\ Offer.minRaiseTo \in Nat /\ Offer.maxTo \in Nat
  BY <1>1 DEF Offer, Legal, NoLegal, AtMost
<1>3. /\ act.to \in Nat /\ act.timed = FALSE
      /\ act.kind \in {"Fold", "CheckCall", "AllIn", "Bet", "Raise"}
      /\ act = Sized(act.kind, act.to)
  BY <1>1 DEF Acts, Move, Sized
<1>4. \A n, lo, hi \in Nat : Clamp(n, lo, hi) \in Nat
  BY DEF Clamp, AtMost
<1>5. a \in {Move("Check"), Move("Call"), Move("AllIn"), Move("Fold")} \/
      \E n \in Nat : a \in {Sized("Bet", n), Sized("Raise", n)}
  <2>1. CASE act.kind = "Fold" \/ act.kind = "AllIn"
    <3>1. a = act
      BY <2>1 DEF MapAction, When
    <3>2. act \in {Move("Fold"), Move("AllIn")}
      BY <2>1 DEF Acts, Move, Sized
    <3> QED BY <3>1, <3>2
  <2>2. CASE act.kind = "CheckCall"
    BY <2>2 DEF MapAction, When
  <2>3. CASE act.kind = "Bet"
    <3>1. a = Sized("Bet", Clamp(act.to, Offer.minBet, Offer.maxTo))
      BY <2>3 DEF MapAction, When
    <3> QED BY <1>2, <1>3, <1>4, <3>1
  <2>4. CASE act.kind = "Raise"
    <3>1. a = Sized("Raise", Clamp(act.to, Offer.minRaiseTo, Offer.maxTo))
      BY <2>4 DEF MapAction, When
    <3> QED BY <1>2, <1>3, <1>4, <3>1
  <2> QED BY <1>3, <2>1, <2>2, <2>3, <2>4
<1>6. \A kind \in {"Check", "Call", "AllIn", "Fold", "Bet", "Raise"}, n \in Nat :
        Sized(kind, n) \in Actions /\ ~Sized(kind, n).timed
  BY DEF Actions, Sized
<1>7. \A kind \in {"Check", "Call", "AllIn", "Fold"} : Move(kind) \in Actions /\ ~Move(kind).timed
  BY <1>6 DEF Move
<1> QED
  BY <1>5, <1>6, <1>7

\* What the clock chooses: a check that costs nothing, or a fold.
LEMMA ClockChooses ==
  ASSUME MyTurn
  PROVE  MapAction(TimeoutAct(Offer), Offer)
           = IF ToCall(me) = 0 THEN {Move("Check")} ELSE {Move("Fold")}
<1>1. Offer.canCheck <=> ToCall(me) = 0
  BY DEF Offer, Legal
<1>2. CASE ToCall(me) = 0
  BY <1>1, <1>2 DEF MapAction, TimeoutAct, Move, Sized
<1>3. CASE ToCall(me) # 0
  BY <1>1, <1>3 DEF MapAction, TimeoutAct, Move, Sized
<1> QED
  BY <1>2, <1>3

\* The channel after the clock has run out.
LEMMA ExpireSends ==
  ASSUME MyTurn, Send(Timed(MapAction(TimeoutAct(Offer), Offer)))
  PROVE  \/ chosen' = chosen
         \/ /\ chosen = Nothing /\ conn = "running"
            /\ chosen' = [Move(IF ToCall(me) = 0 THEN "Check" ELSE "Fold")
                            EXCEPT !.timed = TRUE]
<1> DEFINE move == Move(IF ToCall(me) = 0 THEN "Check" ELSE "Fold")
<1>1. MapAction(TimeoutAct(Offer), Offer) = {move}
  BY ClockChooses
<1>2. Timed({move}) = {[move EXCEPT !.timed = TRUE]}
  BY DEF Timed
<1> HIDE DEF move
<1>3. (CHOOSE a \in {[move EXCEPT !.timed = TRUE]} : TRUE) = [move EXCEPT !.timed = TRUE]
  OBVIOUS
<1> QED
  BY <1>1, <1>2, <1>3 DEF Send, move

\* The channel after the player has chosen.
LEMMA SubmitSends ==
  ASSUME GameIInv, me \in Seat, NEW size \in Nat, NEW act \in Acts(size),
         Send(MapAction(act, Offer))
  PROVE  \/ chosen' = chosen
         \/ chosen = Nothing /\ conn = "running" /\ chosen' \in Actions /\ ~chosen'.timed
<1>1. CASE MapAction(act, Offer) # {}
  <2>1. (CHOOSE a \in MapAction(act, Offer) : TRUE) \in MapAction(act, Offer)
    BY <1>1
  <2>2. \/ chosen' = chosen
        \/ chosen = Nothing /\ conn = "running" /\ chosen' \in MapAction(act, Offer)
    BY <2>1 DEF Send
  <2> QED BY <2>2, MapActionTyped
<1>2. CASE MapAction(act, Offer) = {}
  BY <1>2 DEF Send
<1> QED
  BY <1>1, <1>2

\* While it is the player's turn no other seat acts and the table does not move.
LEMMA TurnHolds ==
  ASSUME me \in Seat, MyTurn
  PROVE  ~OtherActs /\ ~TableGoes /\ ~GameBegins /\ ~GameOver
<1>1. toAct = me /\ toAct # NoSeat /\ live /\ begun
  BY DEF MyTurn, Turn, NoSeat, Seat
<1>2. \A i \in Seat \ {me} : ~SeatActs(i)
  BY <1>1 DEF SeatActs, Turn, Fold, Check, Call, Bet, Raise, AllIn,
              MayCheck, MayCall, MayBet, MayRaise, MayAllIn
<1>3. ~OtherActs
  BY <1>2 DEF OtherActs, Act
<1>4. ~TableGoes
  BY <1>1 DEF TableGoes, DealStreet, NextStreet, OpenStreet, Settle, SettleWith, BettingOver,
              StartHand, StartHandFrom, RoundClosed
<1> QED
  BY <1>1, <1>3, <1>4 DEF GameBegins, GameOver

\* Nothing in the channel is typed, and never timed.
LEMMA NothingTyped == Nothing \in Actions /\ ~Nothing.timed /\ Nothing.kind = "None"
BY DEF Nothing, Move, Sized, Actions

\* An action decided for an earlier decision is still an action.
LEMMA StaleTyped ==
  ASSUME NEW a \in Actions
  PROVE  /\ Stale(a) \in Actions
         /\ Stale(a).kind = a.kind
         /\ Stale(a).timed = a.timed
         /\ a # Nothing => Stale(a).stale
         /\ a = Nothing => Stale(a) = Nothing
BY DEF Stale, Actions

-----------------------------------------------------------------------------
(* The inductive invariant of the window *)

\* The window opens on nothing.
LEMMA AppInitHolds == AppInit => AppIInv
<1> SUFFICES ASSUME AppInit PROVE AppIInv
  OBVIOUS
<1>1. SessionIInv
  BY SessionInitHolds DEF AppInit
<1>2. RoundWithinHand
  <2>1. committed = total /\ committed \in [Seat -> Nat]
    BY <1>1 DEF AppInit, SessionInit, NewHand, SessionIInv, IInv, TypeOK
  <2> QED BY <2>1 DEF RoundWithinHand
<1>3. 0 \in Seat
  BY SeatCount DEF Seat
<1>4. bar \in Bounds /\ betTo \in Nat
  BY DEF AppInit, NoLegal, Bounds
<1> QED
  BY <1>1, <1>2, <1>3, <1>4, NothingTyped
     DEF AppInit, AppIInv, AppTypeOK, GameIInv, TakenInTurn, GoneIsEmpty, LobbyIsQuiet, ClockFits,
         EndOnGrid

\* A step that leaves the hand, the connection and the channel alone.
LEMMA QuietStep ==
  ASSUME AppIInv, GameIInv', UNCHANGED <<allVars, conn, begun, me, taken, chosen>>,
         wasMyTurn' \in BOOLEAN, submitted' \in BOOLEAN, bar' \in Bounds, betTo' \in Nat, screen' \in {"Host", "Grid"},
         tile' \in BOOLEAN, leave' \in {"none", "Confirm", "Processing"},
         lifecycle' \in {"Idle", "Waiting", "Connecting", "Playing", "GameOver", "Error"},
         ~begun => ~wasMyTurn' /\ ~submitted', EndOnGrid'
  PROVE  AppIInv'
<1>1. UNCHANGED <<toAct, live, currentBet, committed>>
  BY DEF allVars, vars, seatVars, raiseVars
<1>2. AppTypeOK'
  BY DEF AppIInv, AppTypeOK
<1>3. TakenInTurn' /\ GoneIsEmpty' /\ LobbyIsQuiet'
  BY <1>1 DEF AppIInv, TakenInTurn, GoneIsEmpty, LobbyIsQuiet, MyTurn, Turn
<1>4. ClockFits(chosen)' /\ ClockFits(taken)'
  BY <1>1 DEF AppIInv, ClockFits, MyTurn, Turn, ToCall
<1> QED
  BY <1>2, <1>3, <1>4 DEF AppIInv

\* A step after which the channel is empty.
LEMMA EmptyStep ==
  ASSUME AppIInv, GameIInv', taken' = Nothing, chosen' = Nothing, me' \in Seat,
         conn' \in {"none", "running", "GameOver", "Error"},
         bar' \in Bounds, betTo' \in Nat, begun' \in BOOLEAN, wasMyTurn' \in BOOLEAN, submitted' \in BOOLEAN,
         screen' \in {"Host", "Grid"}, tile' \in BOOLEAN,
         leave' \in {"none", "Confirm", "Processing"},
         lifecycle' \in {"Idle", "Waiting", "Connecting", "Playing", "GameOver", "Error"},
         ~begun' => ~wasMyTurn' /\ ~submitted', EndOnGrid'
  PROVE  AppIInv'
<1>1. Nothing' = Nothing
  BY DEF Nothing, Move, Sized
<1>2. AppTypeOK'
  BY NothingTyped DEF AppTypeOK, Actions
<1>3. TakenInTurn' /\ GoneIsEmpty' /\ LobbyIsQuiet'
  BY <1>1 DEF TakenInTurn, GoneIsEmpty, LobbyIsQuiet
<1>4. ClockFits(chosen)' /\ ClockFits(taken)'
  BY NothingTyped DEF ClockFits
<1> QED
  BY <1>2, <1>3, <1>4 DEF AppIInv

\* The driver's steps keep the invariant.
LEMMA DriverKeeps ==
  ASSUME AppIInv, Driver, GameIInv'
  PROVE  AppIInv'
<1>1. AppTypeOK /\ LobbyIsQuiet /\ EndOnGrid
  BY DEF AppIInv
<1>2. ASSUME NEW outcome \in {"GameOver", "Error"}, Finish(outcome)
      PROVE  AppIInv'
  <2>1. EndOnGrid'
    BY <1>2 DEF Finish, EndOnGrid
  <2> QED BY <1>1, <1>2, <2>1, EmptyStep DEF Finish, AppTypeOK, LobbyIsQuiet, shellVars, clockVars, barVars
<1>3. CASE GameFails \/ GameOver \/ PeerLeaves \/ ApplyFails
  BY <1>2, <1>3 DEF GameFails, GameOver, PeerLeaves, ApplyFails
<1>4. CASE GameBegins
  <2>1. EndOnGrid'
    BY <1>4 DEF GameBegins, Driving, EndOnGrid
  <2>2. chosen' = Nothing /\ taken' = Nothing
    BY <1>1, <1>4 DEF GameBegins, LobbyIsQuiet
  <2> QED BY <1>1, <1>4, <2>1, <2>2, EmptyStep DEF GameBegins, AppTypeOK, shellVars, clockVars, barVars
<1>5. CASE OtherActs \/ TableGoes
  <2>1. /\ conn = "running" /\ begun /\ taken = Nothing
        /\ UNCHANGED <<taken, chosen, conn, begun, me, shellVars, clockVars, barVars>>
    BY <1>5 DEF OtherActs, TableGoes, Driving, DriverStep
  <2>2. ~MyTurn
    BY <1>1, <1>5, TurnHolds DEF AppTypeOK
  <2>3. AppTypeOK' /\ EndOnGrid'
    BY <1>1, <2>1 DEF AppTypeOK, EndOnGrid, shellVars, clockVars, barVars
  <2>4. TakenInTurn' /\ GoneIsEmpty' /\ LobbyIsQuiet'
    <3>1. Nothing' = Nothing
      BY DEF Nothing, Move, Sized
    <3> QED BY <2>1, <3>1 DEF TakenInTurn, GoneIsEmpty, LobbyIsQuiet
  <2>5. ClockFits(chosen)' /\ ClockFits(taken)'
    <3>1. chosen.timed => chosen.kind \in {"Check", "Fold"} /\ chosen.stale
      BY <2>2 DEF AppIInv, ClockFits
    <3>2. chosen' = chosen /\ taken' = Nothing
      BY <2>1
    <3> QED BY <3>1, <3>2, NothingTyped DEF ClockFits
  <2> QED BY <2>3, <2>4, <2>5 DEF AppIInv
<1>6. CASE Take
  <2>1. /\ conn = "running" /\ chosen # Nothing /\ chosen' = Nothing
        /\ taken' = IF MyTurn THEN chosen ELSE Nothing
        /\ UNCHANGED <<conn, begun, me, shellVars, clockVars, barVars>>
        /\ UNCHANGED <<toAct, live, currentBet, committed>>
    BY <1>6 DEF Take, Driving, DriverStep, allVars, vars, seatVars, raiseVars
  <2>2. begun
    BY <1>1, <2>1 DEF LobbyIsQuiet
  <2>3. AppTypeOK' /\ EndOnGrid'
    BY <1>1, <2>1, NothingTyped DEF AppTypeOK, EndOnGrid, shellVars, clockVars, barVars
  <2>4. TakenInTurn' /\ GoneIsEmpty' /\ LobbyIsQuiet'
    <3>1. Nothing' = Nothing
      BY DEF Nothing, Move, Sized
    <3> QED BY <2>1, <2>2, <3>1 DEF TakenInTurn, GoneIsEmpty, LobbyIsQuiet, MyTurn, Turn
  <2>5. ClockFits(chosen)'
    BY <2>1, NothingTyped DEF ClockFits
  <2>6. ClockFits(taken)'
    <3>1. CASE taken' = Nothing
      BY <3>1, NothingTyped DEF ClockFits
    <3>2. CASE taken' = chosen
      BY <2>1, <3>2 DEF AppIInv, ClockFits, MyTurn, Turn, ToCall
    <3> QED BY <2>1, <3>1, <3>2
  <2> QED BY <2>3, <2>4, <2>5, <2>6 DEF AppIInv
<1>7. CASE Apply
  <2>1. /\ conn = "running" /\ taken # Nothing /\ taken' = Nothing /\ chosen' = Stale(chosen)
        /\ UNCHANGED <<conn, begun, me, shellVars, clockVars, barVars>>
    BY <1>7 DEF Apply, DriverStep
  <2>2. begun /\ chosen \in Actions
    BY <1>1, <2>1 DEF AppTypeOK, LobbyIsQuiet
  <2>3. AppTypeOK' /\ EndOnGrid'
    BY <1>1, <2>1, <2>2, NothingTyped, StaleTyped
       DEF AppTypeOK, EndOnGrid, shellVars, clockVars, barVars, Actions
  <2>4. TakenInTurn' /\ GoneIsEmpty' /\ LobbyIsQuiet'
    <3>1. Nothing' = Nothing
      BY DEF Nothing, Move, Sized
    <3> QED BY <2>1, <2>2, <3>1 DEF TakenInTurn, GoneIsEmpty, LobbyIsQuiet
  <2>5. ClockFits(taken)'
    BY <2>1, NothingTyped DEF ClockFits
  <2>6. ClockFits(chosen)'
    <3>1. chosen'.timed => chosen.timed /\ chosen # Nothing
      BY <2>1, <2>2, StaleTyped, NothingTyped
    <3>2. chosen'.timed => chosen'.kind = chosen.kind /\ chosen'.stale
      BY <2>1, <2>2, <3>1, StaleTyped
    <3> QED BY <3>1, <3>2 DEF AppIInv, ClockFits
  <2> QED BY <2>3, <2>4, <2>5, <2>6 DEF AppIInv
<1> QED
  BY <1>3, <1>4, <1>5, <1>6, <1>7 DEF Driver

\* A step that puts something into the channel, if it is free and the driver runs.
LEMMA SendStep ==
  ASSUME AppIInv, GameIInv',
         UNCHANGED <<allVars, conn, begun, me, taken, shellVars, wasMyTurn>>,
         bar' \in Bounds, betTo' \in Nat, begun, submitted' \in BOOLEAN, chosen' \in Actions,
         chosen' # chosen => conn = "running",
         ClockFits(chosen)'
  PROVE  AppIInv'
<1>1. UNCHANGED <<toAct, live, currentBet, committed>>
  BY DEF allVars, vars, seatVars, raiseVars
<1>2. AppTypeOK' /\ EndOnGrid'
  BY DEF AppIInv, AppTypeOK, EndOnGrid, shellVars
<1>3. TakenInTurn' /\ GoneIsEmpty' /\ LobbyIsQuiet'
  BY <1>1 DEF AppIInv, TakenInTurn, GoneIsEmpty, LobbyIsQuiet, MyTurn, Turn
<1>4. ClockFits(taken)'
  BY <1>1 DEF AppIInv, ClockFits, MyTurn, Turn, ToCall
<1> QED
  BY <1>2, <1>3, <1>4 DEF AppIInv

\* The bounds a table is painted with, and the size its stepper is left at.
LEMMA OfferTyped ==
  ASSUME GameIInv, me \in Seat
  PROVE  Offer \in Bounds
<1>1. /\ stack[me] \in Nat /\ committed[me] \in Nat
      /\ currentBet \in Nat /\ minRaise \in Nat /\ BigBlind \in Nat
  BY Blinds DEF GameIInv, SessionIInv, IInv, TypeOK
<1>2. Legal(me) \in Bounds
  BY <1>1 DEF Legal, Bounds, AtMost, CanRaise
<1>3. NoLegal \in Bounds
  BY DEF NoLegal, Bounds
<1> QED
  BY <1>2, <1>3 DEF Offer

LEMMA PaintTyped ==
  ASSUME GameIInv, AppTypeOK, NEW delta \in Clicks, Paint(delta)
  PROVE  bar' \in Bounds /\ betTo' \in Nat
<1>1. Offer \in Bounds /\ bar \in Bounds /\ betTo \in Nat
  BY OfferTyped DEF AppTypeOK
<1>2. \A legal \in Bounds : SizingStep(legal) \in Nat /\ Least(legal) \in Nat /\ legal.maxTo \in Nat
  BY DEF Bounds, SizingStep, Least
<1>3. delta \in Int
  BY <1>1, <1>2 DEF Clicks
<1>4. \A n \in Int : \A lo, hi \in Nat : Clamp(n, lo, hi) \in Nat
  BY DEF Clamp, AtMost
<1>5. ASSUME NEW n \in Nat, NEW d \in Int PROVE Resized(n, d, Offer) \in Nat
  <2>1. Least(Offer) \in Nat /\ Offer.maxTo \in Nat
    BY <1>1, <1>2
  <2>2. n + d \in Int
    OBVIOUS
  <2> QED BY <1>4, <2>1, <2>2 DEF Resized
<1>6. betTo' \in {Resized(Least(Offer), 0, Offer), Resized(betTo, delta, Offer)}
  BY DEF Paint
<1> QED
  BY <1>1, <1>2, <1>3, <1>5, <1>6 DEF Paint

\* The window's steps keep the invariant.
LEMMA WindowKeeps ==
  ASSUME AppIInv, Window, GameIInv'
  PROVE  AppIInv'
<1>1. /\ AppTypeOK /\ LobbyIsQuiet /\ EndOnGrid /\ GoneIsEmpty /\ GameIInv
      /\ live \in BOOLEAN /\ MyTurn \in BOOLEAN
  BY DEF AppIInv, GameIInv, SessionIInv, SessionTypeOK, AppTypeOK, MyTurn, Turn
<1>2. ASSUME NEW seat \in Seat, StartAs(seat) PROVE AppIInv'
  <2>1. EndOnGrid'
    BY <1>2 DEF StartAs, EndOnGrid
  <2>2. chosen' = Nothing /\ taken' = Nothing
    BY <1>1, <1>2 DEF StartAs, GoneIsEmpty
  <2> QED BY <1>1, <1>2, <2>1, <2>2, EmptyStep DEF StartAs, ResetTurn, AppTypeOK
<1>3. ASSUME NEW delta \in Clicks, Frame(delta) PROVE AppIInv'
  <2>1. EndOnGrid'
    BY <1>3 DEF Frame, driverVars, EndOnGrid
  <2>2. submitted' \in BOOLEAN /\ wasMyTurn' \in BOOLEAN /\ (~begun => ~wasMyTurn' /\ ~submitted')
    BY <1>1, <1>3 DEF Frame, AppTypeOK, MyTurn
  <2>3. lifecycle' \in {"Waiting", "Connecting", "Playing"}
    BY <1>3 DEF Frame, SnapshotConn
  <2>4. bar' \in Bounds /\ betTo' \in Nat
    BY <1>1, <1>3, PaintTyped DEF Frame
  <2> QED BY <1>1, <1>3, <2>1, <2>2, <2>3, <2>4, QuietStep DEF Frame, driverVars, AppTypeOK
<1>4. CASE Reap
  <2>1. EndOnGrid'
    BY <1>1, <1>4 DEF Reap, EndOnGrid, SilentScreen, Ended, AppTypeOK
  <2>2. chosen' = Nothing /\ taken' = Nothing
    BY <1>1, <1>4 DEF Reap, Ended, GoneIsEmpty
  <2>3. screen' \in {"Host", "Grid"} /\ lifecycle' \in {"GameOver", "Error"}
    BY <1>1, <1>4 DEF Reap, SilentScreen, Ended, AppTypeOK
  <2>4. bar' \in Bounds
    BY <1>4 DEF Reap, NoLegal, Bounds
  <2> QED BY <1>1, <1>4, <2>1, <2>2, <2>3, <2>4, EmptyStep DEF Reap, ResetTurn, AppTypeOK
<1>5. ASSUME NEW delta \in Clicks, Expire(delta) PROVE AppIInv'
  <2>1. /\ conn = "running" /\ MyTurn /\ begun /\ submitted' = TRUE
        /\ Send(Timed(MapAction(TimeoutAct(Offer), Offer)))
        /\ UNCHANGED <<allVars, driverVars, shellVars, wasMyTurn>>
        /\ UNCHANGED <<toAct, live, currentBet, committed>>
        /\ bar' \in Bounds /\ betTo' \in Nat
    BY <1>1, <1>5, PaintTyped DEF Expire, MyTurn, allVars, vars, seatVars, raiseVars
  <2>2. CASE chosen' = chosen
    <3>1. ClockFits(chosen)' /\ chosen' \in Actions
      BY <1>1, <2>1, <2>2 DEF AppIInv, AppTypeOK, ClockFits, MyTurn, Turn, ToCall, driverVars
    <3> QED BY <2>1, <2>2, <3>1, SendStep DEF driverVars
  <2>3. CASE chosen' = [Move(IF ToCall(me) = 0 THEN "Check" ELSE "Fold") EXCEPT !.timed = TRUE]
    <3>1. chosen' \in Actions /\ chosen'.kind = IF ToCall(me) = 0 THEN "Check" ELSE "Fold"
      BY <2>3 DEF Move, Sized, Actions
    <3>2. MyTurn' /\ ToCall(me)' = ToCall(me)
      BY <2>1 DEF MyTurn, Turn, ToCall, driverVars
    <3>3. ClockFits(chosen)'
      BY <3>1, <3>2 DEF ClockFits
    <3> QED BY <2>1, <3>1, <3>3, SendStep DEF driverVars
  <2> QED BY <2>1, <2>2, <2>3, ExpireSends
<1>6. CASE Submit
  <2>1. /\ conn # "none" /\ UNCHANGED <<allVars, driverVars, shellVars, wasMyTurn>>
        /\ UNCHANGED <<toAct, live, currentBet, committed>>
        /\ bar' \in Bounds /\ betTo' \in Nat
    BY <1>1, <1>6 DEF Submit, AppTypeOK, barVars, allVars, vars, seatVars, raiseVars
  <2>2. PICK act \in InReach : /\ Send(MapAction(act, Offer))
                              /\ submitted' = (submitted \/ MapAction(act, Offer) # {})
    BY <1>6 DEF Submit
  <2>3. act \in Acts(betTo) /\ betTo \in Nat /\ begun /\ submitted' \in BOOLEAN
    <3>1. act \in Acts(betTo)
      BY <2>2 DEF InReach, Buttons, Keys, When, Acts
    <3> QED BY <1>1, <2>2, <3>1 DEF InReach, LobbyIsQuiet, MyTurn, AppTypeOK
  <2>4. CASE chosen' = chosen
    <3>1. ClockFits(chosen)' /\ chosen' \in Actions
      BY <1>1, <2>1, <2>4 DEF AppIInv, AppTypeOK, ClockFits, MyTurn, Turn, ToCall, driverVars
    <3> QED BY <2>1, <2>3, <2>4, <3>1, SendStep DEF driverVars
  <2>5. CASE conn = "running" /\ chosen' \in Actions /\ ~chosen'.timed
    <3>1. ClockFits(chosen)'
      BY <2>5 DEF ClockFits
    <3> QED BY <2>1, <2>3, <2>5, <3>1, SendStep DEF driverVars
  <2> QED BY <1>1, <2>2, <2>3, <2>4, <2>5, SubmitSends DEF AppTypeOK
<1>7. CASE BeginLeave \/ ConfirmLeave \/ StayAtTable
  <2>1. /\ UNCHANGED <<allVars, driverVars, chosen, screen, lifecycle, tile, clockVars, barVars>>
        /\ leave' \in {"none", "Confirm", "Processing"}
    BY <1>7 DEF BeginLeave, ConfirmLeave, StayAtTable, LeaveStage
  <2>2. EndOnGrid'
    BY <1>1, <2>1 DEF EndOnGrid, driverVars
  <2> QED BY <1>1, <2>1, <2>2, QuietStep DEF driverVars, clockVars, barVars, AppTypeOK, LobbyIsQuiet
<1>8. CASE FinishLeave
  <2>1. EndOnGrid'
    BY <1>8 DEF FinishLeave, EndOnGrid
  <2>2. bar' \in Bounds
    BY <1>8 DEF FinishLeave, NoLegal, Bounds
  <2> QED BY <1>1, <1>8, <2>1, <2>2, EmptyStep DEF FinishLeave, ResetTurn, AppTypeOK
<1> QED
  BY <1>2, <1>3, <1>4, <1>5, <1>6, <1>7, <1>8 DEF Window

\* Every step keeps the invariant of window, driver and game.
LEMMA AppNextKeeps == AppIInv /\ [AppNext]_appVars => AppIInv'
<1> SUFFICES ASSUME AppIInv, [AppNext]_appVars PROVE AppIInv'
  OBVIOUS
<1>1. GameIInv'
  BY GameKept
<1>2. CASE UNCHANGED appVars
  <2>1. EndOnGrid'
    BY <1>2 DEF AppIInv, EndOnGrid, appVars, driverVars, shellVars
  <2> QED BY <1>1, <1>2, <2>1, QuietStep
             DEF appVars, driverVars, shellVars, clockVars, barVars, AppIInv, AppTypeOK, LobbyIsQuiet
<1> QED
  BY <1>1, <1>2, DriverKeeps, WindowKeeps DEF AppNext

\* Whatever is clicked, whenever the clock runs out and however a connection ends.
THEOREM WindowInvariant == AppSpec => []AppIInv
BY AppInitHolds, AppNextKeeps, PTL DEF AppSpec

-----------------------------------------------------------------------------
(* The theorems of the window *)

\* No clock and no action of an earlier connection reaches the next one.
THEOREM ConnectionsStartFresh == AppSpec => []FreshConnection
<1>1. AppIInv => FreshConnection
  BY DEF AppIInv, LobbyIsQuiet, FreshConnection
<1> QED
  BY <1>1, WindowInvariant, PTL

\* A game that ended is never left unsaid on the host screen.
THEOREM EndsAreReported == AppSpec => []EndIsReported
<1>1. AppIInv => EndIsReported
  BY DEF AppIInv, EndOnGrid, EndIsReported
<1> QED
  BY <1>1, WindowInvariant, PTL

\* What the player sees of a hand in which it is its turn.
LEMMA TurnFacts ==
  ASSUME AppIInv, MyTurn
  PROVE  /\ me \in Seat /\ Turn(me) /\ Offer = Legal(me)
         /\ stack[me] \in Nat /\ committed[me] \in Nat /\ starting[me] \in Nat
         /\ currentBet \in Nat /\ minRaise \in Nat /\ minRaise >= BigBlind
         /\ BigBlind \in Nat /\ BigBlind > 0
         /\ committed[me] <= currentBet
         /\ stack[me] + committed[me] <= starting[me]
<1>1. me \in Seat /\ Turn(me) /\ Offer = Legal(me)
  BY DEF AppIInv, AppTypeOK, MyTurn, Offer
<1>2. IInv /\ RoundWithinHand
  BY DEF AppIInv, GameIInv, SessionIInv
<1>3. /\ stack[me] \in Nat /\ committed[me] \in Nat /\ starting[me] \in Nat /\ total[me] \in Nat
      /\ currentBet \in Nat /\ minRaise \in Nat
  BY <1>1, <1>2 DEF IInv, TypeOK
<1>4. minRaise >= BigBlind /\ committed[me] <= currentBet
  BY <1>1, <1>2 DEF IInv, RaiseLine, NobodyAboveCurrentBet
<1>5. stack[me] + total[me] = starting[me] /\ committed[me] <= total[me]
  BY <1>1, <1>2 DEF IInv, ContributionsExact, RoundWithinHand
<1>6. BigBlind \in Nat /\ BigBlind > 0
  BY Blinds
<1> QED
  BY <1>1, <1>3, <1>4, <1>5, <1>6

\* A number between the bounds is what it is clamped to, any other one of the bounds.
LEMMA ClampBounds ==
  ASSUME NEW n \in Nat, NEW lo \in Nat, NEW hi \in Nat, lo <= hi
  PROVE  /\ Clamp(n, lo, hi) \in Nat
         /\ lo <= Clamp(n, lo, hi) /\ Clamp(n, lo, hi) <= hi
         /\ lo <= n /\ n <= hi => Clamp(n, lo, hi) = n
BY DEF Clamp, AtMost

\* What the check-or-call button does.
LEMMA CheckCallMaps ==
  ASSUME NEW act, act.kind = "CheckCall", ToCall(me) \in Int, stack[me] \in Nat,
         Offer = Legal(me)
  PROVE  MapAction(act, Offer) =
           IF ToCall(me) = 0 THEN {Move("Check")}
           ELSE IF ToCall(me) > 0 /\ stack[me] > 0
             THEN IF ToCall(me) >= stack[me] THEN {Move("AllIn")} ELSE {Move("Call")}
             ELSE {}
<1>1. MapAction(act, Offer) =
        IF Offer.canCheck THEN {Move("Check")}
        ELSE IF Offer.callIsAllIn THEN {Move("AllIn")}
        ELSE When(Offer.canCall, Move("Call"))
  BY DEF MapAction
<1>2. /\ Offer.canCheck <=> ToCall(me) = 0
      /\ Offer.callIsAllIn <=> ToCall(me) > 0 /\ stack[me] > 0 /\ ToCall(me) >= stack[me]
      /\ Offer.canCall <=> ToCall(me) > 0 /\ stack[me] > 0
  BY DEF Legal
<1> QED
  BY <1>1, <1>2 DEF When

\* Whatever the player chooses from what the window offers, the engine takes it, unless
\* it is a raise of a seat whose right to raise is closed.
LEMMA OfferIsTaken ==
  ASSUME AppIInv, MyTurn, NEW size \in Nat, NEW act \in Acts(size),
         NEW a \in MapAction(act, Offer)
  PROVE  Accepts(a) \/ (a.kind = "Raise" /\ acted[me])
<1>1. /\ me \in Seat /\ Turn(me) /\ Offer = Legal(me)
      /\ stack[me] \in Nat /\ committed[me] \in Nat /\ starting[me] \in Nat
      /\ currentBet \in Nat /\ minRaise \in Nat /\ minRaise >= BigBlind
      /\ BigBlind \in Nat /\ BigBlind > 0
      /\ committed[me] <= currentBet
  BY TurnFacts
<1>2. /\ act.to \in Nat
      /\ act.kind \in {"Fold", "CheckCall", "AllIn", "Bet", "Raise"}
      /\ act.kind = "Fold" => act = Move("Fold")
      /\ act.kind = "AllIn" => act = Move("AllIn")
  BY <1>1 DEF Acts, Move, Sized
<1>3. CASE act.kind = "Fold"
  <2>1. a.kind = "Fold"
    BY <1>2, <1>3 DEF MapAction, Move, Sized
  <2> QED BY <1>1, <2>1 DEF Accepts
<1>4. CASE act.kind = "AllIn"
  <2>1. a.kind = "AllIn" /\ stack[me] > 0
    BY <1>1, <1>2, <1>4 DEF MapAction, When, Legal, Move, Sized
  <2> QED BY <1>1, <2>1 DEF Accepts, MayAllIn
<1>5. CASE act.kind = "CheckCall"
  <2>1. \/ a.kind = "Check" /\ ToCall(me) = 0
        \/ a.kind = "AllIn" /\ stack[me] > 0
        \/ a.kind = "Call" /\ ToCall(me) > 0
    <3>1. ToCall(me) \in Int
      BY <1>1 DEF ToCall
    <3> QED BY <1>1, <1>5, <3>1, CheckCallMaps DEF Move, Sized
  <2> QED BY <1>1, <2>1 DEF Accepts, MayCheck, MayCall, MayAllIn
<1>6. CASE act.kind = "Bet"
  <2> DEFINE lo == AtMost(BigBlind, stack[me])
             hi == stack[me] + committed[me]
  <2>1. a = Sized("Bet", Clamp(act.to, lo, hi)) /\ currentBet = 0 /\ stack[me] > 0
    BY <1>1, <1>6 DEF MapAction, When, Legal
  <2>2. hi = stack[me] /\ lo \in Nat /\ hi \in Nat /\ lo <= hi
        /\ (lo = BigBlind \/ lo = stack[me])
    BY <1>1, <2>1 DEF AtMost
  <2>3. /\ a.kind = "Bet" /\ a.to \in Nat /\ lo <= a.to /\ a.to <= hi
    <3> HIDE DEF lo, hi
    <3> QED BY <1>2, <2>1, <2>2, ClampBounds DEF Sized
  <2>4. MayBet(me, a.to)
    BY <1>1, <2>1, <2>2, <2>3 DEF MayBet
  <2> QED BY <2>3, <2>4 DEF Accepts
<1>7. CASE act.kind = "Raise"
  <2> DEFINE lo == AtMost(currentBet + minRaise, stack[me] + committed[me])
             hi == stack[me] + committed[me]
  <2>1. a = Sized("Raise", Clamp(act.to, lo, hi)) /\ currentBet > 0 /\ stack[me] > ToCall(me)
    BY <1>1, <1>7 DEF MapAction, When, Legal, CanRaise
  <2>2. /\ lo \in Nat /\ hi \in Nat /\ lo <= hi /\ lo > currentBet
        /\ (lo = currentBet + minRaise \/ lo = hi)
    BY <1>1, <2>1 DEF AtMost, ToCall
  <2>3. /\ a.kind = "Raise" /\ a.to \in Nat /\ lo <= a.to /\ a.to <= hi
    <3> HIDE DEF lo, hi
    <3> QED BY <1>2, <2>1, <2>2, ClampBounds DEF Sized
  <2>4. ~acted[me] => MayRaise(me, a.to)
    BY <1>1, <2>1, <2>2, <2>3 DEF MayRaise, MayReopen
  <2> QED BY <2>3, <2>4 DEF Accepts
<1> QED
  BY <1>2, <1>3, <1>4, <1>5, <1>6, <1>7

\* What the window offers is what the engine takes, for every table, blinds, stacks and
\* sizes.
THEOREM OffersTaken == AppSpec => []OffersAreAccepted
<1>1. AppIInv /\ MyTurn => 0 .. starting[me] \subseteq Nat
  BY TurnFacts
<1>2. AppIInv => OffersAreAccepted
  BY <1>1, OfferIsTaken DEF OffersAreAccepted, Refused
<1> QED
  BY <1>2, WindowInvariant, PTL

\* Steps of one size from the lower bound come to within one of them of any number
\* between the bounds, and are not clamped.
LEMMA StepsReach ==
  ASSUME NEW lo \in Nat, NEW hi \in Nat, NEW step \in Nat, NEW to \in Nat,
         step > 0, lo <= to, to <= hi
  PROVE  \E steps \in 0 .. hi : \E n \in Nat :
           /\ n = Clamp(lo + steps * step, lo, hi)
           /\ lo <= n /\ n <= to /\ to < n + step
<1> DEFINE steps == (to - lo) \div step
<1>1. steps \in Nat /\ steps * step <= to - lo /\ to - lo < steps * step + step
  <2>1. to - lo \in Nat
    OBVIOUS
  <2>2. \A x \in Nat : /\ x \div step \in Nat
                     /\ (x \div step) * step <= x /\ x < (x \div step) * step + step
    BY SMT
  <2> QED BY <2>1, <2>2
<1> HIDE DEF steps
<1>2. steps <= steps * step /\ steps * step \in Nat
  BY <1>1, SMT
<1> DEFINE gone == steps * step
<1>3. gone \in Nat /\ steps <= gone /\ gone <= to - lo /\ to - lo < gone + step
  BY <1>1, <1>2
<1> HIDE DEF gone
<1>4. steps \in 0 .. hi /\ lo + gone \in Nat /\ lo <= lo + gone /\ lo + gone <= hi
  BY <1>1, <1>3
<1>5. Clamp(lo + gone, lo, hi) = lo + gone
  BY <1>4, ClampBounds
<1>6. lo + gone <= to /\ to < lo + gone + step
  BY <1>3
<1> QED
  BY <1>4, <1>5, <1>6 DEF gone

\* What the engine takes can be chosen.
LEMMA MoveIsOffered ==
  ASSUME AppIInv, MyTurn, NEW a \in Moves, Accepts(a),
         ~(a.kind \in {"Bet", "Call"} /\ stack[me] = 0)
  PROVE  \/ a.kind = "Call" /\ MapAction(Move("CheckCall"), Offer) = {Move("AllIn")}
         \/ a.kind \in {"Bet", "Raise"} /\ NearlyOffered(a)
         \/ a.kind \notin {"Bet", "Raise"} /\ \E act \in Acts(0) : a \in MapAction(act, Offer)
<1>1. /\ me \in Seat /\ Turn(me) /\ Offer = Legal(me)
      /\ stack[me] \in Nat /\ committed[me] \in Nat /\ starting[me] \in Nat
      /\ currentBet \in Nat /\ minRaise \in Nat /\ minRaise >= BigBlind
      /\ BigBlind \in Nat /\ BigBlind > 0
      /\ committed[me] <= currentBet
      /\ stack[me] + committed[me] <= starting[me]
  BY TurnFacts
<1>2. /\ a.kind \in {"Fold", "Check", "Call", "AllIn", "Bet", "Raise"}
      /\ a = Sized(a.kind, a.to) /\ a.to \in Int
      /\ a.kind \in {"Fold", "Check", "Call", "AllIn"} => a = Move(a.kind)
  BY DEF Moves, Move, Sized
<1>3. Move("Fold") \in Acts(0) /\ Move("CheckCall") \in Acts(0) /\ Move("AllIn") \in Acts(0)
  BY DEF Acts
<1>4. /\ Offer.minBet = AtMost(BigBlind, stack[me])
      /\ Offer.minRaiseTo = AtMost(currentBet + minRaise, stack[me] + committed[me])
      /\ Offer.maxTo = stack[me] + committed[me]
      /\ Offer.canBet <=> currentBet = 0 /\ stack[me] > 0
      /\ Offer.canRaise <=> CanRaise(me)
  BY <1>1 DEF Legal
<1>5. CASE a.kind = "Fold"
  <2>1. a \in MapAction(Move("Fold"), Offer)
    BY <1>2, <1>5 DEF MapAction, Move, Sized
  <2> QED BY <1>5, <1>3, <2>1
<1>6. CASE a.kind = "AllIn"
  <2>1. stack[me] > 0
    BY <1>1, <1>6 DEF Accepts, MayAllIn
  <2>2. a \in MapAction(Move("AllIn"), Offer)
    BY <1>1, <1>2, <1>6, <2>1 DEF MapAction, When, Legal, Move, Sized
  <2> QED BY <1>6, <1>3, <2>2
<1>7. CASE a.kind = "Check"
  <2>1. ToCall(me) = 0
    BY <1>7 DEF Accepts, MayCheck
  <2>2. a \in MapAction(Move("CheckCall"), Offer)
    BY <1>1, <1>2, <1>7, <2>1 DEF MapAction, Legal, Move, Sized
  <2> QED BY <1>7, <1>3, <2>2
<1>8. CASE a.kind = "Call"
  <2>1. ToCall(me) > 0 /\ stack[me] > 0 /\ ToCall(me) \in Int
    BY <1>1, <1>8 DEF Accepts, MayCall, ToCall
  <2>2. CASE ToCall(me) >= stack[me]
    <3>1. MapAction(Move("CheckCall"), Offer) = {Move("AllIn")}
      BY <1>1, <2>1, <2>2, CheckCallMaps DEF Move, Sized
    <3> QED BY <1>8, <3>1
  <2>3. CASE ~(ToCall(me) >= stack[me])
    <3>1. a \in MapAction(Move("CheckCall"), Offer)
      BY <1>1, <1>2, <1>8, <2>1, <2>3, CheckCallMaps DEF Move, Sized
    <3> QED BY <1>8, <1>3, <3>1
  <2> QED BY <2>2, <2>3
<1>9. CASE a.kind = "Bet"
  <2> DEFINE lo == Offer.minBet
             hi == Offer.maxTo
             step == SizingStep(Offer)
  <2>1. /\ currentBet = 0 /\ a.to <= stack[me] /\ (a.to >= BigBlind \/ a.to = stack[me])
        /\ stack[me] > 0
    BY <1>1, <1>9 DEF Accepts, MayBet
  <2>2. /\ a.to \in Nat /\ lo \in Nat /\ hi \in Nat /\ lo <= a.to /\ a.to <= hi
        /\ step \in Nat /\ step > 0
    BY <1>1, <1>2, <1>4, <2>1 DEF AtMost, SizingStep
  <2>3. Least(Offer) = lo /\ Offer.canBet
    BY <1>4, <2>1 DEF Least
  <2> HIDE DEF lo, hi, step
  <2>4. PICK clicks \in 0 .. hi : \E n \in Nat :
          n = Clamp(lo + clicks * step, lo, hi) /\ lo <= n /\ n <= a.to /\ a.to < n + step
    BY <2>2, StepsReach
  <2> DEFINE n == Clamp(lo + clicks * step, lo, hi)
  <2>5. n \in Nat /\ lo <= n /\ n <= a.to /\ a.to < n + step
    BY <2>4
  <2>6. SizeAfter(clicks, Offer) = n
    BY <2>3 DEF SizeAfter, Resized, step, hi
  <2> HIDE DEF n
  <2>7. Clamp(n, lo, hi) = n
    <3>1. lo <= hi /\ n <= hi
      BY <2>2, <2>5
    <3> QED BY <2>2, <2>5, <3>1, ClampBounds
  <2>8. MapAction(Sized("Bet", n), Offer) = {Sized("Bet", n)}
    BY <2>3, <2>7 DEF MapAction, When, Sized, lo, hi
  <2>9. NearlyOffered(a)
    BY <1>9, <2>5, <2>6, <2>8 DEF NearlyOffered, step, hi
  <2> QED BY <1>9, <2>9
<1>10. CASE a.kind = "Raise"
  <2> DEFINE lo == Offer.minRaiseTo
             hi == Offer.maxTo
             step == SizingStep(Offer)
  <2>1. /\ currentBet # 0 /\ a.to > currentBet /\ a.to - committed[me] <= stack[me]
        /\ (a.to - currentBet >= minRaise \/ a.to - committed[me] = stack[me])
    BY <1>10 DEF Accepts, MayRaise
  <2>2. stack[me] > 0 /\ CanRaise(me)
    BY <1>1, <1>2, <2>1 DEF CanRaise, ToCall
  <2>3. /\ a.to \in Nat /\ lo \in Nat /\ hi \in Nat /\ lo <= a.to /\ a.to <= hi
        /\ step \in Nat /\ step > 0
    BY <1>1, <1>2, <1>4, <2>1, <2>2 DEF AtMost, SizingStep
  <2>4. Least(Offer) = lo /\ Offer.canRaise
    BY <1>4, <2>1, <2>2 DEF Least
  <2> HIDE DEF lo, hi, step
  <2>5. PICK clicks \in 0 .. hi : \E n \in Nat :
          n = Clamp(lo + clicks * step, lo, hi) /\ lo <= n /\ n <= a.to /\ a.to < n + step
    BY <2>3, StepsReach
  <2> DEFINE n == Clamp(lo + clicks * step, lo, hi)
  <2>6. n \in Nat /\ lo <= n /\ n <= a.to /\ a.to < n + step
    BY <2>5
  <2>7. SizeAfter(clicks, Offer) = n
    BY <2>4 DEF SizeAfter, Resized, step, hi
  <2> HIDE DEF n
  <2>8. Clamp(n, lo, hi) = n
    <3>1. lo <= hi /\ n <= hi
      BY <2>3, <2>6
    <3> QED BY <2>3, <2>6, <3>1, ClampBounds
  <2>9. MapAction(Sized("Raise", n), Offer) = {Sized("Raise", n)}
    BY <2>4, <2>8 DEF MapAction, When, Sized, lo, hi
  <2>10. NearlyOffered(a)
    BY <1>10, <2>6, <2>7, <2>9 DEF NearlyOffered, step, hi
  <2> QED BY <1>10, <2>10
<1> QED
  BY <1>2, <1>5, <1>6, <1>7, <1>8, <1>9, <1>10

\* What the engine takes can be chosen in the window, a bet or a raise to within one
\* click of its stepper, at a table of any size, with any blinds and stacks.
THEOREM MovesOffered == AppSpec => []EveryMoveIsOffered
<1>1. AppIInv => EveryMoveIsOffered
  BY MoveIsOffered DEF EveryMoveIsOffered, Refused
<1> QED
  BY <1>1, WindowInvariant, PTL

\* A step of window or driver while it holds an action of the clock.
LEMMA ClockStep ==
  ASSUME AppIInv, [AppNext]_appVars, taken.timed
  PROVE  /\ begun' => total' = total
         /\ Ended' /\ Refused(taken) => taken.stale
<1>1. /\ taken # Nothing /\ taken.kind \in {"Check", "Fold"}
      /\ taken.stale \/ (Turn(me) /\ (taken.kind = "Check" => ToCall(me) = 0))
  BY NothingTyped DEF AppIInv, ClockFits, MyTurn
<1>2. Refused(taken) => taken.stale
  BY <1>1 DEF Refused, Accepts, MayCheck
<1>3. CASE Apply
  <2>1. Fold(me) \/ Check(me)
    BY <1>1, <1>3 DEF Apply, Perform
  <2> QED BY <1>2, <2>1 DEF Fold, Check, seatVars
<1>4. CASE UNCHANGED allVars
  BY <1>2, <1>4 DEF allVars, vars, seatVars
<1>5. CASE Reap \/ FinishLeave
  BY <1>2, <1>5 DEF Reap, FinishLeave
<1> QED
  BY <1>1, <1>3, <1>4, <1>5
     DEF AppNext, Driver, Window, Driving, GameBegins, GameFails, OtherActs, TableGoes, GameOver,
         PeerLeaves, Take, ApplyFails, Finish, StartAs, Frame, Expire, Submit, BeginLeave,
         ConfirmLeave, StayAtTable, LeaveStage, appVars

\* A timeout costs the player no chips, and ends the game only if the decision it was
\* for had been made.
THEOREM TimeoutsFree == AppSpec => TimeoutsAreFree
<1>1. AppIInv /\ [AppNext]_appVars =>
        [taken.timed =>
           /\ begun' => total' = total
           /\ Ended' /\ Refused(taken) => taken.stale]_appVars
  BY ClockStep
<1> QED
  BY <1>1, WindowInvariant, PTL DEF AppSpec, TimeoutsAreFree
=============================================================================
