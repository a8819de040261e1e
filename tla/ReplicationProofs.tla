-------------------------- MODULE ReplicationProofs --------------------------
(***************************************************************************)
(* Theorems about Replication, for every table size, number of streets,    *)
(* acts considered, retransmissions and losses.                            *)
(***************************************************************************)
EXTENDS Replication, Lemmas, SequenceTheorems

-----------------------------------------------------------------------------
(* One copy of the hand *)

\* The seats still in a hand can be counted.
LEMMA InHandFinite ==
  ASSUME NEW s \in HandCopies
  PROVE  /\ InHand(s) \subseteq Seat
         /\ IsFiniteSet(InHand(s))
         /\ Cardinality(InHand(s)) \in Nat
         /\ InHand(s) = {} <=> Cardinality(InHand(s)) = 0
<1>1. IsFiniteSet(Seat)
  BY SeatCount, FS_Interval DEF Seat
<1>2. InHand(s) \subseteq Seat
  BY DEF InHand
<1>3. QED
  BY <1>1, <1>2, FS_Subset, FS_CardinalityType, FS_EmptySet

\* A hand that starts is a hand nobody has acted in.
LEMMA NewHandOK == HandOK(NewHand) /\ NewHand.moves = <<>>
<1>1. BigBlindSeat \in Seat
  BY SeatCount DEF Seat, BigBlindSeat
<1>2. NextSeat(BigBlindSeat) \in Seat
  BY <1>1, NextSeatType
<1>3. Cardinality(Seat) = N
  BY SeatCount, FS_Interval DEF Seat
<1>4. NewHand \in HandCopies
  BY <1>1, <1>2 DEF NewHand, HandCopies
<1>5. InHand(NewHand) = Seat /\ NewHand.turn \in Seat /\ NewHand.street = 0
  BY <1>2 DEF InHand, NewHand
<1>6. QED
  BY <1>3, <1>4, <1>5, SeatCount, ReplicationConstants DEF HandOK, NewHand

\* Passing the turn changes neither what was done nor who is in the hand.
LEMMA PassTurnKeeps ==
  ASSUME NEW s \in HandCopies, s.street <= LastStreet, InHand(s) # {}, NEW i \in Seat
  PROVE  HandOK(PassTurn(s, i)) /\ PassTurn(s, i).moves = s.moves
<1> DEFINE t == PassTurn(s, i)
<1>1. /\ InHand(s) \subseteq Seat
      /\ Cardinality(InHand(s)) \in Nat /\ Cardinality(InHand(s)) # 0
  BY InHandFinite
<1>2. NextSeat(i) \in Seat /\ NextSeat(Host) \in Seat
  BY NextSeatType, SeatCount DEF Host, Seat
<1>3. NoSeat \notin Seat
  BY DEF NoSeat, Seat
<1>4. CASE Cardinality(InHand(s)) = 1
  <2>1. t = [s EXCEPT !.turn = NoSeat]
    BY <1>4 DEF PassTurn
  <2>2. QED
    BY <2>1 DEF HandOK, HandCopies, Over
<1>5. CASE Cardinality(InHand(s)) > 1 /\ Owing(s) # {}
  <2>1. t = [s EXCEPT !.turn = FirstOf(Owing(s), NextSeat(i))]
    BY <1>1, <1>5 DEF PassTurn
  <2>2. FirstOf(Owing(s), NextSeat(i)) \in InHand(s)
    <3>1. Owing(s) \subseteq Seat /\ Owing(s) \subseteq InHand(s)
      BY <1>1 DEF Owing
    <3>2. QED
      BY <1>2, <1>5, <3>1, FirstOfFinds
  <2>3. /\ t \in HandCopies /\ InHand(t) = InHand(s)
        /\ t.street = s.street /\ t.turn \in InHand(s) /\ t.moves = s.moves
    BY <1>1, <2>1, <2>2 DEF HandCopies, InHand
  <2>4. QED
    BY <1>5, <2>3 DEF HandOK
<1>6. CASE Cardinality(InHand(s)) > 1 /\ Owing(s) = {} /\ s.street = LastStreet
  <2>1. t = [s EXCEPT !.turn = NoSeat]
    BY <1>1, <1>6 DEF PassTurn
  <2>2. QED
    BY <2>1 DEF HandOK, HandCopies, Over
<1>7. CASE Cardinality(InHand(s)) > 1 /\ Owing(s) = {} /\ s.street # LastStreet
  <2> DEFINE first == FirstOf(InHand(s), NextSeat(Host))
  <2>1. t = [s EXCEPT !.street = @ + 1, !.bet = FALSE, !.paid = {}, !.acted = {},
                      !.turn = first]
    BY <1>1, <1>7 DEF PassTurn
  <2>2. first \in InHand(s)
    BY <1>1, <1>2, FirstOfFinds
  <2>3. s.street + 1 \in 0 .. 3 /\ s.street + 1 <= LastStreet
    BY <1>7, ReplicationConstants DEF HandCopies
  <2> HIDE DEF first
  <2>4. /\ t \in HandCopies /\ InHand(t) = InHand(s)
        /\ t.street = s.street + 1 /\ t.turn \in InHand(s) /\ t.moves = s.moves
    BY <1>1, <2>1, <2>2, <2>3 DEF HandCopies, InHand
  <2>5. QED
    BY <1>7, <2>3, <2>4 DEF HandOK
<1>8. QED
  BY <1>1, <1>4, <1>5, <1>6, <1>7

\* Applying an act appends it to what was done, under the name of the seat whose
\* turn it is.
LEMMA ApplyKeeps ==
  ASSUME NEW s, HandOK(s), ~Over(s), NEW move \in Moves
  PROVE  /\ HandOK(Apply(s, move))
         /\ Apply(s, move).moves = Append(s.moves, [seat |-> s.turn, move |-> move])
<1> DEFINE i == s.turn
           t == [s EXCEPT
              !.moves = Append(@, [seat |-> i, move |-> move]),
              !.folded = IF move = "fold" THEN @ \union {i} ELSE @,
              !.bet = @ \/ move = "bet",
              !.paid = IF move = "bet" THEN {i} ELSE @ \union {i},
              !.acted = IF move = "bet" THEN {i} ELSE @ \union {i}]
<1>1. Apply(s, move) = PassTurn(t, i)
  BY DEF Apply
<1>2. /\ s \in HandCopies /\ s.street <= LastStreet
      /\ i \in Seat /\ i \in InHand(s) /\ Cardinality(InHand(s)) > 1
  BY DEF HandOK, InHand
<1>3. Append(s.moves, [seat |-> i, move |-> move]) \in Seq(Played)
  BY <1>2, AppendProperties DEF HandCopies, Played
<1>4. /\ t \in HandCopies /\ t.street = s.street
      /\ t.moves = Append(s.moves, [seat |-> i, move |-> move])
      /\ t.folded \subseteq s.folded \union {i}
  BY <1>2, <1>3 DEF HandCopies
<1>5. InHand(t) # {}
  <2>1. InHand(s) \ {i} \subseteq InHand(t)
    BY <1>4 DEF InHand
  <2>2. InHand(s) # {i}
    <3>1. Cardinality({i}) = 1
      BY FS_Singleton
    <3>2. QED
      BY <1>2, <3>1
  <2>3. QED
    BY <1>2, <2>1, <2>2
<1> HIDE DEF t
<1>6. QED
  BY <1>1, <1>2, <1>4, <1>5, PassTurnKeeps

-----------------------------------------------------------------------------
(* What a link or a history holds *)

\* A message put on a link is the one more it holds.
LEMMA ElementsOfAppend ==
  ASSUME NEW S, NEW seq \in Seq(S), NEW e \in S
  PROVE  Elements(Append(seq, e)) = Elements(seq) \union {e}
<1>1. /\ DOMAIN Append(seq, e) = 1 .. Len(seq) + 1
      /\ DOMAIN seq = 1 .. Len(seq) /\ Len(seq) \in Nat
      /\ Append(seq, e)[Len(seq) + 1] = e
      /\ \A k \in 1 .. Len(seq) : Append(seq, e)[k] = seq[k]
  BY AppendProperties, LenProperties
<1>2. QED
  BY <1>1 DEF Elements

\* A message taken off a link was on it, and adds none.
LEMMA ElementsOfTail ==
  ASSUME NEW S, NEW seq \in Seq(S), seq # <<>>
  PROVE  /\ Head(seq) \in Elements(seq) /\ Head(seq) \in S
         /\ Tail(seq) \in Seq(S) /\ Elements(Tail(seq)) \subseteq Elements(seq)
<1>1. /\ Len(seq) \in Nat \ {0} /\ DOMAIN seq = 1 .. Len(seq)
      /\ Tail(seq) \in Seq(S) /\ Len(Tail(seq)) = Len(seq) - 1
      /\ \A k \in 1 .. Len(Tail(seq)) : Tail(seq)[k] = seq[k + 1]
  BY EmptySeq, LenProperties, HeadTailProperties
<1>2. DOMAIN Tail(seq) = 1 .. Len(seq) - 1
  BY <1>1, LenProperties
<1>3. Head(seq) = seq[1] /\ seq[1] \in S
  BY <1>1
<1>4. QED
  BY <1>1, <1>2, <1>3 DEF Elements

\* What a publication adds to the links.
LEMMA PublishAdds ==
  ASSUME TypeOK, NEW p \in Seat, NEW m \in Messages, Publish(p, m)
  PROVE  /\ up' \in [Guest -> Seq(Messages)]
         /\ down' \in [Guest -> Seq(Messages)]
         /\ \A g \in Guest : \A x \in Elements(up'[g]) :
              x \in Elements(up[g]) \/ (g = p /\ x = m)
         /\ \A g \in Guest : \A x \in Elements(down'[g]) : x \in Elements(down[g]) \/ x = m
         /\ p # Host => down' = down
<1>1. up \in [Guest -> Seq(Messages)] /\ down \in [Guest -> Seq(Messages)]
  BY DEF TypeOK
<1>2. CASE p = Host
  <2>1. down' = [g \in Guest |-> Append(down[g], m)] /\ up' = up
    BY <1>2 DEF Publish
  <2>2. \A g \in Guest : /\ Append(down[g], m) \in Seq(Messages)
                         /\ Elements(Append(down[g], m)) = Elements(down[g]) \union {m}
    BY <1>1, ElementsOfAppend, AppendProperties
  <2>3. QED
    BY <1>1, <1>2, <2>1, <2>2
<1>3. CASE p # Host
  <2>1. p \in Guest
    BY <1>3 DEF Guest
  <2>2. up' = [up EXCEPT ![p] = Append(@, m)] /\ down' = down
    BY <1>3 DEF Publish
  <2>3. /\ Append(up[p], m) \in Seq(Messages)
        /\ Elements(Append(up[p], m)) = Elements(up[p]) \union {m}
    BY <1>1, <2>1, ElementsOfAppend, AppendProperties
  <2>4. QED
    BY <1>1, <1>3, <2>1, <2>2, <2>3
<1>4. QED
  BY <1>2, <1>3

\* What a table gains by taking a message that its turn accepts.
LEMMA TakingKeeps ==
  ASSUME IInv, NEW p \in Seat, NEW m \in Messages,
         m.from \in Guest => m.move \in Decided(m.from),
         Accepts(replica[p], m.from, m.move)
  PROVE  /\ HandOK(Apply(replica[p], m.move))
         /\ \A i \in Guest : Authentic(Apply(replica[p], m.move).moves, i)
<1>1. HandOK(replica[p]) /\ ~Over(replica[p]) /\ m.from = replica[p].turn
  BY DEF IInv, Accepts
<1>2. m.from \in Seat /\ m.move \in Moves
  BY DEF Messages
<1>3. /\ HandOK(Apply(replica[p], m.move))
      /\ Apply(replica[p], m.move).moves =
           Append(replica[p].moves, [seat |-> m.from, move |-> m.move])
  BY <1>1, <1>2, ApplyKeeps
<1>4. replica[p].moves \in Seq(Played) /\ [seat |-> m.from, move |-> m.move] \in Played
  BY <1>1, <1>2 DEF HandOK, HandCopies, Played
<1>5. Elements(Apply(replica[p], m.move).moves) =
        Elements(replica[p].moves) \union {[seat |-> m.from, move |-> m.move]}
  BY <1>3, <1>4, ElementsOfAppend
<1>6. \A i \in Guest : Authentic(replica[p].moves, i)
  BY DEF IInv, GuestMovesAuthentic
<1>7. QED
  BY <1>3, <1>5, <1>6 DEF Authentic

-----------------------------------------------------------------------------
(* No table gives a guest a move it did not make *)

\* An act of the seat whose turn it is keeps the invariant.
LEMMA ActKeeps ==
  ASSUME IInv, NEW p \in Seat, NEW move \in Moves, Act(p, move)
  PROVE  IInv'
<1> DEFINE m == Message(p, move)
           new == Apply(replica[p], move)
<1>1. /\ replica' = [replica EXCEPT ![p] = new]
      /\ lastAct' = [lastAct EXCEPT ![p] = move]
      /\ made' = [made EXCEPT ![p] = Append(@, move)]
      /\ Publish(p, m) /\ UNCHANGED <<ticks, losses>>
  BY DEF Act
<1>2. TypeOK /\ m \in Messages /\ m.from = p /\ m.move = move
  BY DEF IInv, Message, Messages
<1>3. HandOK(replica[p]) /\ ~Over(replica[p]) /\ replica[p].turn = p
  BY DEF IInv, Act, Over, NoSeat, Seat
<1>4. /\ made[p] \in Seq(Moves) /\ Append(made[p], move) \in Seq(Moves)
      /\ Elements(Append(made[p], move)) = Elements(made[p]) \union {move}
  BY <1>2, ElementsOfAppend, AppendProperties DEF TypeOK
<1>5. /\ made' \in [Seat -> Seq(Moves)]
      /\ \A i \in Seat : Decided(i) \subseteq Decided(i)'
      /\ move \in Decided(p)'
  BY <1>1, <1>2, <1>4 DEF TypeOK, Decided
<1>6. /\ HandOK(new)
      /\ new.moves = Append(replica[p].moves, [seat |-> p, move |-> move])
  BY <1>3, ApplyKeeps
<1>7. replica[p].moves \in Seq(Played) /\ [seat |-> p, move |-> move] \in Played
  BY <1>3 DEF HandOK, HandCopies, Played
<1>8. Elements(new.moves) = Elements(replica[p].moves) \union {[seat |-> p, move |-> move]}
  BY <1>6, <1>7, ElementsOfAppend
<1> HIDE DEF new, m
<1>9. \A q \in Seat : replica'[q] = IF q = p THEN new ELSE replica[q]
  BY <1>1, <1>2 DEF TypeOK
<1>10. TypeOK'
  <2>1. lastAct' \in [Seat -> Moves \union {NoAct}]
    BY <1>1, <1>2 DEF TypeOK
  <2>2. replica' \in [Seat -> HandCopies]
    BY <1>1, <1>2, <1>6 DEF TypeOK, HandOK
  <2>3. QED
    BY <1>1, <1>2, <1>5, <2>1, <2>2, PublishAdds DEF TypeOK
<1>11. LinksAuthentic'
  <2>1. ASSUME NEW g \in Guest
        PROVE  \A x \in Elements(up'[g]) : x.from = g /\ x.move \in Decided(g)'
    <3>1. \A x \in Elements(up[g]) : x.from = g /\ x.move \in Decided(g)'
      BY <1>5 DEF IInv, LinksAuthentic, Guest
    <3>2. \A x \in Elements(up'[g]) : x \in Elements(up[g]) \/ (g = p /\ x = m)
      BY <1>1, <1>2, PublishAdds
    <3>3. QED
      BY <1>2, <1>5, <3>1, <3>2
  <2>2. ASSUME NEW g \in Guest
        PROVE  \A x \in Elements(down'[g]) : x.from \in Guest => x.move \in Decided(x.from)'
    <3>1. \A x \in Elements(down[g]) : x.from \in Guest => x.move \in Decided(x.from)'
      BY <1>5 DEF IInv, LinksAuthentic, Guest
    <3>2. \A x \in Elements(down'[g]) : x \in Elements(down[g]) \/ x = m
      BY <1>1, <1>2, PublishAdds
    <3>3. QED
      BY <1>2, <1>5, <3>1, <3>2
  <2>3. ASSUME NEW g \in Guest
        PROVE  lastAct'[g] \in Decided(g)' \union {NoAct}
    BY <1>1, <1>2, <1>5 DEF IInv, LinksAuthentic, TypeOK, Guest
  <2>4. QED
    BY <2>1, <2>2, <2>3 DEF LinksAuthentic
<1>12. GuestMovesAuthentic'
  <2>1. ASSUME NEW q \in Seat, NEW i \in Guest, NEW x \in Elements(replica'[q].moves),
               x.seat = i
        PROVE  x.move \in Decided(i)'
    <3>1. i \in Seat
      BY DEF Guest
    <3>2. CASE x \in Elements(replica[q].moves)
      BY <1>5, <2>1, <3>1, <3>2 DEF IInv, GuestMovesAuthentic, Authentic
    <3>3. CASE x = [seat |-> p, move |-> move]
      BY <1>5, <2>1, <3>3
    <3>4. QED
      BY <1>8, <1>9, <3>2, <3>3
  <2>2. QED
    BY <2>1 DEF GuestMovesAuthentic, Authentic
<1>13. QED
  BY <1>6, <1>9, <1>10, <1>11, <1>12 DEF IInv

\* A table that takes a message, or ignores it, and remembers it or does not.
LEMMA ReceivingKeeps ==
  ASSUME IInv, TypeOK', LinksAuthentic', NEW p \in Seat, NEW m \in Messages,
         m.from \in Guest => m.move \in Decided(m.from),
         UNCHANGED made,
         IF Accepts(replica[p], m.from, m.move)
           THEN replica' = [replica EXCEPT ![p] = Apply(@, m.move)]
           ELSE UNCHANGED replica
  PROVE  IInv'
<1>1. CASE Accepts(replica[p], m.from, m.move)
  <2>1. /\ HandOK(Apply(replica[p], m.move))
        /\ \A i \in Guest : Authentic(Apply(replica[p], m.move).moves, i)
    BY <1>1, TakingKeeps
  <2>2. \A q \in Seat :
          replica'[q] = IF q = p THEN Apply(replica[p], m.move) ELSE replica[q]
    BY <1>1 DEF IInv, TypeOK
  <2>3. \A q \in Seat : HandOK(replica'[q])
    BY <2>1, <2>2 DEF IInv
  <2>4. GuestMovesAuthentic'
    BY <2>1, <2>2 DEF IInv, GuestMovesAuthentic, Authentic, Decided
  <2>5. QED
    BY <2>3, <2>4 DEF IInv
<1>2. CASE ~Accepts(replica[p], m.from, m.move)
  BY <1>2 DEF IInv, GuestMovesAuthentic, Authentic, Decided
<1>3. QED
  BY <1>1, <1>2

\* A message the host takes, refuses or relays keeps it.
LEMMA HostReceivesKeeps ==
  ASSUME IInv, NEW g \in Guest, HostReceives(g)
  PROVE  IInv'
<1> DEFINE m == Head(up[g])
<1>1. /\ up' = [up EXCEPT ![g] = Tail(@)]
      /\ down' = [h \in Guest |-> IF h = g THEN down[h] ELSE Append(down[h], m)]
      /\ UNCHANGED <<made, ticks, losses>>
  BY DEF HostReceives, Forward
<1>2. /\ m \in Elements(up[g]) /\ m \in Messages
      /\ Tail(up[g]) \in Seq(Messages) /\ Elements(Tail(up[g])) \subseteq Elements(up[g])
  BY ElementsOfTail DEF IInv, TypeOK, HostReceives
<1>3. \A h \in Guest : /\ Append(down[h], m) \in Seq(Messages)
                       /\ Elements(Append(down[h], m)) = Elements(down[h]) \union {m}
  BY <1>2, ElementsOfAppend, AppendProperties DEF IInv, TypeOK
<1>4. m.from = g /\ m.move \in Decided(g) /\ g \in Seat /\ Host \in Seat
  BY <1>2, SeatCount DEF IInv, LinksAuthentic, Guest, Host, Seat
<1>5. IF Accepts(replica[Host], m.from, m.move)
        THEN /\ replica' = [replica EXCEPT ![Host] = Apply(@, m.move)]
             /\ lastAct' = [lastAct EXCEPT ![Host] = m.move]
        ELSE UNCHANGED <<replica, lastAct>>
  BY DEF HostReceives
<1> HIDE DEF m
<1>6. m.move \in Moves
  BY <1>2 DEF Messages
<1>7. /\ up' \in [Guest -> Seq(Messages)] /\ down' \in [Guest -> Seq(Messages)]
      /\ lastAct' \in [Seat -> Moves \union {NoAct}]
      /\ \A h \in Guest : lastAct'[h] = lastAct[h]
  <2>1. \A h \in Guest : h # Host
    BY DEF Guest
  <2>2. QED
    BY <1>1, <1>2, <1>3, <1>4, <1>5, <1>6, <2>1 DEF IInv, TypeOK, Guest
<1>8. replica' \in [Seat -> HandCopies]
  <2>1. Accepts(replica[Host], m.from, m.move) => Apply(replica[Host], m.move) \in HandCopies
    BY <1>2, <1>4, TakingKeeps DEF HandOK
  <2>2. QED
    BY <1>4, <1>5, <2>1 DEF IInv, TypeOK
<1>9. TypeOK'
  BY <1>1, <1>7, <1>8 DEF IInv, TypeOK
<1>10. LinksAuthentic'
  <2>1. \A h \in Guest : Elements(up'[h]) \subseteq Elements(up[h])
    BY <1>1, <1>2 DEF IInv, TypeOK
  <2>2. \A h \in Guest : \A x \in Elements(down'[h]) : x \in Elements(down[h]) \/ x = m
    BY <1>1, <1>3
  <2>3. \A i : Decided(i)' = Decided(i)
    BY <1>1 DEF Decided
  <2>4. QED
    BY <1>4, <1>7, <2>1, <2>2, <2>3 DEF IInv, LinksAuthentic
<1>11. QED
  BY <1>1, <1>2, <1>4, <1>5, <1>9, <1>10, ReceivingKeeps

\* A message a guest takes or refuses keeps it.
LEMMA GuestReceivesKeeps ==
  ASSUME IInv, NEW g \in Guest, GuestReceives(g)
  PROVE  IInv'
<1> DEFINE m == Head(down[g])
<1>1. /\ down' = [down EXCEPT ![g] = Tail(@)]
      /\ UNCHANGED <<lastAct, up, made, ticks, losses>>
  BY DEF GuestReceives
<1>2. /\ m \in Elements(down[g]) /\ m \in Messages
      /\ Tail(down[g]) \in Seq(Messages) /\ Elements(Tail(down[g])) \subseteq Elements(down[g])
  BY ElementsOfTail DEF IInv, TypeOK, GuestReceives
<1>3. (m.from \in Guest => m.move \in Decided(m.from)) /\ g \in Seat
  BY <1>2 DEF IInv, LinksAuthentic, Guest
<1>4. IF Accepts(replica[g], m.from, m.move)
        THEN replica' = [replica EXCEPT ![g] = Apply(@, m.move)]
        ELSE UNCHANGED replica
  BY DEF GuestReceives
<1> HIDE DEF m
<1>5. replica' \in [Seat -> HandCopies]
  <2>1. Accepts(replica[g], m.from, m.move) => Apply(replica[g], m.move) \in HandCopies
    BY <1>2, <1>3, TakingKeeps DEF HandOK
  <2>2. QED
    BY <1>3, <1>4, <2>1 DEF IInv, TypeOK
<1>6. TypeOK'
  BY <1>1, <1>2, <1>5 DEF IInv, TypeOK
<1>7. LinksAuthentic'
  <2>1. \A h \in Guest : Elements(down'[h]) \subseteq Elements(down[h])
    BY <1>1, <1>2 DEF IInv, TypeOK
  <2>2. QED
    BY <1>1, <2>1 DEF IInv, LinksAuthentic, Decided
<1>8. QED
  BY <1>1, <1>2, <1>3, <1>4, <1>6, <1>7, ReceivingKeeps

\* The host's own name is on whatever it publishes again, a guest's only on what
\* that guest did last.
LEMMA TickKeeps ==
  ASSUME IInv, NEW p \in Seat, Tick(p)
  PROVE  IInv'
<1> DEFINE m == Message(p, lastAct[p])
<1>1. Publish(p, m) /\ UNCHANGED <<replica, lastAct, made, losses>>
  BY DEF Tick
<1>2. /\ m \in Messages /\ m.from = p /\ m.move = lastAct[p]
      /\ p \in Guest => m.move \in Decided(p)
  BY DEF Tick, IInv, TypeOK, LinksAuthentic, Message, Messages
<1>3. ticks' \in 0 .. Ticks
  BY ReplicationConstants DEF Tick, IInv, TypeOK
<1> HIDE DEF m
<1>4. TypeOK'
  BY <1>1, <1>2, <1>3, PublishAdds DEF IInv, TypeOK
<1>5. LinksAuthentic'
  <2>1. \A g \in Guest : \A x \in Elements(up'[g]) : x \in Elements(up[g]) \/ (g = p /\ x = m)
    BY <1>1, <1>2, PublishAdds DEF IInv
  <2>2. \A g \in Guest : \A x \in Elements(down'[g]) : x \in Elements(down[g]) \/ x = m
    BY <1>1, <1>2, PublishAdds DEF IInv
  <2>3. \A i : Decided(i)' = Decided(i)
    BY <1>1 DEF Decided
  <2>4. QED
    BY <1>1, <1>2, <2>1, <2>2, <2>3 DEF IInv, LinksAuthentic
<1>6. QED
  BY <1>1, <1>4, <1>5 DEF IInv, GuestMovesAuthentic, Authentic, Decided

\* A lost message keeps it.
LEMMA LoseKeeps ==
  ASSUME IInv, NEW g \in Guest, Lose(g)
  PROVE  IInv'
<1>1. UNCHANGED <<replica, lastAct, made, ticks>>
  BY DEF Lose
<1>2. losses' \in 0 .. Losses
  BY ReplicationConstants DEF Lose, IInv, TypeOK
<1>3. /\ up' \in [Guest -> Seq(Messages)] /\ down' \in [Guest -> Seq(Messages)]
      /\ \A h \in Guest : /\ Elements(up'[h]) \subseteq Elements(up[h])
                          /\ Elements(down'[h]) \subseteq Elements(down[h])
  <2>1. CASE up[g] # <<>> /\ up' = [up EXCEPT ![g] = Tail(@)] /\ UNCHANGED down
    BY <2>1, ElementsOfTail DEF IInv, TypeOK
  <2>2. CASE down[g] # <<>> /\ down' = [down EXCEPT ![g] = Tail(@)] /\ UNCHANGED up
    BY <2>2, ElementsOfTail DEF IInv, TypeOK
  <2>3. QED
    BY <2>1, <2>2 DEF Lose
<1>4. TypeOK'
  BY <1>1, <1>2, <1>3 DEF IInv, TypeOK
<1>5. LinksAuthentic'
  BY <1>1, <1>3 DEF IInv, LinksAuthentic, Decided
<1>6. QED
  BY <1>1, <1>4, <1>5 DEF IInv, GuestMovesAuthentic, Authentic, Decided

\* The invariant holds when a hand starts.
THEOREM InitHolds == Init => IInv
<1> SUFFICES ASSUME Init PROVE IInv
  OBVIOUS
<1>1. \A p \in Seat : HandOK(replica[p]) /\ replica[p].moves = <<>>
  BY NewHandOK DEF Init
<1>2. TypeOK
  <2>1. replica \in [Seat -> HandCopies]
    BY NewHandOK DEF Init, HandOK
  <2>2. QED
    BY <2>1, ReplicationConstants DEF Init, TypeOK
<1>3. LinksAuthentic
  BY DEF Init, LinksAuthentic, Elements, Guest
<1>4. GuestMovesAuthentic
  BY <1>1 DEF GuestMovesAuthentic, Authentic, Elements
<1>5. QED
  BY <1>1, <1>2, <1>3, <1>4 DEF IInv

\* Every step keeps it, replays and losses included.
THEOREM NextKeeps == IInv /\ [Next]_vars => IInv'
<1> SUFFICES ASSUME IInv, [Next]_vars PROVE IInv'
  OBVIOUS
<1>1. CASE UNCHANGED vars
  BY <1>1 DEF vars, IInv, TypeOK, LinksAuthentic, GuestMovesAuthentic, Authentic, Decided
<1>2. QED
  BY <1>1, ActKeeps, HostReceivesKeeps, GuestReceivesKeeps, TickKeeps, LoseKeeps DEF Next

\* No table ever holds an act of a guest that the guest did not decide on: what the
\* relaying host and the replays promise.
THEOREM GuestsAuthentic == Spec => []GuestMovesAuthentic
<1>1. IInv => GuestMovesAuthentic
  BY DEF IInv
<1>2. QED
  BY <1>1, InitHolds, NextKeeps, PTL DEF Spec

-----------------------------------------------------------------------------
(* When nothing is lost or repeated, all tables play one hand *)

\* How many acts a table has applied.
At(p) == Len(replica[p].moves)

\* The message m is the act that leads from the k-th state of the hand h to the next.
Carries(h, k, m) == Accepts(h[k], m.from, m.move) /\ h[k + 1] = Apply(h[k], m.move)

\* A guest is ahead of the host by its own acts alone, which are on their way up;
\* one that is not is behind by the acts on their way down.
Ahead(g, n, h) ==
  /\ At(g) = n /\ down[g] = <<>>
  /\ Len(up[g]) = n - At(Host)
  /\ \A j \in 1 .. Len(up[g]) : up[g][j].from = g /\ Carries(h, At(Host) + j - 1, up[g][j])
Behind(g, h) ==
  /\ up[g] = <<>>
  /\ Len(down[g]) = At(Host) - At(g)
  /\ \A j \in 1 .. Len(down[g]) : Carries(h, At(g) + j - 1, down[g][j])

\* The states h[0] .. h[n] of one hand.
OneHand(n, h) ==
  /\ \A k \in 0 .. n : HandOK(h[k]) /\ Len(h[k].moves) = k
  /\ \A k, l \in 0 .. n : k <= l => \A j \in 1 .. k : h[l].moves[j] = h[k].moves[j]
  /\ \A k \in 0 .. n : k < n => ~Over(h[k])

\* Every table is in one of them, the author of an act past that act.
Shared(n, h) ==
  /\ OneHand(n, h)
  /\ \A p \in Seat : At(p) <= n /\ replica[p] = h[At(p)]
  /\ \A k \in 0 .. n : k < n => At(h[k].turn) > k
  /\ \A g \in Guest : IF At(g) > At(Host) THEN Ahead(g, n, h) ELSE Behind(g, h)

\* While nothing is sent twice or lost, there is one such hand.
Quiet == ticks = 0 /\ losses = 0
QuietInv == Quiet => \E n \in Nat : \E h : Shared(n, h)

\* Where the tables are in a hand.
LEMMA AtType ==
  ASSUME IInv
  PROVE  /\ \A p \in Seat : At(p) \in Nat
         /\ Host \in Seat /\ \A g \in Guest : g \in Seat /\ g # Host
<1>1. \A p \in Seat : replica[p].moves \in Seq(Played)
  BY DEF IInv, HandOK, HandCopies
<1>2. Host \in Seat /\ \A g \in Guest : g \in Seat /\ g # Host
  BY SeatCount DEF Seat, Host, Guest
<1>3. QED
  BY <1>1, <1>2, LenProperties DEF At

\* One more act makes one hand longer.
LEMMA HandGrows ==
  ASSUME NEW n \in Nat, NEW h, OneHand(n, h), ~Over(h[n]), NEW move \in Moves,
         NEW longer, longer = [k \in 0 .. n + 1 |-> IF k = n + 1 THEN Apply(h[n], move) ELSE h[k]]
  PROVE  /\ OneHand(n + 1, longer)
         /\ \A k \in 0 .. n : longer[k] = h[k]
         /\ longer[n + 1] = Apply(h[n], move)
<1>1. /\ \A k \in 0 .. n : longer[k] = h[k]
      /\ longer[n + 1] = Apply(h[n], move)
  OBVIOUS
<1>2. HandOK(h[n]) /\ Len(h[n].moves) = n
  BY DEF OneHand
<1>3. /\ HandOK(longer[n + 1])
      /\ longer[n + 1].moves = Append(h[n].moves, [seat |-> h[n].turn, move |-> move])
  BY <1>1, <1>2, ApplyKeeps
<1>4. h[n].moves \in Seq(Played) /\ [seat |-> h[n].turn, move |-> move] \in Played
  BY <1>2 DEF HandOK, HandCopies, Played, InHand
<1>5. /\ Len(longer[n + 1].moves) = n + 1
      /\ \A j \in 1 .. n : longer[n + 1].moves[j] = h[n].moves[j]
  <2>1. /\ Len(Append(h[n].moves, [seat |-> h[n].turn, move |-> move])) = Len(h[n].moves) + 1
        /\ \A j \in 1 .. Len(h[n].moves) :
             Append(h[n].moves, [seat |-> h[n].turn, move |-> move])[j] = h[n].moves[j]
    BY <1>4, AppendProperties
  <2>2. QED
    BY <1>2, <1>3, <2>1
<1>6. \A k \in 0 .. n + 1 : HandOK(longer[k]) /\ Len(longer[k].moves) = k
  BY <1>1, <1>3, <1>5 DEF OneHand
<1>7. \A k, l \in 0 .. n + 1 :
        k <= l => \A j \in 1 .. k : longer[l].moves[j] = longer[k].moves[j]
  <2> SUFFICES ASSUME NEW k \in 0 .. n + 1, NEW l \in 0 .. n + 1, k <= l, NEW j \in 1 .. k
               PROVE  longer[l].moves[j] = longer[k].moves[j]
    OBVIOUS
  <2>1. CASE l <= n
    BY <1>1, <2>1 DEF OneHand
  <2>2. CASE l = n + 1 /\ k <= n
    <3>1. h[n].moves[j] = h[k].moves[j]
      BY <2>2 DEF OneHand
    <3>2. QED
      BY <1>1, <1>5, <2>2, <3>1
  <2>3. CASE k = n + 1
    BY <2>3
  <2>4. QED
    BY <2>1, <2>2, <2>3
<1>8. \A k \in 0 .. n + 1 : k < n + 1 => ~Over(longer[k])
  BY <1>1 DEF OneHand
<1>9. QED
  BY <1>1, <1>6, <1>7, <1>8 DEF OneHand

\* Whoever has the turn at its own table is up to date: the next act would be its own.
LEMMA ActorInFront ==
  ASSUME IInv, NEW n \in Nat, NEW h, Shared(n, h), NEW p \in Seat, replica[p].turn = p
  PROVE  At(p) = n
<1>1. At(p) \in Nat /\ At(p) <= n /\ h[At(p)].turn = p
  BY AtType DEF Shared
<1>2. At(p) < n => At(h[At(p)].turn) > At(p)
  BY <1>1 DEF Shared
<1>3. QED
  BY <1>1, <1>2

\* At most one guest is ahead of the host, the author of the act the host needs next.
LEMMA OneGuestAhead ==
  ASSUME IInv, NEW n \in Nat, NEW h, Shared(n, h), NEW g \in Guest, At(g) > At(Host)
  PROVE  /\ h[At(Host)].turn = g
         /\ up[g] # <<>> /\ Head(up[g]) = up[g][1]
         /\ Carries(h, At(Host), Head(up[g])) /\ Head(up[g]).from = g
<1>1. /\ At(g) \in Nat /\ At(Host) \in Nat /\ up[g] \in Seq(Messages)
      /\ Ahead(g, n, h)
  BY AtType DEF Shared, IInv, TypeOK
<1>2. Len(up[g]) \in Nat /\ Len(up[g]) >= 1
  BY <1>1 DEF Ahead
<1>3. up[g] # <<>> /\ Head(up[g]) = up[g][1]
  BY <1>1, <1>2, EmptySeq, HeadTailProperties
<1>4. up[g][1].from = g /\ Carries(h, At(Host), up[g][1])
  BY <1>1, <1>2 DEF Ahead
<1>5. QED
  BY <1>3, <1>4 DEF Carries, Accepts

\* A table that takes the act it needs next moves on to the next state of the hand.
LEMMA TakesNext ==
  ASSUME IInv, NEW n \in Nat, NEW h, Shared(n, h), NEW p \in Seat, At(p) < n,
         NEW m, Carries(h, At(p), m),
         IF Accepts(replica[p], m.from, m.move)
           THEN replica' = [replica EXCEPT ![p] = Apply(@, m.move)]
           ELSE UNCHANGED replica
  PROVE  /\ At(p)' = At(p) + 1
         /\ \A q \in Seat : q # p => At(q)' = At(q)
         /\ \A q \in Seat : At(q)' <= n /\ replica'[q] = h[At(q)']
         /\ \A k \in 0 .. n : k < n => At(h[k].turn)' > k
<1>1. At(p) \in Nat /\ replica[p] = h[At(p)] /\ At(p) + 1 \in 0 .. n
  BY AtType DEF Shared
<1>2. \A q \in Seat : replica'[q] = IF q = p THEN h[At(p) + 1] ELSE replica[q]
  BY <1>1 DEF Carries, IInv, TypeOK
<1>3. At(p)' = At(p) + 1 /\ \A q \in Seat : q # p => At(q)' = At(q)
  BY <1>1, <1>2 DEF At, Shared, OneHand
<1>4. \A q \in Seat : At(q)' <= n /\ replica'[q] = h[At(q)']
  BY <1>1, <1>2, <1>3 DEF Shared
<1>5. \A k \in 0 .. n : k < n => At(h[k].turn)' > k
  <2> SUFFICES ASSUME NEW k \in 0 .. n, k < n PROVE At(h[k].turn)' > k
    OBVIOUS
  <2>1. h[k].turn \in Seat /\ At(h[k].turn) > k
    BY DEF Shared, OneHand, HandOK, InHand
  <2>2. At(h[k].turn) \in Nat
    BY <2>1, AtType
  <2>3. QED
    BY <1>1, <1>3, <2>1, <2>2
<1>6. QED
  BY <1>3, <1>4, <1>5

\* A guest that takes the next act down is one state further in the same hand.
LEMMA GuestReceivesShares ==
  ASSUME IInv, IInv', NEW n \in Nat, NEW h, Shared(n, h), NEW g \in Guest, GuestReceives(g)
  PROVE  Shared(n, h)'
<1> DEFINE m == Head(down[g])
<1>1. /\ At(g) \in Nat /\ At(Host) \in Nat /\ At(Host) <= n /\ g \in Seat /\ g # Host
      /\ \A q \in Guest : At(q) \in Nat /\ q \in Seat
      /\ down[g] \in Seq(Messages) /\ down[g] # <<>>
  BY AtType DEF Shared, IInv, TypeOK, GuestReceives
<1>2. Behind(g, h) /\ At(g) <= At(Host)
  BY <1>1 DEF Shared, Ahead
<1>3. /\ Len(down[g]) \in Nat /\ Len(down[g]) >= 1 /\ m = down[g][1]
      /\ Tail(down[g]) \in Seq(Messages)
      /\ Len(Tail(down[g])) = Len(down[g]) - 1
      /\ \A j \in 1 .. Len(Tail(down[g])) : Tail(down[g])[j] = down[g][j + 1]
  BY <1>1, EmptySeq, HeadTailProperties, LenProperties
<1>4. Carries(h, At(g), m) /\ At(g) < At(Host)
  BY <1>1, <1>2, <1>3 DEF Behind
<1>5. /\ At(g)' = At(g) + 1
      /\ \A q \in Seat : q # g => At(q)' = At(q)
      /\ \A q \in Seat : At(q)' <= n /\ replica'[q] = h[At(q)']
      /\ \A k \in 0 .. n : k < n => At(h[k].turn)' > k
  <2>1. IF Accepts(replica[g], m.from, m.move)
          THEN replica' = [replica EXCEPT ![g] = Apply(@, m.move)]
          ELSE UNCHANGED replica
    BY DEF GuestReceives
  <2> HIDE DEF m
  <2>2. QED
    BY <1>1, <1>4, <2>1, TakesNext
<1>6. /\ \A q \in Guest : down'[q] = IF q = g THEN Tail(down[g]) ELSE down[q]
      /\ up' = up
  BY DEF GuestReceives, IInv, TypeOK
<1>7. ASSUME NEW q \in Guest
      PROVE  IF At(q)' > At(Host)' THEN Ahead(q, n, h)' ELSE Behind(q, h)'
  <2>1. At(Host)' = At(Host)
    BY <1>1, <1>5, AtType
  <2>2. CASE q = g
    <3>1. Behind(g, h)'
      <4>1. /\ up'[g] = <<>> /\ down'[g] = Tail(down[g])
            /\ Len(down'[g]) = At(Host)' - At(g)'
        <5>1. up[g] = <<>> /\ Len(down[g]) = At(Host) - At(g)
          BY <1>2 DEF Behind
        <5>2. up'[g] = up[g] /\ down'[g] = Tail(down[g])
          BY <1>6
        <5>3. At(g)' = At(g) + 1
          BY <1>5
        <5>4. QED
          BY <1>1, <1>3, <2>1, <5>1, <5>2, <5>3
      <4>2. ASSUME NEW j \in 1 .. Len(down'[g])
            PROVE  Carries(h, At(g)' + j - 1, down'[g][j])
        <5>1. j + 1 \in 1 .. Len(down[g]) /\ down'[g][j] = down[g][j + 1]
          BY <1>3, <4>1
        <5>2. At(g)' + j - 1 = At(g) + (j + 1) - 1
          BY <1>1, <1>3, <1>5, <5>1
        <5>3. QED
          BY <1>2, <5>1, <5>2 DEF Behind
      <4>3. QED
        BY <4>1, <4>2 DEF Behind, Carries
    <3>2. QED
      BY <1>1, <1>4, <1>5, <2>1, <2>2, <3>1
  <2>3. CASE q # g
    <3>1. At(q)' = At(q) /\ up'[q] = up[q] /\ down'[q] = down[q]
      BY <1>1, <1>5, <1>6, <2>3
    <3>2. QED
      BY <2>1, <3>1 DEF Shared, Ahead, Behind, Carries
  <2>4. QED
    BY <2>2, <2>3
<1>8. QED
  BY <1>5, <1>7 DEF Shared

\* The host taking an act up, and relaying it, leaves every table in the same hand.
LEMMA HostReceivesShares ==
  ASSUME IInv, IInv', NEW n \in Nat, NEW h, Shared(n, h), NEW g \in Guest, HostReceives(g)
  PROVE  Shared(n, h)'
<1> DEFINE m == Head(up[g])
<1>1. /\ At(Host) \in Nat /\ g \in Seat /\ g # Host /\ Host \in Seat
      /\ \A q \in Guest : At(q) \in Nat /\ q \in Seat /\ q # Host /\ At(q) <= n
      /\ up[g] \in Seq(Messages) /\ up[g] # <<>>
  BY AtType DEF Shared, IInv, TypeOK, HostReceives
<1>2. Ahead(g, n, h) /\ At(g) > At(Host)
  BY <1>1 DEF Shared, Behind
<1>3. /\ Len(up[g]) \in Nat /\ Len(up[g]) >= 1 /\ m \in Messages
      /\ Tail(up[g]) \in Seq(Messages)
      /\ Len(Tail(up[g])) = Len(up[g]) - 1
      /\ \A j \in 1 .. Len(Tail(up[g])) : Tail(up[g])[j] = up[g][j + 1]
  BY <1>1, EmptySeq, HeadTailProperties, LenProperties
<1>4. Carries(h, At(Host), m) /\ m.from = g /\ At(Host) < n
  BY <1>1, <1>2, OneGuestAhead DEF Ahead
<1>5. \A q \in Guest : q # g => At(q) <= At(Host) /\ Behind(q, h)
  BY <1>1, <1>2, OneGuestAhead DEF Shared
<1>6. /\ At(Host)' = At(Host) + 1
      /\ \A q \in Seat : q # Host => At(q)' = At(q)
      /\ \A q \in Seat : At(q)' <= n /\ replica'[q] = h[At(q)']
      /\ \A k \in 0 .. n : k < n => At(h[k].turn)' > k
  <2>1. IF Accepts(replica[Host], m.from, m.move)
          THEN replica' = [replica EXCEPT ![Host] = Apply(@, m.move)]
          ELSE UNCHANGED replica
    BY DEF HostReceives
  <2> HIDE DEF m
  <2>2. QED
    BY <1>1, <1>4, <2>1, TakesNext
<1>7. /\ \A q \in Guest : down'[q] = IF q = g THEN down[q] ELSE Append(down[q], m)
      /\ \A q \in Guest : up'[q] = IF q = g THEN Tail(up[g]) ELSE up[q]
  BY DEF HostReceives, Forward, IInv, TypeOK
<1> HIDE DEF m
<1>8. ASSUME NEW q \in Guest
      PROVE  IF At(q)' > At(Host)' THEN Ahead(q, n, h)' ELSE Behind(q, h)'
  <2>1. At(q)' = At(q) /\ At(q) \in Nat
    BY <1>1, <1>6
  <2>2. CASE q # g
    <3>1. /\ up'[q] = <<>> /\ down'[q] = Append(down[q], m)
          /\ down[q] \in Seq(Messages)
          /\ Len(down[q]) = At(Host) - At(q) /\ At(q) <= At(Host)
      BY <1>5, <1>7, <2>2 DEF Behind, IInv, TypeOK
    <3>2. /\ Len(down'[q]) = Len(down[q]) + 1 /\ Len(down[q]) \in Nat
          /\ down'[q][Len(down[q]) + 1] = m
          /\ \A j \in 1 .. Len(down[q]) : down'[q][j] = down[q][j]
      BY <1>3, <3>1, AppendProperties, LenProperties
    <3>3. \A j \in 1 .. Len(down'[q]) : Carries(h, At(q) + j - 1, down'[q][j])
      <4> SUFFICES ASSUME NEW j \in 1 .. Len(down'[q])
                   PROVE  Carries(h, At(q) + j - 1, down'[q][j])
        OBVIOUS
      <4>1. CASE j = Len(down[q]) + 1
        <5>1. At(q) + j - 1 = At(Host)
          BY <1>1, <2>1, <3>1, <4>1
        <5>2. QED
          BY <1>4, <3>2, <4>1, <5>1
      <4>2. CASE j \in 1 .. Len(down[q])
        BY <1>5, <2>2, <3>2, <4>2 DEF Behind
      <4>3. QED
        BY <3>2, <4>1, <4>2
    <3>4. QED
      <4>1. Len(down'[q]) = At(Host)' - At(q)' /\ ~(At(q)' > At(Host)')
        BY <1>1, <1>6, <2>1, <3>1, <3>2
      <4>2. Behind(q, h)'
        BY <2>1, <3>1, <3>3, <4>1 DEF Behind, Carries
      <4>3. QED
        BY <4>1, <4>2
  <2>3. CASE q = g
    <3>1. /\ down'[g] = <<>> /\ up'[g] = Tail(up[g]) /\ At(g) = n
          /\ Len(up'[g]) = n - At(Host)' /\ up'[g] \in Seq(Messages)
      <4>1. down[g] = <<>> /\ At(g) = n /\ Len(up[g]) = n - At(Host)
        BY <1>2 DEF Ahead
      <4>2. down'[g] = down[g] /\ up'[g] = Tail(up[g])
        BY <1>7
      <4>3. QED
        BY <1>1, <1>3, <1>6, <4>1, <4>2
    <3>2. \A j \in 1 .. Len(up'[g]) :
            up'[g][j].from = g /\ Carries(h, At(Host)' + j - 1, up'[g][j])
      <4> SUFFICES ASSUME NEW j \in 1 .. Len(up'[g])
                   PROVE  up'[g][j].from = g /\ Carries(h, At(Host)' + j - 1, up'[g][j])
        OBVIOUS
      <4>1. j + 1 \in 1 .. Len(up[g]) /\ up'[g][j] = up[g][j + 1]
        BY <1>3, <3>1
      <4>2. At(Host)' + j - 1 = At(Host) + (j + 1) - 1
        BY <1>1, <1>6, <4>1, <1>3
      <4>3. up[g][j + 1].from = g /\ Carries(h, At(Host) + (j + 1) - 1, up[g][j + 1])
        BY <1>2, <4>1 DEF Ahead
      <4>4. QED
        BY <4>1, <4>2, <4>3
    <3>3. CASE At(g)' > At(Host)'
      BY <2>1, <2>3, <3>1, <3>2, <3>3 DEF Ahead, Carries
    <3>4. CASE ~(At(g)' > At(Host)')
      <4>1. At(g)' = n /\ At(Host)' = n
        BY <1>1, <1>2, <1>6, <2>1, <2>3, <3>1, <3>4
      <4>2. up'[g] = <<>>
        BY <1>1, <3>1, <4>1, EmptySeq
      <4>3. QED
        BY <1>1, <2>3, <3>1, <3>4, <4>1, <4>2 DEF Behind
    <3>5. QED
      BY <2>3, <3>3, <3>4
  <2>4. QED
    BY <2>2, <2>3
<1>9. QED
  BY <1>6, <1>8 DEF Shared

\* An act is made in front, and makes the hand one state longer.
LEMMA ActShares ==
  ASSUME IInv, IInv', NEW n \in Nat, NEW h, Shared(n, h),
         NEW p \in Seat, NEW move \in Moves, Act(p, move)
  PROVE  \E longer : Shared(n + 1, longer)'
<1> DEFINE m == Message(p, move)
           longer == [k \in 0 .. n + 1 |-> IF k = n + 1 THEN Apply(h[n], move) ELSE h[k]]
<1>1. At(p) = n /\ replica[p] = h[n] /\ replica[p].turn = p
  BY ActorInFront DEF Act, Shared
<1>2. ~Over(h[n]) /\ Accepts(h[n], p, move)
  BY <1>1 DEF Act, Accepts, Over, NoSeat, Seat
<1>3. /\ OneHand(n + 1, longer)
      /\ \A k \in 0 .. n : longer[k] = h[k]
      /\ longer[n + 1] = Apply(h[n], move)
  <2>1. OneHand(n, h)
    BY DEF Shared
  <2> HIDE DEF m
  <2>2. QED
    BY <1>2, <2>1, HandGrows
<1>4. m.from = p /\ m.move = move /\ m \in Messages
  BY DEF Message, Messages
<1> HIDE DEF m, longer
<1>5. Carries(longer, n, m)
  BY <1>2, <1>3, <1>4 DEF Carries
<1>6. \A k \in 0 .. n : \A x : k < n /\ Carries(h, k, x) => Carries(longer, k, x)
  BY <1>3 DEF Carries
<1>7. /\ At(Host) \in Nat /\ Host \in Seat /\ At(Host) <= n
      /\ \A q \in Seat : At(q) \in Nat /\ At(q) <= n
      /\ \A q \in Guest : q \in Seat /\ q # Host
  BY AtType DEF Shared
<1>8. \A q \in Seat : replica'[q] = IF q = p THEN longer[n + 1] ELSE replica[q]
  BY <1>1, <1>3 DEF Act, IInv, TypeOK
<1>9. At(p)' = n + 1 /\ \A q \in Seat : q # p => At(q)' = At(q)
  BY <1>3, <1>8 DEF At, OneHand
<1>10. \A q \in Seat : At(q)' <= n + 1 /\ replica'[q] = longer[At(q)']
  BY <1>3, <1>7, <1>8, <1>9 DEF Shared
<1>11. \A k \in 0 .. n + 1 : k < n + 1 => At(longer[k].turn)' > k
  <2> SUFFICES ASSUME NEW k \in 0 .. n PROVE At(longer[k].turn)' > k
    OBVIOUS
  <2>1. CASE k = n
    BY <1>1, <1>3, <1>9, <2>1
  <2>2. CASE k < n
    <3>1. h[k].turn \in Seat /\ At(h[k].turn) > k
      BY <2>2 DEF Shared, OneHand, HandOK, InHand
    <3>2. QED
      BY <1>3, <1>7, <1>9, <3>1
  <2>3. QED
    BY <2>1, <2>2
<1>12. ASSUME NEW g \in Guest
       PROVE  IF At(g)' > At(Host)' THEN Ahead(g, n + 1, longer)' ELSE Behind(g, longer)'
  <2>1. CASE p = Host
    <3>1. At(g) <= At(Host) /\ Behind(g, h) /\ g # p /\ At(Host) = n /\ g \in Seat
      BY <1>1, <1>7, <2>1 DEF Shared
    <3>2. /\ up'[g] = up[g] /\ down'[g] = Append(down[g], m)
          /\ down[g] \in Seq(Messages)
      BY <2>1 DEF Act, Publish, IInv, TypeOK, m
    <3>3. /\ Len(down'[g]) = Len(down[g]) + 1 /\ Len(down[g]) \in Nat
          /\ down'[g][Len(down[g]) + 1] = m
          /\ \A j \in 1 .. Len(down[g]) : down'[g][j] = down[g][j]
      BY <1>4, <3>2, AppendProperties, LenProperties
    <3>4. /\ up[g] = <<>> /\ Len(down[g]) = n - At(g)
          /\ \A j \in 1 .. Len(down[g]) : Carries(h, At(g) + j - 1, down[g][j])
      BY <3>1 DEF Behind
    <3>5. ASSUME NEW j \in 1 .. Len(down'[g])
          PROVE  Carries(longer, At(g) + j - 1, down'[g][j])
      <4>1. CASE j = Len(down[g]) + 1
        <5>1. At(g) + j - 1 = n
          BY <1>7, <3>1, <3>4, <4>1
        <5>2. QED
          BY <1>5, <3>3, <4>1, <5>1
      <4>2. CASE j \in 1 .. Len(down[g])
        <5>1. At(g) + j - 1 \in 0 .. n /\ At(g) + j - 1 < n
          BY <1>7, <3>1, <3>4, <4>2
        <5>2. QED
          BY <1>6, <3>3, <3>4, <4>2, <5>1
      <4>3. QED
        BY <3>3, <4>1, <4>2
    <3>6. At(g)' = At(g) /\ At(Host)' = n + 1 /\ At(g) \in Nat /\ At(g) <= n
      BY <1>7, <1>9, <2>1, <3>1
    <3>7. Behind(g, longer)'
      <4>1. up'[g] = <<>> /\ Len(down'[g]) = At(Host)' - At(g)'
        BY <1>7, <3>2, <3>3, <3>4, <3>1, <3>6
      <4>2. \A j \in 1 .. Len(down'[g]) : Carries(longer, At(g)' + j - 1, down'[g][j])
        BY <3>5, <3>6
      <4>3. QED
        BY <4>1, <4>2 DEF Behind, Carries
    <3>8. QED
      BY <3>6, <3>7
  <2>2. CASE p # Host /\ g = p
    <3>1. At(Host)' = At(Host) /\ At(Host) \in Nat /\ At(Host) <= n /\ p \in Guest
      BY <1>7, <1>9, <2>2
    <3>2. /\ up'[p] = Append(up[p], m) /\ down'[p] = down[p]
          /\ up[p] \in Seq(Messages) /\ down[p] \in Seq(Messages)
      BY <2>2, <3>1 DEF Act, Publish, IInv, TypeOK, m
    <3>3. /\ Len(up'[p]) = Len(up[p]) + 1 /\ Len(up[p]) \in Nat
          /\ up'[p][Len(up[p]) + 1] = m
          /\ \A j \in 1 .. Len(up[p]) : up'[p][j] = up[p][j]
      BY <1>4, <3>2, AppendProperties, LenProperties
    <3>4. /\ down[p] = <<>> /\ Len(up[p]) = n - At(Host)
          /\ \A j \in 1 .. Len(up[p]) :
               up[p][j].from = p /\ Carries(h, At(Host) + j - 1, up[p][j])
      <4>1. CASE At(p) > At(Host)
        BY <3>1, <4>1 DEF Shared, Ahead
      <4>2. CASE ~(At(p) > At(Host))
        <5>1. Behind(p, h) /\ At(Host) = n
          BY <1>1, <3>1, <4>2 DEF Shared
        <5>2. up[p] = <<>> /\ Len(down[p]) = 0
          BY <1>1, <5>1 DEF Behind
        <5>3. QED
          BY <3>2, <5>1, <5>2, EmptySeq
      <4>3. QED
        BY <4>1, <4>2
    <3>5. ASSUME NEW j \in 1 .. Len(up'[p])
          PROVE  up'[p][j].from = p /\ Carries(longer, At(Host) + j - 1, up'[p][j])
      <4>1. CASE j = Len(up[p]) + 1
        <5>1. At(Host) + j - 1 = n
          BY <3>1, <3>4, <4>1
        <5>2. QED
          BY <1>4, <1>5, <3>3, <4>1, <5>1
      <4>2. CASE j \in 1 .. Len(up[p])
        <5>1. At(Host) + j - 1 \in 0 .. n /\ At(Host) + j - 1 < n
          BY <3>1, <3>4, <4>2
        <5>2. QED
          BY <1>6, <3>3, <3>4, <4>2, <5>1
      <4>3. QED
        BY <3>3, <4>1, <4>2
    <3>6. At(p)' = n + 1
      BY <1>9
    <3>7. Ahead(p, n + 1, longer)'
      <4>1. At(p)' = n + 1 /\ down'[p] = <<>> /\ Len(up'[p]) = (n + 1) - At(Host)'
        BY <3>1, <3>2, <3>3, <3>4, <3>6
      <4>2. \A j \in 1 .. Len(up'[p]) :
              up'[p][j].from = p /\ Carries(longer, At(Host)' + j - 1, up'[p][j])
        BY <3>1, <3>5
      <4>3. QED
        BY <4>1, <4>2 DEF Ahead, Carries
    <3>8. QED
      BY <2>2, <3>1, <3>6, <3>7
  <2>3. CASE p # Host /\ g # p
    <3>1. p \in Guest /\ At(Host)' = At(Host) /\ At(g)' = At(g)
      BY <1>7, <1>9, <2>3 DEF Guest
    <3>2. up'[g] = up[g] /\ down'[g] = down[g]
      BY <2>3, <3>1 DEF Act, Publish, IInv, TypeOK
    <3>3. At(g) <= At(Host)
      <4> SUFFICES ASSUME At(g) > At(Host) PROVE FALSE
        BY <1>7
      <4>1. h[At(Host)].turn = g
        BY OneGuestAhead
      <4>2. At(p) > At(Host)
        BY <1>1, <1>7
      <4>3. h[At(Host)].turn = p
        BY <3>1, <4>2, OneGuestAhead
      <4>4. QED
        BY <2>3, <4>1, <4>3
    <3>4. /\ up[g] = <<>> /\ Len(down[g]) = At(Host) - At(g)
          /\ \A j \in 1 .. Len(down[g]) : Carries(h, At(g) + j - 1, down[g][j])
      BY <1>7, <3>3 DEF Shared, Behind
    <3>5. ASSUME NEW j \in 1 .. Len(down[g])
          PROVE  Carries(longer, At(g) + j - 1, down[g][j])
      <4>1. At(g) + j - 1 \in 0 .. n /\ At(g) + j - 1 < n
        BY <1>7, <3>3, <3>4
      <4>2. QED
        BY <1>6, <3>4, <4>1
    <3>6. Behind(g, longer)'
      BY <3>1, <3>2, <3>4, <3>5 DEF Behind, Carries
    <3>7. QED
      BY <1>7, <3>1, <3>3, <3>6
  <2>4. QED
    BY <2>1, <2>2, <2>3
<1>13. Shared(n + 1, longer)'
  BY <1>3, <1>10, <1>11, <1>12 DEF Shared
<1>14. QED
  BY <1>13

\* A retransmission or a loss is counted, and so ends what is said of quiet runs.
LEMMA QuietIsKept ==
  ASSUME IInv, Next, Quiet'
  PROVE  /\ Quiet
         /\ \/ \E p \in Seat, move \in Moves : Act(p, move)
            \/ \E g \in Guest : HostReceives(g) \/ GuestReceives(g)
<1>1. ticks \in Nat /\ losses \in Nat
  BY DEF IInv, TypeOK
<1>2. ~\E p \in Seat : Tick(p)
  BY <1>1 DEF Quiet, Tick
<1>3. ~\E g \in Guest : Lose(g)
  BY <1>1 DEF Quiet, Lose
<1>4. \/ \E p \in Seat, move \in Moves : Act(p, move)
      \/ \E g \in Guest : HostReceives(g) \/ GuestReceives(g)
  BY <1>2, <1>3 DEF Next
<1>5. QED
  BY <1>4 DEF Quiet, Act, HostReceives, GuestReceives

\* A hand that starts is one hand.
THEOREM QuietInitHolds == Init => QuietInv
<1> SUFFICES ASSUME Init PROVE \E h : Shared(0, h)
  BY DEF QuietInv
<1> DEFINE h == [k \in {0} |-> NewHand]
<1>1. h[0] = NewHand /\ HandOK(NewHand) /\ Len(NewHand.moves) = 0
  BY NewHandOK
<1> HIDE DEF h
<1>2. OneHand(0, h)
  BY <1>1 DEF OneHand
<1>3. \A p \in Seat : At(p) = 0 /\ replica[p] = h[0]
  BY <1>1 DEF Init, At
<1>4. Host \in Seat /\ \A g \in Guest : g \in Seat
  BY SeatCount DEF Seat, Host, Guest
<1>5. \A g \in Guest : Behind(g, h)
  BY <1>3, <1>4 DEF Init, Behind
<1>6. Shared(0, h)
  BY <1>2, <1>3, <1>4, <1>5 DEF Shared
<1>7. QED
  BY <1>6

\* Every step leaves the tables in one hand, or is the first replay or loss.
THEOREM QuietNextKeeps == IInv /\ IInv' /\ QuietInv /\ [Next]_vars => QuietInv'
<1> SUFFICES ASSUME IInv, IInv', QuietInv, [Next]_vars, Quiet'
             PROVE  \E n \in Nat : \E h : Shared(n, h)'
  BY DEF QuietInv
<1>1. CASE UNCHANGED vars
  <2>1. PICK n \in Nat : \E h : Shared(n, h)
    BY <1>1 DEF QuietInv, Quiet, vars
  <2>2. PICK h : Shared(n, h)
    BY <2>1
  <2>3. Shared(n, h)'
    BY <1>1, <2>2 DEF vars, Shared, Ahead, Behind, At
  <2>4. QED
    BY <2>3
<1>2. CASE Next
  <2>1. PICK n \in Nat : \E h : Shared(n, h)
    BY <1>2, QuietIsKept DEF QuietInv
  <2>2. PICK h : Shared(n, h)
    BY <2>1
  <2>3. CASE \E p \in Seat, move \in Moves : Act(p, move)
    BY <2>2, <2>3, ActShares
  <2>4. CASE \E g \in Guest : HostReceives(g) \/ GuestReceives(g)
    BY <2>2, <2>4, HostReceivesShares, GuestReceivesShares
  <2>5. QED
    BY <1>2, <2>3, <2>4, QuietIsKept
<1>3. QED
  BY <1>1, <1>2

-----------------------------------------------------------------------------
(* What the tables can rely on when nothing is lost or repeated *)

\* Tables in one hand agree on the acts they both have.
LEMMA SharedAgrees == IInv /\ QuietInv => AgreeInOrder
<1> SUFFICES ASSUME IInv, QuietInv, Quiet,
                    NEW p \in Seat, NEW q \in Seat,
                    NEW k \in DOMAIN replica[p].moves \cap DOMAIN replica[q].moves
             PROVE  replica[p].moves[k] = replica[q].moves[k]
  BY DEF AgreeInOrder, ReplicasAgree, Quiet
<1>1. PICK n \in Nat : \E h : Shared(n, h)
  BY DEF QuietInv
<1>2. PICK h : Shared(n, h)
  BY <1>1
<1>3. /\ At(p) \in 0 .. n /\ At(q) \in 0 .. n
      /\ replica[p] = h[At(p)] /\ replica[q] = h[At(q)]
  BY <1>2, AtType DEF Shared
<1>4. k \in 1 .. At(p) /\ k \in 1 .. At(q)
  BY LenProperties DEF IInv, HandOK, HandCopies, At
<1>5. CASE At(p) <= At(q)
  BY <1>2, <1>3, <1>4, <1>5 DEF Shared, OneHand
<1>6. CASE At(q) <= At(p)
  BY <1>2, <1>3, <1>4, <1>6 DEF Shared, OneHand
<1>7. QED
  BY <1>3, <1>5, <1>6

\* Tables in one hand with nothing under way do not all wait for somebody else.
LEMMA SharedNeverWaits == IInv /\ QuietInv => NobodyWaitsForever
<1> SUFFICES ASSUME IInv, QuietInv, Quiet,
                    \A g \in Guest : up[g] = <<>> /\ down[g] = <<>>,
                    \A p \in Seat : replica[p].turn # p,
                    NEW q \in Seat
             PROVE  Over(replica[q])
  BY DEF NobodyWaitsForever, Quiet
<1>1. PICK n \in Nat : \E h : Shared(n, h)
  BY DEF QuietInv
<1>2. PICK h : Shared(n, h)
  BY <1>1
<1>3. /\ At(Host) \in Nat /\ Host \in Seat /\ At(Host) <= n
      /\ \A g \in Guest : At(g) \in Nat /\ At(g) <= n /\ g \in Seat
  BY <1>2, AtType DEF Shared
<1>4. Len(<<>>) = 0
  BY EmptySeq
<1>5. \A g \in Guest : At(g) = At(Host)
  <2> SUFFICES ASSUME NEW g \in Guest PROVE At(g) = At(Host)
    OBVIOUS
  <2>1. CASE At(g) > At(Host)
    BY <1>2, <1>3, <1>4, <2>1 DEF Shared, Ahead
  <2>2. CASE ~(At(g) > At(Host))
    BY <1>2, <1>3, <1>4, <2>2 DEF Shared, Behind
  <2>3. QED
    BY <2>1, <2>2
<1>6. \A p \in Seat : At(p) = At(Host)
  BY <1>5 DEF Guest
<1>7. At(Host) = n
  <2> SUFFICES ASSUME At(Host) < n PROVE FALSE
    BY <1>3
  <2>1. h[At(Host)].turn \in Seat /\ At(h[At(Host)].turn) > At(Host)
    <3>1. At(Host) \in 0 .. n
      BY <1>3
    <3>2. HandOK(h[At(Host)]) /\ ~Over(h[At(Host)]) /\ At(h[At(Host)].turn) > At(Host)
      BY <1>2, <3>1 DEF Shared, OneHand
    <3>3. QED
      BY <3>2 DEF HandOK, InHand
  <2>2. QED
    BY <1>3, <1>6, <2>1
<1>8. \A p \in Seat : replica[p] = h[n]
  BY <1>2, <1>6, <1>7 DEF Shared
<1>9. h[n].turn \notin Seat
  BY <1>8
<1>10. QED
  BY <1>8, <1>9 DEF IInv, HandOK, HandCopies, Over

\* The tables are in one hand, in every behaviour, until the first replay or loss.
THEOREM QuietHolds == Spec => [](IInv /\ QuietInv)
<1>1. Init => IInv /\ QuietInv
  BY InitHolds, QuietInitHolds
<1>2. IInv /\ QuietInv /\ [Next]_vars => (IInv /\ QuietInv)'
  BY NextKeeps, QuietNextKeeps
<1>3. QED
  BY <1>1, <1>2, PTL DEF Spec

\* The promise of table.rs: all tables play one and the same hand, some further
\* on than others, however the messages of the peers overtake each other.
THEOREM TablesAgree == Spec => []AgreeInOrder
BY QuietHolds, SharedAgrees, PTL

\* A hand that nobody can go on with and nothing travels for is over everywhere.
THEOREM NobodyWaits == Spec => []NobodyWaitsForever
BY QuietHolds, SharedNeverWaits, PTL
=============================================================================
