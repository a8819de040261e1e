--------------------------- MODULE MentalDealProofs ---------------------------
(***************************************************************************)
(* Theorems about MentalDeal, for every table size, number of streets,     *)
(* moves considered, blinds that put seats all in, and repeated            *)
(* deliveries: nobody's tokens get ahead of its own betting.               *)
(***************************************************************************)
EXTENDS MentalDeal, Lemmas

\* The tables p may have, as far as its n-th act, under a licence of every seat;
\* and those with d set aside.
TableOf(p, licence, n) ==
  {s \in HandsUnder(licence) : Licence(p, s) = licence[p] /\ s.applied = n /\ Shuffled(s)}
View(p, licence, n, d) == {s \in TableOf(p, licence, n) : s.deferred = d}

\* t has the betting, the deck and the deferred payloads of s.
SameHand(s, t) ==
  /\ t.pending = s.pending /\ t.street = s.street
  /\ t.folded = s.folded /\ t.applied = s.applied
  /\ t.shuffles = s.shuffles /\ t.deck = s.deck /\ t.deferred = s.deferred

-----------------------------------------------------------------------------
(* Licences *)

\* The streets have different names, and none is that of another slot.
LEMMA BoardNames ==
  ASSUME NEW r \in Round
  PROVE  /\ Board[r] \in {"flop", "turn", "river"}
         /\ \A q \in Round : Board[q] = Board[r] => q = r
<1>1. \A q \in Round : q = 1 \/ q = 2 \/ q = 3
  BY DealConstants DEF Round
<1>2. Board[1] = "flop" /\ Board[2] = "turn" /\ Board[3] = "river"
  BY DEF Board
<1> QED
  BY <1>1, <1>2

\* What a licence says, slot by slot.
LEMMA LicenceIs ==
  ASSUME NEW p, NEW s
  PROVE  /\ "key" \in Licence(p, s) /\ "shuffle" \in Licence(p, s) /\ Hole \in Licence(p, s)
         /\ \A r \in Round : Board[r] \in Licence(p, s) <=> s.pending \/ r <= s.street
         /\ Showdown \in Licence(p, s) <=> s.pending /\ p \notin s.folded
<1>1. ASSUME NEW r \in Round
      PROVE  Board[r] \in Licence(p, s) <=> s.pending \/ r <= s.street
  <2>1. Board[r] \notin {"key", "shuffle", "hole", "show"}
    BY BoardNames
  <2> QED BY <2>1, BoardNames DEF Licence, Hole, Showdown
<1>2. \A r \in Round : Board[r] # "show"
  BY BoardNames
<1>3. Showdown \in Licence(p, s) <=> s.pending /\ p \notin s.folded
  BY <1>2 DEF Licence, Hole, Showdown
<1> QED
  BY <1>1, <1>3 DEF Licence

\* Whatever leaves the betting alone leaves the licence alone.
LEMMA SameView ==
  ASSUME NEW p, NEW licence, NEW n, NEW d, NEW s \in View(p, licence, n, d),
         NEW t \in HandsUnder(licence), SameHand(s, t)
  PROVE  t \in View(p, licence, n, d)
BY DEF Licence, SameHand, View, TableOf, Shuffled

-----------------------------------------------------------------------------
(* Taking in contributions *)

\* The deck in seat order is a deck, and grows by the next seat.
LEMMA OrderIsDeck ==
  ASSUME NEW m \in 0 .. N
  PROVE  Order(m) \in Seq(Seat) /\ (m < N => Append(Order(m), m) = Order(m + 1))
<1>1. m \in Nat /\ \A k \in 1 .. m : k - 1 \in Seat
  BY SeatCount DEF Seat
<1>2. Order(m) \in Seq(Seat) /\ Len(Order(m)) = m
  BY <1>1 DEF Order
<1>3. Append(Order(m), m) = Order(m + 1)
  BY <1>1, <1>2 DEF Order
<1> QED
  BY <1>2, <1>3

\* A key taken in.
LEMMA TakeKeyKeeps ==
  ASSUME NEW licence, NEW p, NEW n, NEW d, NEW s \in View(p, licence, n, d), NEW a \in Seat
  PROVE  TakeKey(s, a) \in View(p, licence, n, d)
<1>1. TakeKey(s, a) \in HandsUnder(licence) /\ SameHand(s, TakeKey(s, a))
  BY DEF TakeKey, HandsUnder, View, TableOf, SameHand
<1> QED BY <1>1, SameView

\* The next shuffle taken in.
LEMMA TakeShuffleKeeps ==
  ASSUME NEW licence, NEW p, NEW n, NEW d, NEW s \in View(p, licence, n, d), s.shuffles < N
  PROVE  TakeShuffle(s, Order(s.shuffles + 1)) \in View(p, licence, n, d)
<1> DEFINE m == s.shuffles + 1
           deck == Order(m)
           t == [s EXCEPT !.shuffles = m, !.deck = deck]
<1>1. TakeShuffle(s, deck) = t
  BY DEF TakeShuffle
<1>2. s \in HandsUnder(licence) /\ s.shuffles \in 0 .. N
  BY DEF View, TableOf, HandsUnder
<1>3. m \in 0 .. N
  BY <1>2, SeatCount
<1>4. deck \in Seq(Seat)
  BY <1>3, OrderIsDeck
<1> HIDE DEF m, deck
<1>5. /\ t \in HandsUnder(licence) /\ t.shuffles = m /\ t.deck = deck
      /\ t.pending = s.pending /\ t.street = s.street
      /\ t.folded = s.folded /\ t.applied = s.applied /\ t.deferred = s.deferred
  BY <1>2, <1>3, <1>4 DEF HandsUnder
<1> HIDE DEF t
<1>6. Licence(p, t) = Licence(p, s)
  BY <1>5 DEF Licence
<1>7. t.deck = Order(t.shuffles)
  BY <1>5 DEF deck
<1> QED BY <1>1, <1>5, <1>6, <1>7 DEF View, TableOf, Shuffled, deck, m

\* Tokens for everybody else's hole cards taken in.
LEMMA TakeHoleKeeps ==
  ASSUME NEW licence, NEW p, NEW n, NEW d, NEW s \in View(p, licence, n, d), NEW a \in Seat
  PROVE  TakeHole(s, a) \in View(p, licence, n, d)
<1> DEFINE hole == [o \in Seat |-> IF o = a THEN s.hole[o] ELSE s.hole[o] \union {a}]
           t == [s EXCEPT !.hole = hole]
<1>1. TakeHole(s, a) = t
  BY DEF TakeHole
<1>2. s \in HandsUnder(licence) /\ s.hole \in HoleTokens
  BY DEF HandsUnder, View, TableOf
<1>3. hole \in HoleTokens
  BY <1>2 DEF HoleTokens
<1> HIDE DEF hole
<1>4. t \in HandsUnder(licence) /\ SameHand(s, t)
  BY <1>2, <1>3 DEF HandsUnder, SameHand
<1> QED BY <1>1, <1>4, SameView

\* A token for a street taken in.
LEMMA TakeCommunityKeeps ==
  ASSUME NEW licence, NEW p, NEW n, NEW d, NEW s \in View(p, licence, n, d),
         NEW a \in Seat, NEW r \in Round, Board[r] \in licence[a]
  PROVE  TakeCommunity(s, a, r) \in View(p, licence, n, d)
<1> DEFINE tokens == [s.community EXCEPT ![r] = @ \union {a}]
           t == [s EXCEPT !.community = tokens]
           board == Append(t.board, r)
           u == [t EXCEPT !.board = board]
<1>1. TakeCommunity(s, a, r) \in {t, u}
  BY DEF TakeCommunity
<1>2. s \in HandsUnder(licence) /\ s.community \in StreetTokens(licence)
  BY DEF HandsUnder, View, TableOf
<1>3. tokens \in StreetTokens(licence)
  BY <1>2 DEF StreetTokens
<1> HIDE DEF tokens
<1>4. t \in HandsUnder(licence) /\ SameHand(s, t)
  BY <1>2, <1>3 DEF HandsUnder, SameHand
<1>5. t \in View(p, licence, n, d)
  BY <1>4, SameView
<1> HIDE DEF t
<1>6. board \in Seq(Round)
  BY <1>4 DEF HandsUnder
<1> HIDE DEF board
<1>7. u \in HandsUnder(licence) /\ SameHand(t, u)
  BY <1>4, <1>6 DEF HandsUnder, SameHand
<1>8. u \in View(p, licence, n, d)
  BY <1>5, <1>7, SameView
<1> QED BY <1>1, <1>5, <1>8

\* A showdown token taken in.
LEMMA TakeShowdownKeeps ==
  ASSUME NEW licence, NEW p, NEW n, NEW d, NEW s \in View(p, licence, n, d),
         NEW a \in Seat, Showdown \in licence[a]
  PROVE  TakeShowdown(s, a) \in View(p, licence, n, d)
<1> DEFINE shown == s.shown \union {a}
           t == [s EXCEPT !.shown = shown]
           opened == t.opened \union {a}
           u == [t EXCEPT !.opened = opened]
<1>1. TakeShowdown(s, a) \in {s, t, u}
  BY DEF TakeShowdown
<1>2. s \in HandsUnder(licence) /\ s.shown \in ShowdownTokens(licence)
  BY DEF HandsUnder, View, TableOf
<1>3. shown \in ShowdownTokens(licence)
  BY <1>2 DEF ShowdownTokens
<1> HIDE DEF shown
<1>4. t \in HandsUnder(licence) /\ SameHand(s, t)
  BY <1>2, <1>3 DEF HandsUnder, SameHand
<1>5. t \in View(p, licence, n, d)
  BY <1>4, SameView
<1> HIDE DEF t
<1>6. opened \in SUBSET Seat
  BY <1>4 DEF HandsUnder
<1> HIDE DEF opened
<1>7. u \in HandsUnder(licence) /\ SameHand(t, u)
  BY <1>4, <1>6 DEF HandsUnder, SameHand
<1>8. u \in View(p, licence, n, d)
  BY <1>5, <1>7, SameView
<1> QED BY <1>1, <1>5, <1>8

\* A reveal of any kind taken in.
LEMMA TakeRevealKeeps ==
  ASSUME NEW licence, NEW p, NEW n, NEW d, NEW s \in View(p, licence, n, d),
         NEW a \in Seat, NEW slot \in Slots \ {"key", "shuffle"}, slot \in licence[a]
  PROVE  TakeReveal(s, a, slot) \in View(p, licence, n, d)
<1>1. CASE slot = Hole
  BY <1>1, TakeHoleKeeps DEF TakeReveal, Hole, Showdown
<1>2. CASE slot = Showdown
  BY <1>2, TakeShowdownKeeps DEF TakeReveal, Hole, Showdown
<1>3. CASE slot \notin {Hole, Showdown}
  <2> DEFINE r == CHOOSE r \in Round : Board[r] = slot
  <2>1. r \in Round /\ Board[r] = slot
    BY <1>3 DEF Slots
  <2>2. TakeReveal(s, a, slot) = TakeCommunity(s, a, r)
    BY <1>3 DEF TakeReveal
  <2> HIDE DEF r
  <2> QED BY <2>1, <2>2, TakeCommunityKeeps
<1> QED BY <1>1, <1>2, <1>3

-----------------------------------------------------------------------------
(* What a peer gives *)

\* A licensed payload queued to be sent.
LEMMA SendKeeps ==
  ASSUME NEW licence, NEW p, NEW n, NEW d, NEW s \in View(p, licence, n, d), NEW m \in Sent(licence)
  PROVE  Send(s, m) \in View(p, licence, n, d)
<1> DEFINE out == s.out \union {m}
           t == [s EXCEPT !.out = out]
<1>1. Send(s, m) = t
  BY DEF Send
<1>2. s \in HandsUnder(licence) /\ out \in SUBSET Sent(licence)
  BY DEF HandsUnder, View, TableOf
<1> HIDE DEF out
<1>3. t \in HandsUnder(licence) /\ SameHand(s, t)
  BY <1>2 DEF HandsUnder, SameHand
<1> QED BY <1>1, <1>3, SameView

\* A token given is taken in at home and sent.
LEMMA GiveKeeps ==
  ASSUME NEW licence, NEW p \in Seat, NEW n, NEW d, NEW s \in View(p, licence, n, d),
         NEW slot \in Slots \ {"key", "shuffle"}, slot \in licence[p]
  PROVE  Give(p, s, slot) \in View(p, licence, n, d)
<1>1. TakeReveal(s, p, slot) \in View(p, licence, n, d)
  BY TakeRevealKeeps
<1>2. Reveal(p, slot) \in Sent(licence)
  <2>1. <<>> \in Seq(Seat)
    OBVIOUS
  <2> QED BY <2>1 DEF Reveal, Sent, Payload, ShuffledInTurn
<1> QED
  BY <1>1, <1>2, SendKeeps DEF Give

\* A licence is what the hand of its peer says.
LEMMA LicenceOfView ==
  ASSUME NEW licence, NEW p, NEW n, NEW d, NEW s \in View(p, licence, n, d)
  PROVE  /\ "key" \in licence[p] /\ "shuffle" \in licence[p] /\ Hole \in licence[p]
         /\ \A r \in Round : Board[r] \in licence[p] <=> s.pending \/ r <= s.street
         /\ Showdown \in licence[p] <=> s.pending /\ p \notin s.folded
BY LicenceIs DEF View, TableOf

\* The key, the shuffle or the hole tokens a peer owes are licensed at any time.
LEMMA OweDealKeeps ==
  ASSUME NEW licence, NEW p \in Seat, NEW n, NEW d, NEW s \in View(p, licence, n, d)
  PROVE  OweDeal(p, s) \in View(p, licence, n, d)
<1> DEFINE deck == Append(s.deck, p)
<1>1. \/ OweDeal(p, s) \in {Send(TakeKey(s, p), Key(p)), Give(p, s, Hole), s}
      \/ /\ s.shuffles = p
         /\ OweDeal(p, s) = Send(TakeShuffle(s, deck), Shuffle(p, deck))
  BY DEF OweDeal, Ready
<1>2. "key" \in licence[p] /\ "shuffle" \in licence[p] /\ Hole \in licence[p]
  BY LicenceOfView
<1>3. Send(TakeKey(s, p), Key(p)) \in View(p, licence, n, d)
  <2>1. <<>> \in Seq(Seat)
    OBVIOUS
  <2>2. Key(p) \in Sent(licence)
    BY <1>2, <2>1 DEF Key, Sent, Payload, Slots, ShuffledInTurn
  <2> QED BY <2>2, TakeKeyKeeps, SendKeeps
<1>4. ASSUME s.shuffles = p
      PROVE  Send(TakeShuffle(s, deck), Shuffle(p, deck)) \in View(p, licence, n, d)
  <2>1. p \in 0 .. N /\ p < N /\ p + 1 \in 0 .. N
    BY SeatCount DEF Seat
  <2>2. s.deck = Order(p)
    BY <1>4 DEF View, TableOf, Shuffled
  <2>3. deck = Order(p + 1) /\ deck \in Seq(Seat)
    BY <2>1, <2>2, OrderIsDeck
  <2> HIDE DEF deck
  <2>4. TakeShuffle(s, deck) \in View(p, licence, n, d)
    BY <1>4, <2>1, <2>3, TakeShuffleKeeps
  <2>5. Shuffle(p, deck) \in Sent(licence)
    BY <1>2, <2>3 DEF Shuffle, Sent, Payload, Slots, ShuffledInTurn
  <2> QED BY <2>4, <2>5, SendKeeps
<1>5. Give(p, s, Hole) \in View(p, licence, n, d)
  BY <1>2, GiveKeeps DEF Slots, Hole
<1> QED
  BY <1>1, <1>3, <1>4, <1>5

\* The tokens of the street being bet on are licensed.
LEMMA OweStreetKeeps ==
  ASSUME NEW licence, NEW p \in Seat, NEW n, NEW d, NEW s \in View(p, licence, n, d)
  PROVE  OweStreet(p, s) \in View(p, licence, n, d)
<1>1. CASE OweStreet(p, s) = s
  BY <1>1
<1>2. CASE OweStreet(p, s) # s
  <2>1. s.street > 0 /\ OweStreet(p, s) = Give(p, s, Board[s.street])
    BY <1>2 DEF OweStreet
  <2>2. s.street \in Round
    BY <2>1, DealConstants DEF View, TableOf, HandsUnder, Round
  <2>3. Board[s.street] \in licence[p]
    <3>1. s.street <= s.street
      BY <2>2 DEF Round
    <3> QED BY <2>2, <3>1, LicenceOfView
  <2>4. Board[s.street] \in Slots \ {"key", "shuffle"}
    BY <2>2, BoardNames DEF Slots
  <2> QED BY <2>1, <2>3, <2>4, GiveKeeps
<1> QED BY <1>1, <1>2

\* One more street of a run-out, unless it is there.
RunOutStep(p, t, r) ==
  IF p \in t.community[r] \/ Revealed(t, r) THEN t ELSE Give(p, t, Board[r])

\* Once the betting is over, every street is licensed.
LEMMA OweRunOutKeeps ==
  ASSUME NEW licence, NEW p \in Seat, NEW n, NEW d, NEW s \in View(p, licence, n, d)
  PROVE  OweRunOut(p, s) \in View(p, licence, n, d)
<1> DEFINE V == View(p, licence, n, d)
           rounds == [r \in Round |-> r]
           m == Streets
           step == [x \in (1 .. m) \X V |-> RunOutStep(p, x[2], x[1])]
           Recursive(g) == g = [t \in SUBSET (1 .. m) |->
                                  IF t = {} THEN s
                                  ELSE LET x == Max(t)
                                       IN RunOutStep(p, g[t \ {x}], rounds[x])]
           it == CHOOSE g : Recursive(g)
<1>1. CASE ~Contested(s)
  BY <1>1 DEF OweRunOut
<1>2. CASE Contested(s)
  <2>1. s.pending /\ m \in Nat /\ Round = 1 .. m /\ Len(rounds) = m
    BY <1>2, DealConstants DEF Contested, Round
  <2>2. ASSUME NEW v \in V, NEW r \in Round PROVE RunOutStep(p, v, r) \in V
    <3>1. Board[r] \in licence[p]
      BY <2>1, LicenceOfView
    <3>2. Board[r] \in Slots \ {"key", "shuffle"}
      BY BoardNames DEF Slots
    <3> QED BY <3>1, <3>2, GiveKeeps DEF RunOutStep
  <2>3. OweRunOut(p, s) = it[1 .. m]
    BY <1>2, <2>1 DEF OweRunOut, FoldLeft, MapThenFoldSet, RunOutStep
  <2>4. ASSUME NEW k \in 1 .. m, NEW v \in V
        PROVE  step[<<k, v>>] = RunOutStep(p, v, rounds[k]) /\ step[<<k, v>>] \in V
    BY <2>1, <2>2
  <2> HIDE DEF V, step, rounds, m
  <2>5. PICK g : Iteration(g, 1 .. m, V, s, Latest, step)
    <3>1. s \in V
      BY DEF V
    <3> QED BY <2>1, <2>4, <3>1, FoldExists
  <2>6. \A t \in SUBSET (1 .. m) : t # {} => Max(t) \in 1 .. m /\ Latest[t] = Max(t)
    BY <2>1, LatestOf
  <2>7. Recursive(g)
    <3>1. \A t \in SUBSET (1 .. m) :
            g[t] = IF t = {} THEN s ELSE RunOutStep(p, g[t \ {Max(t)}], rounds[Max(t)])
      BY <2>4, <2>5, <2>6 DEF Iteration
    <3> QED BY <2>5, <3>1 DEF Iteration
  <2>8. \A t \in SUBSET (1 .. m) :
          it[t] = IF t = {} THEN s ELSE RunOutStep(p, it[t \ {Max(t)}], rounds[Max(t)])
    <3> HIDE DEF it
    <3>1. Recursive(it)
      BY <2>7 DEF it
    <3> QED BY <3>1
  <2> HIDE DEF it, Recursive
  <2>9. Folds(it, m, V, s, step)
    BY <2>4, <2>6, <2>8 DEF Folds
  <2>10. \E acc : Run(acc, m, V, s, step, it[1 .. m])
    <3>1. s \in V
      BY DEF V
    <3> QED BY <2>1, <2>4, <2>9, <3>1, FoldRuns
  <2>11. it[1 .. m] \in V
    BY <2>1, <2>10 DEF Run
  <2> QED BY <2>3, <2>11 DEF V
<1> QED BY <1>1, <1>2

\* A peer shows its hand when the betting is over and it has not folded.
LEMMA OweShowdownKeeps ==
  ASSUME NEW licence, NEW p \in Seat, NEW n, NEW d, NEW s \in View(p, licence, n, d)
  PROVE  OweShowdown(p, s) \in View(p, licence, n, d)
<1>1. CASE OweShowdown(p, s) = s
  BY <1>1
<1>2. CASE OweShowdown(p, s) # s
  <2>1. s.pending /\ p \notin s.folded /\ OweShowdown(p, s) = Give(p, s, Showdown)
    BY <1>2 DEF OweShowdown, Contested
  <2>2. Showdown \in licence[p]
    BY <2>1, LicenceOfView
  <2>3. Showdown \in Slots \ {"key", "shuffle"}
    BY DEF Slots, Showdown
  <2> QED BY <2>1, <2>2, <2>3, GiveKeeps
<1> QED BY <1>1, <1>2

\* Settling gives nothing.
LEMMA SettleKeeps ==
  ASSUME NEW licence, NEW p, NEW n, NEW d, NEW s \in View(p, licence, n, d)
  PROVE  SettleWhenDone(p, s) \in View(p, licence, n, d)
<1> DEFINE t == [s EXCEPT !.stage = "settled"]
<1>1. SettleWhenDone(p, s) \in {s, t}
  BY DEF SettleWhenDone
<1>2. t \in HandsUnder(licence) /\ SameHand(s, t)
  BY DEF View, TableOf, HandsUnder, SameHand
<1> QED BY <1>1, <1>2, SameView

\* A pass of the pump.
LEMMA PumpOnceKeeps ==
  ASSUME NEW licence, NEW p \in Seat, NEW n, NEW d, NEW s \in View(p, licence, n, d)
  PROVE  PumpOnce(p, s) \in View(p, licence, n, d)
<1> DEFINE deal == OweDeal(p, s)
           street == OweStreet(p, deal)
           board == OweRunOut(p, street)
           shown == OweShowdown(p, board)
<1>1. PumpOnce(p, s) \in {s, SettleWhenDone(p, shown)}
  BY DEF PumpOnce
<1>2. deal \in View(p, licence, n, d)
  BY OweDealKeeps
<1> HIDE DEF deal
<1>3. street \in View(p, licence, n, d)
  BY <1>2, OweStreetKeeps
<1> HIDE DEF street
<1>4. board \in View(p, licence, n, d)
  BY <1>3, OweRunOutKeeps
<1> HIDE DEF board
<1>5. shown \in View(p, licence, n, d)
  BY <1>4, OweShowdownKeeps
<1> HIDE DEF shown
<1> QED
  BY <1>1, <1>5, SettleKeeps

\* And the loop over them.
LEMMA PumpKeeps ==
  ASSUME NEW licence, NEW p \in Seat, NEW n, NEW d, NEW s \in View(p, licence, n, d)
  PROVE  Pump(p, s) \in View(p, licence, n, d)
<1>1. PumpOnce(p, s) \in View(p, licence, n, d)
  BY PumpOnceKeeps
<1>2. PumpOnce(p, PumpOnce(p, s)) \in View(p, licence, n, d)
  BY <1>1, PumpOnceKeeps
<1>3. PumpOnce(p, PumpOnce(p, PumpOnce(p, s))) \in View(p, licence, n, d)
  BY <1>2, PumpOnceKeeps
<1>4. PumpOnce(p, PumpOnce(p, PumpOnce(p, PumpOnce(p, s)))) \in View(p, licence, n, d)
  BY <1>3, PumpOnceKeeps
<1> QED
  BY <1>4 DEF Pump

-----------------------------------------------------------------------------
(* Receiving *)

\* A payload taken in, if its author was licensed to send it and it is not too early.
LEMMA IngestKeeps ==
  ASSUME NEW licence, NEW p, NEW n, NEW d, NEW s \in View(p, licence, n, d),
         NEW m \in Sent(licence), ~TooEarly(s, m)
  PROVE  Ingest(s, m) \in View(p, licence, n, d)
<1>1. m.author \in Seat /\ m.slot \in Slots /\ m.slot \in licence[m.author]
  BY DEF Sent, Payload
<1>2. CASE m.slot = "key"
  BY <1>1, <1>2, TakeKeyKeeps DEF Ingest
<1>3. CASE m.slot = "shuffle"
  <2>1. m.deck = Order(m.author + 1) /\ s.shuffles = m.author
    BY <1>3 DEF Sent, ShuffledInTurn, TooEarly
  <2>2. s.shuffles < N
    BY <1>1, <2>1, SeatCount DEF Seat
  <2> QED BY <1>3, <2>1, <2>2, TakeShuffleKeeps DEF Ingest
<1>4. CASE m.slot \notin {"key", "shuffle"}
  BY <1>1, <1>4, TakeRevealKeeps DEF Ingest
<1> QED BY <1>2, <1>3, <1>4


\* What is too early for s is too early for t, and nothing else is.
SameStage(s, t) == \A m : TooEarly(t, m) <=> TooEarly(s, m)

\* Everything set aside is still too early.
Idle(s) == \A k \in DOMAIN s.deferred : TooEarly(s, s.deferred[k])

\* What is set aside changes neither the licence nor what is too early.
LEMMA SetAside ==
  ASSUME NEW licence, NEW p, NEW n, NEW s \in TableOf(p, licence, n),
         NEW q \in Seq(Sent(licence))
  PROVE  /\ [s EXCEPT !.deferred = q] \in TableOf(p, licence, n)
         /\ [s EXCEPT !.deferred = q].deferred = q
         /\ SameStage(s, [s EXCEPT !.deferred = q])
<1> DEFINE t == [s EXCEPT !.deferred = q]
<1>1. s \in HandsUnder(licence)
  BY DEF TableOf
<1>2. /\ t \in HandsUnder(licence) /\ t.deferred = q
      /\ t.pending = s.pending /\ t.street = s.street
      /\ t.folded = s.folded /\ t.applied = s.applied
      /\ t.shuffles = s.shuffles /\ t.deck = s.deck
      /\ t.stage = s.stage /\ t.keys = s.keys
  BY <1>1 DEF HandsUnder
<1> HIDE DEF t
<1>3. Licence(p, t) = Licence(p, s)
  BY <1>2 DEF Licence
<1>4. SameStage(s, t)
  BY <1>2 DEF SameStage, TooEarly, Playing, Ready, Phase
<1>5. t \in TableOf(p, licence, n)
  BY <1>2, <1>3 DEF TableOf, Shuffled
<1> QED BY <1>2, <1>4, <1>5 DEF t

\* A payload received is applied, or set aside if it is too early.
LEMMA ReceiveKeeps ==
  ASSUME NEW licence, NEW p \in Seat, NEW n, NEW s \in TableOf(p, licence, n),
         NEW m \in Sent(licence)
  PROVE  /\ Receive(p, s, m) \in TableOf(p, licence, n)
         /\ ~TooEarly(s, m) => Receive(p, s, m).deferred = s.deferred
         /\ TooEarly(s, m) =>
              /\ SameStage(s, Receive(p, s, m))
              /\ Receive(p, s, m).deferred \in {s.deferred, Append(s.deferred, m)}
<1>1. CASE ~TooEarly(s, m)
  <2> DEFINE d == s.deferred
  <2>1. s \in View(p, licence, n, d)
    BY DEF View
  <2> HIDE DEF d
  <2>2. Ingest(s, m) \in View(p, licence, n, d)
    BY <1>1, <2>1, IngestKeeps
  <2>3. Relay(p, Ingest(s, m), m) \in View(p, licence, n, d)
    BY <2>2, SendKeeps DEF Relay
  <2>4. Pump(p, Relay(p, Ingest(s, m), m)) \in View(p, licence, n, d)
    BY <2>3, PumpKeeps
  <2>5. Receive(p, s, m) \in View(p, licence, n, d)
    BY <1>1, <2>4 DEF Receive
  <2> QED BY <1>1, <2>5 DEF View, d
<1>2. CASE TooEarly(s, m)
  <2> DEFINE q == Append(s.deferred, m)
             t == [s EXCEPT !.deferred = q]
  <2>1. Receive(p, s, m) \in {s, t}
    BY <1>2 DEF Receive, Defer
  <2>2. q \in Seq(Sent(licence))
    BY DEF TableOf, HandsUnder
  <2>3. t \in TableOf(p, licence, n) /\ t.deferred = q /\ SameStage(s, t)
    <3> HIDE DEF q
    <3> QED BY <2>2, SetAside
  <2>4. SameStage(s, s)
    BY DEF SameStage
  <2> HIDE DEF t
  <2> QED BY <1>2, <2>1, <2>3, <2>4
<1> QED BY <1>1, <1>2

\* Setting aside what is too early leaves nothing else aside.
LEMMA StillIdle ==
  ASSUME NEW S, NEW s, s.deferred \in Seq(S), Idle(s), NEW m \in S, TooEarly(s, m),
         NEW t, SameStage(s, t), t.deferred \in {s.deferred, Append(s.deferred, m)}
  PROVE  Idle(t)
<1>1. ASSUME NEW k \in DOMAIN t.deferred PROVE TooEarly(s, t.deferred[k])
  <2>1. CASE t.deferred = s.deferred
    BY <2>1 DEF Idle
  <2>2. CASE t.deferred = Append(s.deferred, m)
    <3>1. \/ k \in DOMAIN s.deferred /\ t.deferred[k] = s.deferred[k]
          \/ t.deferred[k] = m
      BY <2>2
    <3> QED BY <3>1 DEF Idle
  <2> QED BY <2>1, <2>2
<1> QED BY <1>1 DEF Idle, SameStage

\* acc[k] is what a pass over the deferred payloads has made of the first k of them.
PassRun(acc, p, s, V) ==
  /\ acc \in [0 .. Len(s.deferred) -> V]
  /\ acc[0] = [s EXCEPT !.deferred = <<>>]
  /\ \A k \in 1 .. Len(s.deferred) : acc[k] = Receive(p, acc[k - 1], s.deferred[k])
  /\ acc[Len(s.deferred)] = ReplayPass(p, s)

\* A pass is such a run.
LEMMA PassRuns ==
  ASSUME NEW licence, NEW p \in Seat, NEW n, NEW s \in TableOf(p, licence, n)
  PROVE  \E acc : PassRun(acc, p, s, TableOf(p, licence, n))
<1> DEFINE V == TableOf(p, licence, n)
           q == s.deferred
           m == Len(q)
           base == [s EXCEPT !.deferred = <<>>]
           step == [x \in (1 .. m) \X V |-> Receive(p, x[2], q[x[1]])]
           Recursive(g) == g = [t \in SUBSET (1 .. m) |->
                                  IF t = {} THEN base
                                  ELSE LET x == Max(t) IN Receive(p, g[t \ {x}], q[x])]
           it == CHOOSE g : Recursive(g)
<1>1. q \in Seq(Sent(licence)) /\ m \in Nat /\ DOMAIN q = 1 .. m
  BY DEF TableOf, HandsUnder
<1>2. base \in V
  <2>1. <<>> \in Seq(Sent(licence))
    OBVIOUS
  <2> QED BY <2>1, SetAside
<1>3. ReplayPass(p, s) = it[1 .. m]
  BY <1>1 DEF ReplayPass, FoldLeft, MapThenFoldSet
<1>4. ASSUME NEW k \in 1 .. m, NEW v \in V
      PROVE  step[<<k, v>>] = Receive(p, v, q[k]) /\ step[<<k, v>>] \in V
  <2>1. q[k] \in Sent(licence)
    BY <1>1
  <2> QED BY <2>1, ReceiveKeeps
<1> HIDE DEF V, step, base, q, m
<1>5. PICK g : Iteration(g, 1 .. m, V, base, Latest, step)
  BY <1>1, <1>2, <1>4, FoldExists
<1>6. \A t \in SUBSET (1 .. m) : t # {} => Max(t) \in 1 .. m /\ Latest[t] = Max(t)
  BY <1>1, LatestOf
<1>7. Recursive(g)
  <2>1. \A t \in SUBSET (1 .. m) :
          g[t] = IF t = {} THEN base ELSE Receive(p, g[t \ {Max(t)}], q[Max(t)])
    BY <1>4, <1>5, <1>6 DEF Iteration
  <2> QED BY <1>5, <2>1 DEF Iteration
<1>8. \A t \in SUBSET (1 .. m) :
        it[t] = IF t = {} THEN base ELSE Receive(p, it[t \ {Max(t)}], q[Max(t)])
  <2> HIDE DEF it
  <2>1. Recursive(it)
    BY <1>7 DEF it
  <2> QED BY <2>1
<1> HIDE DEF it, Recursive
<1>9. Folds(it, m, V, base, step)
  BY <1>4, <1>6, <1>8 DEF Folds
<1>10. PICK acc : Run(acc, m, V, base, step, it[1 .. m])
  BY <1>1, <1>2, <1>4, <1>9, FoldRuns
<1>11. /\ acc \in [0 .. m -> V] /\ acc[0] = base
       /\ acc[m] = it[1 .. m]
  BY <1>10 DEF Run
<1>12. ASSUME NEW k \in 1 .. m PROVE acc[k] = Receive(p, acc[k - 1], q[k])
  <2>1. acc[k - 1] \in V
    BY <1>1, <1>11
  <2> QED BY <1>4, <1>10, <2>1 DEF Run
<1> QED BY <1>3, <1>11, <1>12 DEF PassRun, V, base, q, m

\* A pass leaves at most as many payloads aside, and fewer unless all of them are
\* still too early; and it leaves a table alone that nothing applies to.
LEMMA ReplayPassKeeps ==
  ASSUME NEW licence, NEW p \in Seat, NEW n, NEW s \in TableOf(p, licence, n)
  PROVE  /\ ReplayPass(p, s) \in TableOf(p, licence, n)
         /\ Len(ReplayPass(p, s).deferred) <= Len(s.deferred)
         /\ Len(ReplayPass(p, s).deferred) = Len(s.deferred) => Idle(ReplayPass(p, s))
         /\ Idle(s) => Idle(ReplayPass(p, s))
<1> DEFINE V == TableOf(p, licence, n)
           m == Len(s.deferred)
<1>1. PICK acc : PassRun(acc, p, s, V)
  BY PassRuns
<1>2. /\ s.deferred \in Seq(Sent(licence)) /\ m \in Nat
      /\ \A k \in 1 .. m : s.deferred[k] \in Sent(licence) /\ k \in DOMAIN s.deferred
  BY DEF TableOf, HandsUnder
<1>3. /\ acc \in [0 .. m -> V]
      /\ acc[0] = [s EXCEPT !.deferred = <<>>]
      /\ acc[m] = ReplayPass(p, s)
  BY <1>1 DEF PassRun
<1>4. ASSUME NEW k \in 0 .. m
      PROVE  acc[k] \in V /\ acc[k].deferred \in Seq(Sent(licence)) /\ Len(acc[k].deferred) \in Nat
  <2>1. acc[k] \in V
    BY <1>3
  <2>2. acc[k].deferred \in Seq(Sent(licence))
    BY <2>1 DEF TableOf, HandsUnder
  <2> QED BY <2>1, <2>2
<1>5. acc[0].deferred = <<>> /\ SameStage(s, acc[0])
  <2>1. <<>> \in Seq(Sent(licence))
    OBVIOUS
  <2> QED BY <1>3, <2>1, SetAside
<1>6. ASSUME NEW k \in 1 .. m
      PROVE  /\ k - 1 \in 0 .. m
             /\ ~TooEarly(acc[k - 1], s.deferred[k]) => acc[k].deferred = acc[k - 1].deferred
             /\ TooEarly(acc[k - 1], s.deferred[k]) =>
                  /\ SameStage(acc[k - 1], acc[k])
                  /\ acc[k].deferred \in {acc[k - 1].deferred,
                                          Append(acc[k - 1].deferred, s.deferred[k])}
  <2> DEFINE a == acc[k - 1]
             x == s.deferred[k]
  <2>1. k - 1 \in 0 .. m
    BY <1>2
  <2>2. a \in TableOf(p, licence, n) /\ x \in Sent(licence)
    BY <1>2, <1>4, <2>1
  <2>3. acc[k] = Receive(p, a, x)
    BY <1>1 DEF PassRun
  <2> HIDE DEF a, x
  <2>4. /\ ~TooEarly(a, x) => acc[k].deferred = a.deferred
        /\ TooEarly(a, x) => /\ SameStage(a, acc[k])
                             /\ acc[k].deferred \in {a.deferred, Append(a.deferred, x)}
    BY <2>2, <2>3, ReceiveKeeps
  <2> QED BY <2>1, <2>4 DEF a, x
<1> HIDE DEF V, m
<1> DEFINE Few(k) == /\ Len(acc[k].deferred) <= k
                     /\ Len(acc[k].deferred) = k => Idle(acc[k])
           A == {k \in Nat : k <= m => Few(k)}
           B == {k \in Nat : k <= m => Idle(acc[k]) /\ SameStage(s, acc[k])}
<1>7. A = Nat
  <2>1. 0 \in A
    <3>1. Len(acc[0].deferred) = 0 /\ DOMAIN acc[0].deferred = {}
      BY <1>5
    <3> QED BY <3>1 DEF Idle
  <2>2. ASSUME NEW j \in A PROVE j + 1 \in A
    <3>1. CASE j + 1 <= m
      <4> DEFINE k == j + 1
                 x == s.deferred[k]
      <4>1. k \in 1 .. m /\ k - 1 = j /\ j \in 0 .. m /\ k \in 0 .. m /\ j \in Nat
        BY <1>2, <3>1
      <4>2. Few(j)
        BY <3>1, <4>1
      <4>3. CASE acc[k].deferred = acc[j].deferred
        BY <1>4, <4>1, <4>2, <4>3
      <4>4. CASE acc[k].deferred # acc[j].deferred
        <5>1. /\ TooEarly(acc[j], x) /\ SameStage(acc[j], acc[k])
              /\ acc[k].deferred = Append(acc[j].deferred, x)
          BY <1>6, <4>1, <4>4
        <5>2. Len(acc[k].deferred) = Len(acc[j].deferred) + 1
          BY <1>4, <4>1, <5>1
        <5>3. Len(acc[j].deferred) = j => Idle(acc[k])
          BY <1>2, <1>4, <4>1, <4>2, <5>1, StillIdle
        <5> QED BY <1>4, <4>1, <4>2, <5>2, <5>3
      <4> QED BY <4>3, <4>4
    <3> QED BY <3>1
  <2>3. A \in SUBSET Nat
    OBVIOUS
  <2> HIDE DEF A
  <2> QED BY <2>1, <2>2, <2>3, CountingUp
<1>8. ASSUME Idle(s) PROVE B = Nat
  <2>1. 0 \in B
    <3>1. DOMAIN acc[0].deferred = {}
      BY <1>5
    <3> QED BY <1>5, <3>1 DEF Idle
  <2>2. ASSUME NEW j \in B PROVE j + 1 \in B
    <3>1. CASE j + 1 <= m
      <4> DEFINE k == j + 1
                 x == s.deferred[k]
      <4>1. k \in 1 .. m /\ k - 1 = j /\ j \in 0 .. m
        BY <1>2, <3>1
      <4>2. Idle(acc[j]) /\ SameStage(s, acc[j])
        BY <3>1, <4>1
      <4>3. TooEarly(s, x)
        BY <1>2, <1>8, <4>1 DEF Idle
      <4>4. TooEarly(acc[j], x)
        BY <4>2, <4>3 DEF SameStage
      <4>5. /\ SameStage(acc[j], acc[k])
            /\ acc[k].deferred \in {acc[j].deferred, Append(acc[j].deferred, x)}
        BY <1>6, <4>1, <4>4
      <4>6. SameStage(s, acc[k])
        BY <4>2, <4>5 DEF SameStage
      <4>7. Idle(acc[k])
        BY <1>2, <1>4, <4>1, <4>2, <4>4, <4>5, StillIdle
      <4> QED BY <4>6, <4>7
    <3> QED BY <3>1
  <2>3. B \in SUBSET Nat
    OBVIOUS
  <2> HIDE DEF B
  <2> QED BY <2>1, <2>2, <2>3, CountingUp
<1>9. m \in A /\ (Idle(s) => m \in B) /\ m \in 0 .. m
  BY <1>2, <1>7, <1>8
<1>10. Few(m) /\ (Idle(s) => Idle(acc[m]))
  BY <1>2, <1>9
<1> QED BY <1>3, <1>4, <1>9, <1>10 DEF V, m

\* Replaying leaves nothing aside that applies: as many passes as there were
\* payloads aside are enough.
LEMMA ReplayKeeps ==
  ASSUME NEW licence, NEW p \in Seat, NEW n, NEW s \in TableOf(p, licence, n)
  PROVE  Replay(p, s) \in TableOf(p, licence, n) /\ Idle(Replay(p, s))
<1> DEFINE V == TableOf(p, licence, n)
           m == Len(s.deferred)
           passes == [k \in 1 .. m |-> k]
           step == [x \in (1 .. m) \X V |-> ReplayPass(p, x[2])]
           Recursive(g) == g = [t \in SUBSET (1 .. m) |->
                                  IF t = {} THEN s
                                  ELSE LET x == Max(t) IN ReplayPass(p, g[t \ {x}])]
           it == CHOOSE g : Recursive(g)
<1>1. s \in V /\ m \in Nat
  BY DEF TableOf, HandsUnder
<1>2. Len(passes) = m
  BY <1>1
<1>3. Replay(p, s) = it[1 .. m]
  BY <1>2 DEF Replay, FoldLeft, MapThenFoldSet
<1>4. ASSUME NEW k \in 1 .. m, NEW v \in V
      PROVE  step[<<k, v>>] = ReplayPass(p, v) /\ step[<<k, v>>] \in V
  BY ReplayPassKeeps
<1>5. ASSUME NEW v \in V PROVE v.deferred \in Seq(Sent(licence)) /\ Len(v.deferred) \in Nat
  <2>1. v.deferred \in Seq(Sent(licence))
    BY DEF TableOf, HandsUnder
  <2> QED BY <2>1
<1>6. ASSUME NEW v \in V
      PROVE  /\ Len(ReplayPass(p, v).deferred) <= Len(v.deferred)
             /\ Len(ReplayPass(p, v).deferred) = Len(v.deferred) => Idle(ReplayPass(p, v))
             /\ Idle(v) => Idle(ReplayPass(p, v))
             /\ ReplayPass(p, v) \in V
  BY ReplayPassKeeps
<1> HIDE DEF V, step
<1>7. PICK g : Iteration(g, 1 .. m, V, s, Latest, step)
  <2> HIDE DEF m
  <2> QED BY <1>1, <1>4, FoldExists
<1>8. \A t \in SUBSET (1 .. m) : t # {} => Max(t) \in 1 .. m /\ Latest[t] = Max(t)
  BY <1>1, LatestOf
<1> HIDE DEF m
<1>9. Recursive(g)
  <2>1. ASSUME NEW t \in SUBSET (1 .. m)
        PROVE  g[t] = IF t = {} THEN s ELSE ReplayPass(p, g[t \ {Max(t)}])
    <3>1. g[t \ {Max(t)}] \in V
      BY <1>7 DEF Iteration
    <3>2. CASE t = {}
      BY <1>7, <3>2 DEF Iteration
    <3>3. CASE t # {}
      <4>1. g[t] = step[<<Max(t), g[t \ {Max(t)}]>>] /\ Max(t) \in 1 .. m
        BY <1>7, <1>8, <3>3 DEF Iteration
      <4>2. step[<<Max(t), g[t \ {Max(t)}]>>] = ReplayPass(p, g[t \ {Max(t)}])
        BY <1>4, <3>1, <4>1
      <4> QED BY <3>3, <4>1, <4>2
    <3> QED BY <3>2, <3>3
  <2> QED BY <1>7, <2>1 DEF Iteration
<1>10. \A t \in SUBSET (1 .. m) : it[t] = IF t = {} THEN s ELSE ReplayPass(p, it[t \ {Max(t)}])
  <2> HIDE DEF it
  <2>1. Recursive(it)
    BY <1>9 DEF it
  <2> QED BY <2>1
<1> HIDE DEF it, Recursive
<1>11. Folds(it, m, V, s, step)
  BY <1>4, <1>8, <1>10 DEF Folds
<1>12. PICK acc : Run(acc, m, V, s, step, it[1 .. m])
  BY <1>1, <1>4, <1>11, FoldRuns
<1>13. acc \in [0 .. m -> V] /\ acc[0] = s /\ acc[m] = it[1 .. m]
  BY <1>12 DEF Run
<1>14. ASSUME NEW k \in 1 .. m
       PROVE  /\ acc[k - 1] \in V /\ acc[k] = ReplayPass(p, acc[k - 1])
  <2>1. acc[k - 1] \in V
    BY <1>1, <1>13
  <2> QED BY <1>4, <1>12, <2>1 DEF Run
<1> DEFINE P == {k \in Nat : k <= m => Idle(acc[k]) \/ Len(acc[k].deferred) <= m - k}
<1>15. P = Nat
  <2>1. 0 \in P
    <3>1. Len(acc[0].deferred) = m
      BY <1>13 DEF m
    <3> QED BY <1>1, <3>1
  <2>2. ASSUME NEW j \in P PROVE j + 1 \in P
    <3>1. CASE j + 1 <= m
      <4> DEFINE t == acc[j]
                 u == acc[j + 1]
      <4>1. j \in Nat /\ j + 1 \in 1 .. m /\ (j + 1) - 1 = j
        BY <1>1, <3>1
      <4>2. Idle(t) \/ Len(t.deferred) <= m - j
        BY <1>1, <3>1, <4>1
      <4>3. t \in V /\ u = ReplayPass(p, t)
        BY <1>14, <4>1
      <4> HIDE DEF t, u
      <4>4. /\ Len(u.deferred) <= Len(t.deferred)
            /\ Len(u.deferred) = Len(t.deferred) => Idle(u)
            /\ Idle(t) => Idle(u)
            /\ Len(u.deferred) \in Nat /\ Len(t.deferred) \in Nat
        BY <1>5, <1>6, <4>3
      <4>5. Idle(u) \/ Len(u.deferred) <= m - (j + 1)
        BY <1>1, <4>1, <4>2, <4>4
      <4> QED BY <4>1, <4>5 DEF u
    <3> QED BY <3>1
  <2>3. P \in SUBSET Nat
    OBVIOUS
  <2> HIDE DEF P
  <2> QED BY <2>1, <2>2, <2>3, CountingUp
<1>16. Idle(acc[m]) \/ Len(acc[m].deferred) <= 0
  <2>1. m \in P /\ m - m = 0
    BY <1>1, <1>15
  <2> QED BY <1>1, <2>1
<1>17. acc[m] \in V
  BY <1>1, <1>13
<1>18. Idle(acc[m])
  <2>1. Len(acc[m].deferred) <= 0 => DOMAIN acc[m].deferred = {}
    BY <1>5, <1>17
  <2> QED BY <1>16, <2>1 DEF Idle
<1> QED BY <1>3, <1>13, <1>17, <1>18 DEF V

-----------------------------------------------------------------------------
(* Betting widens the licence *)

\* Every seat is licensed to at least as much.
Wider(licence, wide) == \A q \in Seat : licence[q] \subseteq wide[q]

\* What is fine under a licence is fine under a wider one.
LEMMA UnderWider ==
  ASSUME NEW licence, NEW wide, Wider(licence, wide)
  PROVE  Sent(licence) \subseteq Sent(wide) /\ HandsUnder(licence) \subseteq HandsUnder(wide)
<1>1. Sent(licence) \subseteq Sent(wide)
  BY DEF Wider, Sent, Payload
<1>2. StreetTokens(licence) \subseteq StreetTokens(wide)
  BY DEF Wider, StreetTokens
<1>3. ShowdownTokens(licence) \subseteq ShowdownTokens(wide)
  BY DEF Wider, ShowdownTokens
<1>4. Seq(Sent(licence)) \subseteq Seq(Sent(wide)) /\ SUBSET Sent(licence) \subseteq SUBSET Sent(wide)
  BY <1>1
<1> QED
  BY <1>1, <1>2, <1>3, <1>4 DEF HandsUnder

\* The pump keeps to the licence, whatever is set aside.
LEMMA PumpsOn ==
  ASSUME NEW licence, NEW p \in Seat, NEW n, NEW s \in TableOf(p, licence, n)
  PROVE  Pump(p, s) \in TableOf(p, licence, n)
<1> DEFINE d == s.deferred
<1>1. s \in View(p, licence, n, d)
  BY DEF View
<1> HIDE DEF d
<1>2. Pump(p, s) \in View(p, licence, n, d)
  BY <1>1, PumpKeeps
<1> QED BY <1>2 DEF View

\* An act takes no licence away from the peer that applies it, unless it is its
\* own act after the betting.
LEMMA TakeActKeeps ==
  ASSUME NEW licence, NEW p \in Seat, NEW n \in Nat, NEW s \in TableOf(p, licence, n),
         NEW seat \in Seat, NEW move, seat = p => ~s.pending
  PROVE  \E wide : /\ Wider(licence, wide)
                   /\ \A q \in Seat \ {p} : wide[q] = licence[q]
                   /\ TakeAct(p, s, seat, move) \in TableOf(p, wide, n + 1)
<1> DEFINE acted == s.acted \union {seat}
           folded == IF move = "fold" THEN s.folded \union {seat} ELSE s.folded
           allIn == IF move = "allin" THEN s.allIn \union {seat} ELSE s.allIn
           t == [s EXCEPT !.applied = n + 1, !.acted = acted, !.folded = folded,
                          !.allIn = allIn]
           over == [t EXCEPT !.pending = TRUE]
           next == [t EXCEPT !.street = @ + 1, !.acted = {}]
           closed == CanBet(t) \subseteq t.acted
           u == IF FoldedOut(t) \/ (closed /\ (Cardinality(CanBet(t)) <= 1
                                                \/ t.street = Streets))
                  THEN over ELSE IF closed THEN next ELSE t
           wide == [q \in Seat |-> IF q = p THEN Licence(p, u) ELSE licence[q]]
<1>1. /\ s \in HandsUnder(licence) /\ s.applied = n /\ Licence(p, s) = licence[p]
      /\ s.deck = Order(s.shuffles)
  BY DEF TableOf, Shuffled
<1>2. TakeAct(p, s, seat, move) = Pump(p, u)
  BY <1>1 DEF TakeAct
<1>3. /\ acted \in SUBSET Seat /\ folded \in SUBSET Seat /\ allIn \in SUBSET Seat
      /\ n + 1 \in Nat
  BY <1>1 DEF HandsUnder
<1>4. p \in folded => p \in s.folded \/ seat = p
  OBVIOUS
<1> HIDE DEF acted, folded, allIn
<1>5. /\ t \in HandsUnder(licence) /\ t.applied = n + 1 /\ t.street = s.street
      /\ t.pending = s.pending /\ t.folded = folded
      /\ t.shuffles = s.shuffles /\ t.deck = s.deck
  BY <1>1, <1>3 DEF HandsUnder
<1> HIDE DEF t
<1>6. /\ u \in HandsUnder(licence) /\ u.applied = n + 1
      /\ s.street <= u.street
      /\ s.pending => u.pending
      /\ u.folded = folded /\ Shuffled(u)
  <2>1. over \in HandsUnder(licence) /\ over.applied = n + 1
        /\ over.street = s.street /\ over.pending /\ over.folded = folded
        /\ over.shuffles = t.shuffles /\ over.deck = t.deck
    BY <1>5 DEF HandsUnder
  <2>2. ASSUME t.street # Streets
        PROVE  /\ next \in HandsUnder(licence) /\ next.applied = n + 1
               /\ s.street <= next.street /\ next.pending = s.pending
               /\ next.folded = folded
               /\ next.shuffles = t.shuffles /\ next.deck = t.deck
    <3>1. t.street + 1 \in 0 .. Streets /\ s.street <= t.street + 1
      BY <1>1, <1>5, <2>2, DealConstants DEF HandsUnder
    <3> QED BY <1>5, <3>1 DEF HandsUnder
  <2>3. s.street <= s.street
    BY <1>1 DEF HandsUnder
  <2>4. t.deck = Order(t.shuffles)
    BY <1>1, <1>5
  <2> HIDE DEF over, next, closed
  <2> QED BY <1>5, <2>1, <2>2, <2>3, <2>4 DEF Shuffled
<1> HIDE DEF u
<1>7. Licence(p, s) \subseteq Licence(p, u)
  <2>1. \A r \in Round : r <= s.street => r <= u.street
    <3>1. s.street \in Int /\ u.street \in Int
      BY <1>1, <1>6 DEF HandsUnder
    <3> QED BY <1>6, <3>1 DEF Round
  <2>2. s.pending /\ p \notin s.folded => u.pending /\ p \notin u.folded
    BY <1>4, <1>6
  <2> QED BY <1>6, <2>1, <2>2 DEF Licence
<1>8. Wider(licence, wide) /\ wide[p] = Licence(p, u)
  BY <1>1, <1>7 DEF Wider
<1>9. \A q \in Seat \ {p} : wide[q] = licence[q]
  OBVIOUS
<1> HIDE DEF wide
<1>10. u \in TableOf(p, wide, n + 1)
  BY <1>1, <1>6, <1>8, UnderWider DEF TableOf
<1>11. Pump(p, u) \in TableOf(p, wide, n + 1)
  BY <1>10, PumpsOn
<1> QED
  BY <1>2, <1>8, <1>9, <1>11

-----------------------------------------------------------------------------
(* The steps *)

\* A handler keeps to the licences, when the hand it starts from does under
\* licences that are wider for its own peer.
LEMMA HandleKeeps ==
  ASSUME DealIInv, NEW p \in Seat, NEW n \in Nat, NEW wide, Wider(Licences, wide),
         \A q \in Seat \ {p} : wide[q] = Licences[q],
         NEW s \in TableOf(p, wide, n), NEW delivered, Handle(p, s, delivered)
  PROVE  /\ TokensLicensed' /\ WireLicensed'
         /\ Shuffled(peer'[p]) /\ Idle(peer'[p])
         /\ peer'[p].applied = n
         /\ \A q \in Seat \ {p} : peer'[q] = peer[q]
<1> DEFINE t == Replay(p, s)
           v == [t EXCEPT !.out = {}]
<1>1. t \in TableOf(p, wide, n) /\ Idle(t)
  BY ReplayKeeps
<1>2. /\ peer' = [peer EXCEPT ![p] = v]
      /\ wire' = (wire \ delivered)
                   \union {w \in Post(p, t.out) : w.to \in Targets(p, w.payload)}
  BY DEF Handle
<1> HIDE DEF t
<1>3. /\ v \in HandsUnder(wide) /\ SameHand(t, v)
      /\ v.stage = t.stage /\ v.keys = t.keys
  BY <1>1 DEF TableOf, HandsUnder, SameHand
<1> HIDE DEF v
<1>4. v \in TableOf(p, wide, n) /\ Idle(v)
  <2>1. Licence(p, v) = Licence(p, t)
    BY <1>3 DEF Licence, SameHand
  <2>2. SameStage(t, v)
    BY <1>3 DEF SameHand, SameStage, TooEarly, Playing, Ready, Phase
  <2>3. Idle(v)
    BY <1>1, <1>3, <2>2 DEF Idle, SameStage, SameHand
  <2> QED BY <1>1, <1>3, <2>1, <2>3 DEF TableOf, SameHand, Shuffled
<1>5. /\ peer \in [Seat -> HandsUnder(Licences)] /\ Licences = [q \in Seat |-> Licence(q, peer[q])]
      /\ \A w \in wire : w.payload \in Sent(Licences)
  BY DEF DealIInv, TokensLicensed, WireLicensed, Licences
<1>6. /\ peer' \in [Seat -> HandsUnder(wide)]
      /\ peer'[p] = v /\ \A q \in Seat \ {p} : peer'[q] = peer[q]
  BY <1>2, <1>3, <1>5, UnderWider
<1>7. Licences' = [q \in Seat |-> Licence(q, peer'[q])]
  BY DEF Licences
<1>8. \A q \in Seat : Licences'[q] = wide[q]
  <2>1. Licence(p, peer'[p]) = wide[p]
    BY <1>4, <1>6 DEF TableOf
  <2>2. ASSUME NEW q \in Seat \ {p} PROVE Licence(q, peer'[q]) = wide[q]
    BY <1>5, <1>6
  <2> QED BY <1>7, <2>1, <2>2
<1>9. Sent(wide) \subseteq Sent(Licences') /\ HandsUnder(wide) \subseteq HandsUnder(Licences')
  <2>1. Wider(wide, Licences')
    BY <1>8 DEF Wider
  <2> QED BY <2>1, UnderWider
<1>10. peer' \in [Seat -> HandsUnder(Licences')]
  BY <1>6, <1>9
<1>11. \A w \in wire' : w.payload \in Sent(Licences')
  <2>1. t.out \subseteq Sent(wide)
    BY <1>1 DEF TableOf, HandsUnder
  <2>2. \A w \in Post(p, t.out) : w.payload \in t.out
    BY DEF Post
  <2>3. Sent(Licences) \subseteq Sent(wide)
    BY UnderWider
  <2> QED BY <1>2, <1>5, <1>9, <2>1, <2>2, <2>3
<1>12. v.applied = n /\ Shuffled(v)
  BY <1>4 DEF TableOf
<1> QED
  BY <1>4, <1>6, <1>10, <1>11, <1>12 DEF TokensLicensed, WireLicensed

\* And so it keeps the other parts of the invariant that are about one peer.
LEMMA OthersAlone ==
  ASSUME DealIInv, NEW p \in Seat, Shuffled(peer'[p]), Idle(peer'[p]),
         \A q \in Seat \ {p} : peer'[q] = peer[q]
  PROVE  DecksInOrder' /\ NothingAppliableWaits'
<1>1. ASSUME NEW q \in Seat PROVE Shuffled(peer'[q]) /\ Idle(peer'[q])
  <2>1. Shuffled(peer[q])
    BY DEF DealIInv, DecksInOrder
  <2>2. Idle(peer[q])
    BY DEF DealIInv, NothingAppliableWaits, Idle, TooEarly, Playing
  <2> QED BY <2>1, <2>2
<1> QED BY <1>1 DEF DecksInOrder, NothingAppliableWaits, Idle

\* A hand nobody has acted in, or sent anything for, holds nothing of anybody.
LEMMA InitDeals == Init => DealIInv
<1> SUFFICES ASSUME Init PROVE DealIInv
  OBVIOUS
<1>1. Fresh.hole \in HoleTokens
  BY DEF Fresh, HoleTokens
<1>2. Fresh.community \in StreetTokens(Licences)
  BY DEF Fresh, StreetTokens
<1>3. Fresh.shown \in ShowdownTokens(Licences)
  BY DEF Fresh, ShowdownTokens
<1>4. /\ <<>> \in Seq(Seat) /\ <<>> \in Seq(Round) /\ <<>> \in Seq(Sent(Licences))
      /\ <<>> \in Seq(Played)
      /\ DOMAIN <<>> = {}
  OBVIOUS
<1>5. Fresh \in HandsUnder(Licences)
  BY <1>1, <1>2, <1>3, <1>4, DealConstants, SeatCount DEF Fresh, HandsUnder
<1>6. peer \in [Seat -> HandsUnder(Licences)]
  BY <1>5 DEF Init
<1>7. ASSUME NEW p \in Seat PROVE Shuffled(peer[p]) /\ peer[p].deferred = <<>>
  <2>1. Fresh.deck = <<>> /\ Fresh.shuffles = 0 /\ Fresh.deferred = <<>>
    BY DEF Fresh
  <2>2. Order(0) = <<>>
    BY DEF Order
  <2> QED BY <2>1, <2>2 DEF Init, Shuffled
<1>8. DecksInOrder /\ NothingAppliableWaits
  BY <1>4, <1>7 DEF DecksInOrder, NothingAppliableWaits
<1> QED
  BY <1>4, <1>6, <1>8 DEF Init, DealIInv, TokensLicensed, WireLicensed, ActsAreMoves,
                          OwnActsApplied

\* What the invariant says of one peer.
LEMMA PeerLicensed ==
  ASSUME DealIInv, NEW p \in Seat
  PROVE  /\ peer[p].applied \in Nat
         /\ peer[p] \in TableOf(p, Licences, peer[p].applied)
         /\ Wider(Licences, Licences)
<1>1. /\ peer[p] \in HandsUnder(Licences) /\ Licences[p] = Licence(p, peer[p])
      /\ Shuffled(peer[p])
  BY DEF DealIInv, TokensLicensed, Licences, DecksInOrder
<1>2. peer[p].applied \in Nat
  BY <1>1 DEF HandsUnder
<1> QED
  BY <1>1, <1>2 DEF TableOf, Wider

\* The acts of a hand stay behind what their seats applied.
LEMMA ActsStayApplied ==
  ASSUME DealIInv, \A q \in Seat : peer'[q].applied >= peer[q].applied /\ peer'[q].applied \in Nat,
         acts' = acts
  PROVE  ActsAreMoves' /\ OwnActsApplied'
<1>1. ASSUME NEW k \in DOMAIN acts PROVE k <= peer'[acts[k].seat].applied
  <2>1. acts \in Seq(Played) /\ k <= peer[acts[k].seat].applied
    BY DEF DealIInv, ActsAreMoves, OwnActsApplied
  <2>2. acts[k] \in Played /\ k \in Nat
    BY <2>1
  <2>3. acts[k].seat \in Seat
    BY <2>2 DEF Played
  <2>4. peer[acts[k].seat].applied \in Nat
    BY <2>3, PeerLicensed
  <2> QED BY <2>1, <2>2, <2>3, <2>4
<1> QED
  BY <1>1 DEF DealIInv, ActsAreMoves, OwnActsApplied

\* The start of the hand reaches a peer.
LEMMA StartKeeps ==
  ASSUME DealIInv, NEW p \in Seat, Start(p)
  PROVE  DealIInv'
<1> DEFINE n == peer[p].applied
           t == [peer[p] EXCEPT !.stage = "playing"]
<1>1. n \in Nat /\ peer[p] \in TableOf(p, Licences, n) /\ Wider(Licences, Licences)
  BY PeerLicensed
<1>2. t \in HandsUnder(Licences) /\ SameHand(peer[p], t)
  BY <1>1 DEF TableOf, HandsUnder, SameHand
<1>3. t \in TableOf(p, Licences, n)
  BY <1>1, <1>2 DEF TableOf, SameHand, Licence, Shuffled
<1>4. Pump(p, t) \in TableOf(p, Licences, n)
  BY <1>3, PumpsOn
<1>5. Handle(p, Pump(p, t), {}) /\ acts' = acts
  BY DEF Start
<1> HIDE DEF t
<1>6. /\ TokensLicensed' /\ WireLicensed' /\ Shuffled(peer'[p]) /\ Idle(peer'[p])
      /\ peer'[p].applied = n
      /\ \A q \in Seat \ {p} : peer'[q] = peer[q]
  BY <1>1, <1>4, <1>5, HandleKeeps
<1>7. \A q \in Seat : peer'[q].applied >= peer[q].applied /\ peer'[q].applied \in Nat
  BY <1>1, <1>6, PeerLicensed
<1> QED
  BY <1>5, <1>6, <1>7, ActsStayApplied, OthersAlone DEF DealIInv

\* A payload arrives.
LEMMA DeliverKeeps ==
  ASSUME DealIInv, NEW p \in Seat, Deliver(p)
  PROVE  DealIInv'
<1> DEFINE n == peer[p].applied
<1>1. n \in Nat /\ peer[p] \in TableOf(p, Licences, n) /\ Wider(Licences, Licences)
  BY PeerLicensed
<1>2. PICK w \in wire, delivered \in {{}, wire} \union {{w} : w \in wire} :
        Handle(p, Receive(p, peer[p], w.payload), delivered) /\ acts' = acts
  BY DEF Deliver
<1>3. w.payload \in Sent(Licences)
  BY DEF DealIInv, WireLicensed
<1>4. Receive(p, peer[p], w.payload) \in TableOf(p, Licences, n)
  BY <1>1, <1>3, ReceiveKeeps
<1>5. /\ TokensLicensed' /\ WireLicensed' /\ Shuffled(peer'[p]) /\ Idle(peer'[p])
      /\ peer'[p].applied = n
      /\ \A q \in Seat \ {p} : peer'[q] = peer[q]
  BY <1>1, <1>2, <1>4, HandleKeeps
<1>6. \A q \in Seat : peer'[q].applied >= peer[q].applied /\ peer'[q].applied \in Nat
  BY <1>1, <1>5, PeerLicensed
<1> QED
  BY <1>2, <1>5, <1>6, ActsStayApplied, OthersAlone DEF DealIInv

\* Nobody is to act once the betting is over.
LEMMA ToActBefore ==
  ASSUME NEW s, NEW p \in Seat, ToAct(s) = p
  PROVE  ~s.pending
<1>1. NoSeat # p
  BY DEF NoSeat, Seat
<1> QED
  BY <1>1 DEF ToAct

\* A peer applies an act: somebody else's, or its own while the betting is on.
LEMMA ActKeeps ==
  ASSUME DealIInv, NEW p \in Seat, NEW seat \in Seat, NEW move,
         seat = p => ~peer[p].pending,
         Handle(p, TakeAct(p, peer[p], seat, move), {})
  PROVE  /\ TokensLicensed' /\ WireLicensed' /\ Shuffled(peer'[p]) /\ Idle(peer'[p])
         /\ peer'[p].applied = peer[p].applied + 1
         /\ \A q \in Seat \ {p} : peer'[q] = peer[q]
<1> DEFINE n == peer[p].applied
<1>1. n \in Nat /\ peer[p] \in TableOf(p, Licences, n)
  BY PeerLicensed
<1>2. PICK wide : /\ Wider(Licences, wide)
                  /\ \A q \in Seat \ {p} : wide[q] = Licences[q]
                  /\ TakeAct(p, peer[p], seat, move) \in TableOf(p, wide, n + 1)
  BY <1>1, TakeActKeeps
<1>3. n + 1 \in Nat
  BY <1>1
<1> HIDE DEF n
<1>4. /\ TokensLicensed' /\ WireLicensed' /\ Shuffled(peer'[p]) /\ Idle(peer'[p])
      /\ peer'[p].applied = n + 1
      /\ \A q \in Seat \ {p} : peer'[q] = peer[q]
  BY <1>2, <1>3, HandleKeeps
<1> QED
  BY <1>4 DEF n

\* A peer applies the next act of another.
LEMMA HearKeeps ==
  ASSUME DealIInv, NEW p \in Seat, Hear(p)
  PROVE  DealIInv'
<1> DEFINE n == peer[p].applied
           act == acts[n + 1]
<1>1. n \in Nat /\ n < Len(acts) /\ acts \in Seq(Played)
  BY PeerLicensed DEF Hear, CanHear, DealIInv, ActsAreMoves
<1>2. n + 1 \in DOMAIN acts /\ act \in Played
  BY <1>1
<1>3. act.seat # p
  <2>1. n + 1 <= peer[act.seat].applied
    BY <1>2 DEF DealIInv, OwnActsApplied
  <2>2. ~(n + 1 <= n)
    BY <1>1
  <2> QED BY <2>1, <2>2
<1>4. Handle(p, TakeAct(p, peer[p], act.seat, act.move), {}) /\ acts' = acts
  BY DEF Hear
<1>5. act.seat \in Seat
  BY <1>2 DEF Played
<1> HIDE DEF act
<1>6. /\ TokensLicensed' /\ WireLicensed' /\ Shuffled(peer'[p]) /\ Idle(peer'[p])
      /\ peer'[p].applied = n + 1
      /\ \A q \in Seat \ {p} : peer'[q] = peer[q]
  BY <1>3, <1>4, <1>5, ActKeeps
<1>7. \A q \in Seat : peer'[q].applied >= peer[q].applied /\ peer'[q].applied \in Nat
  BY <1>1, <1>6, PeerLicensed
<1> QED
  BY <1>4, <1>6, <1>7, ActsStayApplied, OthersAlone DEF DealIInv

\* A peer moves.
LEMMA MoveKeeps ==
  ASSUME DealIInv, NEW p \in Seat, Move(p)
  PROVE  DealIInv'
<1> DEFINE n == peer[p].applied
<1>1. n \in Nat /\ n = Len(acts) /\ ToAct(peer[p]) = p /\ acts \in Seq(Played)
  BY PeerLicensed DEF Move, CanMove, DealIInv, ActsAreMoves
<1>2. PICK move \in Moves :
        /\ acts' = Append(acts, [seat |-> p, move |-> move])
        /\ Handle(p, TakeAct(p, peer[p], p, move), {})
  BY DEF Move
<1>3. ~peer[p].pending
  BY <1>1, ToActBefore
<1>4. /\ TokensLicensed' /\ WireLicensed' /\ Shuffled(peer'[p]) /\ Idle(peer'[p])
      /\ peer'[p].applied = n + 1
      /\ \A q \in Seat \ {p} : peer'[q] = peer[q]
  BY <1>2, <1>3, ActKeeps
<1>5. \A q \in Seat : peer[q].applied \in Nat
  BY PeerLicensed
<1>6. /\ acts' \in Seq(Played)
      /\ DOMAIN acts' = 1 .. n + 1
      /\ acts'[n + 1].seat = p
      /\ \A k \in 1 .. n : acts'[k] = acts[k] /\ k \in DOMAIN acts /\ acts[k] \in Played
  <2> DEFINE act == [seat |-> p, move |-> move]
  <2>1. act \in Played /\ act.seat = p
    BY DEF Played
  <2>2. acts' = Append(acts, act)
    BY <1>2
  <2> HIDE DEF act
  <2> QED BY <1>1, <2>1, <2>2
<1>7. ASSUME NEW k \in DOMAIN acts' PROVE k <= peer'[acts'[k].seat].applied
  <2>1. CASE k = n + 1
    BY <1>1, <1>4, <1>6, <2>1
  <2>2. CASE k # n + 1
    <3>1. k \in 1 .. n
      BY <1>1, <1>6, <2>2
    <3>2. k <= peer[acts[k].seat].applied /\ acts'[k] = acts[k] /\ acts[k].seat \in Seat
      BY <1>6, <3>1 DEF DealIInv, OwnActsApplied, Played
    <3>3. CASE acts[k].seat = p
      BY <1>1, <1>4, <3>1, <3>2, <3>3
    <3>4. CASE acts[k].seat # p
      BY <1>4, <3>2, <3>4
    <3> QED BY <3>3, <3>4
  <2> QED BY <2>1, <2>2
<1> QED
  BY <1>4, <1>6, <1>7, OthersAlone DEF DealIInv, ActsAreMoves, OwnActsApplied

\* The invariant is inductive.
LEMMA NextDeals == DealIInv /\ [Next]_vars => DealIInv'
<1> SUFFICES ASSUME DealIInv, [Next]_vars PROVE DealIInv'
  OBVIOUS
<1>1. CASE Next
  <2>1. PICK p \in Seat : Start(p) \/ Deliver(p) \/ Move(p) \/ Hear(p)
    BY <1>1 DEF Next
  <2> QED BY <2>1, StartKeeps, DeliverKeeps, MoveKeeps, HearKeeps
<1>2. CASE UNCHANGED vars
  BY <1>2 DEF vars, DealIInv, TokensLicensed, WireLicensed, ActsAreMoves, OwnActsApplied,
               DecksInOrder, NothingAppliableWaits, Licences
<1> QED
  BY <1>1, <1>2

-----------------------------------------------------------------------------
(* The theorems *)

\* Whatever a peer holds, and whatever travels, was given under the licence of its
\* giver's own hand.
THEOREM TokensAreLicensed == Spec => []DealIInv
<1>1. Init => DealIInv
  BY InitDeals
<1>2. DealIInv /\ [Next]_vars => DealIInv'
  BY NextDeals
<1> QED
  BY <1>1, <1>2, PTL DEF Spec

\* Nobody can open another seat's hole cards before that seat itself saw the
\* betting end with its hand still in.
THEOREM HoleCardsPrivate == Spec => []HoleCardsStayPrivate
<1>1. DealIInv => HoleCardsStayPrivate
  <2> SUFFICES ASSUME DealIInv, NEW p \in Seat, NEW o \in Seat, TokensOf(peer[p], o) = Seat
               PROVE  peer[o].pending /\ o \notin peer[o].folded
    BY DEF HoleCardsStayPrivate
  <2>1. peer[p] \in HandsUnder(Licences) /\ peer[o] \in TableOf(o, Licences, peer[o].applied)
    BY PeerLicensed DEF TableOf
  <2>2. o \notin peer[p].hole[o]
    BY <2>1 DEF HandsUnder, HoleTokens
  <2>3. o \in peer[p].shown
    BY <2>2 DEF TokensOf
  <2>4. Showdown \in Licences[o]
    BY <2>1, <2>3 DEF HandsUnder, ShowdownTokens
  <2> QED BY <2>1, <2>4, LicenceIs DEF TableOf
<1> QED
  BY <1>1, TokensAreLicensed, PTL

\* No street is open at any peer while another is still betting the one before.
THEOREM BoardWaits == Spec => []BoardWaitsForBetting
<1>1. DealIInv => BoardWaitsForBetting
  <2> SUFFICES ASSUME DealIInv, NEW p \in Seat, NEW q \in Seat, NEW r \in Round,
                      Revealed(peer[p], r)
               PROVE  peer[q].street >= r \/ peer[q].pending
    BY DEF BoardWaitsForBetting
  <2>1. /\ peer[p] \in HandsUnder(Licences)
        /\ peer[q] \in TableOf(q, Licences, peer[q].applied) /\ peer[q] \in HandsUnder(Licences)
    BY PeerLicensed DEF TableOf
  <2>2. Board[r] \in Licences[q]
    BY <2>1 DEF Revealed, HandsUnder, StreetTokens
  <2>3. peer[q].pending \/ r <= peer[q].street
    BY <2>1, <2>2, LicenceIs DEF TableOf
  <2>4. peer[q].street \in Int /\ r \in Int
    BY <2>1 DEF HandsUnder, Round
  <2> QED BY <2>3, <2>4
<1> QED
  BY <1>1, TokensAreLicensed, PTL

\* What a peer has set aside is still too early for it: replaying as many passes
\* as there were payloads aside always reaches the point where nothing applies.
THEOREM NothingWaits == Spec => []NothingAppliableWaits
<1>1. DealIInv => NothingAppliableWaits
  BY DEF DealIInv
<1> QED
  BY <1>1, TokensAreLicensed, PTL

\* Peers that hold a shuffled deck hold the same one, shuffled by every seat,
\* whatever order the shuffles arrived in.
THEOREM DecksAgree == Spec => []OneDeck
<1>1. DealIInv => OneDeck
  <2> SUFFICES ASSUME DealIInv, NEW p \in Seat, Ready(peer[p])
               PROVE  peer[p].deck = Order(N) /\ ToSet(Order(N)) = Seat
    BY DEF OneDeck
  <2>1. peer[p].shuffles \in 0 .. N /\ peer[p].deck = Order(peer[p].shuffles)
    BY DEF DealIInv, TokensLicensed, HandsUnder, DecksInOrder, Shuffled
  <2>2. ~(peer[p].shuffles < N)
    BY DEF Ready, Phase
  <2>3. peer[p].shuffles = N
    BY <2>1, <2>2, SeatCount
  <2>4. \A i \in Seat : i + 1 \in 1 .. N /\ i = (i + 1) - 1
    BY SeatCount DEF Seat
  <2>5. \A k \in 1 .. N : k - 1 \in Seat
    BY SeatCount DEF Seat
  <2>6. ToSet(Order(N)) = Seat
    BY <2>4, <2>5 DEF ToSet, Order
  <2> QED BY <2>1, <2>3, <2>6
<1> QED
  BY <1>1, TokensAreLicensed, PTL
=============================================================================
