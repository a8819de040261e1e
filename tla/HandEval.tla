------------------------------ MODULE HandEval ------------------------------
(***************************************************************************)
(* What five to seven cards are worth (game/src/hand_eval.rs), against the *)
(* rules of poker read off all the cards at once.  Cards are dealt one at  *)
(* a time to a hand of five, as the turn and the river extend a player's.  *)
(***************************************************************************)
EXTENDS Naturals, Sequences, FiniteSets, FiniteSetsExt, SequencesExt

CONSTANT Deck      \* the cards dealt from: a rank, Two = 0 .. Ace = 12, and a suit

ASSUME DeckOfCards == Deck \subseteq [rank : 0 .. 12, suit : 1 .. 4]

VARIABLES
  cards,           \* the cards held
  value            \* their HandValue: the category, then the tiebreak ranks

vars == <<cards, value>>

\* enum HandRank, weakest first.
HighCard == 0
Pair == 1
TwoPair == 2
ThreeOfAKind == 3
Straight == 4
Flush == 5
FullHouse == 6
FourOfAKind == 7
StraightFlush == 8

Five == 3
Ace == 12
Wheel == {Ace, 0, 1, 2, Five}

Descending(S) == SetToSortSeq(S, LAMBDA a, b : a > b)

\* The derived order of HandValue: the category, then the tiebreak in order.
Beats(v, w) ==
  \E i \in DOMAIN v \cap DOMAIN w :
    v[i] > w[i] /\ \A j \in 1 .. i - 1 : v[j] = w[j]

-----------------------------------------------------------------------------
(* Five cards *)

RanksOf(C) == {c.rank : c \in C}
CountIn(C, r) == Cardinality({c \in C : c.rank = r})

\* The ranks, the most frequent first and the highest first among those.
Groups(C) ==
  SetToSortSeq(RanksOf(C),
               LAMBDA a, b : \/ CountIn(C, a) > CountIn(C, b)
                             \/ CountIn(C, a) = CountIn(C, b) /\ a > b)

\* Mutant of StraightHigh: the ace of a wheel is its high card.
StraightHighAce(C) ==
  LET R == RanksOf(C) IN
  IF Cardinality(R) # 5 THEN {}
  ELSE IF Max(R) = Min(R) + 4 \/ R = Wheel THEN {Max(R)} ELSE {}

\* straight_high_card: at most one rank.
StraightHigh(C) ==
  LET R == RanksOf(C) IN
  IF Cardinality(R) # 5 THEN {}
  ELSE IF Max(R) = Min(R) + 4 THEN {Max(R)}
  ELSE IF R = Wheel THEN {Five}
  ELSE {}

\* The category tests of evaluate_five, in the order of its returns; ranks
\* that are all different come in Groups from the highest down.
EvaluateFive(C) ==
  LET groups == Groups(C)
      count(i) == IF i <= Len(groups) THEN CountIn(C, groups[i]) ELSE 0
      suited == Cardinality({c.suit : c \in C}) = 1
      straight == StraightHigh(C)
      high == CHOOSE r \in straight : TRUE
      category == IF count(1) = 4 THEN FourOfAKind
                  ELSE IF count(1) = 3 /\ count(2) = 2 THEN FullHouse
                  ELSE IF suited THEN Flush
                  ELSE IF count(1) = 3 THEN ThreeOfAKind
                  ELSE IF count(1) = 2 /\ count(2) = 2 THEN TwoPair
                  ELSE IF count(1) = 2 THEN Pair
                  ELSE HighCard
  IN IF straight = {} THEN <<category>> \o groups
     ELSE <<IF suited THEN StraightFlush ELSE Straight, high>>

\* combinations5: the cards' subsets of five.
Fives(C) == kSubset(5, C)

\* The strongest of several hands.
Best(V) == CHOOSE v \in V : \A w \in V : ~Beats(w, v)

EvaluateBest(C) == Best({EvaluateFive(F) : F \in Fives(C)})

-----------------------------------------------------------------------------
(* The deal *)

Init ==
  /\ cards \in kSubset(5, Deck)
  /\ value = EvaluateBest(cards)

\* The turn or the river reaches a player who saw five or six cards.
Draw ==
  /\ Cardinality(cards) < 7
  /\ \E c \in Deck \ cards :
       /\ cards' = cards \cup {c}
       /\ value' = EvaluateBest(cards \cup {c})

Next == Draw

Spec == Init /\ [][Next]_vars

-----------------------------------------------------------------------------
(* The rules of poker, without a look at five cards at a time *)

Top(n, R) == SubSeq(Descending(R), 1, n)
Having(n) == {r \in RanksOf(cards) : CountIn(cards, r) >= n}

\* The high cards of the straights that ranks R hold.
StraightsIn(R) ==
  {h \in R : h >= 4 /\ (h - 4) .. h \subseteq R} \cup {h \in {Five} : Wheel \subseteq R}

SuitRanks(s) == RanksOf({c \in cards : c.suit = s})
FlushSuits == {s \in 1 .. 4 : Cardinality(SuitRanks(s)) >= 5}
FlushStraights == UNION {StraightsIn(SuitRanks(s)) : s \in FlushSuits}

\* A set of the most frequent ranks, then the best of the others.
Kickers(n, used) == Top(n, RanksOf(cards) \ used)

\* Every hand of n equal ranks, n = 4, 3 or 2, is the highest there is.
Rules ==
  LET quad == {r \in Having(4) : r = Max(Having(4))}
      trip == {r \in Having(3) : r = Max(Having(3))}
      pairs == Having(2) \ trip
  IN IF FlushStraights # {} THEN <<StraightFlush, Max(FlushStraights)>>
     ELSE IF quad # {} THEN <<FourOfAKind, Max(quad)>> \o Kickers(1, quad)
     ELSE IF trip # {} /\ pairs # {} THEN <<FullHouse, Max(trip), Max(pairs)>>
     ELSE IF FlushSuits # {} THEN <<Flush>> \o Top(5, SuitRanks(Max(FlushSuits)))
     ELSE IF StraightsIn(RanksOf(cards)) # {} THEN <<Straight, Max(StraightsIn(RanksOf(cards)))>>
     ELSE IF trip # {} THEN <<ThreeOfAKind, Max(trip)>> \o Kickers(2, trip)
     ELSE IF Cardinality(pairs) >= 2
       THEN <<TwoPair>> \o Top(2, pairs) \o Kickers(1, {Top(2, pairs)[1], Top(2, pairs)[2]})
     ELSE IF pairs # {} THEN <<Pair, Max(pairs)>> \o Kickers(3, pairs)
     ELSE <<HighCard>> \o Top(5, RanksOf(cards))

-----------------------------------------------------------------------------
(* Properties *)

\* How many ranks tell apart hands of the same category.
TiebreakLength == [c \in HighCard .. StraightFlush |->
  CASE c \in {HighCard, Flush} -> 5
    [] c = Pair -> 4
    [] c \in {TwoPair, ThreeOfAKind} -> 3
    [] c \in {FullHouse, FourOfAKind} -> 2
    [] c \in {Straight, StraightFlush} -> 1]

\* Values are compared as vectors, where a prefix would be the weaker one: hands
\* of one category have equally many tiebreak ranks, however they were found.
TypeOK ==
  /\ cards \subseteq Deck /\ Cardinality(cards) \in 5 .. 7
  /\ value[1] \in HighCard .. StraightFlush
  /\ Len(value) = 1 + TiebreakLength[value[1]]
  /\ \A i \in 2 .. Len(value) : value[i] \in 0 .. 12

\* evaluate_best takes the maximum over five cards at a time with the ordering
\* of the tiebreak vectors; it gives what the rules give for all the cards: the
\* right one of two trips, three pairs or two straights, the wheel below the
\* six-high straight, the five best of a longer flush.
PlaysByTheRules == value = Rules

\* One more card on the board never makes what a player holds worse.
CardsNeverHurt == [][~Beats(value, value')]_vars
=============================================================================
