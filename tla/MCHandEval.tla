----------------------------- MODULE MCHandEval -----------------------------
(* Ace to six: the wheel, a six-high straight, and up to four of a rank. *)
EXTENDS HandEval

Card(r, s) == [rank |-> r, suit |-> s]

SmallDeck ==
  {Card(r, 1) : r \in {12, 0, 1, 2, 3, 4}} \cup {Card(r, 2) : r \in {12, 0, 3, 4}}
    \cup {Card(r, s) : r \in {12, 4}, s \in {3, 4}}
=============================================================================
