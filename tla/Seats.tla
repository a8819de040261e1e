-------------------------------- MODULE Seats --------------------------------
(***************************************************************************)
(* The seats of a table and the clockwise order in which play visits them. *)
(***************************************************************************)
EXTENDS Integers

CONSTANT N         \* number of seats

Seat == 0 .. N - 1

ASSUME SeatCount == N \in 2 .. 9

NoSeat == -1       \* Option<usize>::None

NextSeat(i) == IF i = N - 1 THEN 0 ELSE i + 1

\* How many seats clockwise from `from` to i.
Distance(from, i) == IF i >= from THEN i - from ELSE i + N - from

\* The first seat of S met clockwise, starting at `from` itself.
FirstOf(S, from) ==
  IF S = {} THEN NoSeat
  ELSE CHOOSE i \in S : \A j \in S : Distance(from, i) <= Distance(from, j)
=============================================================================
