------------------------------- MODULE MCHands -------------------------------
(***************************************************************************)
(* Small games: the host gives every seat the same stack.                  *)
(***************************************************************************)
EXTENDS Hands

EqualStacks(chips) == [i \in Seat |-> chips]

\* Enough for a raise over the blinds, so that hands end in every way.
PlayableStacks == {EqualStacks(6)}

\* Both blinds take the whole stack.
BlindSizedStacks == {EqualStacks(1)}
=============================================================================
