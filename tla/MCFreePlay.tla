----------------------------- MODULE MCFreePlay -----------------------------
(* Equal stacks of two big blinds; in the second hand they may differ. *)
EXTENDS FreePlay

TwoBlindsEach == {[i \in Seat |-> 2 * BigBlind]}
=============================================================================
