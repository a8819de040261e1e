------------------------------ MODULE MCBetting ------------------------------
(***************************************************************************)
(* Small tables for Betting, with blinds 1 and 2.  The stacks lie around   *)
(* the amounts the rules compare: a busted seat, a stack below, at and one *)
(* above the big blind, one that makes a short raise over a full one, and  *)
(* one deep enough for a raise and a re-raise.                             *)
(***************************************************************************)
EXTENDS Betting

ThreeSeatStacks == [0 .. 2 -> {0, 1, 3, 5, 7}]
=============================================================================
