----------------------------- MODULE MaskedDeck ------------------------------
(***************************************************************************)
(* Masked cards and their shuffles, as the card protocol gives them to     *)
(* deal/src: a masked card is its card and the shuffles that masked it     *)
(* again, oldest first, and two ciphertexts are equal when both are.       *)
(***************************************************************************)
EXTENDS Seats, Sequences

CONSTANTS
  Cards,          \* size of the deck (bound: the code has 52)
  Rearrangements  \* the permutations a shuffle may draw (bound)

Position == 0 .. Cards - 1

ASSUME DeckConstants ==
  /\ Cards \in Nat
  /\ Rearrangements \subseteq [Position -> Position]
  /\ \A perm \in Rearrangements : {perm[i] : i \in Position} = Position

\* The encoding gives every card a point of its own: a card is its index.
Masked(card, masks) == [card |-> card, masks |-> masks]

\* The sorted deck, masked with no randomness: the same for everybody.
OpenDeck == [i \in Position |-> Masked(i, <<>>)]

\* A shuffle moves the cards and masks every one of them again.
Remask(old, perm, by) ==
  [i \in Position |-> Masked(old[perm[i]].card, Append(old[perm[i]].masks, by))]

\* What the proof of a shuffle convinces its verifier of.
IsShuffle(old, new, by) ==
  /\ DOMAIN old = Position /\ DOMAIN new = Position
  /\ \A i \in Position : new[i].masks = Append(old[i].masks, by)
  /\ {new[i].card : i \in Position} = {old[i].card : i \in Position}
=============================================================================
