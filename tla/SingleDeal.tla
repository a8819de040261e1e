----------------------------- MODULE SingleDeal ------------------------------
(***************************************************************************)
(* The deal as one process runs it (MentalDeal, deal/src/mental.rs): it    *)
(* holds every key and one deck.  This is what the replicas of PeerDeal    *)
(* promise together: one deck, shuffled once by every player in seat       *)
(* order, whose cards open to what that deck holds.                        *)
(***************************************************************************)
EXTENDS MaskedDeck

VARIABLES
  keyed,    \* the aggregate key exists
  deck,     \* the face-down deck, <<>> before it is masked
  opened    \* the cards unmasked so far: pairs of a position and a card

dealVars == <<keyed, deck, opened>>

Turn == Len(deck[0].masks)      \* shuffles done so far

Init == keyed = FALSE /\ deck = <<>> /\ opened = {}

\* aggregate_keys, then mask_initial_deck.
FaceDown ==
  /\ ~keyed
  /\ keyed' = TRUE
  /\ deck' = OpenDeck
  /\ UNCHANGED opened

\* shuffle: the caller runs it once per player.
Shuffle ==
  /\ keyed /\ Turn < N
  /\ \E perm \in Rearrangements : deck' = Remask(deck, perm, Turn)
  /\ UNCHANGED <<keyed, opened>>

\* unmask_position, of as many cards as every player gave a token for.
Unmask ==
  /\ keyed /\ Turn = N
  /\ opened \subseteq opened'
  /\ \A o \in opened' : o[2] = deck[o[1]].card
  /\ UNCHANGED <<keyed, deck>>

Next == FaceDown \/ Shuffle \/ Unmask

Spec == Init /\ [][Next]_dealVars
=============================================================================
