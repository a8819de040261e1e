----------------------------- MODULE MCPeerDeal ------------------------------
(***************************************************************************)
(* One shuffle a player may draw: applied three times it leaves the cards  *)
(* elsewhere than when it is applied twice.  Which one is drawn changes    *)
(* the cards, never the protocol.                                          *)
(***************************************************************************)
EXTENDS PeerDeal

OneRearrangement == {[i \in Position |-> (5 * i + 3) % Cards]}
=============================================================================
