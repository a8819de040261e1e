------------------------------- MODULE MCNode -------------------------------
(***************************************************************************)
(* A host behind a home router: an address of each class, at the edges of  *)
(* the ranges, over both transports.                                       *)
(***************************************************************************)
EXTENDS Node

\* Over QUIC a link-local address and a public one, in either order.
Listening ==
  {<<Ip4(<<127, 0, 0, 1>>), Tcp>>, <<Ip6("plain", 65152), Quic>>, <<Ip6("plain", 8193), Quic>>}

\* What a second router in front of the first one makes of a mapping.
Mapped == {<<Ip4(<<100, 127, 0, 1>>), Tcp>>}

\* What a peer outside, one on the same network and one behind the same carrier see.
Observed ==
  {<<Ip4(<<100, 128, 0, 1>>), Quic, P2p("other")>>, <<Ip4(<<172, 31, 255, 1>>), Tcp>>,
   <<Ip6("mapped", <<100, 64, 0, 9>>), Tcp>>}
=============================================================================
