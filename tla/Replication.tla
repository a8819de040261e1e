---------------------------- MODULE Replication ------------------------------
(***************************************************************************)
(* The acts of one hand as they travel between peers: Table::apply_act and *)
(* local_turn (protocol/src/table.rs) on every peer, and what the drivers  *)
(* of the host and of the guests (protocol/src/driver.rs) publish, publish *)
(* again and apply.                                                        *)
(*                                                                         *)
(* The peers form a star around the host, whose gossip layer forwards what *)
(* one guest publishes to the others.  Each link keeps its order but may   *)
(* drop a message: a full queue, a full event channel (node.rs emit), or a *)
(* mental hand whose street is not open yet (NotBettingYet).  A message    *)
(* that is published again is a new one to the gossip layer, whose message *)
(* ids include the sequence number (net/src/behaviour.rs).                 *)
(*                                                                         *)
(* Betting keeps what decides whose turn it is and which act is legal:     *)
(* whether there is a bet, who has matched it, who has acted, who folded.  *)
(* A raise reopens the action as a bet does, and an all-in only takes a    *)
(* seat out of turn: both are left to module Betting.                      *)
(* The button is seat 0, and so is the host.                               *)
(***************************************************************************)
EXTENDS Seats, FiniteSets, Sequences

CONSTANTS
  LastStreet,   \* bound: streets 0 .. LastStreet, 3 in the code
  Moves,        \* the acts considered, of "fold", "check", "call", "bet"
  Ticks,        \* bound on retransmissions
  Losses        \* bound on dropped messages

ASSUME ReplicationConstants ==
  /\ LastStreet \in 0 .. 3
  /\ Moves \subseteq {"fold", "check", "call", "bet"}
  /\ Ticks \in Nat /\ Losses \in Nat

VARIABLES
  replica,      \* per peer, its copy of the hand
  lastAct,      \* last_act of a guest, last_applied_act of the host
  up, down,     \* per guest, its link to the host and from it
  made,         \* history: the moves each seat decided on
  ticks, losses

vars == <<replica, lastAct, up, down, made, ticks, losses>>

Host == 0
Guest == Seat \ {Host}
NoAct == "none"

-----------------------------------------------------------------------------
(* The copy of the hand *)

InHand(s) == Seat \ s.folded
Owing(s) == {i \in InHand(s) : i \notin s.acted \/ (s.bet /\ i \notin s.paid)}
Over(s) == s.turn = NoSeat

\* The blinds are in: the big blind has matched the bet, nobody has acted.
BigBlindSeat == IF N = 2 THEN 1 ELSE 2
NewHand ==
  [street |-> 0, bet |-> TRUE, paid |-> {BigBlindSeat}, acted |-> {}, folded |-> {},
   turn |-> NextSeat(BigBlindSeat), moves |-> <<>>]

Legal(s, i, move) ==
  CASE move = "fold" -> TRUE
    [] move = "check" -> ~s.bet \/ i \in s.paid
    [] move = "call" -> s.bet /\ i \notin s.paid
    [] move = "bet" -> ~s.bet

\* Whose turn it is after i: `advance`, then advance_streets_and_settle.
PassTurn(s, i) ==
  CASE Cardinality(InHand(s)) = 1 -> [s EXCEPT !.turn = NoSeat]
    [] Cardinality(InHand(s)) > 1 /\ Owing(s) # {} ->
         [s EXCEPT !.turn = FirstOf(Owing(s), NextSeat(i))]
    [] Cardinality(InHand(s)) > 1 /\ Owing(s) = {} ->
         IF s.street = LastStreet THEN [s EXCEPT !.turn = NoSeat]
         ELSE [s EXCEPT !.street = @ + 1, !.bet = FALSE, !.paid = {}, !.acted = {},
                        !.turn = FirstOf(InHand(s), NextSeat(Host))]

Apply(s, move) ==
  LET i == s.turn
      t == [s EXCEPT
              !.moves = Append(@, [seat |-> i, move |-> move]),
              !.folded = IF move = "fold" THEN @ \union {i} ELSE @,
              !.bet = @ \/ move = "bet",
              !.paid = IF move = "bet" THEN {i} ELSE @ \union {i},
              !.acted = IF move = "bet" THEN {i} ELSE @ \union {i}]
  IN PassTurn(t, i)

\* Mutant of Accepts: the author of an act is not compared with the turn.
AcceptsAnyone(s, from, move) == ~Over(s) /\ Legal(s, s.turn, move)

\* apply_act: only the seat to act may author an act, and it must be legal;
\* anything else is an error the drivers ignore.
Accepts(s, from, move) == ~Over(s) /\ from = s.turn /\ Legal(s, s.turn, move)

-----------------------------------------------------------------------------
(* The links *)

Message(from, move) == [from |-> from, move |-> move]

\* Published by the host: to every guest.  By a guest: to the host.
Publish(p, m) ==
  IF p = Host
    THEN down' = [g \in Guest |-> Append(down[g], m)] /\ UNCHANGED up
    ELSE up' = [up EXCEPT ![p] = Append(@, m)] /\ UNCHANGED down

\* Mutants of Forward: what a guest publishes reaches the others twice; it does
\* not reach them.
ForwardTwice(g, m) ==
  down' = [h \in Guest |-> IF h = g THEN down[h] ELSE down[h] \o <<m, m>>]
ForwardNothing(g, m) == down' = down

\* The gossip layer of the host forwards what g published to the other guests.
Forward(g, m) ==
  down' = [h \in Guest |-> IF h = g THEN down[h] ELSE Append(down[h], m)]

-----------------------------------------------------------------------------
(* Steps *)

Init ==
  /\ replica = [p \in Seat |-> NewHand]
  /\ lastAct = [p \in Seat |-> NoAct]
  /\ up = [g \in Guest |-> <<>>]
  /\ down = [g \in Guest |-> <<>>]
  /\ made = [p \in Seat |-> <<>>]
  /\ ticks = 0
  /\ losses = 0

\* local_turn: p decides, applies its act to its own copy and publishes it.
Act(p, move) ==
  /\ replica[p].turn = p
  /\ Legal(replica[p], p, move)
  /\ replica' = [replica EXCEPT ![p] = Apply(@, move)]
  /\ lastAct' = [lastAct EXCEPT ![p] = move]
  /\ made' = [made EXCEPT ![p] = Append(@, move)]
  /\ Publish(p, Message(p, move))
  /\ UNCHANGED <<ticks, losses>>

\* The host remembers whatever act it applied last, its own or a guest's.
HostReceives(g) ==
  /\ up[g] # <<>>
  /\ LET m == Head(up[g])
     IN /\ up' = [up EXCEPT ![g] = Tail(@)]
        /\ Forward(g, m)
        /\ IF Accepts(replica[Host], m.from, m.move)
             THEN /\ replica' = [replica EXCEPT ![Host] = Apply(@, m.move)]
                  /\ lastAct' = [lastAct EXCEPT ![Host] = m.move]
             ELSE UNCHANGED <<replica, lastAct>>
  /\ UNCHANGED <<made, ticks, losses>>

GuestReceives(g) ==
  /\ down[g] # <<>>
  /\ LET m == Head(down[g])
     IN /\ down' = [down EXCEPT ![g] = Tail(@)]
        /\ IF Accepts(replica[g], m.from, m.move)
             THEN replica' = [replica EXCEPT ![g] = Apply(@, m.move)]
             ELSE UNCHANGED replica
  /\ UNCHANGED <<lastAct, up, made, ticks, losses>>

\* The retransmission tick: p publishes the act it remembers under its own name.
Tick(p) ==
  /\ ticks < Ticks
  /\ ticks' = ticks + 1
  /\ lastAct[p] # NoAct
  /\ Publish(p, Message(p, lastAct[p]))
  /\ UNCHANGED <<replica, lastAct, made, losses>>

Lose(g) ==
  /\ losses < Losses
  /\ losses' = losses + 1
  /\ \/ up[g] # <<>> /\ up' = [up EXCEPT ![g] = Tail(@)] /\ UNCHANGED down
     \/ down[g] # <<>> /\ down' = [down EXCEPT ![g] = Tail(@)] /\ UNCHANGED up
  /\ UNCHANGED <<replica, lastAct, made, ticks>>

Next ==
  \/ \E p \in Seat : Tick(p) \/ \E move \in Moves : Act(p, move)
  \/ \E g \in Guest : HostReceives(g) \/ GuestReceives(g) \/ Lose(g)

Spec == Init /\ [][Next]_vars

-----------------------------------------------------------------------------
(* Properties *)

Messages == [from : Seat, move : Moves]
Played == [seat : Seat, move : Moves]
HandCopies ==
  [street : 0 .. 3, bet : BOOLEAN, paid : SUBSET Seat, acted : SUBSET Seat,
   folded : SUBSET Seat, turn : Seat \union {NoSeat},
   moves : Seq(Played)]

TypeOK ==
  /\ replica \in [Seat -> HandCopies]
  /\ lastAct \in [Seat -> Moves \union {NoAct}]
  /\ up \in [Guest -> Seq(Messages)]
  /\ down \in [Guest -> Seq(Messages)]
  /\ made \in [Seat -> Seq(Moves)]
  /\ ticks \in 0 .. Ticks /\ losses \in 0 .. Losses

MovesOf(p, i) == SelectSeq(replica[p].moves, LAMBDA m : m.seat = i)

\* Nobody is made to act: what a peer's table says of its own seat is what that
\* seat decided, move by move, whatever is repeated, relayed or lost.
OwnMovesTrue ==
  \A p \in Seat : [k \in DOMAIN MovesOf(p, p) |-> MovesOf(p, p)[k].move] = made[p]

Elements(seq) == {seq[k] : k \in DOMAIN seq}
Decided(i) == Elements(made[i])
Authentic(moves, i) == \A m \in Elements(moves) : m.seat = i => m.move \in Decided(i)

\* The comment on apply_act: the authenticated publisher must own the seat that
\* acts.  A table gives a seat only moves that seat decided on.
MovesAreAuthentic == \A p, i \in Seat : Authentic(replica[p].moves, i)

\* The same of the seats of the guests alone, whose acts nobody else publishes.
GuestMovesAuthentic == \A p \in Seat, i \in Guest : Authentic(replica[p].moves, i)

\* Any two tables are at two points of one and the same hand.
ReplicasAgree ==
  \A p, q \in Seat :
    \A k \in DOMAIN replica[p].moves \cap DOMAIN replica[q].moves :
      replica[p].moves[k] = replica[q].moves[k]

\* The promise of table.rs that all replicas reach identical common state, when
\* the network lost nothing and nobody published an act again.
AgreeInOrder == ticks = 0 /\ losses = 0 => ReplicasAgree

\* When nothing was lost or repeated, nothing travels and nobody has the turn at
\* its own table, the hand is over at every table: no peer waits for an act that
\* will never come.
NobodyWaitsForever ==
  /\ ticks = 0 /\ losses = 0
  /\ \A g \in Guest : up[g] = <<>> /\ down[g] = <<>>
  /\ \A p \in Seat : replica[p].turn # p
  => \A p \in Seat : Over(replica[p])

\* The remarks of driver.rs that a replayed act is rejected harmlessly: repeats
\* alone never take two tables apart.
RepeatsAreHarmless == losses = 0 => ReplicasAgree

-----------------------------------------------------------------------------
(* What the first of these rest on, whatever is repeated or lost *)

\* Until the hand is over, the turn is at a seat that is in it, and not alone.
HandOK(s) ==
  /\ s \in HandCopies
  /\ s.street <= LastStreet
  /\ ~Over(s) => s.turn \in InHand(s) /\ Cardinality(InHand(s)) > 1

\* What travels or is remembered under a guest's name is what that guest decided.
LinksAuthentic ==
  /\ \A g \in Guest : \A m \in Elements(up[g]) : m.from = g /\ m.move \in Decided(g)
  /\ \A g \in Guest : \A m \in Elements(down[g]) :
       m.from \in Guest => m.move \in Decided(m.from)
  /\ \A g \in Guest : lastAct[g] \in Decided(g) \union {NoAct}

IInv ==
  /\ TypeOK
  /\ \A p \in Seat : HandOK(replica[p])
  /\ LinksAuthentic
  /\ GuestMovesAuthentic
=============================================================================
