------------------------------- MODULE Session -------------------------------
(***************************************************************************)
(* How a table passes from hand to hand: the lobby, the host's loop and    *)
(* its completion barrier, and the guests' loops (protocol/src/driver.rs), *)
(* over the reliable deal channel (DealSender and the request-response     *)
(* half of net/src/node.rs) and over lossy broadcasts.                     *)
(*                                                                         *)
(* What a hand consists of is left to the other modules.  Here each peer   *)
(* owes the others one deal payload per hand: the host settles the hand    *)
(* once it has every guest's, a guest once it has the host's.              *)
(***************************************************************************)
EXTENDS Naturals, FiniteSets

CONSTANTS
  Guests,        \* the peers that dial the host
  MinGuests,     \* HostOptions::min_players, the host not counted
  HandLimit,     \* HostOptions::hands
  MaxFaults      \* bound: kinds of fault that happen, each of them once

ASSUME SessionConstants ==
  /\ IsFiniteSet(Guests)
  /\ MinGuests \in 1 .. Cardinality(Guests)
  /\ HandLimit \in Nat \ {0}
  /\ MaxFaults \in Nat

Hands == 1 .. HandLimit

\* A Start overtaken by the next hand's, a send that fails though both peers are
\* there, a guest that quits or crashes before the game is over.
Faults == {"stale", "failure", "leave"}

VARIABLES
  \* the host: run_host_generic and play_one_hand
  phase,         \* "Lobby", "Playing", "Done" or "Aborted"
  roster,        \* the guests seated
  hand,          \* hand_no of the loop, 0 in the lobby
  have,          \* guests whose payload of this hand was applied
  settled,       \* last_outcome.is_some()
  acked,         \* guests whose HandComplete of this hand was counted
  owed,          \* host's DealSender, pending: guests yet to acknowledge
  owedFlight,    \* host's DealSender, in_flight
  \* a guest: run_guest_generic and its Table
  running,       \* is its loop running?
  currentHand,   \* current_hand of the loop, 0 for None
  live,          \* the hand live at its Table, 0 for None
  done,          \* last_completed of its Table, and the hand last_ack names
  got,           \* was the host's payload of the live hand applied?
  deferred,      \* hands of the host's payloads kept for later
  pending,       \* guest's DealSender, pending: the hand of its payload, or 0
  inFlight,      \* guest's DealSender, in_flight
  \* the network
  sends,         \* send tasks: requests and responses on their way
  noticed,       \* guests whose disconnection the host's queue took or dropped
  faults         \* the kinds of fault that have happened

hostVars == <<phase, roster, hand, have, settled, acked>>
hostSender == <<owed, owedFlight>>
tableVars == <<live, done, got, deferred>>
guestSender == <<pending, inFlight>>
guestVars == <<running, currentHand, tableVars>>
vars == <<hostVars, hostSender, guestVars, guestSender, sends, noticed, faults>>

\* One send task: a payload of a hand between a guest and the host, as a
\* request on its way or as a response on its way back.
Send(g, toHost, h, stage) == [guest |-> g, toHost |-> toHost, hand |-> h, stage |-> stage]
Sends == [guest : Guests, toHost : BOOLEAN, hand : Hands, stage : {"request", "response"}]

Init ==
  /\ phase = "Lobby" /\ roster = {} /\ hand = 0
  /\ have = {} /\ settled = FALSE /\ acked = {} /\ owed = {} /\ owedFlight = {}
  /\ running = [g \in Guests |-> TRUE]
  /\ currentHand = [g \in Guests |-> 0]
  /\ live = [g \in Guests |-> 0]
  /\ done = [g \in Guests |-> 0]
  /\ got = [g \in Guests |-> FALSE]
  /\ deferred = [g \in Guests |-> {}]
  /\ pending = [g \in Guests |-> 0]
  /\ inFlight = [g \in Guests |-> FALSE]
  /\ sends = {} /\ noticed = {} /\ faults = {}

Happens(fault) ==
  /\ faults' = faults \cup {fault}
  /\ fault \notin faults
  /\ Cardinality(faults') <= MaxFaults

-----------------------------------------------------------------------------
(* The lobby *)

\* A JoinTable arrives, possibly late: it was published while the guest ran.
Join(g) ==
  /\ phase = "Lobby"
  /\ Cardinality(roster) < MinGuests
  /\ g \notin roster
  /\ roster' = roster \cup {g}
  /\ UNCHANGED <<phase, hand, have, settled, acked, hostSender, guestVars,
                 guestSender, sends, noticed, faults>>

LobbyTimeout ==
  /\ phase = "Lobby"
  /\ Cardinality(roster) < MinGuests
  /\ phase' = "Aborted"
  /\ UNCHANGED <<roster, hand, have, settled, acked, hostSender, guestVars,
                 guestSender, sends, noticed, faults>>

-----------------------------------------------------------------------------
(* The host's loop over hands *)

\* What is left of the last hand's sends: nobody waits for the host's results.
StillHeard(tasks) == {s \in tasks : s.toHost \/ s.stage = "request"}

\* play_one_hand starts: a DealSender of its own, its payload to every guest.
OpenHand(n) ==
  /\ phase' = "Playing"
  /\ hand' = n
  /\ have' = {} /\ settled' = FALSE /\ acked' = {}
  /\ owed' = roster /\ owedFlight' = roster
  /\ sends' = StillHeard(sends) \cup {Send(g, FALSE, n, "request") : g \in roster}
  /\ UNCHANGED <<roster, guestVars, guestSender, noticed, faults>>

FirstHand ==
  /\ phase = "Lobby"
  /\ Cardinality(roster) >= MinGuests
  /\ OpenHand(1)

HostSettles ==
  /\ phase = "Playing"
  /\ have = roster
  /\ ~settled
  /\ settled' = TRUE
  /\ UNCHANGED <<phase, roster, hand, have, acked, hostSender, guestVars,
                 guestSender, sends, noticed, faults>>

\* Mutant of BarrierOpen: the host only waits for itself and one guest.
BarrierOpenEarly == settled /\ acked # {}

\* The host's table has settled and every guest acknowledged this hand.
BarrierOpen == settled /\ roster \subseteq acked

HandsLeft == hand < HandLimit

NextHand ==
  /\ phase = "Playing"
  /\ BarrierOpen
  /\ HandsLeft
  /\ OpenHand(hand + 1)

\* The loop is over; shutdown closes every connection.
GameOver ==
  /\ phase = "Playing"
  /\ BarrierOpen
  /\ ~HandsLeft
  /\ phase' = "Done"
  /\ sends' = {}
  /\ UNCHANGED <<roster, hand, have, settled, acked, hostSender, guestVars,
                 guestSender, noticed, faults>>

\* Mutant of Counts: a HandComplete of any hand counts.
CountsAnyHand(n) == TRUE

\* HandComplete counts for the hand being played only.
Counts(n) == n = hand

\* A guest repeats its last HandComplete; an earlier one may still arrive.
HandComplete(g, n) ==
  /\ phase = "Playing"
  /\ n \in 1 .. done[g]
  /\ acked' = IF Counts(n) THEN acked \cup {g} ELSE acked
  /\ UNCHANGED <<phase, roster, hand, have, settled, hostSender, guestVars,
                 guestSender, sends, noticed, faults>>

-----------------------------------------------------------------------------
(* The guest's loop *)

\* Mutant of KeptDeferred: they are dropped with the rest of the last hand.
KeptDeferredNone(g, n) == {}

\* What a guest keeps of its deferred payloads when a Start opens a hand.
KeptDeferred(g, n) == {h \in deferred[g] : h >= n}

\* apply_start_mental_hand ignores the live hand and every completed one.
StartsAnew(g, n) == live[g] # n /\ n > done[g]

\* A Start arrives from the host, which repeats it on every tick of its hand;
\* one of an earlier hand may be overtaken by the next.  Whichever it is, a hand
\* number other than the last one seen clears the guest's sender.
StartHand(g, n) ==
  /\ phase = "Playing"
  /\ running[g]
  /\ n \in 1 .. hand
  /\ IF n < hand THEN Happens("stale") ELSE UNCHANGED faults
  /\ LET opens == currentHand[g] # n
         fresh == StartsAnew(g, n)
         kept == IF opens THEN KeptDeferred(g, n) ELSE deferred[g]
         queued == IF fresh THEN n ELSE IF opens THEN 0 ELSE pending[g]
         marked == ~opens /\ inFlight[g]
     IN /\ currentHand' = [currentHand EXCEPT ![g] = n]
        /\ live' = [live EXCEPT ![g] = IF fresh THEN n ELSE @]
        /\ got' = [got EXCEPT ![g] = IF fresh THEN n \in kept ELSE @]
        /\ deferred' = [deferred EXCEPT ![g] = IF live'[g] # 0 THEN {} ELSE kept]
        /\ pending' = [pending EXCEPT ![g] = queued]
        /\ inFlight' = [inFlight EXCEPT ![g] = queued # 0 \/ marked]
        /\ sends' = sends \cup {Send(g, TRUE, h, "request") :
                                  h \in IF marked THEN {} ELSE {queued} \ {0}}
  /\ UNCHANGED <<hostVars, hostSender, running, done, noticed>>

\* The guest's hand ends: it reports it and acknowledges it to the host.
GuestSettles(g) ==
  /\ running[g]
  /\ live[g] # 0
  /\ got[g]
  /\ done' = [done EXCEPT ![g] = live[g]]
  /\ live' = [live EXCEPT ![g] = 0]
  /\ got' = [got EXCEPT ![g] = FALSE]
  /\ UNCHANGED <<hostVars, hostSender, running, currentHand, deferred,
                 guestSender, sends, noticed, faults>>

-----------------------------------------------------------------------------
(* The reliable deal channel *)

\* DealSender::pump on the tickers: send again what is not on its way.
HostPump ==
  /\ phase = "Playing"
  /\ owed \ owedFlight # {}
  /\ sends' = sends \cup {Send(g, FALSE, hand, "request") : g \in owed \ owedFlight}
  /\ owedFlight' = owedFlight \cup owed
  /\ UNCHANGED <<hostVars, owed, guestVars, guestSender, noticed, faults>>

GuestPump(g) ==
  /\ running[g]
  /\ pending[g] # 0
  /\ ~inFlight[g]
  /\ sends' = sends \cup {Send(g, TRUE, pending[g], "request")}
  /\ inFlight' = [inFlight EXCEPT ![g] = TRUE]
  /\ UNCHANGED <<hostVars, hostSender, guestVars, pending, noticed, faults>>

Answered(s) == (sends \ {s}) \cup {[s EXCEPT !.stage = "response"]}

\* The receiving node takes a request only if the driver's queue has room, and
\* only then responds; if not, the request fails.  The host applies a payload of
\* the hand it plays and drops any other (WrongHand).
HostReceives(s) ==
  /\ phase = "Playing"
  /\ s.toHost /\ s.stage = "request"
  /\ have' = IF s.hand = hand THEN have \cup {s.guest} ELSE have
  /\ sends' = Answered(s)
  /\ UNCHANGED <<phase, roster, hand, settled, acked, hostSender, guestVars,
                 guestSender, noticed, faults>>

\* Mutant of Takes: the node responds though the driver's queue was full.
TakesNothing(s) == UNCHANGED <<got, deferred>>

\* A guest without a live hand keeps the payload for later (NoMentalHand); one
\* that plays another hand drops it (WrongHand).
Takes(s) ==
  LET g == s.guest IN
  /\ got' = [got EXCEPT ![g] = @ \/ s.hand = live[g]]
  /\ deferred' = [deferred EXCEPT ![g] = IF live[g] = 0 THEN @ \cup {s.hand} ELSE @]

GuestReceives(s) ==
  /\ phase = "Playing"
  /\ running[s.guest]
  /\ ~s.toHost /\ s.stage = "request"
  /\ Takes(s)
  /\ sends' = Answered(s)
  /\ UNCHANGED <<hostVars, hostSender, running, currentHand, live, done,
                 guestSender, noticed, faults>>

\* Is the result of this task still heard?  The host's results go to the hand
\* that sent them, each hand having a DealSender of its own; a guest keeps one
\* DealSender for the whole game and its keys do not name the hand.
Heard(s) == s.toHost \/ s.hand = hand

\* DealSender::ack of a result: drop the in-flight mark and, on success, the target.
Ack(s, ok) ==
  IF s.toHost
  THEN /\ inFlight' = [inFlight EXCEPT ![s.guest] = FALSE]
       /\ pending' = [pending EXCEPT ![s.guest] = IF ok THEN 0 ELSE @]
       /\ UNCHANGED hostSender
  ELSE /\ owedFlight' = IF Heard(s) THEN owedFlight \ {s.guest} ELSE owedFlight
       /\ owed' = IF Heard(s) /\ ok THEN owed \ {s.guest} ELSE owed
       /\ UNCHANGED guestSender

\* The response reaches the sending node, and its driver.
Succeed(s) ==
  /\ phase = "Playing"
  /\ s.stage = "response"
  /\ Ack(s, TRUE)
  /\ sends' = sends \ {s}
  /\ UNCHANGED <<hostVars, guestVars, noticed, faults>>

\* An OutboundFailure: no connection, a timeout, a full queue at the receiver
\* or a response that got lost.
Fail(s) ==
  /\ phase = "Playing"
  /\ IF running[s.guest] THEN Happens("failure") ELSE UNCHANGED faults
  /\ Ack(s, FALSE)
  /\ sends' = sends \ {s}
  /\ UNCHANGED <<hostVars, guestVars, noticed>>

-----------------------------------------------------------------------------
(* Leaving *)

\* A guest's loop ends: what it kept is gone and its connections close.
Stop(g) ==
  /\ running[g]
  /\ running' = [running EXCEPT ![g] = FALSE]
  /\ currentHand' = [currentHand EXCEPT ![g] = 0]
  /\ live' = [live EXCEPT ![g] = 0]
  /\ got' = [got EXCEPT ![g] = FALSE]
  /\ deferred' = [deferred EXCEPT ![g] = {}]
  /\ pending' = [pending EXCEPT ![g] = 0]
  /\ inFlight' = [inFlight EXCEPT ![g] = FALSE]
  /\ sends' = {s \in sends : s.guest # g \/ ~s.toHost}
  /\ UNCHANGED <<hostVars, hostSender, done, noticed>>

\* It quits or crashes during the game.
Leave(g) ==
  /\ phase \in {"Lobby", "Playing"}
  /\ Happens("leave")
  /\ Stop(g)

\* The host's driver handles PeerDisconnected: the lobby drops the guest, a hand
\* the guest has not acknowledged is given up, one it has acknowledged goes on.
HostNotices(g) ==
  /\ phase \in {"Lobby", "Playing"}
  /\ ~running[g]
  /\ g \notin noticed
  /\ noticed' = noticed \cup {g}
  /\ roster' = IF phase = "Lobby" THEN roster \ {g} ELSE roster
  /\ phase' = IF phase = "Playing" /\ g \in roster \ acked THEN "Aborted" ELSE phase
  /\ sends' = IF phase' = "Aborted" THEN {} ELSE sends
  /\ UNCHANGED <<hand, have, settled, acked, hostSender, guestVars, guestSender, faults>>

\* emit drops the event when the queue is full.
HostMissesIt(g) ==
  /\ phase \in {"Lobby", "Playing"}
  /\ ~running[g]
  /\ g \notin noticed
  /\ noticed' = noticed \cup {g}
  /\ UNCHANGED <<hostVars, hostSender, guestVars, guestSender, sends, faults>>

Ended == phase \in {"Done", "Aborted"}

\* A guest that a Start has told who the host is stops when the host leaves.
GuestStops(g) ==
  /\ Ended
  /\ currentHand[g] # 0
  /\ Stop(g)
  /\ UNCHANGED faults

-----------------------------------------------------------------------------
Next ==
  \/ LobbyTimeout \/ FirstHand \/ HostSettles \/ NextHand \/ GameOver \/ HostPump
  \/ \E g \in Guests :
       \/ Join(g) \/ GuestSettles(g) \/ GuestPump(g) \/ Leave(g)
       \/ HostNotices(g) \/ HostMissesIt(g) \/ GuestStops(g)
       \/ \E n \in Hands : StartHand(g, n) \/ HandComplete(g, n)
  \/ \E s \in sends : HostReceives(s) \/ GuestReceives(s) \/ Succeed(s) \/ Fail(s)

Spec == Init /\ [][Next]_vars

\* The host's loop runs, as do its ticker, every guest and the network between
\* two peers that are both there (what it may fail at is bounded).
HostLoop == LobbyTimeout \/ FirstHand \/ HostSettles \/ NextHand \/ GameOver
Progress(g) ==
  \/ Join(g) \/ GuestSettles(g) \/ GuestPump(g) \/ GuestStops(g)
  \/ HostNotices(g) \/ HostMissesIt(g)
  \/ StartHand(g, hand) \/ HandComplete(g, hand)
  \/ \E s \in sends : s.guest = g /\ (HostReceives(s) \/ GuestReceives(s) \/ Succeed(s))

FairSpec ==
  /\ Spec
  /\ WF_vars(HostLoop)
  /\ WF_vars(HostPump)
  /\ \A g \in Guests : WF_vars(Progress(g))

-----------------------------------------------------------------------------
(* Properties *)

TypeOK ==
  /\ phase \in {"Lobby", "Playing", "Done", "Aborted"}
  /\ roster \subseteq Guests /\ noticed \subseteq Guests
  /\ hand \in 0 .. HandLimit /\ settled \in BOOLEAN
  /\ have \subseteq Guests /\ acked \subseteq roster
  /\ owedFlight \subseteq roster /\ owed \subseteq roster
  /\ running \in [Guests -> BOOLEAN]
  /\ currentHand \in [Guests -> 0 .. HandLimit]
  /\ live \in [Guests -> 0 .. HandLimit] /\ done \in [Guests -> 0 .. HandLimit]
  /\ got \in [Guests -> BOOLEAN] /\ deferred \in [Guests -> SUBSET Hands]
  /\ pending \in [Guests -> 0 .. HandLimit] /\ inFlight \in [Guests -> BOOLEAN]
  /\ sends \subseteq Sends
  /\ faults \subseteq Faults

\* The remark on play_one_hand: the host never deals hand N + 1 before every
\* guest has settled hand N, and no delayed or repeated Start makes a guest
\* skip a hand or play one again.
HandsStayInStep ==
  phase = "Playing" =>
    \A g \in roster :
      /\ done[g] \in {hand - 1, hand}
      /\ live[g] \in {0, done[g] + 1}

\* The host's payload of this hand is applied at the guest or kept until it can be.
Kept(g) == \/ live[g] = hand /\ got[g]
           \/ done[g] = hand
           \/ hand \in deferred[g]

\* A running guest plays or has finished this hand and the host lacks its payload.
Owes(g) == g \in roster \ have /\ running[g] /\ hand \in {live[g], done[g]}

\* Nothing will bring it: the guest's DealSender dropped it as delivered or as
\* outdated.
Lost(g) ==
  /\ phase = "Playing"
  /\ Owes(g)
  /\ pending[g] # hand
  /\ Send(g, TRUE, hand, "request") \notin sends

\* The remark on DealSender::clear: late results are ignored harmlessly.
NothingLost == \A g \in Guests : ~Lost(g)

\* From the host: a payload that a guest's node has acknowledged is applied there
\* or kept until it can be, so that the host need not send it again.
HostsPayloadsKept ==
  phase = "Playing" => \A g \in roster \ owed : running[g] => Kept(g)

\* The reliable channel, the payloads of the hand being played.  The host's need
\* not be sent again once acknowledged.  Of the guests' none is lost in the first
\* hand, nor in a later one before some send has failed (after that, see Lost).
AckedIsKept ==
  /\ HostsPayloadsKept
  /\ hand = 1 \/ "failure" \notin faults => NothingLost

\* A game that ran to its end is one every guest played to its end, those that
\* left on the way out included.
GameOverForAll ==
  phase = "Done" => \A g \in roster : done[g] = HandLimit

\* A seat whose player is gone, which the host will not hear of again.
Deserted == \E g \in roster : g \in noticed

\* The game ends and its guests stop, whatever is delayed, repeated or fails
\* and whoever leaves, but for two reasons: a payload lost by a guest's
\* DealSender, and a seat deserted between its HandComplete and the next hand
\* (or before its JoinTable arrived).  A guest no Start has reached waits on.
GameEnds ==
  <>(\/ Ended /\ \A g \in roster : running[g] => currentHand[g] = 0
     \/ Deserted
     \/ ~NothingLost)

(* What the three invariants rest on, which every step keeps. *)

\* No guest is ahead of the host, and a guest plays only what it has not finished.
GuestsNotAhead ==
  \A g \in Guests :
    /\ done[g] <= hand /\ live[g] <= hand /\ pending[g] <= hand
    /\ deferred[g] \subseteq 1 .. hand
    /\ live[g] # 0 => done[g] < live[g] /\ deferred[g] = {}
    /\ got[g] => live[g] # 0

\* Nothing is under way before the first hand.
LobbyIsFresh ==
  phase = "Lobby" =>
    hand = 0 /\ sends = {} /\ have = {} /\ acked = {} /\ owed = {} /\ owedFlight = {}

\* A peer without a seat is sent nothing and finishes nothing.
StrangersIdle ==
  \A g \in Guests \ roster : done[g] = 0 /\ ~got[g] /\ deferred[g] = {}

\* In a hand, the host's sends go to the seated, and the payload of this hand
\* that a response on its way vouches for is kept.
SendsVouched ==
  phase = "Playing" =>
    /\ hand # 0
    /\ \A s \in sends :
         /\ s.hand <= hand
         /\ ~s.toHost => s.guest \in roster
         /\ ~s.toHost /\ s.stage = "response" /\ s.hand = hand /\ running[s.guest]
              => Kept(s.guest)

\* A counted HandComplete is the truth.
AckedFinished == phase = "Playing" => \A g \in acked : done[g] = hand

\* The loop ends after the last hand only.
EndsAfterLast == phase = "Done" => hand = HandLimit

IInv ==
  /\ TypeOK
  /\ GuestsNotAhead /\ LobbyIsFresh /\ StrangersIdle /\ SendsVouched
  /\ AckedFinished /\ EndsAfterLast
  /\ HandsStayInStep /\ HostsPayloadsKept /\ GameOverForAll

\* The second half of AckedIsKept: a guest has begun the last hand its loop heard
\* of, what was answered was applied, and a payload the host lacks waits at its
\* guest's DealSender throughout the first hand and is on its way as long as no
\* send has failed.
GuestsSend ==
  /\ \A g \in Guests :
       /\ currentHand[g] <= hand
       /\ running[g] /\ currentHand[g] = 0 => live[g] = 0 /\ done[g] = 0
       /\ running[g] /\ currentHand[g] = hand => hand \in {live[g], done[g]}
  /\ phase = "Playing" =>
       /\ \A s \in sends :
            s.toHost /\ s.stage = "response" /\ s.hand = hand => s.guest \in have
       /\ \A g \in Guests : Owes(g) =>
            /\ hand = 1 => pending[g] = 1
            /\ "failure" \notin faults => Send(g, TRUE, hand, "request") \in sends
=============================================================================
