---------------------------- MODULE SessionProofs ----------------------------
(***************************************************************************)
(* Theorems about Session, for any guests, any number of hands and any     *)
(* number of faults.                                                       *)
(***************************************************************************)
EXTENDS Session, FiniteSetTheorems, TLAPS

USE DEF hostVars, hostSender, tableVars, guestSender, guestVars

-----------------------------------------------------------------------------
(* Send tasks *)

\* What a send task says, and that a response differs from its request in the
\* stage alone.
LEMMA SendFields ==
  ASSUME NEW s \in Sends
  PROVE  /\ s.guest \in Guests /\ s.toHost \in BOOLEAN /\ s.hand \in Hands
         /\ s.stage \in {"request", "response"}
BY DEF Sends

\* A response is a send of the same guest, direction and hand.
LEMMA ResponseFields ==
  ASSUME NEW s \in Sends, NEW r, r = [s EXCEPT !.stage = "response"]
  PROVE  /\ r \in Sends
         /\ r.guest = s.guest /\ r.toHost = s.toHost /\ r.hand = s.hand
         /\ r.stage = "response"
BY DEF Sends

-----------------------------------------------------------------------------
(* The lobby *)

\* Joining the lobby keeps the invariant.
LEMMA JoinKeeps ==
  ASSUME IInv, NEW g \in Guests, Join(g)
  PROVE  IInv'
<1> USE DEF IInv, Join
<1>1. TypeOK'
  BY DEF TypeOK
<1>2. StrangersIdle'
  BY DEF StrangersIdle
<1>3. LobbyIsFresh' /\ GuestsNotAhead'
  BY DEF LobbyIsFresh, GuestsNotAhead
<1>4. QED
  BY <1>1, <1>2, <1>3 DEF SendsVouched, AckedFinished, EndsAfterLast,
     HandsStayInStep, HostsPayloadsKept, GameOverForAll

\* So does the lobby timing out.
LEMMA LobbyTimeoutKeeps ==
  ASSUME IInv, LobbyTimeout
  PROVE  IInv'
BY DEF IInv, LobbyTimeout, TypeOK, GuestsNotAhead, LobbyIsFresh, StrangersIdle,
   SendsVouched, AckedFinished, EndsAfterLast, HandsStayInStep, HostsPayloadsKept,
   GameOverForAll

-----------------------------------------------------------------------------
(* The host's loop *)

\* A hand may be opened once every seated guest has finished the one before and
\* nobody is ahead: they are then in step again.
LEMMA OpenHandKeeps ==
  ASSUME IInv, phase \in {"Lobby", "Playing"}, hand < HandLimit, OpenHand(hand + 1),
         \A g \in roster : done[g] = hand
  PROVE  IInv'
<1>1. TypeOK /\ hand \in Nat /\ HandLimit \in Nat /\ hand + 1 \in Hands
  BY SessionConstants DEF IInv, TypeOK, Hands
<1>2. /\ phase' = "Playing" /\ hand' = hand + 1
      /\ have' = {} /\ settled' = FALSE /\ acked' = {}
      /\ owed' = roster /\ owedFlight' = roster
      /\ UNCHANGED <<roster, guestVars, guestSender, noticed, faults>>
  BY DEF OpenHand
<1>3. \A s \in sends' :
        \/ s \in sends /\ (s.toHost \/ s.stage = "request")
        \/ \E g \in roster : s = Send(g, FALSE, hand + 1, "request")
  BY DEF OpenHand, StillHeard
<1>4. ASSUME NEW s \in sends'
      PROVE  /\ s \in Sends
             /\ s.toHost \/ s.stage = "request"
             /\ s.hand <= hand + 1
             /\ ~s.toHost => s.guest \in roster
  <2>1. CASE s \in sends /\ (s.toHost \/ s.stage = "request")
    <3>1. s \in Sends
      BY <1>1, <2>1 DEF TypeOK
    <3>4. s.hand \in Nat
      BY <1>1, <3>1, SendFields DEF Hands
    <3>2. s.hand <= hand /\ (~s.toHost => s.guest \in roster)
      BY <2>1 DEF IInv, SendsVouched, LobbyIsFresh
    <3>3. QED
      BY <1>1, <2>1, <3>1, <3>2, <3>4
  <2>2. CASE \E g \in roster : s = Send(g, FALSE, hand + 1, "request")
    <3>1. PICK g \in roster : s = Send(g, FALSE, hand + 1, "request")
      BY <2>2
    <3>2. g \in Guests
      BY <1>1 DEF TypeOK
    <3>3. /\ s \in Sends /\ s.guest = g /\ s.toHost = FALSE
          /\ s.hand = hand + 1 /\ s.stage = "request"
      BY <1>1, <3>1, <3>2 DEF Send, Sends
    <3>4. QED
      BY <1>1, <3>3
  <2>3. QED
    BY <1>3, <2>1, <2>2
<1>5. TypeOK'
  <2>1. sends' \subseteq Sends
    BY <1>4
  <2>2. hand' \in 0 .. HandLimit
    BY <1>1, <1>2 DEF Hands
  <2>3. QED
    BY <1>1, <1>2, <2>1, <2>2 DEF TypeOK
<1>6. \A g \in roster : live[g] = 0
  BY <1>1 DEF IInv, TypeOK, GuestsNotAhead
<1>7. GuestsNotAhead'
  BY <1>1, <1>2 DEF IInv, TypeOK, GuestsNotAhead
<1>8. StrangersIdle'
  BY <1>2 DEF IInv, StrangersIdle
<1>9. SendsVouched'
  BY <1>1, <1>2, <1>4 DEF SendsVouched
<1>10. HandsStayInStep'
  BY <1>1, <1>2, <1>6 DEF TypeOK, HandsStayInStep
<1>11. QED
  BY <1>2, <1>5, <1>7, <1>8, <1>9, <1>10 DEF IInv, LobbyIsFresh, AckedFinished,
     EndsAfterLast, HostsPayloadsKept, GameOverForAll

\* The first hand keeps the invariant.
LEMMA FirstHandKeeps ==
  ASSUME IInv, FirstHand
  PROVE  IInv'
<1>1. hand = 0
  BY DEF IInv, FirstHand, LobbyIsFresh
<1>2. \A g \in roster : done[g] = hand
  BY <1>1 DEF IInv, TypeOK, GuestsNotAhead
<1>3. QED
  BY <1>1, <1>2, OpenHandKeeps, SessionConstants DEF FirstHand

\* The next hand keeps it: the barrier has every acknowledgement.
LEMMA NextHandKeeps ==
  ASSUME IInv, NextHand
  PROVE  IInv'
<1>1. \A g \in roster : done[g] = hand
  BY DEF IInv, NextHand, BarrierOpen, AckedFinished
<1>2. QED
  BY <1>1, OpenHandKeeps DEF NextHand, HandsLeft

\* The host settling its own copy of the hand keeps it.
LEMMA HostSettlesKeeps ==
  ASSUME IInv, HostSettles
  PROVE  IInv'
BY DEF IInv, HostSettles, TypeOK, GuestsNotAhead, LobbyIsFresh, StrangersIdle,
   SendsVouched, AckedFinished, EndsAfterLast, HandsStayInStep, HostsPayloadsKept,
   GameOverForAll, Kept

\* The end of the game keeps it: the last hand is over everywhere.
LEMMA GameOverKeeps ==
  ASSUME IInv, GameOver
  PROVE  IInv'
<1> USE DEF IInv, GameOver
<1>1. TypeOK'
  BY DEF TypeOK
<1>2. hand = HandLimit
  BY SessionConstants DEF TypeOK, HandsLeft
<1>3. \A g \in roster : done[g] = hand
  BY DEF BarrierOpen, AckedFinished
<1>4. EndsAfterLast' /\ GameOverForAll'
  BY <1>2, <1>3 DEF EndsAfterLast, GameOverForAll
<1>5. GuestsNotAhead' /\ StrangersIdle'
  BY DEF GuestsNotAhead, StrangersIdle
<1>6. QED
  BY <1>1, <1>4, <1>5 DEF LobbyIsFresh, SendsVouched, AckedFinished,
     HandsStayInStep, HostsPayloadsKept

\* Announcing that a hand is complete keeps it.
LEMMA HandCompleteKeeps ==
  ASSUME IInv, NEW g \in Guests, NEW n \in Hands, HandComplete(g, n)
  PROVE  IInv'
<1> USE DEF IInv, HandComplete
<1>1. g \in roster
  BY DEF TypeOK, StrangersIdle
<1>2. n = hand => done[g] = hand
  BY DEF TypeOK, GuestsNotAhead
<1>3. TypeOK'
  BY <1>1 DEF TypeOK
<1>4. AckedFinished'
  BY <1>2 DEF AckedFinished, Counts
<1>5. QED
  BY <1>3, <1>4 DEF GuestsNotAhead, LobbyIsFresh, StrangersIdle, SendsVouched,
     EndsAfterLast, HandsStayInStep, HostsPayloadsKept, GameOverForAll, Kept

-----------------------------------------------------------------------------
(* The guest's loop *)

\* Of the hands a Start may name, a guest in step begins the host's one only.
LEMMA BeginsTheHosts ==
  ASSUME IInv, phase = "Playing", NEW g \in roster, NEW n \in 1 .. hand, StartsAnew(g, n)
  PROVE  n = hand /\ n = done[g] + 1 /\ live[g] = 0
BY DEF IInv, TypeOK, HandsStayInStep, GuestsNotAhead, StartsAnew

\* A payload of this hand that is kept stays so when a Start arrives: it is
\* applied when the Start begins the hand and kept on when it does not.
LEMMA StartHandKeeps ==
  ASSUME IInv, NEW g \in Guests, NEW n \in Hands, StartHand(g, n)
  PROVE  IInv'
<1> DEFINE opens == currentHand[g] # n
           fresh == StartsAnew(g, n)
           kept == IF opens THEN KeptDeferred(g, n) ELSE deferred[g]
           queued == IF fresh THEN n ELSE IF opens THEN 0 ELSE pending[g]
           marked == ~opens /\ inFlight[g]
<1>1. /\ phase = "Playing" /\ running[g] /\ n \in 1 .. hand
      /\ UNCHANGED <<hostVars, hostSender, running, done, noticed>>
  BY DEF StartHand
<1>2. /\ currentHand' = [currentHand EXCEPT ![g] = n]
      /\ live' = [live EXCEPT ![g] = IF fresh THEN n ELSE @]
      /\ got' = [got EXCEPT ![g] = IF fresh THEN n \in kept ELSE @]
      /\ deferred' = [deferred EXCEPT ![g] = IF live'[g] # 0 THEN {} ELSE kept]
      /\ pending' = [pending EXCEPT ![g] = queued]
      /\ inFlight' = [inFlight EXCEPT ![g] = queued # 0 \/ marked]
  BY DEF StartHand
<1>3. \A s \in sends' :
        \/ s \in sends
        \/ queued # 0 /\ s = Send(g, TRUE, queued, "request")
  <2> DEFINE tasks == IF marked THEN {} ELSE {queued} \ {0}
  <2>1. sends' = sends \cup {Send(g, TRUE, h, "request") : h \in tasks}
    BY DEF StartHand
  <2>2. \A h \in tasks : h = queued /\ queued # 0
    OBVIOUS
  <2> HIDE DEF queued, tasks
  <2>3. QED
    BY <2>1, <2>2
<1>4. TypeOK /\ hand \in Hands /\ HandLimit \in Nat
  BY <1>1, SessionConstants DEF IInv, TypeOK, Hands
<1>5. queued \in 0 .. hand
  BY <1>1, <1>4 DEF IInv, TypeOK, GuestsNotAhead, Hands
<1>6. faults' \subseteq Faults
  BY <1>4 DEF TypeOK, StartHand, Happens, Faults
<1>7. kept \subseteq deferred[g] /\ (hand \in deferred[g] => hand \in kept)
  BY <1>1, <1>4 DEF KeptDeferred, Hands
<1>8. g \in roster /\ fresh => n = hand /\ n = done[g] + 1 /\ live[g] = 0
  BY <1>1, BeginsTheHosts
<1>9. fresh => n > done[g]
  BY DEF StartsAnew
<1> HIDE DEF opens, fresh, kept, queued, marked
<1>10. TypeOK'
  <2>1. sends' \subseteq Sends
    <3>1. queued # 0 => queued \in Hands
      BY <1>4, <1>5 DEF Hands
    <3>2. queued # 0 => Send(g, TRUE, queued, "request") \in Sends
      BY <3>1 DEF Send, Sends
    <3>3. QED
      BY <1>3, <1>4, <3>2 DEF TypeOK
  <2>2. /\ currentHand' \in [Guests -> 0 .. HandLimit]
        /\ live' \in [Guests -> 0 .. HandLimit]
        /\ pending' \in [Guests -> 0 .. HandLimit]
    BY <1>2, <1>4, <1>5 DEF TypeOK, Hands
  <2>3. got' \in [Guests -> BOOLEAN] /\ inFlight' \in [Guests -> BOOLEAN]
    <3>1. (IF fresh THEN n \in kept ELSE got[g]) \in BOOLEAN
      <4>1. CASE fresh
        BY <4>1
      <4>2. CASE ~fresh
        BY <1>4, <4>2 DEF TypeOK
      <4>3. QED
        BY <4>1, <4>2
    <3>2. (queued # 0 \/ marked) \in BOOLEAN
      OBVIOUS
    <3>3. QED
      BY <1>2, <1>4, <3>1, <3>2 DEF TypeOK
  <2>4. deferred' \in [Guests -> SUBSET Hands]
    <3>1. kept \in SUBSET Hands
      BY <1>4, <1>7 DEF TypeOK
    <3>2. (IF live'[g] # 0 THEN {} ELSE kept) \in SUBSET Hands
      BY <3>1
    <3>3. QED
      BY <1>2, <1>4, <3>2 DEF TypeOK
  <2>5. QED
    BY <1>1, <1>4, <1>6, <2>1, <2>2, <2>3, <2>4 DEF TypeOK
<1>11. GuestsNotAhead'
  <2>1. ASSUME NEW i \in Guests, i # g
        PROVE  /\ live'[i] = live[i] /\ got'[i] = got[i]
               /\ deferred'[i] = deferred[i] /\ pending'[i] = pending[i]
    BY <1>2, <1>4, <2>1 DEF TypeOK
  <2>2. /\ live'[g] = (IF fresh THEN n ELSE live[g])
        /\ got'[g] = (IF fresh THEN n \in kept ELSE got[g])
        /\ deferred'[g] = (IF live'[g] # 0 THEN {} ELSE kept)
        /\ pending'[g] = queued
    BY <1>2, <1>4 DEF TypeOK
  <2>3. n \in Nat /\ n # 0 /\ n <= hand
    BY <1>1, <1>4 DEF Hands
  <2>4. /\ done[g] <= hand /\ live[g] <= hand /\ kept \subseteq 1 .. hand
        /\ live[g] # 0 => done[g] < live[g]
        /\ got[g] => live[g] # 0
    BY <1>7 DEF IInv, GuestsNotAhead
  <2>5. /\ live'[g] <= hand /\ pending'[g] <= hand
        /\ deferred'[g] \subseteq 1 .. hand
        /\ live'[g] # 0 => done[g] < live'[g] /\ deferred'[g] = {}
        /\ got'[g] => live'[g] # 0
    BY <1>5, <1>9, <2>2, <2>3, <2>4
  <2>6. QED
    BY <1>1, <2>1, <2>4, <2>5 DEF IInv, GuestsNotAhead
<1>12. StrangersIdle'
  BY <1>1, <1>2, <1>4, <1>7 DEF IInv, TypeOK, StrangersIdle
<1>13. HandsStayInStep'
  BY <1>1, <1>2, <1>4, <1>8 DEF IInv, TypeOK, HandsStayInStep
<1>14. \A i \in roster : Kept(i) => Kept(i)'
  BY <1>1, <1>2, <1>4, <1>7, <1>8 DEF IInv, TypeOK, GuestsNotAhead, Kept, Hands
<1>15. SendsVouched'
  BY <1>1, <1>3, <1>4, <1>5, <1>14 DEF IInv, TypeOK, SendsVouched, Send
<1>16. HostsPayloadsKept'
  BY <1>1, <1>14 DEF IInv, HostsPayloadsKept
<1>17. QED
  BY <1>1, <1>10, <1>11, <1>12, <1>13, <1>15, <1>16 DEF IInv, LobbyIsFresh,
     AckedFinished, EndsAfterLast, GameOverForAll

\* A guest finishes the host's hand only.
LEMMA GuestSettlesKeeps ==
  ASSUME IInv, NEW g \in Guests, GuestSettles(g)
  PROVE  IInv'
<1> USE SessionConstants DEF IInv, GuestSettles
<1>1. TypeOK'
  BY DEF TypeOK
<1>2. g \in roster
  BY DEF StrangersIdle
<1>3. phase = "Playing" => live[g] = hand
  BY <1>2 DEF TypeOK, HandsStayInStep, GuestsNotAhead
<1>4. phase # "Done"
  BY <1>2 DEF TypeOK, GuestsNotAhead, EndsAfterLast, GameOverForAll
<1>5. GuestsNotAhead' /\ StrangersIdle'
  BY <1>2 DEF TypeOK, GuestsNotAhead, StrangersIdle
<1>6. HandsStayInStep'
  BY <1>3 DEF TypeOK, HandsStayInStep
<1>7. \A i \in Guests : phase = "Playing" /\ Kept(i) => Kept(i)'
  BY <1>3 DEF TypeOK, Kept
<1>8. SendsVouched' /\ HostsPayloadsKept'
  BY <1>7 DEF TypeOK, SendsVouched, HostsPayloadsKept
<1>9. AckedFinished'
  BY <1>3 DEF TypeOK, AckedFinished
<1>10. QED
  BY <1>1, <1>4, <1>5, <1>6, <1>8, <1>9 DEF LobbyIsFresh, EndsAfterLast, GameOverForAll

-----------------------------------------------------------------------------
(* The reliable deal channel *)

\* The host handing its owed messages to send tasks keeps it.
LEMMA HostPumpKeeps ==
  ASSUME IInv, HostPump
  PROVE  IInv'
<1>1. /\ phase = "Playing"
      /\ owedFlight' = owedFlight \cup owed
      /\ UNCHANGED <<hostVars, owed, guestVars, guestSender, noticed, faults>>
  BY DEF HostPump
<1>2. TypeOK /\ hand \in Hands
  BY <1>1 DEF IInv, TypeOK, SendsVouched, Hands
<1>3. \A s \in sends' :
        \/ s \in sends
        \/ \E g \in roster : s = Send(g, FALSE, hand, "request")
  BY <1>2 DEF HostPump, TypeOK
<1>4. ASSUME NEW s \in sends', s \notin sends
      PROVE  /\ s \in Sends
             /\ s.guest \in roster /\ s.hand = hand /\ s.stage = "request"
  <2>1. PICK g \in roster : s = Send(g, FALSE, hand, "request")
    BY <1>3, <1>4
  <2>2. QED
    BY <1>2, <2>1 DEF TypeOK, Send, Sends
<1>5. TypeOK'
  BY <1>1, <1>2, <1>4 DEF TypeOK
<1>6. SendsVouched'
  <2>1. hand \in Nat /\ hand # 0
    BY <1>2, SessionConstants DEF Hands
  <2>2. QED
    BY <1>1, <1>4, <2>1 DEF IInv, SendsVouched, Kept
<1>7. QED
  BY <1>1, <1>5, <1>6 DEF IInv, GuestsNotAhead, LobbyIsFresh, StrangersIdle,
     AckedFinished, EndsAfterLast, HandsStayInStep, HostsPayloadsKept, GameOverForAll, Kept

\* A guest handing its acknowledgement to a send task keeps it.
LEMMA GuestPumpKeeps ==
  ASSUME IInv, NEW g \in Guests, GuestPump(g)
  PROVE  IInv'
<1>1. /\ inFlight' = [inFlight EXCEPT ![g] = TRUE]
      /\ sends' = sends \cup {Send(g, TRUE, pending[g], "request")}
      /\ UNCHANGED <<hostVars, hostSender, guestVars, pending, noticed, faults>>
  BY DEF GuestPump
<1>2. TypeOK /\ HandLimit \in Nat /\ pending[g] \in Hands /\ pending[g] <= hand
  BY SessionConstants DEF IInv, TypeOK, GuestsNotAhead, GuestPump, Hands
<1>3. Send(g, TRUE, pending[g], "request") \in Sends
  BY <1>2 DEF Send, Sends
<1>4. TypeOK'
  BY <1>1, <1>2, <1>3 DEF TypeOK
<1>5. phase # "Lobby"
  BY <1>2 DEF IInv, TypeOK, LobbyIsFresh, Hands
<1>6. SendsVouched'
  BY <1>1, <1>2 DEF IInv, SendsVouched, Send, Kept
<1>7. QED
  BY <1>1, <1>4, <1>5, <1>6 DEF IInv, GuestsNotAhead, LobbyIsFresh, StrangersIdle,
     AckedFinished, EndsAfterLast, HandsStayInStep, HostsPayloadsKept, GameOverForAll, Kept

\* The tasks once a node has taken the payload of one and responds to it.
LEMMA AnsweredTasks ==
  ASSUME TypeOK, NEW s \in sends
  PROVE  /\ Answered(s) \subseteq Sends
         /\ \A t \in Answered(s) :
              \/ t \in sends
              \/ /\ t.guest = s.guest /\ t.toHost = s.toHost
                 /\ t.hand = s.hand /\ t.stage = "response"
<1>1. s \in Sends
  BY DEF TypeOK
<1>2. QED
  BY <1>1, ResponseFields DEF TypeOK, Answered

\* The host receiving an acknowledgement, late or repeated, keeps it.
LEMMA HostReceivesKeeps ==
  ASSUME IInv, NEW s \in sends, HostReceives(s)
  PROVE  IInv'
<1>1. /\ phase = "Playing" /\ s.toHost
      /\ have' = (IF s.hand = hand THEN have \cup {s.guest} ELSE have)
      /\ sends' = Answered(s)
      /\ UNCHANGED <<phase, roster, hand, settled, acked, hostSender, guestVars,
                     guestSender, noticed, faults>>
  BY DEF HostReceives
<1>2. TypeOK /\ s \in Sends
  BY DEF IInv, TypeOK
<1>3. TypeOK'
  BY <1>1, <1>2, AnsweredTasks, SendFields DEF TypeOK
<1>4. SendsVouched'
  BY <1>1, <1>2, AnsweredTasks DEF IInv, SendsVouched, Kept
<1>5. QED
  BY <1>1, <1>3, <1>4 DEF IInv, GuestsNotAhead, LobbyIsFresh, StrangersIdle,
     AckedFinished, EndsAfterLast, HandsStayInStep, HostsPayloadsKept, GameOverForAll, Kept

\* A payload of this hand that a guest's node takes is applied or kept, as a
\* guest in step plays this hand if it plays at all.
LEMMA GuestReceivesKeeps ==
  ASSUME IInv, NEW s \in sends, GuestReceives(s)
  PROVE  IInv'
<1> DEFINE g == s.guest
<1>1. /\ phase = "Playing" /\ ~s.toHost
      /\ sends' = Answered(s)
      /\ UNCHANGED <<hostVars, hostSender, running, currentHand, live, done,
                     guestSender, noticed, faults>>
  BY DEF GuestReceives
<1>2. /\ got' = [got EXCEPT ![g] = @ \/ s.hand = live[g]]
      /\ deferred' = [deferred EXCEPT ![g] = IF live[g] = 0 THEN @ \cup {s.hand} ELSE @]
  BY DEF GuestReceives, Takes
<1>3. TypeOK /\ s \in Sends /\ g \in Guests /\ s.hand \in Hands /\ hand \in Nat
  BY SendFields DEF IInv, TypeOK
<1>4. g \in roster /\ s.hand <= hand
  BY <1>1 DEF IInv, SendsVouched
<1>5. TypeOK'
  BY <1>1, <1>2, <1>3, AnsweredTasks DEF TypeOK
<1>6. GuestsNotAhead'
  BY <1>1, <1>2, <1>3, <1>4 DEF IInv, TypeOK, GuestsNotAhead, Hands
<1>7. StrangersIdle'
  BY <1>1, <1>2, <1>4 DEF IInv, TypeOK, StrangersIdle
<1>8. \A i \in roster : Kept(i) => Kept(i)'
  BY <1>1, <1>2, <1>3 DEF TypeOK, Kept
<1>9. s.hand = hand => Kept(g)'
  <2>1. live[g] = 0 => s.hand \in deferred'[g]
    BY <1>2, <1>3 DEF TypeOK
  <2>2. s.hand = live[g] => got'[g]
    BY <1>2, <1>3 DEF TypeOK
  <2>3. live[g] # 0 => live[g] = hand
    BY <1>1, <1>3, <1>4 DEF IInv, TypeOK, HandsStayInStep, GuestsNotAhead
  <2>4. QED
    BY <1>1, <2>1, <2>2, <2>3 DEF Kept
<1>10. SendsVouched'
  BY <1>1, <1>3, <1>4, <1>8, <1>9, AnsweredTasks DEF IInv, SendsVouched
<1>11. HostsPayloadsKept'
  BY <1>1, <1>8 DEF IInv, HostsPayloadsKept
<1>12. QED
  BY <1>1, <1>5, <1>6, <1>7, <1>10, <1>11 DEF IInv, LobbyIsFresh, AckedFinished,
     EndsAfterLast, HandsStayInStep, GameOverForAll

\* A result takes a target off the host's list only if a response vouches for it.
LEMMA ResultKeeps ==
  ASSUME IInv, NEW s \in sends, NEW ok \in BOOLEAN, phase = "Playing",
         Ack(s, ok), sends' = sends \ {s}, faults' \subseteq Faults,
         ok => s.stage = "response",
         UNCHANGED <<hostVars, guestVars, noticed>>
  PROVE  IInv'
<1>1. TypeOK /\ s \in Sends /\ s.guest \in Guests /\ s.hand \in Hands
  BY SendFields DEF IInv, TypeOK
<1>2. HandLimit \in Nat
  BY SessionConstants
<1>3. /\ inFlight' \in [Guests -> BOOLEAN] /\ pending' \in [Guests -> 0 .. HandLimit]
      /\ \A g \in Guests : pending'[g] \in {0, pending[g]}
  <2>1. CASE s.toHost
    <3> DEFINE rest == IF ok THEN 0 ELSE pending[s.guest]
    <3>1. rest \in {0, pending[s.guest]} /\ rest \in 0 .. HandLimit
      BY <1>1, <1>2 DEF TypeOK
    <3>2. /\ pending' = [pending EXCEPT ![s.guest] = rest]
          /\ inFlight' = [inFlight EXCEPT ![s.guest] = FALSE]
      BY <2>1 DEF Ack
    <3> HIDE DEF rest
    <3>3. QED
      BY <1>1, <3>1, <3>2 DEF TypeOK
  <2>2. CASE ~s.toHost
    BY <1>1, <2>2 DEF TypeOK, Ack
  <2>3. QED
    BY <2>1, <2>2
<1>4. owed' \subseteq owed /\ owedFlight' \subseteq owedFlight
  BY DEF Ack
<1>5. TypeOK'
  BY <1>1, <1>3, <1>4 DEF TypeOK
<1>6. GuestsNotAhead'
  BY <1>1, <1>3 DEF IInv, TypeOK, GuestsNotAhead
<1>7. SendsVouched'
  BY DEF IInv, SendsVouched, Kept
<1>8. ASSUME NEW g \in roster, g \notin owed', running[g]
      PROVE  Kept(g)
  <2>1. CASE g \notin owed
    BY <1>8, <2>1 DEF IInv, HostsPayloadsKept
  <2>2. CASE g \in owed
    <3>1. ~s.toHost /\ s.hand = hand /\ ok /\ g = s.guest
      BY <1>1, <1>8, <2>2 DEF Ack, Heard, SendFields
    <3>2. QED
      BY <1>8, <3>1 DEF IInv, SendsVouched
  <2>3. QED
    BY <2>1, <2>2
<1>9. HostsPayloadsKept'
  BY <1>8 DEF HostsPayloadsKept, Kept
<1>10. QED
  BY <1>4, <1>5, <1>6, <1>7, <1>9 DEF IInv, LobbyIsFresh, StrangersIdle,
     AckedFinished, EndsAfterLast, HandsStayInStep, GameOverForAll

\* A send that succeeded keeps the invariant.
LEMMA SucceedKeeps ==
  ASSUME IInv, NEW s \in sends, Succeed(s)
  PROVE  IInv'
<1>1. faults' \subseteq Faults
  BY DEF IInv, TypeOK, Succeed
<1>2. QED
  BY <1>1, ResultKeeps DEF Succeed

\* A send that failed, received or not, keeps it: it is owed again.
LEMMA FailKeeps ==
  ASSUME IInv, NEW s \in sends, Fail(s)
  PROVE  IInv'
<1>1. faults' \subseteq Faults
  BY DEF IInv, TypeOK, Fail, Happens, Faults
<1>2. QED
  BY <1>1, ResultKeeps DEF Fail

-----------------------------------------------------------------------------
(* Leaving *)

\* A loop that ends leaves what the guest has finished.
LEMMA StopKeeps ==
  ASSUME IInv, NEW g \in Guests, Stop(g), faults' \subseteq Faults
  PROVE  IInv'
<1> USE SessionConstants DEF IInv, Stop
<1>1. TypeOK'
  BY DEF TypeOK
<1>2. GuestsNotAhead'
  BY DEF TypeOK, GuestsNotAhead
<1>3. StrangersIdle'
  BY DEF TypeOK, StrangersIdle
<1>4. SendsVouched'
  BY DEF TypeOK, SendsVouched, Kept
<1>5. HandsStayInStep'
  BY DEF TypeOK, HandsStayInStep
<1>6. HostsPayloadsKept'
  BY DEF TypeOK, HostsPayloadsKept, Kept
<1>7. QED
  BY <1>1, <1>2, <1>3, <1>4, <1>5, <1>6 DEF LobbyIsFresh, AckedFinished,
     EndsAfterLast, GameOverForAll

\* A guest that leaves or stops keeps the invariant.
LEMMA LeavingKeeps ==
  ASSUME IInv, NEW g \in Guests, Leave(g) \/ GuestStops(g)
  PROVE  IInv'
<1>1. faults' \subseteq Faults
  BY DEF IInv, TypeOK, Leave, GuestStops, Happens, Faults
<1>2. QED
  BY <1>1, StopKeeps DEF Leave, GuestStops

\* The lobby drops a guest that has nothing under way yet.
LEMMA HostNoticesKeeps ==
  ASSUME IInv, NEW g \in Guests, HostNotices(g)
  PROVE  IInv'
<1> USE DEF IInv, HostNotices
<1>1. TypeOK'
  BY DEF TypeOK, LobbyIsFresh
<1>2. GuestsNotAhead' /\ LobbyIsFresh' /\ EndsAfterLast' /\ GameOverForAll'
  BY DEF GuestsNotAhead, LobbyIsFresh, EndsAfterLast, GameOverForAll
<1>3. StrangersIdle'
  BY DEF TypeOK, StrangersIdle, GuestsNotAhead, LobbyIsFresh
<1>4. SendsVouched' /\ AckedFinished' /\ HandsStayInStep' /\ HostsPayloadsKept'
  BY DEF SendsVouched, AckedFinished, HandsStayInStep, HostsPayloadsKept, Kept
<1>5. QED
  BY <1>1, <1>2, <1>3, <1>4

\* A departure the host misses changes nothing it relies on.
LEMMA HostMissesItKeeps ==
  ASSUME IInv, NEW g \in Guests, HostMissesIt(g)
  PROVE  IInv'
<1> USE DEF IInv, HostMissesIt
<1>1. TypeOK'
  BY DEF TypeOK
<1>2. QED
  BY <1>1 DEF GuestsNotAhead, LobbyIsFresh, StrangersIdle, SendsVouched,
     AckedFinished, EndsAfterLast, HandsStayInStep, HostsPayloadsKept, GameOverForAll, Kept

-----------------------------------------------------------------------------
(* Every step keeps the invariant *)

\* The invariant holds of an empty lobby.
THEOREM InitHolds == Init => IInv
<1> SUFFICES ASSUME Init PROVE IInv
  OBVIOUS
<1>1. TypeOK
  <2>1. 0 \in 0 .. HandLimit
    BY SessionConstants
  <2>2. QED
    BY <2>1 DEF Init, TypeOK
<1>2. QED
  BY <1>1 DEF IInv, Init, GuestsNotAhead, LobbyIsFresh, StrangersIdle, SendsVouched,
     AckedFinished, EndsAfterLast, HandsStayInStep, HostsPayloadsKept, GameOverForAll

\* Every step of the host, a guest or a send task keeps it.
THEOREM NextKeeps == IInv /\ [Next]_vars => IInv'
<1> SUFFICES ASSUME IInv, [Next]_vars PROVE IInv'
  OBVIOUS
<1>1. ASSUME LobbyTimeout \/ FirstHand \/ HostSettles \/ NextHand \/ GameOver \/ HostPump
      PROVE  IInv'
  BY <1>1, LobbyTimeoutKeeps, FirstHandKeeps, HostSettlesKeeps, NextHandKeeps,
     GameOverKeeps, HostPumpKeeps
<1>2. ASSUME NEW g \in Guests, Join(g) \/ GuestSettles(g) \/ GuestPump(g)
      PROVE  IInv'
  BY <1>2, JoinKeeps, GuestSettlesKeeps, GuestPumpKeeps
<1>3. ASSUME NEW g \in Guests, Leave(g) \/ HostNotices(g) \/ HostMissesIt(g) \/ GuestStops(g)
      PROVE  IInv'
  BY <1>3, LeavingKeeps, HostNoticesKeeps, HostMissesItKeeps
<1>4. ASSUME NEW g \in Guests, NEW n \in Hands, StartHand(g, n) \/ HandComplete(g, n)
      PROVE  IInv'
  BY <1>4, StartHandKeeps, HandCompleteKeeps
<1>5. ASSUME NEW s \in sends, HostReceives(s) \/ GuestReceives(s) \/ Succeed(s) \/ Fail(s)
      PROVE  IInv'
  BY <1>5, HostReceivesKeeps, GuestReceivesKeeps, SucceedKeeps, FailKeeps
<1>6. CASE UNCHANGED vars
  BY <1>6 DEF vars, IInv, TypeOK, GuestsNotAhead, LobbyIsFresh, StrangersIdle,
     SendsVouched, AckedFinished, EndsAfterLast, HandsStayInStep, HostsPayloadsKept,
     GameOverForAll, Kept
<1>7. QED
  BY <1>1, <1>2, <1>3, <1>4, <1>5, <1>6 DEF Next

-----------------------------------------------------------------------------
(* The guests' payloads *)

\* A hand opens with nothing owed by a guest and nothing answered in it.
LEMMA OpenHandSends ==
  ASSUME IInv, GuestsSend, phase \in {"Lobby", "Playing"}, hand < HandLimit,
         OpenHand(hand + 1)
  PROVE  GuestsSend'
<1>1. TypeOK /\ hand \in Nat
  BY DEF IInv, TypeOK
<1>2. /\ phase' = "Playing" /\ hand' = hand + 1
      /\ UNCHANGED <<roster, guestVars, guestSender, noticed, faults>>
  BY DEF OpenHand
<1>3. \A g \in Guests :
        /\ currentHand'[g] <= hand' /\ currentHand'[g] # hand' /\ ~Owes(g)'
        /\ running'[g] /\ currentHand'[g] = 0 => live'[g] = 0 /\ done'[g] = 0
  BY <1>1, <1>2 DEF GuestsSend, TypeOK, IInv, GuestsNotAhead, Owes
<1>4. ASSUME NEW s \in sends', s.toHost, s.stage = "response"
      PROVE  s.hand # hand'
  <2>1. CASE s \in sends
    <3>1. s \in Sends /\ s.hand \in Nat
      BY <1>1, <2>1, SendFields DEF TypeOK, Hands
    <3>2. s.hand <= hand
      BY <2>1 DEF IInv, SendsVouched, LobbyIsFresh
    <3>3. QED
      BY <1>1, <1>2, <3>1, <3>2
  <2>2. CASE \E g \in roster : s = Send(g, FALSE, hand + 1, "request")
    BY <1>4, <2>2 DEF Send
  <2>3. QED
    BY <2>1, <2>2 DEF OpenHand, StillHeard
<1>5. QED
  BY <1>3, <1>4 DEF GuestsSend

\* A Start queues the guest's payload with its hand: in the first one there is
\* none before it that could clear the payload or start the hand again.
LEMMA StartHandSends ==
  ASSUME IInv, GuestsSend, NEW g \in Guests, NEW n \in Hands, StartHand(g, n)
  PROVE  GuestsSend'
<1> DEFINE opens == currentHand[g] # n
           fresh == StartsAnew(g, n)
           queued == IF fresh THEN n ELSE IF opens THEN 0 ELSE pending[g]
           marked == ~opens /\ inFlight[g]
           tasks == IF marked THEN {} ELSE {queued} \ {0}
<1>1. /\ phase = "Playing" /\ running[g] /\ n \in 1 .. hand /\ faults \subseteq faults'
      /\ UNCHANGED <<hostVars, hostSender, running, done, noticed>>
  BY DEF StartHand, Happens
<1>2. /\ currentHand' = [currentHand EXCEPT ![g] = n]
      /\ live' = [live EXCEPT ![g] = IF fresh THEN n ELSE @]
      /\ pending' = [pending EXCEPT ![g] = queued]
      /\ sends' = sends \cup {Send(g, TRUE, h, "request") : h \in tasks}
  BY DEF StartHand
<1>3. TypeOK /\ hand \in Nat /\ n \in Nat /\ n # 0 /\ n <= hand
  BY <1>1 DEF IInv, TypeOK, Hands
<1>4. /\ currentHand[g] \in Nat /\ currentHand[g] <= hand
      /\ live[g] \in Nat /\ done[g] \in Nat /\ live[g] <= hand /\ done[g] <= hand
      /\ currentHand[g] = 0 => live[g] = 0 /\ done[g] = 0
  BY <1>1, <1>3 DEF IInv, TypeOK, GuestsNotAhead, GuestsSend
<1>5. \A i \in Guests : /\ currentHand'[i] = (IF i = g THEN n ELSE currentHand[i])
                        /\ live'[i] = (IF i = g /\ fresh THEN n ELSE live[i])
                        /\ pending'[i] = (IF i = g THEN queued ELSE pending[i])
  BY <1>2, <1>3 DEF TypeOK
<1>6. fresh <=> live[g] # n /\ n > done[g]
  BY DEF StartsAnew
<1> HIDE DEF fresh
<1>7. \A s \in sends' : s.toHost /\ s.stage = "response" => s \in sends
  BY <1>2 DEF Send
<1>8. \A i \in Guests : Owes(i)' => Owes(i) \/ (i = g /\ fresh /\ n = hand)
  BY <1>1, <1>5 DEF Owes
<1>9. \A i \in Guests : running'[i] /\ currentHand'[i] = hand => hand \in {live'[i], done'[i]}
  <2>1. ASSUME n = hand PROVE hand \in {live'[g], done[g]}
    BY <1>3, <1>4, <1>5, <1>6, <2>1
  <2>2. QED
    BY <1>1, <1>5, <2>1 DEF GuestsSend
<1>10. ASSUME NEW i \in Guests, Owes(i)', hand = 1
       PROVE  pending'[i] = 1
  <2>1. CASE i # g
    <3>1. Owes(i) /\ pending'[i] = pending[i]
      BY <1>5, <1>8, <1>10, <2>1
    <3>2. QED
      BY <1>1, <1>10, <3>1 DEF GuestsSend
  <2>2. CASE i = g /\ fresh
    BY <1>3, <1>5, <1>10, <2>2
  <2>3. CASE i = g /\ ~fresh
    <3>1. Owes(g) /\ n = 1
      BY <1>3, <1>8, <1>10, <2>3
    <3>2. ~opens
      BY <1>4, <1>6, <1>10, <2>3, <3>1 DEF Owes
    <3>3. QED
      BY <1>1, <1>5, <1>10, <2>3, <3>1, <3>2 DEF GuestsSend
  <2>4. QED
    BY <2>1, <2>2, <2>3
<1>11. ASSUME NEW i \in Guests, Owes(i)', "failure" \notin faults
       PROVE  Send(i, TRUE, hand, "request") \in sends'
  <2>1. CASE Owes(i)
    BY <1>1, <1>2, <1>11, <2>1 DEF GuestsSend
  <2>2. CASE ~Owes(i)
    <3>1. i = g /\ fresh /\ n = hand
      BY <1>8, <1>11, <2>2
    <3>2. opens
      BY <1>1, <1>3, <1>4, <1>6, <3>1 DEF GuestsSend
    <3>3. tasks = {n}
      BY <1>3, <3>1, <3>2
    <3>4. QED
      BY <1>2, <3>1, <3>3
  <2>3. QED
    BY <2>1, <2>2
<1>12. QED
  BY <1>1, <1>3, <1>4, <1>5, <1>6, <1>7, <1>9, <1>10, <1>11 DEF GuestsSend

\* The host takes a request off the network with the payload it brings.
LEMMA HostReceivesSends ==
  ASSUME IInv, GuestsSend, NEW s \in sends, HostReceives(s)
  PROVE  GuestsSend'
<1>1. /\ phase = "Playing" /\ s.toHost
      /\ have' = (IF s.hand = hand THEN have \cup {s.guest} ELSE have)
      /\ sends' = Answered(s)
      /\ UNCHANGED <<phase, roster, hand, guestVars, guestSender, faults>>
  BY DEF HostReceives
<1>2. TypeOK
  BY DEF IInv
<1>3. \A t \in sends' : t.toHost /\ t.stage = "response" /\ t.hand = hand => t.guest \in have'
  BY <1>1, <1>2, AnsweredTasks DEF GuestsSend
<1>4. ASSUME NEW g \in Guests, Owes(g)', "failure" \notin faults
      PROVE  Send(g, TRUE, hand, "request") \in sends'
  <2>1. Owes(g) /\ Send(g, TRUE, hand, "request") \in sends
    BY <1>1, <1>4 DEF Owes, GuestsSend
  <2>2. Send(g, TRUE, hand, "request") # s
    BY <1>1, <1>4 DEF Owes, Send
  <2>3. QED
    BY <1>1, <2>1, <2>2 DEF Answered
<1>5. QED
  BY <1>1, <1>3, <1>4 DEF GuestsSend, Owes

\* A guest taking the host's payload leaves its own on their way.
LEMMA GuestReceivesSends ==
  ASSUME IInv, GuestsSend, NEW s \in sends, GuestReceives(s)
  PROVE  GuestsSend'
<1>1. /\ phase = "Playing" /\ ~s.toHost
      /\ sends' = Answered(s)
      /\ UNCHANGED <<hostVars, running, currentHand, live, done, guestSender, faults>>
  BY DEF GuestReceives
<1>2. TypeOK
  BY DEF IInv
<1>3. \A t \in sends' : t.toHost /\ t.stage = "response" => t \in sends
  BY <1>1, <1>2, AnsweredTasks
<1>4. ASSUME NEW g \in Guests, Send(g, TRUE, hand, "request") \in sends
      PROVE  Send(g, TRUE, hand, "request") \in sends'
  BY <1>1, <1>4 DEF Send, Answered
<1>5. QED
  BY <1>1, <1>3, <1>4 DEF GuestsSend, Owes

\* A result strikes a guest's payload off in the first hand only when the host
\* has it; a request is off the network without an answer only when it failed.
LEMMA ResultSends ==
  ASSUME IInv, GuestsSend, NEW s \in sends, Succeed(s) \/ Fail(s)
  PROVE  GuestsSend'
<1>1. /\ phase = "Playing" /\ sends' = sends \ {s} /\ faults \subseteq faults'
      /\ UNCHANGED <<hostVars, guestVars>>
  BY DEF Succeed, Fail, Happens
<1>2. TypeOK /\ s \in Sends /\ s.guest \in Guests /\ s.hand \in Hands
  BY SendFields DEF IInv, TypeOK
<1>3. s.hand <= hand
  BY <1>1 DEF IInv, SendsVouched
<1>4. ASSUME NEW g \in Guests, Owes(g), hand = 1
      PROVE  pending'[g] = 1
  <2>1. pending[g] = 1
    BY <1>1, <1>4 DEF GuestsSend
  <2>2. CASE Fail(s)
    BY <1>2, <2>1, <2>2 DEF Fail, Ack, TypeOK
  <2>3. CASE Succeed(s) /\ ~s.toHost
    BY <2>1, <2>3 DEF Succeed, Ack
  <2>4. CASE Succeed(s) /\ s.toHost
    <3>1. s.hand = hand
      BY <1>2, <1>3, <1>4 DEF Hands
    <3>2. s.guest \in have
      BY <1>1, <2>4, <3>1 DEF GuestsSend, Succeed
    <3>3. g # s.guest
      BY <1>4, <3>2 DEF Owes
    <3>4. QED
      BY <1>2, <2>1, <2>4, <3>3 DEF Succeed, Ack, TypeOK
  <2>5. QED
    BY <2>2, <2>3, <2>4
<1>5. ASSUME NEW g \in Guests, Owes(g), "failure" \notin faults'
      PROVE  Send(g, TRUE, hand, "request") \in sends'
  <2>1. Send(g, TRUE, hand, "request") \in sends
    BY <1>1, <1>5 DEF GuestsSend
  <2>2. CASE Succeed(s)
    BY <1>1, <2>1, <2>2 DEF Succeed, Send
  <2>3. CASE Fail(s)
    <3>1. ~running[s.guest]
      BY <1>5, <2>3 DEF Fail, Happens
    <3>2. QED
      BY <1>1, <1>5, <2>1, <3>1 DEF Owes, Send
  <2>4. QED
    BY <2>2, <2>3
<1>6. QED
  BY <1>1, <1>4, <1>5 DEF GuestsSend, Owes

\* The other steps add to what is sent or end what a guest owes.
LEMMA OtherStepsSend ==
  ASSUME IInv, GuestsSend, NEW g \in Guests,
         \/ LobbyTimeout \/ HostSettles \/ GameOver \/ HostPump
         \/ Join(g) \/ GuestSettles(g) \/ GuestPump(g) \/ Leave(g)
         \/ HostNotices(g) \/ HostMissesIt(g) \/ GuestStops(g)
         \/ \E n \in Hands : HandComplete(g, n)
  PROVE  GuestsSend'
<1>1. TypeOK
  BY DEF IInv
<1>2. CASE \/ LobbyTimeout \/ HostSettles \/ HostMissesIt(g)
           \/ \E n \in Hands : HandComplete(g, n)
  BY <1>2 DEF LobbyTimeout, HostSettles, HostMissesIt, HandComplete, GuestsSend, Owes
<1>3. CASE GameOver \/ HostNotices(g)
  BY <1>3 DEF GameOver, HostNotices, GuestsSend, Owes
<1>4. CASE Join(g)
  BY <1>4 DEF Join, GuestsSend
<1>5. CASE HostPump
  <2>1. /\ sends \subseteq sends' /\ UNCHANGED <<hostVars, guestVars, guestSender, faults>>
        /\ \A s \in sends' : s \in sends \/ s.stage = "request"
    BY <1>5 DEF HostPump, Send
  <2>2. QED
    BY <2>1 DEF GuestsSend, Owes
<1>6. CASE GuestPump(g)
  <2>1. /\ sends \subseteq sends' /\ UNCHANGED <<hostVars, guestVars, pending, faults>>
        /\ \A s \in sends' : s \in sends \/ s.stage = "request"
    BY <1>6 DEF GuestPump, Send
  <2>2. QED
    BY <2>1 DEF GuestsSend, Owes
<1>7. CASE GuestSettles(g)
  <2>1. /\ UNCHANGED <<hostVars, running, currentHand, guestSender, sends, faults>>
        /\ live' = [live EXCEPT ![g] = 0] /\ done' = [done EXCEPT ![g] = live[g]]
        /\ running[g] /\ live[g] # 0
    BY <1>7 DEF GuestSettles
  <2>2. \A i \in Guests : i # g => live'[i] = live[i] /\ done'[i] = done[i]
    BY <1>1, <2>1 DEF TypeOK
  <2>3. live'[g] = 0 /\ done'[g] = live[g]
    BY <1>1, <2>1 DEF TypeOK
  <2>4. live[g] \in Nat /\ done[g] \in Nat /\ done[g] < live[g] /\ live[g] <= hand /\ hand \in Nat
    BY <1>1, <2>1 DEF IInv, TypeOK, GuestsNotAhead
  <2>5. \A i \in Guests : Owes(i)' => Owes(i)
    BY <2>1, <2>2, <2>3, <2>4 DEF Owes
  <2>6. currentHand[g] <= hand /\ currentHand[g] # 0
    BY <2>1 DEF GuestsSend
  <2>7. currentHand[g] = hand => done'[g] = hand
    BY <2>1, <2>3, <2>4 DEF GuestsSend
  <2>8. \A i \in Guests :
          /\ currentHand'[i] <= hand'
          /\ running'[i] /\ currentHand'[i] = 0 => live'[i] = 0 /\ done'[i] = 0
          /\ running'[i] /\ currentHand'[i] = hand' => hand' \in {live'[i], done'[i]}
    BY <2>1, <2>2, <2>6, <2>7 DEF GuestsSend
  <2>9. QED
    BY <2>1, <2>5, <2>8 DEF GuestsSend
<1>8. CASE Leave(g) \/ GuestStops(g)
  <2>1. /\ Stop(g) /\ faults \subseteq faults'
    BY <1>8 DEF Leave, GuestStops, Happens
  <2>2. /\ running' = [running EXCEPT ![g] = FALSE]
        /\ currentHand' = [currentHand EXCEPT ![g] = 0]
        /\ live' = [live EXCEPT ![g] = 0]
        /\ pending' = [pending EXCEPT ![g] = 0]
        /\ sends' = {s \in sends : s.guest # g \/ ~s.toHost}
        /\ UNCHANGED <<hostVars, done>>
    BY <2>1 DEF Stop
  <2>3. \A i \in Guests : i # g => /\ running'[i] = running[i] /\ live'[i] = live[i]
                                   /\ currentHand'[i] = currentHand[i]
                                   /\ pending'[i] = pending[i]
    BY <1>1, <2>2 DEF TypeOK
  <2>4. ~running'[g] /\ currentHand'[g] = 0 /\ hand \in Nat
    BY <1>1, <2>2 DEF TypeOK
  <2>5. \A i \in Guests : Owes(i)' => i # g /\ Owes(i)
    BY <2>2, <2>3, <2>4 DEF Owes
  <2>6. \A i \in Guests : i # g =>
          (Send(i, TRUE, hand, "request") \in sends => Send(i, TRUE, hand, "request") \in sends')
    BY <2>2 DEF Send
  <2>7. \A i \in Guests :
          /\ currentHand'[i] <= hand'
          /\ running'[i] /\ currentHand'[i] = 0 => live'[i] = 0 /\ done'[i] = 0
          /\ running'[i] /\ currentHand'[i] = hand' => hand' \in {live'[i], done'[i]}
    BY <1>1, <2>2, <2>3, <2>4 DEF GuestsSend, TypeOK
  <2>8. QED
    BY <2>1, <2>2, <2>3, <2>5, <2>6, <2>7 DEF GuestsSend
<1>9. QED
  BY <1>2, <1>3, <1>4, <1>5, <1>6, <1>7, <1>8

\* Whatever arrives late, fails or leaves, the guests' sends stay as the
\* invariant has them.
THEOREM SendsKept == IInv /\ GuestsSend /\ [Next]_vars => GuestsSend'
<1> SUFFICES ASSUME IInv, GuestsSend, [Next]_vars PROVE GuestsSend'
  OBVIOUS
<1>1. hand \in Nat /\ HandLimit \in Nat /\ \E g \in Guests : TRUE
  <2>1. Guests # {}
    BY SessionConstants, FS_EmptySet
  <2>2. QED
    BY <2>1, SessionConstants DEF IInv, TypeOK
<1>2. ASSUME FirstHand \/ NextHand
      PROVE  GuestsSend'
  BY <1>1, <1>2, OpenHandSends, SessionConstants
     DEF FirstHand, NextHand, HandsLeft, IInv, LobbyIsFresh
<1>3. ASSUME LobbyTimeout \/ HostSettles \/ GameOver \/ HostPump
      PROVE  GuestsSend'
  BY <1>1, <1>3, OtherStepsSend
<1>4. ASSUME NEW g \in Guests,
             \/ Join(g) \/ GuestSettles(g) \/ GuestPump(g) \/ Leave(g)
             \/ HostNotices(g) \/ HostMissesIt(g) \/ GuestStops(g)
             \/ \E n \in Hands : HandComplete(g, n)
      PROVE  GuestsSend'
  BY <1>4, OtherStepsSend
<1>5. ASSUME NEW g \in Guests, NEW n \in Hands, StartHand(g, n)
      PROVE  GuestsSend'
  BY <1>5, StartHandSends
<1>6. ASSUME NEW s \in sends, HostReceives(s) \/ GuestReceives(s) \/ Succeed(s) \/ Fail(s)
      PROVE  GuestsSend'
  BY <1>6, HostReceivesSends, GuestReceivesSends, ResultSends
<1>7. CASE UNCHANGED vars
  BY <1>7 DEF vars, GuestsSend, Owes
<1>8. QED
  BY <1>2, <1>3, <1>4, <1>5, <1>6, <1>7 DEF Next

-----------------------------------------------------------------------------
(* What the host and its guests can rely on *)

\* The session stays within its types.
THEOREM TypeCorrect == Spec => []TypeOK
<1>1. IInv => TypeOK
  BY DEF IInv
<1>2. QED
  BY <1>1, InitHolds, NextKeeps, PTL DEF Spec

\* However often a Start is repeated, delayed or overtaken by the next, whoever
\* joins and leaves: no seated guest is ever more than the hand in play behind
\* the host, and none skips a hand or plays one twice.
THEOREM HandsInStep == Spec => []HandsStayInStep
<1>1. IInv => HandsStayInStep
  BY DEF IInv
<1>2. QED
  BY <1>1, InitHolds, NextKeeps, PTL DEF Spec

\* The payloads of the hand being played, though requests, responses and Starts
\* arrive in any order and guests leave.  What the host's DealSender has struck
\* off its list is applied at the guest or kept until it can be, whatever fails.
\* What a guest owes the host is not lost in the first hand, whatever fails, nor
\* in any hand as long as no send has failed.  In a later hand a failed send can
\* lose it.
THEOREM PayloadsKept == Spec => []AckedIsKept
<1>1. Init => GuestsSend
  BY DEF Init, GuestsSend
<1>2. IInv /\ GuestsSend => NothingLost \/ (hand # 1 /\ "failure" \in faults)
  BY DEF GuestsSend, NothingLost, Lost
<1>3. IInv /\ GuestsSend => AckedIsKept
  BY <1>2 DEF IInv, AckedIsKept
<1>4. QED
  BY <1>1, <1>3, InitHolds, NextKeeps, SendsKept, PTL DEF Spec

\* When the host's loop is over every guest has played the last hand.
THEOREM AllPlayToTheEnd == Spec => []GameOverForAll
<1>1. IInv => GameOverForAll
  BY DEF IInv
<1>2. QED
  BY <1>1, InitHolds, NextKeeps, PTL DEF Spec
=============================================================================
