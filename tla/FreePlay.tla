------------------------------ MODULE FreePlay ------------------------------
(***************************************************************************)
(* A person at the table: the free-play window (app/src/freeplay) around   *)
(* one connection at a time, and the driver task behind it.  The window    *)
(* reads a snapshot of the table (gui_state.rs) once a frame, offers what  *)
(* compute_legal allows, runs a clock for the player's turn, and sends the *)
(* chosen action over a channel of one; the driver (protocol/src/driver.rs)*)
(* applies it when it gets to it.  The hands are those of module Hands; a  *)
(* street is dealt only when its cards are revealed, and until then it is  *)
(* nobody's turn.                                                          *)
(***************************************************************************)
EXTENDS Hands

VARIABLES
  \* the driver task
  conn,          \* TableConn: "none", "running", or what a finished driver that is not
                 \* reaped yet returned, "GameOver" or "Error"
  begun,         \* has a Table been seen by the observer (Conn::Playing)?
  taken,         \* the action the driver has received and is about to apply
  \* FreePlayApp
  me,            \* my_seat: 0 for the host, another for a guest
  chosen,        \* the action channel, depth 1
  screen,        \* "Host" or "Grid"
  lifecycle,     \* the banner: a Conn
  tile,          \* is the live table among AppState::tables?
  leave,         \* LeaveStage of the modal, or "none"
  wasMyTurn,     \* was_my_turn, and so whether the action bar is painted
  submitted,     \* turn_submitted
  bar,           \* the legal bounds of the painted table
  betTo          \* bet_to, the size its stepper shows

driverVars == <<conn, begun, taken, me>>
clockVars == <<wasMyTurn, submitted>>
shellVars == <<screen, lifecycle, tile, leave>>
barVars == <<bar, betTo>>
appVars == <<allVars, driverVars, chosen, shellVars, clockVars, barVars>>

\* An action and its size; history: did the clock choose it, and has the decision
\* it was chosen for been made already, by another one?
Sized(kind, n) == [kind |-> kind, to |-> n, timed |-> FALSE, stale |-> FALSE]
Move(kind) == Sized(kind, 0)
Nothing == Move("None")
Timed(actions) == {[a EXCEPT !.timed = TRUE] : a \in actions}
Stale(a) == IF a = Nothing THEN a ELSE [a EXCEPT !.stale = TRUE]

Role == IF me = 0 THEN "Host" ELSE "Guest"

\* is_local_turn, as the last observer update left it in the snapshot.
MyTurn == begun /\ live /\ Turn(me)

-----------------------------------------------------------------------------
(* What the window offers *)

\* LegalActions::default(), when it is not the player's turn.
NoLegal ==
  [canCheck |-> FALSE, canCall |-> FALSE, callIsAllIn |-> FALSE, canBet |-> FALSE,
   canRaise |-> FALSE, canAllIn |-> FALSE, minBet |-> 0, minRaiseTo |-> 0, maxTo |-> 0]

\* Mutant of CanRaise: only a full raise is offered.
CanRaiseInFull(i) == currentBet > 0 /\ stack[i] >= ToCall(i) + minRaise

CanRaise(i) == currentBet > 0 /\ stack[i] > ToCall(i)

\* compute_legal
Legal(i) ==
  [canCheck |-> ToCall(i) = 0,
   canCall |-> ToCall(i) > 0 /\ stack[i] > 0,
   callIsAllIn |-> ToCall(i) > 0 /\ stack[i] > 0 /\ ToCall(i) >= stack[i],
   canBet |-> currentBet = 0 /\ stack[i] > 0,
   canRaise |-> CanRaise(i),
   canAllIn |-> stack[i] > 0,
   minBet |-> AtMost(BigBlind, stack[i]),
   minRaiseTo |-> AtMost(currentBet + minRaise, stack[i] + committed[i]),
   maxTo |-> stack[i] + committed[i]]

Offer == IF MyTurn THEN Legal(me) ELSE NoLegal

\* n.clamp(lo, hi.max(lo))
Clamp(n, lo, hi) == IF n <= lo THEN lo ELSE IF hi <= lo THEN lo ELSE AtMost(n, hi)

\* enum Act, with bets and raises to n.
Acts(n) ==
  {Move("Fold"), Move("CheckCall"), Move("AllIn")} \cup {Sized(kind, n) : kind \in {"Bet", "Raise"}}

When(condition, action) == IF condition THEN {action} ELSE {}

\* Mutant of MapAction: bets and raises of any size go to the table.
MapActionUnclamped(act, legal) ==
  CASE act.kind = "Fold" -> {act}
    [] act.kind = "CheckCall" ->
         IF legal.canCheck THEN {Move("Check")}
         ELSE IF legal.callIsAllIn THEN {Move("AllIn")}
         ELSE When(legal.canCall, Move("Call"))
    [] act.kind = "Bet" -> When(legal.canBet, act)
    [] act.kind = "Raise" -> When(legal.canRaise, act)
    [] act.kind = "AllIn" -> When(legal.canAllIn, act)

\* map_action: at most one action.
MapAction(act, legal) ==
  CASE act.kind = "Fold" -> {act}
    [] act.kind = "CheckCall" ->
         IF legal.canCheck THEN {Move("Check")}
         ELSE IF legal.callIsAllIn THEN {Move("AllIn")}
         ELSE When(legal.canCall, Move("Call"))
    [] act.kind = "Bet" ->
         When(legal.canBet, Sized("Bet", Clamp(act.to, legal.minBet, legal.maxTo)))
    [] act.kind = "Raise" ->
         When(legal.canRaise, Sized("Raise", Clamp(act.to, legal.minRaiseTo, legal.maxTo)))
    [] act.kind = "AllIn" -> When(legal.canAllIn, act)

\* TableConn::send: dropped if one is in flight or the driver is gone.
Send(actions) ==
  chosen' = IF chosen = Nothing /\ conn = "running" /\ actions # {}
              THEN CHOOSE a \in actions : TRUE
              ELSE chosen

-----------------------------------------------------------------------------
(* The driver task *)

Ended == conn \in {"GameOver", "Error"}

Driving == conn = "running" /\ taken = Nothing

\* A step of the driver that leaves the connection as it is.
DriverStep == UNCHANGED <<conn, begun, me, shellVars, clockVars, barVars>>

\* The task returns; the channel goes with it.
Finish(outcome) ==
  /\ conn' = outcome
  /\ taken' = Nothing
  /\ chosen' = Nothing
  /\ UNCHANGED <<allVars, begun, me, shellVars, clockVars, barVars>>

\* The variables of the hand mean nothing before GameBegins; a connection that
\* is gone leaves them ready for hand 1 of the next.
NewTable ==
  /\ \E stacks \in InitialStacks : Deal(stacks, 0) /\ bankroll' = stacks
  /\ nextButton' = 0 /\ handNo' = 1 /\ live' = TRUE /\ board' = 0

\* The lobby fills, or the first Start arrives: hand 1 is on the table.
GameBegins ==
  /\ Driving
  /\ ~begun
  /\ begun' = TRUE
  /\ UNCHANGED <<allVars, conn, taken, me, chosen, shellVars, clockVars, barVars>>

\* The host's lobby times out, or the guest's URI is no URI.
GameFails == Driving /\ ~begun /\ Finish("Error")

OtherActs ==
  /\ Driving /\ begun
  /\ \E i \in Seat \ {me} : Act(i)
  /\ UNCHANGED <<taken, chosen>>
  /\ DriverStep

\* A street's cards are revealed, a hand is settled, the next one is dealt.
TableGoes ==
  /\ Driving /\ begun
  /\ DealStreet \/ Settle \/ StartHand
  /\ UNCHANGED <<taken, chosen>>
  /\ DriverStep

GameOver == Driving /\ begun /\ ~live /\ handNo = HandLimit /\ Finish("GameOver")

\* The other peer leaves: an error to the host, the end of the game to a guest.
PeerLeaves ==
  /\ Driving /\ begun
  /\ Finish(IF Role = "Host" THEN "Error" ELSE "GameOver")

\* The next_action arm: an action that arrives out of turn is dropped.
Take ==
  /\ Driving
  /\ chosen # Nothing
  /\ taken' = IF MyTurn THEN chosen ELSE Nothing
  /\ chosen' = Nothing
  /\ UNCHANGED allVars
  /\ DriverStep

\* BettingState::apply of the player's action.
Perform(a) ==
  \E i \in {me} :
    \/ a.kind = "Fold" /\ Fold(i)
    \/ a.kind = "Check" /\ Check(i)
    \/ a.kind = "Call" /\ Call(i)
    \/ a.kind = "Bet" /\ Bet(i, a.to)
    \/ a.kind = "Raise" /\ Raise(i, a.to)
    \/ a.kind = "AllIn" /\ AllIn(i)

\* apply takes the action: what Perform(a) is enabled by.
Accepts(a) ==
  \/ a.kind = "Fold" /\ Turn(me)
  \/ a.kind = "Check" /\ MayCheck(me)
  \/ a.kind = "Call" /\ MayCall(me)
  \/ a.kind = "Bet" /\ MayBet(me, a.to)
  \/ a.kind = "Raise" /\ MayRaise(me, a.to)
  \/ a.kind = "AllIn" /\ MayAllIn(me)

Refused(a) == ~Accepts(a)

\* local_turn; the channel is free again while the action is being applied.
Apply ==
  /\ conn = "running"
  /\ taken # Nothing
  /\ Perform(taken)
  /\ taken' = Nothing
  /\ chosen' = Stale(chosen)
  /\ UNCHANGED <<sessionVars, live, board>>
  /\ DriverStep

\* An action the table refuses ends the driver (the `?` after local_turn).
ApplyFails ==
  /\ conn = "running"
  /\ taken # Nothing
  /\ Refused(taken)
  /\ Finish("Error")

-----------------------------------------------------------------------------
(* The window *)

\* Mutant of ResetTurn: the clock of the last connection is kept.
ResetTurnNot == UNCHANGED clockVars

ResetTurn == wasMyTurn' = FALSE /\ submitted' = FALSE

\* start_host and start_guest, from the host screen or a slide-over of the grid;
\* a no-op while there is a connection, and out of reach behind the leave modal.
\* The seat of a guest is the one the host's roster will give it.
StartAs(seat) ==
  /\ conn = "none"
  /\ leave = "none"
  /\ me' = seat
  /\ conn' = "running"
  /\ begun' = FALSE
  /\ lifecycle' = IF seat = 0 THEN "Waiting" ELSE "Connecting"
  /\ screen' = IF seat = 0 THEN screen ELSE "Grid"
  /\ ResetTurn
  /\ betTo' = 0
  /\ UNCHANGED <<allVars, taken, chosen, tile, leave, bar>>

\* The snapshot's Conn.
SnapshotConn ==
  IF begun THEN "Playing" ELSE IF Role = "Host" THEN "Waiting" ELSE "Connecting"

\* The least a bet or a raise comes to.
Least(legal) == IF legal.canBet THEN legal.minBet ELSE legal.minRaiseTo

\* sizing_step
SizingStep(legal) == IF legal.minBet = 0 THEN 1 ELSE legal.minBet

\* adjust_bet, and the clamp of the next frame.
Resized(n, delta, legal) == Clamp(n + delta, Least(legal), legal.maxTo)

\* The arrows of the painted stepper; 0 for no click.
Clicks ==
  {0} \cup
  IF screen = "Grid" /\ tile /\ leave = "none" /\ wasMyTurn /\ (bar.canBet \/ bar.canRaise)
    THEN {SizingStep(bar), -SizingStep(bar)}
    ELSE {}

\* The end of sync_conn, with what was clicked in the frame before: a turn starts at
\* the least size.
Paint(delta) ==
  /\ bar' = Offer
  /\ betTo' = IF MyTurn /\ ~wasMyTurn THEN Resized(Least(Offer), 0, Offer)
              ELSE Resized(betTo, delta, Offer)

\* sync_conn while the driver runs: project the snapshot, watch the turn.  The
\* clock is reset when the turn comes and whenever it is not the player's turn.
Frame(delta) ==
  /\ conn = "running"
  /\ lifecycle' = SnapshotConn
  /\ screen' = IF begun THEN "Grid" ELSE screen
  /\ tile' = TRUE
  /\ submitted' = (submitted /\ MyTurn /\ wasMyTurn)
  /\ wasMyTurn' = MyTurn
  /\ Paint(delta)
  /\ UNCHANGED <<allVars, driverVars, chosen, leave>>

Sync == Frame(0)

\* A game that ended while the host screen shows is reported on the grid.
SilentScreen == IF screen = "Host" /\ Ended THEN "Grid" ELSE screen

\* sync_conn once the driver has ended: reap it and show how it ended.
Reap ==
  /\ Ended
  /\ conn' = "none"
  /\ lifecycle' = conn
  /\ tile' = FALSE
  /\ screen' = SilentScreen
  /\ begun' = FALSE
  /\ ResetTurn
  /\ NewTable
  /\ bar' = NoLegal
  /\ UNCHANGED <<taken, me, chosen, leave, betTo>>

\* Mutant of TimeoutAct: call or check whatever it costs.
TimeoutActPays(legal) == Move("CheckCall")

\* What the clock does for the player: a free check, else a fold.
TimeoutAct(legal) == IF legal.canCheck THEN Move("CheckCall") ELSE Move("Fold")

\* A frame in which the clock of a turn seen before runs out.
Expire(delta) ==
  /\ conn = "running"
  /\ MyTurn /\ wasMyTurn /\ ~submitted
  /\ submitted' = TRUE
  /\ Send(Timed(MapAction(TimeoutAct(Offer), Offer)))
  /\ Paint(delta)
  /\ UNCHANGED <<allVars, driverVars, shellVars, wasMyTurn>>

\* The buttons of the painted bar.
Buttons ==
  {Move("Fold")}
    \cup When(bar.canCheck \/ bar.canCall, Move("CheckCall"))
    \cup When(bar.canBet, Sized("Bet", betTo))
    \cup When(bar.canRaise /\ ~bar.canBet, Sized("Raise", betTo))
    \cup When(bar.canAllIn, Move("AllIn"))

\* The keys F, C and R.
Keys == {Move("Fold"), Move("CheckCall"), Sized("Raise", betTo)}

InReach == (IF wasMyTurn THEN Buttons ELSE {}) \cup (IF MyTurn THEN Keys ELSE {})

\* submit_act
Submit ==
  /\ conn # "none"
  /\ screen = "Grid" /\ tile /\ leave = "none"
  /\ \E actions \in {MapAction(act, Offer) : act \in InReach} :
       /\ Send(actions)
       /\ submitted' = (submitted \/ actions # {})
  /\ UNCHANGED <<allVars, driverVars, shellVars, wasMyTurn, barVars>>

LeaveStage(from, to) ==
  /\ leave = from
  /\ leave' = to
  /\ UNCHANGED <<allVars, driverVars, chosen, screen, lifecycle, tile, clockVars, barVars>>

BeginLeave == screen = "Grid" /\ tile /\ LeaveStage("none", "Confirm")
ConfirmLeave == LeaveStage("Confirm", "Processing")
StayAtTable == LeaveStage("Confirm", "none")

\* The modal's Done button, some time after Processing; app_finish_leave: abort
\* the driver, drop the table, back to the host screen.
FinishLeave ==
  /\ leave = "Processing"
  /\ leave' = "none"
  /\ conn' = "none"
  /\ taken' = Nothing /\ chosen' = Nothing
  /\ lifecycle' = "Idle"
  /\ tile' = FALSE
  /\ screen' = "Host"
  /\ begun' = FALSE
  /\ ResetTurn
  /\ NewTable
  /\ bar' = NoLegal
  /\ UNCHANGED <<me, betTo>>

-----------------------------------------------------------------------------
AppInit ==
  /\ SessionInit
  /\ conn = "none" /\ begun = FALSE /\ taken = Nothing
  /\ me = 0 /\ chosen = Nothing
  /\ screen = "Host" /\ lifecycle = "Idle" /\ tile = FALSE /\ leave = "none"
  /\ wasMyTurn = FALSE /\ submitted = FALSE
  /\ bar = NoLegal /\ betTo = 0

Driver ==
  \/ GameBegins \/ GameFails \/ OtherActs \/ TableGoes \/ GameOver \/ PeerLeaves
  \/ Take \/ Apply \/ ApplyFails

Window ==
  \/ (\E seat \in Seat : StartAs(seat)) \/ Reap \/ Submit
  \/ \E delta \in Clicks : Frame(delta) \/ Expire(delta)
  \/ BeginLeave \/ ConfirmLeave \/ StayAtTable \/ FinishLeave

AppNext == Driver \/ Window

AppSpec == AppInit /\ [][AppNext]_appVars

\* The driver task is scheduled, the other seat answers, frames are drawn while there
\* is a connection, and its clock runs out; the player need not do anything.
FairAppSpec ==
  /\ AppSpec
  /\ WF_appVars(Take \/ Apply \/ ApplyFails \/ TableGoes)
  /\ WF_appVars(OtherActs)
  /\ WF_appVars(Sync)
  /\ WF_appVars(\E delta \in Clicks : Expire(delta))

-----------------------------------------------------------------------------
(* Properties *)

\* Whatever the engine may be asked, sizes beyond the stack included.
Moves ==
  {Move(kind) : kind \in {"Fold", "Check", "Call", "AllIn"}} \cup
  {Sized(kind, n) : kind \in {"Bet", "Raise"}, n \in 0 .. 2 * starting[me]}

\* An action in the channel, and whether and how it was decided.
Actions ==
  [kind : {"None", "Fold", "Check", "Call", "Bet", "Raise", "AllIn"}, to : Nat,
   timed : BOOLEAN, stale : BOOLEAN]

\* Legal actions, of any table.
Bounds ==
  [canCheck : BOOLEAN, canCall : BOOLEAN, callIsAllIn : BOOLEAN, canBet : BOOLEAN,
   canRaise : BOOLEAN, canAllIn : BOOLEAN, minBet : Nat, minRaiseTo : Nat, maxTo : Nat]

\* The variables of the window and the driver have their types.
AppTypeOK ==
  /\ conn \in {"none", "running", "GameOver", "Error"}
  /\ begun \in BOOLEAN /\ me \in Seat
  /\ chosen \in Actions /\ taken \in Actions
  /\ screen \in {"Host", "Grid"} /\ tile \in BOOLEAN
  /\ lifecycle \in {"Idle", "Waiting", "Connecting", "Playing", "GameOver", "Error"}
  /\ leave \in {"none", "Confirm", "Processing"}
  /\ wasMyTurn \in BOOLEAN /\ submitted \in BOOLEAN
  /\ bar \in Bounds /\ betTo \in Nat

\* What the window offers is what the betting engine takes, whatever the size and
\* short stacks included - but for a raise of a seat the action was not reopened
\* to, which compute_legal offers and the engine refuses.
OffersAreAccepted ==
  MyTurn =>
    \A n \in 0 .. starting[me] : \A act \in Acts(n) : \A a \in MapAction(act, Offer) :
      Refused(a) => a.kind = "Raise" /\ acted[me]

\* The size after so many clicks on the upper arrow, from the start of a turn.
SizeAfter(clicks, legal) == Resized(Least(legal), clicks * SizingStep(legal), legal)

\* A bet or raise the player can bring to within one click of the size of a, and that
\* goes to the table with the size the stepper shows.
NearlyOffered(a) ==
  \E clicks \in 0 .. Offer.maxTo :
    LET n == SizeAfter(clicks, Offer) IN
    /\ n <= a.to /\ a.to < n + SizingStep(Offer)
    /\ MapAction(Sized(a.kind, n), Offer) = {Sized(a.kind, n)}

\* And what the engine takes can be chosen in the window, a call for the whole
\* stack as an all-in, a bet or a raise to within one click of the stepper - but for
\* the bet or call of nothing that the engine would take from a seat of a larger
\* table that has no chips and posted no blind.
EveryMoveIsOffered ==
  MyTurn =>
    \A a \in Moves :
      \/ Refused(a)
      \/ a.kind \in {"Bet", "Call"} /\ stack[me] = 0
      \/ a.kind = "Call" /\ MapAction(Move("CheckCall"), Offer) = {Move("AllIn")}
      \/ a.kind \in {"Bet", "Raise"} /\ NearlyOffered(a)
      \/ a.kind \notin {"Bet", "Raise"} /\ \E act \in Acts(0) : a \in MapAction(act, Offer)

\* The remark on update_turn_timer: a timeout never puts chips into the pot,
\* whichever decision the driver comes to apply it to; and it does not end the
\* game, unless the player decided before it was applied.
TimeoutsAreFree ==
  [][taken.timed =>
       /\ begun' => total' = total
       /\ Ended' /\ Refused(taken) => taken.stale]_appVars

\* No clock and no action of an earlier connection outlives it.
FreshConnection ==
  lifecycle \in {"Waiting", "Connecting"} /\ ~begun =>
    ~wasMyTurn /\ ~submitted /\ chosen = Nothing /\ taken = Nothing

\* The remark in sync_conn: a game that ended is never left unsaid on the host
\* screen.
EndIsReported ==
  conn = "none" /\ lifecycle \in {"Error", "GameOver"} => screen = "Grid" \/ leave # "none"

\* The turn went by and came back between two frames: the window sees one long
\* turn, and takes the decision to have been answered though nothing is in flight.
ClockMissed ==
  MyTurn /\ wasMyTurn /\ submitted /\ chosen = Nothing /\ taken = Nothing

\* A hand goes on to its end though the player does nothing: the clock acts.
HandGoesOn ==
  conn = "running" /\ begun /\ live ~> conn # "running" \/ ~live \/ ClockMissed

\* The remark on LegalActions, of a submission for the decision at hand: an
\* illegal one is simply ignored.
IllegalIsIgnored == [][ApplyFails => taken.stale]_appVars

-----------------------------------------------------------------------------
(* The inductive invariant behind the properties above *)

\* What a seat committed this round is part of what it committed this hand.
RoundWithinHand == \A i \in Seat : committed[i] <= total[i]

GameIInv == SessionIInv /\ RoundWithinHand

\* The driver holds an action only on the player's turn, and nothing is in the
\* channel of a driver that is gone or of a game that has not begun.
TakenInTurn == taken # Nothing => MyTurn
GoneIsEmpty == conn # "running" => chosen = Nothing /\ taken = Nothing
LobbyIsQuiet == ~begun => ~wasMyTurn /\ ~submitted /\ chosen = Nothing /\ taken = Nothing

\* What the clock chose is free, and as legal as when it was chosen until the
\* decision has been made.
ClockFits(a) ==
  a.timed => /\ a.kind \in {"Check", "Fold"}
             /\ a.stale \/ (MyTurn /\ (a.kind = "Check" => ToCall(me) = 0))

\* A connection that is gone is spoken of on the grid only.
EndOnGrid ==
  conn = "none" /\ lifecycle \in {"Error", "GameOver"} => screen = "Grid"

AppIInv ==
  /\ AppTypeOK
  /\ GameIInv
  /\ TakenInTurn
  /\ GoneIsEmpty
  /\ LobbyIsQuiet
  /\ ClockFits(chosen)
  /\ ClockFits(taken)
  /\ EndOnGrid
=============================================================================
