----------------------------- MODULE MentalDeal ------------------------------
(***************************************************************************)
(* The trustless deal of one hand, played between peers: MentalDeal        *)
(* (protocol/src/mental.rs) inside the Table of every peer                 *)
(* (protocol/src/table.rs), its payloads carried by the request/response   *)
(* channel and the host's relay (protocol/src/driver.rs).                  *)
(*                                                                         *)
(* Cards are positions of a deck that is masked under everybody's key; a   *)
(* card opens for a peer that holds a reveal token of every seat for it.   *)
(* Only who contributed what is kept: the two hole cards of a seat always  *)
(* travel together, and so do the cards of a street.  Proofs are assumed   *)
(* sound and the players honest.                                           *)
(*                                                                         *)
(* Betting is what gates the reveals.  It is reduced to its turns: on each *)
(* street every seat that still can acts once, in seat order, and stays,   *)
(* folds or stays with its last chip.  Acts reach every peer in order      *)
(* here.                                                                   *)
(***************************************************************************)
EXTENDS Seats, FiniteSets, SequencesExt

CONSTANTS
  Streets,       \* community rounds of a hand (bound: the code has 3)
  Moves,         \* what a seat may do in its turn, of "stay", "fold", "allin"
  BlindAllIn,    \* seats whose blind took the whole stack
  Resends        \* bound on deliveries whose acknowledgement is lost

ASSUME DealConstants ==
  /\ Streets \in 1 .. 3
  /\ Moves \subseteq {"stay", "fold", "allin"}
  /\ BlindAllIn \subseteq Seat /\ BlindAllIn # Seat
  /\ Resends \in Nat

VARIABLES
  peer,          \* per seat, its Table: see Fresh
  wire,          \* payloads some sender has yet to see acknowledged, with target
  acts,          \* the moves made in the hand, in order
  resends        \* deliveries repeated so far

vars == <<peer, wire, acts, resends>>

Host == 0
Round == 1 .. Streets    \* the flop, the turn and the river

\* Deal payloads: KeyAnnounce, ShuffleAnnounce, RevealAnnounce of a round.
Key(p) == [author |-> p, slot |-> "key", deck |-> <<>>]
Shuffle(p, deck) == [author |-> p, slot |-> "shuffle", deck |-> deck]
Reveal(p, round) == [author |-> p, slot |-> round, deck |-> <<>>]
Hole == "hole"
Showdown == "show"
Board == <<"flop", "turn", "river">>

\* The hand as one peer has it when the start of the hand has not reached it.
Fresh ==
  [stage |-> "waiting",              \* waiting for Start, playing, settled
   keys |-> {},                      \* keys_in
   shuffles |-> 0,                   \* shuffles_done
   deck |-> <<>>,                    \* the seats whose shuffles made the deck
   hole |-> [o \in Seat |-> {}],     \* who gave a token for the cards of o
   community |-> [r \in Round |-> {}],
   board |-> <<>>,                   \* the rounds on the board, as they came
   shown |-> {},                     \* owners who gave their showdown token
   opened |-> {},                    \* showdown_hole
   street |-> 0,
   applied |-> 0,                    \* how many of `acts` this peer applied
   acted |-> {}, folded |-> {}, allIn |-> BlindAllIn,
   pending |-> FALSE,                \* pending_settle
   deferred |-> <<>>,                \* payloads that came too early
   out |-> {}]                       \* payloads the handler being run sends

-----------------------------------------------------------------------------
(* What a peer sees of its own hand *)

Playing(s) == s.stage = "playing"
Phase(s) ==
  IF s.keys # Seat THEN "Keygen" ELSE IF s.shuffles < N THEN "Shuffle" ELSE "Ready"
Ready(s) == Phase(s) = "Ready"

LocalHole(p, s) == s.hole[p] = Seat \ {p}
Announced(p, s) == \E o \in Seat \ {p} : p \in s.hole[o]
Revealed(s, r) == s.community[r] = Seat
TokensOf(s, o) == s.hole[o] \union (s.shown \intersect {o})

InHand(s) == Seat \ s.folded
CanBet(s) == Seat \ (s.folded \union s.allIn)
FoldedOut(s) == Cardinality(InHand(s)) <= 1
ToAct(s) ==
  IF FoldedOut(s) \/ s.pending THEN NoSeat ELSE FirstOf(CanBet(s) \ s.acted, 0)

BettingOpen(p, s) ==
  /\ Playing(s)
  /\ Ready(s)
  /\ LocalHole(p, s)
  /\ s.street > 0 => Revealed(s, s.street)

-----------------------------------------------------------------------------
(* Taking in contributions, one's own or another's *)

TakeKey(s, a) == [s EXCEPT !.keys = @ \union {a}]
TakeShuffle(s, deck) == [s EXCEPT !.shuffles = @ + 1, !.deck = deck]
TakeHole(s, a) ==
  [s EXCEPT !.hole = [o \in Seat |-> IF o = a THEN @[o] ELSE @[o] \union {a}]]

\* A street opens with its last token and is appended to the board.
TakeCommunity(s, a, r) ==
  LET taken == [s EXCEPT !.community[r] = @ \union {a}]
  IN IF Revealed(taken, r) /\ ~Revealed(s, r)
       THEN [taken EXCEPT !.board = Append(@, r)]
       ELSE taken

\* A showdown token tries to open the hand of its owner; a second copy of it
\* is skipped before that.
TakeShowdown(s, a) ==
  IF a \in s.shown THEN s
  ELSE LET taken == [s EXCEPT !.shown = @ \union {a}]
       IN IF TokensOf(taken, a) = Seat
            THEN [taken EXCEPT !.opened = @ \union {a}] ELSE taken

TakeReveal(s, a, slot) ==
  CASE slot = Hole -> TakeHole(s, a)
    [] slot = Showdown -> TakeShowdown(s, a)
    [] OTHER -> TakeCommunity(s, a, CHOOSE r \in Round : Board[r] = slot)

-----------------------------------------------------------------------------
(* pump_mental: everything this peer owes now *)

Send(s, m) == [s EXCEPT !.out = @ \union {m}]

Give(p, s, slot) == Send(TakeReveal(s, p, slot), Reveal(p, slot))

\* emit_pending_deal_effect
OweDeal(p, s) ==
  CASE Phase(s) = "Keygen" /\ p \notin s.keys -> Send(TakeKey(s, p), Key(p))
    [] Phase(s) = "Shuffle" /\ s.shuffles = p ->
         LET deck == Append(s.deck, p) IN Send(TakeShuffle(s, deck), Shuffle(p, deck))
    [] Ready(s) /\ ~Announced(p, s) -> Give(p, s, Hole)
    [] OTHER -> s

\* drive_community_and_betting: the street being bet on.
OweStreet(p, s) ==
  IF ~s.pending /\ Ready(s) /\ s.street > 0 /\ p \notin s.community[s.street]
    THEN Give(p, s, Board[s.street])
    ELSE s

\* drive_showdown_and_settle, for a hand that ends contested: the rest of the
\* board, then one's own hand.
Contested(s) == s.pending /\ Ready(s) /\ ~FoldedOut(s)

\* Mutants of OweRunOut: it does not wait for the betting; it stops at one street.
OweRunOutEarly(p, s) ==
  IF ~Ready(s) THEN s
  ELSE FoldLeft(LAMBDA t, r : IF p \in t.community[r] \/ Revealed(t, r) THEN t
                              ELSE Give(p, t, Board[r]),
                s, [r \in Round |-> r])
OweRunOutOnce(p, s) ==
  IF ~Contested(s) \/ s.street = Streets \/ p \in s.community[s.street + 1] THEN s
  ELSE Give(p, s, Board[s.street + 1])

OweRunOut(p, s) ==
  IF ~Contested(s) THEN s
  ELSE FoldLeft(LAMBDA t, r : IF p \in t.community[r] \/ Revealed(t, r) THEN t
                              ELSE Give(p, t, Board[r]),
                s, [r \in Round |-> r])

\* Mutant of OweShowdown: a folded seat shows its hand too.
OweShowdownFolded(p, s) ==
  IF ~Contested(s) \/ p \in s.shown THEN s ELSE Give(p, s, Showdown)

OweShowdown(p, s) ==
  IF ~Contested(s) \/ p \in s.folded \/ p \in s.shown THEN s ELSE Give(p, s, Showdown)

\* settle: at once when all but one folded, else when all there is to show is open.
SettleWhenDone(p, s) ==
  IF /\ s.pending /\ Ready(s)
     /\ FoldedOut(s) \/ (Len(s.board) = Streets /\ InHand(s) \subseteq s.opened)
    THEN [s EXCEPT !.stage = "settled"]
    ELSE s

PumpOnce(p, s) ==
  IF ~Playing(s) THEN s
  ELSE LET deal == OweDeal(p, s)
           street == OweStreet(p, deal)
           board == OweRunOut(p, street)
           shown == OweShowdown(p, board)
       IN SettleWhenDone(p, shown)

\* The loop of pump_mental, until a pass finds nothing to do: a pass gives at most
\* a key, a shuffle or a batch of hole tokens, and a fourth never finds any.
Pump(p, s) ==
  LET once == PumpOnce(p, s)
  IN IF once = s THEN s ELSE PumpOnce(p, PumpOnce(p, PumpOnce(p, once)))

-----------------------------------------------------------------------------
(* Receiving *)

\* The errors apply_deal_payload defers on: DealOutOfTurn and NoMentalHand.
TooEarly(s, m) ==
  \/ ~Playing(s)
  \/ m.slot = "shuffle" /\ (Phase(s) # "Shuffle" \/ s.shuffles # m.author)
  \/ m.slot \notin {"key", "shuffle"} /\ ~Ready(s)

Ingest(s, m) ==
  CASE m.slot = "key" -> TakeKey(s, m.author)
    [] m.slot = "shuffle" -> TakeShuffle(s, m.deck)
    [] OTHER -> TakeReveal(s, m.author, m.slot)

\* Mutant of Relay: the host keeps the shuffles of the guests to itself.
RelayNoShuffle(p, s, m) ==
  IF p = Host /\ m.slot # "shuffle" THEN Send(s, m) ELSE s

Relay(p, s, m) == IF p = Host THEN Send(s, m) ELSE s

\* What need not be kept: a second copy of a deferred payload changes nothing,
\* and nothing of a settled hand is looked at again.
Defer(s, m) ==
  IF s.stage = "settled" \/ \E k \in DOMAIN s.deferred : s.deferred[k] = m THEN s
  ELSE [s EXCEPT !.deferred = Append(@, m)]

Receive(p, s, m) ==
  IF TooEarly(s, m) THEN Defer(s, m) ELSE Pump(p, Relay(p, Ingest(s, m), m))

\* One pass over what was deferred; what is still too early is deferred again.
ReplayPass(p, s) ==
  FoldLeft(LAMBDA u, m : Receive(p, u, m), [s EXCEPT !.deferred = <<>>], s.deferred)

\* Mutant of Replay: a single pass.
ReplayOnce(p, s) == ReplayPass(p, s)

\* replay_deferred: passes over the deferred payloads until one applies nothing.
Replay(p, s) ==
  FoldLeft(LAMBDA t, k : ReplayPass(p, t), s, [k \in 1 .. Len(s.deferred) |-> k])

\* The betting of a seat, and advance_streets_and_settle.
TakeAct(p, s, seat, move) ==
  LET t == [s EXCEPT !.applied = @ + 1,
                     !.acted = @ \union {seat},
                     !.folded = IF move = "fold" THEN @ \union {seat} ELSE @,
                     !.allIn = IF move = "allin" THEN @ \union {seat} ELSE @]
      closed == CanBet(t) \subseteq t.acted
  IN Pump(p, IF FoldedOut(t) \/ (closed /\ (Cardinality(CanBet(t)) <= 1
                                             \/ t.street = Streets))
               THEN [t EXCEPT !.pending = TRUE]
             ELSE IF closed THEN [t EXCEPT !.street = @ + 1, !.acted = {}]
             ELSE t)

-----------------------------------------------------------------------------
(* Steps.  A handler ends by handing what it sends to the reliable sender. *)

\* Guests send to the host, the host to every guest but the author; a payload
\* still queued for somebody is not queued again.
Targets(p, m) == IF p = Host THEN Seat \ {Host, m.author} ELSE {Host}
Queued(p, m) == {w \in wire : w.payload = m /\ (w.to = Host) = (p # Host)}
Post(p, out) ==
  {[payload |-> m, to |-> q] : m \in {m \in out : Queued(p, m) = {}}, q \in Seat}

Handle(p, s, delivered) ==
  LET t == Replay(p, s)
  IN /\ peer' = [peer EXCEPT ![p] = [t EXCEPT !.out = {}]]
     /\ wire' = (wire \ delivered)
                  \union {w \in Post(p, t.out) : w.to \in Targets(p, w.payload)}

Init ==
  /\ peer = [p \in Seat |-> Fresh]
  /\ wire = {}
  /\ acts = <<>>
  /\ resends = 0

CanStart(p) == peer[p].stage = "waiting" /\ (p = Host \/ peer[Host].stage # "waiting")
CanMove(p) ==
  BettingOpen(p, peer[p]) /\ peer[p].applied = Len(acts) /\ ToAct(peer[p]) = p
CanHear(p) == BettingOpen(p, peer[p]) /\ peer[p].applied < Len(acts)

\* The StartMentalHand reaches p (the host has its own first).
Start(p) ==
  /\ CanStart(p)
  /\ Handle(p, Pump(p, [peer[p] EXCEPT !.stage = "playing"]), {})
  /\ UNCHANGED <<acts, resends>>

\* A payload arrives; the sender may miss the acknowledgement and repeat it.
Deliver(p) ==
  \E w \in wire :
    /\ w.to = p
    /\ \/ Handle(p, Receive(p, peer[p], w.payload), {w}) /\ UNCHANGED resends
       \/ /\ resends < Resends
          /\ resends' = resends + 1
          /\ Handle(p, Receive(p, peer[p], w.payload), {})
    /\ UNCHANGED acts

\* p makes its move; it has applied every move before it.
Move(p) ==
  /\ CanMove(p)
  /\ \E move \in Moves :
       /\ acts' = Append(acts, [seat |-> p, move |-> move])
       /\ Handle(p, TakeAct(p, peer[p], p, move), {})
  /\ UNCHANGED resends

\* p applies the next move of another seat, once its own betting is open.
Hear(p) ==
  /\ CanHear(p)
  /\ LET act == acts[peer[p].applied + 1]
     IN Handle(p, TakeAct(p, peer[p], act.seat, act.move), {})
  /\ UNCHANGED <<acts, resends>>

Next == \E p \in Seat : Start(p) \/ Deliver(p) \/ Move(p) \/ Hear(p)

Spec == Init /\ [][Next]_vars

-----------------------------------------------------------------------------
(* Properties *)

IsPayload(m) ==
  /\ m.author \in Seat
  /\ m.slot \in {"key", "shuffle", Hole, Showdown} \union ToSet(Board)
  /\ m.deck \in Seq(Seat) /\ Len(m.deck) <= N
  /\ m.deck # <<>> <=> m.slot = "shuffle"

\* Every peer's view of the hand is well formed, and only payloads travel.
DealTypeOK ==
  /\ \A p \in Seat :
       /\ peer[p].stage \in {"waiting", "playing", "settled"}
       /\ peer[p].street \in 0 .. Streets
       /\ peer[p].applied \in 0 .. Len(acts)
       /\ Len(peer[p].board) <= Streets
       /\ peer[p].opened \subseteq peer[p].shown
       /\ peer[p].out = {}
  /\ \A w \in wire : IsPayload(w.payload) /\ w.to \in Seat \ {w.payload.author}
  /\ resends \in 0 .. Resends

\* Peers that hold a shuffled deck hold the same one, shuffled by every seat,
\* whatever order the shuffles arrived in (the promise of ingest_shuffle that
\* all replicas stay in sync on the same verified deck).
OneDeck ==
  \A p, q \in Seat : Ready(peer[p]) /\ Ready(peer[q]) =>
    peer[p].deck = peer[q].deck /\ ToSet(peer[p].deck) = Seat

\* Nobody can open another seat's hole cards before that seat itself saw the
\* betting end with its hand still in: the owner withholds its token until then.
HoleCardsStayPrivate ==
  \A p, o \in Seat :
    p # o /\ TokensOf(peer[p], o) = Seat => peer[o].pending /\ o \notin peer[o].folded

\* No street is open at any peer while another is still betting the one before.
BoardWaitsForBetting ==
  \A p, q \in Seat, r \in Round :
    Revealed(peer[p], r) => peer[q].street >= r \/ peer[q].pending

\* What a peer has set aside is still too early for it: a payload is replayed as
\* soon as the deal reaches the point where it applies.
NothingAppliableWaits ==
  \A p \in Seat : \A k \in DOMAIN peer[p].deferred :
    peer[p].stage # "settled" => TooEarly(peer[p], peer[p].deferred[k])

\* The hand never gets stuck, however payloads overtake each other: when nothing
\* travels and nobody can move, every peer has settled.
NobodyStuck ==
  wire = {} /\ (\A p \in Seat : ~CanStart(p) /\ ~CanMove(p) /\ ~CanHear(p))
    => \A p \in Seat : peer[p].stage = "settled"

\* The remark on try_decrypt_showdown: a hand is opened once its cards have all
\* N distinct tokens.
TokensOpenHands ==
  \A p, o \in Seat : o \in peer[p].shown /\ TokensOf(peer[p], o) = Seat => o \in peer[p].opened

\* The field comment of MentalDeal::community: decrypted cards in board order.
BoardInOrder == \A p \in Seat : \A k \in DOMAIN peer[p].board : peer[p].board[k] = k
-----------------------------------------------------------------------------
(* The inductive invariant: nobody's tokens get ahead of its own betting,   *)
(* and decks grow in seat order                                             *)

\* What the hand of p, as p itself has it, licenses p to speak about: the streets
\* it has got to, and its own cards once the betting is over and it has not folded.
Licence(p, s) ==
  {"key", "shuffle", Hole}
    \union {Board[r] : r \in {r \in Round : s.pending \/ r <= s.street}}
    \union {Showdown : x \in {x \in {p} : s.pending /\ p \notin s.folded}}

Licences == [p \in Seat |-> Licence(p, peer[p])]

\* The deck after n shuffles, and the hands and payloads that have such a deck.
Order(n) == [k \in 1 .. n |-> k - 1]
Shuffled(s) == s.deck = Order(s.shuffles)
ShuffledInTurn(m) == m.slot = "shuffle" => m.deck = Order(m.author + 1)

Slots == {"key", "shuffle", Hole, Showdown} \union {Board[r] : r \in Round}
Payload == [author : Seat, slot : Slots, deck : Seq(Seat)]
Played == [seat : Seat, move : Moves]

\* The payloads their authors were licensed to send.
Sent(licence) == {m \in Payload : m.slot \in licence[m.author] /\ ShuffledInTurn(m)}

\* The tokens a peer may hold for hole cards (nobody gives one for its own), for
\* the streets, and for the showdown.
HoleTokens == {h \in [Seat -> SUBSET Seat] : \A o \in Seat : o \notin h[o]}
StreetTokens(licence) ==
  {c \in [Round -> SUBSET Seat] : \A r \in Round : \A a \in c[r] : Board[r] \in licence[a]}
ShowdownTokens(licence) == SUBSET {a \in Seat : Showdown \in licence[a]}

\* The hands of a peer that hold no token its giver was not licensed to give.
HandsUnder(licence) ==
  [stage : {"waiting", "playing", "settled"},
   keys : SUBSET Seat, shuffles : 0 .. N, deck : Seq(Seat),
   hole : HoleTokens, community : StreetTokens(licence), board : Seq(Round),
   shown : ShowdownTokens(licence), opened : SUBSET Seat,
   street : 0 .. Streets, applied : Nat,
   acted : SUBSET Seat, folded : SUBSET Seat, allIn : SUBSET Seat,
   pending : BOOLEAN,
   deferred : Seq(Sent(licence)), out : SUBSET Sent(licence)]

\* What the peers hold and what travels was given under licence; a peer never
\* has an act of its own left to apply.
TokensLicensed == peer \in [Seat -> HandsUnder(Licences)]
WireLicensed == \A w \in wire : w.payload \in Sent(Licences)
DecksInOrder == \A p \in Seat : Shuffled(peer[p])
ActsAreMoves == acts \in Seq(Played)
OwnActsApplied == \A k \in DOMAIN acts : k <= peer[acts[k].seat].applied

DealIInv ==
  /\ TokensLicensed /\ WireLicensed /\ DecksInOrder
  /\ ActsAreMoves /\ OwnActsApplied
  /\ NothingAppliableWaits
=============================================================================
