# Verification of ten-cent-poker-client

TLA+ models of the Texas Hold'em client in this repository, checked with TLC,
and theorems about them proved with TLAPS.  Source paths below are relative to
the repository root.

## The system

Peers play No-Limit Hold'em without a server.  One peer hosts: it opens a
table, seats whoever joins and starts a number of hands.  Every peer runs the
same state machine on the same messages, so all of them are meant to hold the
same table.  Cards come from a Barnett-Smart mental-poker deal run by the
players themselves, or, in demos and tests, from a public seed (the
"placeholder" deal).

| Part | State it keeps | Operations | Talks to |
|---|---|---|---|
| `game/src/betting.rs` `BettingState` | seats (stack, committed, total, folded, all in), current bet, raise line, who acted, who is to act | `new` (blinds), `apply` (fold, check, call, bet, raise, all in), `next_street` | `core` for the amount to call |
| `game/src/pot.rs`, `showdown.rs` | none (pure) | `compute_pots`, `distribute` | `hand_eval` |
| `game/src/hand.rs` | a whole local hand | `play_hand`, dealing helpers | betting, pots |
| `game/src/hand_eval.rs` | none | `evaluate_best` | |
| `deal/src/mental.rs` `MentalDeal` (one process) | the keys of all, one deck | `setup`, `aggregate_keys`, `mask_initial_deck`, `shuffle`, `unmask_position` | vendored proofs |
| `deal/src/distributed.rs` `PeerDeal` | key announcements, aggregate key, deck, shuffles, own secret | `ingest_key`, `finalize`, `shuffle`, `ingest_shuffle`, `own_reveal`, `unmask_with` | vendored proofs |
| `protocol/src/mental.rs` `MentalDeal` | a `PeerDeal`, its phase, reveal tokens per round and card, decrypted cards | `make_*`, `ingest_*`, `try_decrypt_*`, `pending_effect` | `PeerDeal` |
| `protocol/src/table.rs` `Table` | roster, the live hand (deal, betting, board), last hand completed | `handle`, `local_turn`, `local_deal_step`, `settle` | betting, pots, `MentalDeal` |
| `protocol/src/driver.rs` | host: lobby, stacks, button, barrier; guest: the current Start, deferred payloads; both: `DealSender` | event loops, ticks, retries | `Table`, `net` |
| `net/src` | swarm, address book, last URI, pending acks, bounded event queue | publish, deal request and ack, URI, reachability warning | libp2p |
| `app/src` | a snapshot of the table, the window (screen, tile, leave dialogue), the turn clock, a channel of one action | drawing, legal-action bar, host, join, leave | driver |
| `wallet`, `crypto` | none | shims | |

Two channels join the peers.  Gossip carries the start of a hand, acts and
completions: it may lose, repeat and reorder, and the drivers publish again on
a timer.  A request/response channel carries the payloads of the deal (keys,
shuffles, reveal tokens): each is retried until acknowledged, so it arrives at
least once, in no particular order.

### What is hard

- *Betting* is sequential but its state is subtle: short all-ins move the bet
  and not the right to raise, seats leave the turn order in three ways, and
  stacks of nothing are dealt in.
- *Pots* must account for every chip of unequal all-ins and folded money.
- *The deal* is a distributed protocol with a chain of shuffles and threshold
  reveals over an unordered channel; reveals must not stall and must not show
  a card early.
- *Replication* depends on every peer applying the same acts in the same order
  over a channel that guarantees neither.
- *The drivers* retransmit, acknowledge, defer and clear across hands.
- *Between hands* the host waits for every guest; a guest may have gone, and
  what it still owes or is owed belongs to a hand that is over.
- *Addresses* become known and expire in any order, and the URI must follow.
- *The window* sees its table once a frame and acts through a queue of one: what
  it knows may be old by the time the driver applies it.

`PROJECT.json` lists these hazards one by one with the line where each bites.

### What makes each part correct

- betting: chips are conserved per seat, only a seat that owes a decision is
  asked, a round closes exactly when it is settled, only a full raise renews
  the right to raise, every hand ends;
- pots and showdown: every chip is paid, to the best hand that covered it;
- hands: each continues from the last; money is only redistributed; the board
  fits the way the hand ended; every hand is settled;
- deal: all peers see the same board and every owner its cards; nobody's hole
  cards are open before the showdown; the deal completes;
- replication: two tables that applied a message agree; no act is applied
  twice; a hand that can go on does go on;
- drivers: what was acknowledged in this hand is there in this hand; the next hand
  starts only when all have finished, and does start;
- node: the URI names this host by addresses a guest can dial, a public one where
  one is known, and the lobby gets to know it;
- hand evaluation: what the rules of poker say of all seven cards;
- window: it offers what the engine takes and reaches, in the steps of its stepper,
  what the engine would take; its clock never pays and always answers; nothing of
  one game reaches the next.

## Modules

| Module | Models | State | Actions |
|---|---|---|---|
| `Seats` | seat order: `next_seat`, `next_active` (betting.rs) | | |
| `Betting` | `BettingState` | one variable per field, and `spoke`, a history of who acted on this street | `Fold`, `Check`, `Call`, `Bet`, `Raise`, `AllIn`, `NextStreet` |
| `Pots` | `compute_pots`, `absorb_dead_layers`, `merge_equal_eligible`, `distribute` as operators | | |
| `Settlement` | the end of `Table::settle` on every input of a small table | contributions, folds, hand strengths, pots, winnings | `SplitPots`, `AwardPots` |
| `Hands` | the placeholder hand of a `Table` and the host's loop over hands; extends `Betting` and `Pots` | stacks and button of the loop, hand number, live flag, board size | `Act`, `DealStreet`, `Settle`, `StartHand` |
| `Ledger` | the abstract specification of a game: chips are redistributed | stacks, hands played | `PlayHand` |
| `MentalDeal` | `MentalDeal` in the `Table` of every peer, the reliable deal channel, deferral, replay and relay | one record per peer, the payloads not yet acknowledged, the moves made | `Start`, `Deliver`, `Move`, `Hear` |
| `Replication` | acts between peers: `apply_act`, `local_turn`, retransmission, host as hub | one copy of the hand per peer, links, the act each peer would repeat | `Act`, `HostReceives`, `GuestReceives`, `Tick`, `Lose` |
| `PeerDeal` | the cards of the same deal: `PeerDeal` inside `MentalDeal` at every peer | one record per peer (keys, aggregate, deck, tokens, cards), payloads broadcast | `AnnounceKey`, `MakeShuffle`, `RevealHole`, `RevealStreet`, `RevealShowdown`, `Ingest` |
| `MaskedDeck`, `DealWire` | masked cards and shuffles; the framing of payloads | | |
| `SingleDeal` | `deal/src/mental.rs`, the deal by one process | keys there, deck, cards opened | `FaceDown`, `Shuffle`, `Unmask` |
| `Session` | the lobby, the loop over hands, the completion barrier, `DealSender`, departures | the host's and each guest's loop and sender, what travels | `Join`, `FirstHand`, `NextHand`, `StartHand`, `Answered`, `Ack`, `Leave`, ... |
| `Node` | `AddrBook`, reachability, URI, warning, event queue of a host | address lists, last URI, queue, the lobby and the URI it heard last | `NewListenAddr`, `ExternalAddrConfirmed`, `UpnpMaps`, `UpnpExpires`, `GraceElapses`, `LobbyHears`, `LobbyFills`, `HandIgnores`, ... |
| `HandEval` | `evaluate_best` against the rules of poker | the cards held and their value | `Draw` |
| `FreePlay` | the free-play window and its driver, over `Hands` | driver task, channel, screen, banner, dialogue, clock, painted bar and its stepper | `Frame`, `Submit`, `Expire`, `StartAs`, `FinishLeave`, `Take`, `Apply`, ... |
| `MCBetting`, `MCHands`, `MCPeerDeal`, `MCNode`, `MCHandEval`, `MCFreePlay` | the small instances TLC uses | | |
| `Lemmas` | seat order; counting up, induction on finite sets, folds as runs, for the proofs below | | |
| `PotsProofs`, `SettlementProofs`, `GameProofs` (`Betting`, `Hands`, `FreePlay`), `SessionProofs`, `ReplicationProofs`, `MentalDealProofs`, `PeerDealProofs` | theorems about the module of that name, or those in brackets | | |

`Hands` refines `Ledger`: `bankroll` maps to itself and the hands played are
`handNo`, less one while a hand is live; the steps of a hand are stutters and
`Settle` is `PlayHand`.  `PeerDeal` refines `SingleDeal`: the deck of a peer that
no other is ahead of is the deck of the single process, and what any peer has
opened is what that process has opened.  `FreePlay` runs on `Hands`, `Hands` on
`Betting` and `Pots`; `Session` abstracts what `MentalDeal` and `Replication`
show inside one hand to a payload each way.

### How each corresponds to the code

*Betting.*  A handler is an action: its error returns are its guards, `apply`'s
turn check is `Turn`, and the `advance` that ends every handler is `Advance`.
Chips are natural numbers; `u64` overflow needs stacks the program never deals
(the host gives every seat the same configured stack) and is left out.  The
underflows that could happen at small values are what `NobodyAboveCurrentBet`
and `ContributionsExact` exclude.

*Pots and Settlement.*  Hand values are numbers, since `evaluate_best` orders
hands totally.  Layers, dead money, merging and odd chips are as in the code,
one operator each.  The properties do not repeat that algorithm: they follow
single chips (who contests the h-th chip of a seat) and compare.

*Hands.*  `advance_streets_and_settle` loops over streets in one call; here each
turn of the loop is a step.  No other handler can run between two of them, and
the properties hold between them as well.  The outcome of a contested hand is
any ranking of the hands.

*MentalDeal.*  A peer's record is its `Table` reduced to who contributed what.
A handler is one step: it takes a message in, pumps (`pump_mental`, until a
pass adds nothing), replays what was deferred and hands what it owes to the
sender.  The sender is the set `wire` of payloads with their targets: any of
them may arrive next, and one may be delivered again when its acknowledgement
is lost.  The fields `announced_*` are recovered from the peer's own
contributions, as a peer collects its own tokens when it sends them.  Tokens
travel in the batches the code sends.  Betting is reduced to turns (stay, fold,
stay with the last chip) that reach every peer in order; what happens when they
do not is the subject of `Replication`.  An act that arrives before the betting
of a peer is open is refused there and repeated later; here it waits.

*Replication.*  The host is seat 0 and the button.  A message carries its author
and its move; the hand number is the same for all.  Links are queues, a message
may be lost from the front of one, and `Tick` publishes what a peer remembers
under that peer's own name, which is what `broadcast_retry` does with
`last_act` and `last_applied_act`.  Raises and all-ins are left to `Betting`.

*PeerDeal, MaskedDeck, DealWire, SingleDeal.*  A masked card is its card and the
list of shuffles that masked it again: two ciphertexts are equal when both are,
and what an honest proof convinces its verifier of is `IsShuffle`.  A token is a
peer's share for a ciphertext; a card opens when the shares of all are there for
the very ciphertext in one's own deck.  A payload is bytes (`DealWire`: words
behind lengths); every handler reads them back.  A seat shuffles when as many
shuffles are applied as its number (`MyTurn`), and takes over only the shuffle of
the seat whose turn it is.  Reveals follow the street order
here, under betting that never cuts a hand short: what betting does to the deal
is in `MentalDeal`.

*Session.*  A hand is reduced to one payload from every guest and one from the
host to every guest, since what `DealSender` does to one it does to all.  The
sender's `pending` and `in_flight` are kept per target, requests and responses
are messages that stay until answered, and `Start` and `HandComplete` are
broadcasts that may be heard at any time while they are repeated.  Three faults
happen at most once each: a Start that arrives a hand late, a request that
fails between two live peers, a guest that goes.

*Node.*  A multiaddr is its sequence of components, an IPv4 address four bytes of
the base `Radix`, where the ranges of the classifier lie; a URI is the list of
framed addresses that `encode_table_uri` writes and `decode_table_uri` reads.
Each arm of the swarm's event loop that touches the book is an action.  The driver
takes the events one by one, and heeds those about addresses in its lobby only
(`LobbyHears`): the loop of a hand takes them and does nothing (`HandIgnores`).

*HandEval.*  `EvaluateFive` follows the code (groups of ranks, straight, flush);
`EvaluateBest` takes the best of all fives.  `Rules` never looks at five cards:
it reads the category and its ranks off all the cards held.

*FreePlay.*  A frame is `Frame` followed by what the person does.  A bet or a raise
has the size the stepper shows: `Paint` sets it to the least one when a turn starts,
and a click on an arrow adds or takes off one `SizingStep` (`Clicks`), clamped when
the next frame is painted.  The buttons are those of the painted bar (`Buttons`), the keys work
in the player's turn (`Keys`), and either goes through `map_action` against the newest
snapshot.  The driver takes
an action out of the channel (`Take`) and applies it later (`Apply`), as the
tasks run in parallel.  `timed` marks an action of the clock, `stale` one that was
chosen for an earlier decision; both are history.  The opponent's moves and the
table's streets come from `Hands`, at any time.

## Runs

| Run | Instance | Shows |
|---|---|---|
| `betting_three` | 3 seats, stacks of 0, 1, 3, 5 or 7 chips in every combination, blinds 1 and 2 | the rules of a hand of betting, the inductive invariant, and that a hand ends |
| `settlement` | 4 seats, 0 to 3 chips each in the hand, every fold pattern, two hand values | pots are the chips grouped by who contests them; payouts are exact, cover-limited and fair on odd chips |
| `hands_three` | 3 seats with 6 chips, 2 hands, two hand values | the board of a hand cut short on any street, refinement of `Ledger` |
| `deal_headsup` | 2 seats, 3 community rounds, one repeated delivery | no stuck deal, no early street |
| `deal_three` | 3 seats, 1 community round, one repeated delivery | hole cards private, deferral, no stuck deal, with relayed payloads that overtake each other |
| `acts_three` | 3 seats, 3 streets, one repetition, one loss | agreement when nothing is lost or repeated; seats of guests only ever get their own moves |
| `session` | a host and 2 guests, 2 hands, two of three faults | hands in step; what a guest acknowledged is kept, and what the host did in the first hand or before a request failed; the game ends but for two named exceptions |
| `node` | an address of every class over two transports, a queue of 2 | the URI is dialable, and public over each transport a public address is known for, but behind a LAN address learnt first; the lobby hears of it |
| `peerdeal` | 3 seats, 14 cards, 3 streets | the cards dealt are those of the local dealer; cut payloads are refused; the replicas implement the deal of one process; every deal ends |
| `handeval` | 14 cards: ace to six, up to four of a rank; every hand of 5, 6 and 7 | `evaluate_best` is the rules of poker |
| `gui` | heads-up, 4 chips each, 2 hands, either side of the window | what is offered is taken, what is taken is offered or within a click of it; timeouts are free; hands go on |
| `gui_offer` | the same | a raise that is offered and refused ends the game (a finding) |

The runs check the properties a test would hardly reach.  The modules state some
more, with which each run was also checked by adding their names to its `.cfg`:
the type invariants (`TypeOK`, `SessionTypeOK`, `DealTypeOK`, `AppTypeOK`),
`ContributionsExact`, `MinRaiseNeverShrinks` and `FoldedSeatsLose` (proved, see
below), `HandContinuesSession`, `OneDeck`, `TokensOpenHands` with two
seats, `OwnMovesTrue`, `CardsNeverHurt`, `EndIsReported`.

Further configurations show single facts and are run by hand
(`tlc -config <cfg> <module>`):

| Configuration | Module | Shows |
|---|---|---|
| `MCHands_headsup.cfg` | `MCHands` | three heads-up hands from playable stacks are settled (`HandsSettle` holds) |
| `MCHands_blinds_all_in.cfg` | `MCHands` | `HandsSettle` fails: remark 2 |
| `MentalDeal_blind_all_in.cfg` | `MentalDeal` | `NobodyStuck` fails: remark 3 |
| `Replication_replay.cfg`, `Replication_relay.cfg` | `Replication` | `RepeatsAreHarmless` and `MovesAreAuthentic` fail: remarks 4 and 5 |
| `MentalDeal_run_out.cfg` | `MentalDeal` | `BoardInOrder` fails: remark 6 |
| `Session_late.cfg` | `Session` | `NothingLost` fails: remark 7 |
| `Node_multihomed.cfg` | `MCNode` | `PublicListenIsShared` fails: remark 9 |

### Bounds

- Stacks: the rules compare a stack with the big blind, the call, a minimum
  raise and a re-raise; the values of `MCBetting` lie on each side of each
  comparison.  The theorems (see Proofs) need no bound: they hold for all seats,
  stacks, blinds and hands.
- Three seats are the least with a seat between the button and the blinds, with
  side pots, odd chips and a relayed message; two have rules of their own.  Four
  seats are used for pots, so that dead money can lie under, between and over
  two contested layers.
- Streets: one community round is enough for a street to open after another
  closed; three are used where rounds can overtake each other.  Three betting
  streets give a seat that closes one and opens the next.
- One repeated delivery, one repetition and one loss are enough for every
  finding here; more would repeat the same step.
- `session`: two hands give a payload, an acknowledgement and a Start of the last
  hand something to be late for; two faults can combine; two guests can differ.
- `node`: addresses at both ends of the private, shared and link-local ranges, a
  public and a LAN one to listen on over the same transport; a queue of two fills
  and empties.  `Radix` 4 keeps a base-256 byte's carry.
- `peerdeal`: 14 cards are the six hole cards, three burns and five of the board.
  One shuffle, drawn three times, leaves every prefix of shuffles different; which
  permutation is drawn cannot matter to code that never looks at it.
- `handeval`: 14 cards hold the wheel, two straights at once, straight flushes,
  flushes of six, two trips, four of a kind, three pairs; other ranks repeat them.
- `gui`: 4 chips at a blind of 2 let every action be all in or not, a raise be too
  short to reopen, and sizes lie between two positions of the stepper.  Showdowns
  are ties (`MaxStrength` 0): stacks become unequal by folds.

### Fairness

`Betting` assumes that some seat or the next street moves while one can: the
driver of a hand asks the seat to act and waits for nothing else (bots answer at
once; that a human answers is an assumption).  `Hands` assumes it of each action:
the table runs its loop to the end and the host loop goes on.  `MentalDeal` and
`Replication` state no fairness.  In the first every step uses something up (a
payload to a target, a start, a move of a hand with finitely many turns), so
every behaviour is finite, and `NobodyStuck` says where it can end: this is
liveness as an invariant, under the assumption that what can be delivered is.

`Session` assumes that the host's and a running guest's loops go on, that what is
repeated on a tick is heard in the end and that a request between two live peers
is answered (when it fails, a bounded fault, the next tick sends it again); none
of a guest's leaving.  `Node` assumes only that an open lobby takes the next event,
which is all its loop waits for,
`PeerDeal` that some step is taken while one changes anything (the channel retries
until acknowledged).  `FreePlay` assumes frames, the driver, the table and the
opponent to go on and the clock to expire; it assumes nothing of the player.

Deadlock is not reported where a hand or a bounded run really ends.

## Proofs

Every theorem holds for all values of the constants under the named assumptions
of its module.  They are as weak as the code: 2 to 9 seats (`SeatCount`), blinds
with `0 <= SmallBlind <= BigBlind` and `BigBlind > 0` (`Blinds`), any stacks
(`Stacks`), any stakes of a settlement (`Bounds`), at least one guest and one
hand (`SessionConstants`), one to four streets (`ReplicationConstants`), one to
three community rounds, any blinds all in but not everybody's and any number of
repeated deliveries (`DealConstants`).

**Betting** (`GameProofs`): `Invariant`, `CallAmountDefined`, `TurnIsOwed`,
`ClosedRoundsSettled`, `RaiseRightsKept`, `ClosedActionStaysClosed`, and
`TypeCorrect`, `ChipsAccounted`, `MinRaiseMonotone`.  None is inductive alone.
That a closed round is settled over the *whole hand* needs that earlier streets
left everybody who can still bet level (`EarlierStreetsLevel`) and that a round
only closes on nobody owing (`ClosedMeansNobodyOwes`).  That marked seats faced
the full bet needs the raise line to stay under the bet (`RaiseLine`), and that a
closed seat never meets an unopened street needs `ActorOwesDecision`.  `IInv` is
their conjunction; TLC checks it in `betting_three`, and the proof has one lemma
per action, on top of lemmas about the turn search (`FirstOf`, `NextToAct`).

**Pots** (`PotsProofs`, used by `SettlementProofs`): `ChipsConserved` says that
`distribute(compute_pots(...))` pays exactly what was put in; `ChipsPaid`,
`BestHandPaid`, `UncoveredLost`, `EqualHandsPaid` and `ChipsGrouped` are the
invariants of `settlement` for any number of seats, any stakes and any strengths.  The
operators are sums and folds over seats, layers and pots, and the library's
induction theorems cannot be used (they take an operator).  The proofs do
without: a set of numbers that holds 0 and successors holds all
(`LeastNumber`, `CountingUp`), a sum is taken apart one element at a time
(`TakingApart`), and a fold is the last state of a *run*, a function from 0..n
to states each of which follows from the one before (`Run`, `FoldRuns`); these
are in `Lemmas`, as the deal's replay is a fold too.  Two
measures are carried along such runs: `Worth`, the chips of all pots so far and of
the dead money still to be rolled, and `Held`, the chips in pots whose contestants
are one of a given family of sets.  That family is what `ContestedFamily` is about: the
best hand's claim, the cover limit and the fairness of equal hands are each the
statement that a pot's contestants stay in a family through absorbing and
merging.

`ChipsGrouped` compares the pots with the rules of table stakes chip by chip: the
h-th chip of a seat is contested by those still in at the highest level up to h
anyone still in has paid, and is its own if there is none (`Claimants`).  The chips
of the top layer have the contestants of that layer (`TopClaimants`), the chips
above it those they have once it is peeled off, where whoever the layer fell to
stands in for "its own" (`RestClaimants`, `Below`); so the chips a family of sets
contests are a slab, as high as the layer, and the rest lifted by its level
(`GroupSplits`, `GroupCount`).  Absorbing the layer adds that slab and leaves the
same stand-ins (`AbsorbTop`), down to the odd chips of a refund (`RefundsHeld`);
peeling by peeling, the pots hold what the rules say (`PotsHoldTheirChips`).  As a
seat is paid at most what the pots it contests hold (`DistributePays`), it follows
that a folded seat gets nothing once a live seat has paid (`FoldedLose`).

**Hands** (`GameProofs`): `SessionIInv` is the invariant of `Betting` for the hand
being played, with the blinds and stacks of that hand instead of the initial
ones, the fit of the board, and what the loop over hands keeps (`InitHand` again
reaches a state of `IInv`: `NewHandFits`).  From it follow `BoardFits`,
`RoundsSettledAllGame` (betting's safety through any number of hands) and
`GameIsLedger`, the refinement of `Ledger`: a step of a hand is a stutter, and
`Settle` redistributes because `ChipsConserved` holds of what was committed.

**FreePlay** (`GameProofs`): `ConnectionsStartFresh`, `OffersTaken`, `MovesOffered`,
`TimeoutsFree` and `EndsAreReported`, for a table of any size and the player in any seat.
`Refused` is the negation of `Accepts`, the guards of the engine under their names
(`MayCheck`, ..., `MayRaise`), and not of ENABLED, which cannot be reasoned about here; on the
instance of `gui` TLC finds the two equal.  `AppIInv` says that the hand under the window is
one that `Betting` reaches (`SessionIInv`), also after the table was cleared for another
connection, and that the channel is clean: the driver holds an action only in the player's
turn (`TakenInTurn`), a driver that is gone and a game that has not begun leave nothing
in it (`GoneIsEmpty`, `LobbyIsQuiet`), and what the clock chose is free, and legal until the
decision it was for is made (`ClockFits`).  `OffersTaken` then is arithmetic: between the clamp
bounds lies only what `MayBet` and `MayRaise` take, because nobody has committed more than
the bet and the least raise is at least the big blind.  `MovesOffered` needs besides that the
round's commitment is part of the hand's (`RoundWithinHand`), so that every legal size is one
of the bounds or between them, and that steps from the lower one come to within one step of
any size in between and are not clamped there (`StepsReach`): the sizes between two steps
cannot be chosen.  Its exception, a call or bet of nothing, does not exist at a table of two: with
three, a seat without chips that posts no blind is asked, and the window lets it check or
fold.

**MentalDeal** (`MentalDealProofs`): `HoleCardsPrivate`, `BoardWaits`, `NothingWaits`
and `DecksAgree` (`OneDeck`), also where blinds put seats all in (remarks 3 and 6
concern liveness and order, not secrecy).  A token says nothing of the betting
its receiver has seen, so the privacy of cards cannot be read off the receiver.
The invariant reads it off the giver: `Licence(p, s)` is what p's *own* hand
allows p to open, every street it has got to, and its hole cards once the
betting is over and p is still in.  `TokensLicensed` and `WireLicensed` say that
whatever any peer holds, has set aside or is sent was given under its author's
licence.  It is kept because a licence never shrinks when an act is applied
(`TakeActKeeps`); the one act that could shrink it, p's own fold after the
betting is over, needs `OwnActsApplied`: no peer is ever told of its own act.
`DecksInOrder` (a deck of n shuffles is that of the first n seats) carries
`DecksAgree`.  `NothingAppliableWaits` is part of the invariant: a pass over what
is set aside either shortens it or finds nothing (`ReplayPassKeeps`), so as many
passes as there are payloads reach the end (`ReplayKeeps`).

**Session** (`SessionProofs`): `HandsInStep`, `PayloadsKept`,
`AllPlayToTheEnd`, for any set of guests and number of hands and with every fault.
The invariant adds to the types what each message in flight vouches for
(`SendsVouched`: a completion that travels is of a hand its sender finished),
what the barrier has counted (`AckedFinished`), where a guest may be
(`GuestsNotAhead`, `LobbyIsFresh`, `StrangersIdle`) and that the end follows the
last hand (`EndsAfterLast`).  `PayloadsKept` speaks of both directions.  What the host
strikes off is at the guest, in every hand (`HostsPayloadsKept`).  What a guest strikes
off may be the payload of another hand, so more is needed and less holds: in the
first hand there is no other, and until some request has failed a payload that was
struck off too early is still on its way (`GuestsSend`).  After that it can be lost
(remark 7), and the theorem does not say otherwise.

**Replication** (`ReplicationProofs`): `GuestsAuthentic` holds with losses and
repetitions; its invariant says that whatever a link carries under a guest's name
was decided by that guest (`LinksAuthentic`).  `TablesAgree` and `NobodyWaits`
hold when nothing is lost or repeated.  For these the invariant claims *one*
history of hands h[0], ..., h[n] of which every table holds a member, such that the
links to a peer carry exactly the acts between its member and the host's
(`Shared`, `QuietInv`): agreement and progress are then facts about one hand.

**PeerDeal** (`PeerDealProofs`): `ReplicasInStep`, `CutPayloadsAreRefused`,
`CardsAsDealt` and the refinement `ImplementsSingleDeal`, for any table size, deck,
shuffles drawn and order of delivery.  `DealInv` has four parts.  What is on the wire is
what an encoder wrote (`Sent`): so the framing lemmas apply, which say that fields
read back as they were written, and that what an encoder wrote, cut anywhere, is
refused.  Each seat has shuffled once (`OneShuffleEach`): were there two, replicas
could take over different ones.  Every shuffle a replica applied is on the wire, the
last one with the very deck it holds (`ShufflesSent`): two replicas that applied as
many are thus compared through the wire.  And each replica alone is `Sound`: its
deck carries the masks of the seats that shuffled, in seat order; whatever it has
opened is what that deck has there, the streets in their order, which holds
because one's own token is needed and given only after the street before is open
(`GivesInOrder`).  `DealHole` and `DealBoard` are folds, taken apart as runs.  For
the refinement, the deck of the single process is that of whoever has applied the
most shuffles (`AheadDeck`): its own shuffle is `Shuffle`, taking over another's is
a stutter, and each card that a peer opens is open in that process before or is
its next `Unmask`.

Model-checked only, and why:

- liveness (`HandEnds`, `GameEnds`, `EveryDealEnds`, `DriverHearsUri`, `HandGoesOn`,
  `HandsSettle`): fairness and ENABLED are out of this prover's reach;
- `NobodyStuck` of `MentalDeal`: it needs that no payload is lost on any way (queued,
  relayed, set aside or applied) and that a pump leaves nothing owed, and it is
  false where blinds put seats all in;
- `Node` and `HandEval`: sequences of addresses and sets of five cards, searched by
  recursion.

## What was found

1. **A raise that is offered ends the game** (run `gui_offer`).  `compute_legal`
   does not ask whether the action was reopened; the engine refuses the raise, and
   the driver returns its error (`protocol/src/driver.rs:1062`), though
   `app/src/gui_state.rs:60-61` says an illegal submission is ignored.

Remarks, each with the configuration above that reproduces it:

2. **A hand whose blinds put everybody all in never ends** (`protocol/src/table.rs:941`;
   `game/src/betting.rs:525-527`).  The street loop runs only after an act, and
   there is nobody to act.
3. **A showdown token may come too early** (`protocol/src/mental.rs:576`;
   `protocol/src/table.rs:857-858`).  It is stored, never looked at again, and its
   repetition is skipped as a duplicate: that peer never settles.  This needs a
   seat that is all in from its blind; `deal_three` and `deal_headsup` show that
   without one it does not happen, because every seat must have seen its own
   cards before it moves.
4. **A repeated act can be taken for a new one** (`protocol/src/driver.rs:752`, against
   `:1010-1011`).  The seat that closes a street and opens the next one is to act
   twice in a row.
5. **An act repeated by the host is taken for the host's** (`protocol/src/driver.rs:1043`,
   against `protocol/src/table.rs:566`).  The host publishes it under its own name.
   For the same reason it cannot help the peer that missed it, contrary to the
   remark at `protocol/src/driver.rs:985`.
6. **The board of a run-out is in the order of arrival** (`protocol/src/mental.rs:568`,
   against `:140`): peers may show the same five cards in different orders.
7. **A guest's payload can be lost** (`protocol/src/driver.rs:305`, against the remark
   at `:317-318`).  Keys of payloads carry no hand number: an acknowledgement of the
   last hand that comes after `clear` settles this hand's payload; and a delayed
   Start of the last hand clears this hand's.  If the request under way then fails,
   nothing sends it again and the host waits for ever.  `GameEnds` names this
   exception (`NothingLost`); without a failed request it does not happen
   (`AckedIsKept`).
8. **A deserted seat stops the game** (`protocol/src/driver.rs:537`).  A guest whose
   departure is noticed between its HandComplete and the next hand, or before its
   JoinTable arrives, stays in the roster.  `GameEnds` names it (`Deserted`).
   A guest that was never seated never stops either, nor one whom no Start had
   reached when the game ended.
9. **A host on a public address may share its LAN address**
   (`net/src/node.rs:558-584`).  Its own addresses are taken in the order they were
   learnt, and one is shared for each transport: a LAN address that came first
   hides the public one.  `UriPrefersPublic` names it (`BehindLan`).
10. **A new URI is not heard of during a game** (`protocol/src/driver.rs:1141`).
   Only the lobby reads these events; a table that waits for nobody needs no
   invitation, so `DriverHearsUri` speaks of the lobby.

Smaller ones, noted in the modules: an expired external address does not rebuild
the URI (`outdated` in `Node`), and a `TableUriReady` dropped on a full queue is
not repeated (`dropped`); deserializing a deal payload accepts trailing bytes; a
turn that goes and comes back between two frames leaves the clock thinking it has
acted (`ClockMissed`, `app/src/freeplay/mod.rs:194-231`); a second click, or the
clock, while the driver still applies an action is applied to a later decision
(`stale`), and ends the game if illegal there; the host screen cannot be left
before the lobby's timeout; `finish_leave` overwrites an error banner; `Bet` and
`AllIn` differ in what a short opening does to the raise line.

The module comment of `betting.rs` says a seat whose action is closed may only
call or fold; `do_all_in` lets it push its last chips over the bet, as its own
comment admits.  `ClosedActionReopensNothing` states what remains true.

## Not modelled, and why

- Cryptography: proofs are assumed sound and players honest; what a verifier does
  with a false proof is left out, but for a shuffle of another deck (`PeerDeal`).
- The deal's cards, the betting and the session are in modules of their own, joined
  by what each assumes of the others, not in one state space.
- A guest that reconnects during a game, and the loss of a departure on the guest's
  side: the code has no path that seats it again.
- The swarm, discovery, NAT and dialling: libp2p's.
- Painting and layout of the window, and the older window of `ui.rs`.
- Malformed Starts and acts under a false seat: rejected by their first check.
- Bots: strategies choose among legal actions, and the models let a seat choose
  any.  The wallet and crypto shims hold nothing.

## Plan

What is left is proof:

1. `NobodyStuck` of `MentalDeal` without blinds all in: where each payload of a peer
   is until every other has it.
2. `UriIsDialable` of `Node`.
