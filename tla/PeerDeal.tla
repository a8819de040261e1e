------------------------------ MODULE PeerDeal -------------------------------
(***************************************************************************)
(* The deal as the peers run it: every peer its own replica (PeerDeal,     *)
(* deal/src/distributed.rs) with only its own secret, inside the hand's    *)
(* runtime (MentalDeal, protocol/src/mental.rs) that says which deck       *)
(* positions are whose cards and when enough tokens are there.             *)
(*                                                                         *)
(* MentalDeal.tla has the same protocol between the betting and the        *)
(* network, with nothing but who contributed what.  Here are the cards,    *)
(* keys and tokens themselves: the deck every replica shuffles, the bytes  *)
(* that carry it and the cards that come out.  A payload reaches the other *)
(* peers at any time, in any order and any number of times.                *)
(***************************************************************************)
EXTENDS MaskedDeck, DealWire

CONSTANTS
  Button,         \* the dealer's seat
  Streets         \* how many streets are revealed (bound: the code has 3)

ASSUME PeerDealConstants ==
  /\ Button \in Seat
  /\ Streets \in 1 .. 3
  /\ Cards >= 2 * N + 2 * Streets + 2

VARIABLES
  peer,           \* per seat, its replica: see Fresh
  wire            \* the payloads broadcast so far

vars == <<peer, wire>>

StreetOrder == <<"flop", "turn", "river">>
Before(i) == {StreetOrder[j] : j \in 1 .. i - 1}
Street == Before(Streets + 1)

\* Key pairs are fresh; one number stands for both halves of a pair.
KeyOf(seat) == Cards + seat
Info(seat) == seat + 1

Fresh ==
  [announced |-> {},       \* announced: pairs of a seat and its public key
   aggregate |-> {},       \* the keys folded into the aggregate key
   deck |-> <<>>,
   shuffles |-> 0,         \* shuffles_done
   hole |-> {}, community |-> {}, showdown |-> {},    \* the token sets
   gave |-> {},            \* the announced_* flags
   localHole |-> <<>>,     \* local_hole
   board |-> <<>>,         \* community
   done |-> {},            \* community_done
   shown |-> [s \in Seat |-> <<>>]]    \* showdown_hole

-----------------------------------------------------------------------------
(* DeckLayout: which positions are whose *)

\* Mutant of HolePositions: dealing starts at the button.
HolePositionsFromButton(seat) ==
  LET first == (seat + N - Button) % N IN <<first, first + N>>

\* One card at a time from the seat left of the button, two times round.
HolePositions(seat) ==
  LET first == (seat + N - (Button + 1)) % N IN <<first, first + N>>

\* A card is burned before every street.
BoardPositions(street) ==
  CASE street = "flop" -> <<2 * N + 1, 2 * N + 2, 2 * N + 3>>
    [] street = "turn" -> <<2 * N + 5>>
    [] street = "river" -> <<2 * N + 7>>

HoleOwner(position) == CHOOSE s \in Seat : position \in Range(HolePositions(s))

OthersPositions(p) == UNION {Range(HolePositions(s)) : s \in Seat \ {p}}

-----------------------------------------------------------------------------
(* Phases *)

AllKeysIn(s) == Cardinality(s.announced) = N

\* Mutant of Phase: ready one shuffle too soon.
PhaseEarly(s) ==
  IF s.aggregate = {} THEN "Keygen" ELSE IF s.shuffles < N - 1 THEN "Shuffle" ELSE "Ready"

Phase(s) ==
  IF s.aggregate = {} THEN "Keygen" ELSE IF s.shuffles < N THEN "Shuffle" ELSE "Ready"

\* maybe_finalize_keys: fold the keys and mask the sorted deck under them.
FinalizeKeys(s) ==
  IF Phase(s) = "Keygen" /\ AllKeysIn(s)
    THEN [s EXCEPT !.aggregate = {a[2] : a \in s.announced}, !.deck = OpenDeck]
    ELSE s

AddKey(s, seat, public) == FinalizeKeys([s EXCEPT !.announced = @ \union {<<seat, public>>}])

-----------------------------------------------------------------------------
(* Tokens: a partial decryption of one masked card under one key *)

Token(key, masked) == [key |-> key, masked |-> masked]

\* unmask_with: one token of every peer or nothing; what they add up to is a
\* card when they were made for this very card, with the keys it is under.
Unmasks(s, position, tokens) ==
  /\ Cardinality(tokens) = N
  /\ tokens = {Token(k, s.deck[position]) : k \in s.aggregate}

At(tokens, position) == {t.token : t \in {u \in tokens : u.position = position}}

CardAt(s, position) == s.deck[position].card
CardsAt(s, positions) == [i \in DOMAIN positions |-> CardAt(s, positions[i])]

\* try_decrypt_local_hole: the others' tokens and one's own, never sent.
OpenLocalHole(p, s) ==
  LET mine == HolePositions(p)
      own(pos) == Token(KeyOf(p), s.deck[pos])
  IN IF s.localHole = <<>> /\ \A i \in DOMAIN mine :
            Unmasks(s, mine[i], At(s.hole, mine[i]) \union {own(mine[i])})
       THEN [s EXCEPT !.localHole = CardsAt(s, mine)] ELSE s

\* try_decrypt_community: the street is appended to the board.
OpenStreet(s, street) ==
  LET cards == BoardPositions(street)
  IN IF street \notin s.done /\ \A i \in DOMAIN cards :
            Unmasks(s, cards[i], At(s.community, cards[i]))
       THEN [s EXCEPT !.board = @ \o CardsAt(s, cards), !.done = @ \union {street}] ELSE s

\* Mutant of MergedTokens: the tokens of the hole round are left out.
MergedTokensShowdownOnly(s, position) == At(s.showdown, position)

\* merged_showdown_tokens: the owner's token joins those of the hole round.
MergedTokens(s, position) == At(s.hole, position) \union At(s.showdown, position)

\* try_decrypt_showdown
OpenShown(s, owner) ==
  LET theirs == HolePositions(owner)
  IN IF s.shown[owner] = <<>> /\ \A i \in DOMAIN theirs :
            Unmasks(s, theirs[i], MergedTokens(s, theirs[i]))
       THEN [s EXCEPT !.shown[owner] = CardsAt(s, theirs)] ELSE s

\* collect: a batch of tokens of one round, each [position, token].
Collect(p, s, round, batch) ==
  CASE round = "hole" -> OpenLocalHole(p, [s EXCEPT !.hole = @ \union batch])
    [] round = "showdown" ->
         OpenShown([s EXCEPT !.showdown = @ \union batch],
                   HoleOwner((CHOOSE t \in batch : TRUE).position))
    [] OTHER -> OpenStreet([s EXCEPT !.community = @ \union batch], round)

-----------------------------------------------------------------------------
(* What a peer contributes: its own replica takes it, the others hear it *)

Payload(kind, from, parts) == [kind |-> kind, from |-> from, parts |-> parts]

Broadcast(p, taken, payload) ==
  /\ peer' = [peer EXCEPT ![p] = taken]
  /\ wire' = wire \union {payload}

\* make_key_announcement
AnnounceKey(p) ==
  /\ "key" \notin peer[p].gave
  /\ Broadcast(p, AddKey([peer[p] EXCEPT !.gave = @ \union {"key"}], p, KeyOf(p)),
       Payload("key", p, {KeyBytes(p, <<KeyOf(p)>>, <<KeyOf(p), Info(p)>>, <<Info(p)>>)}))

\* Mutant of MyTurn: a peer shuffles as soon as it has a deck.
MyTurnAnytime(p) == \A m \in wire : m.kind = "shuffle" => m.from # p

\* Seats shuffle in order, each when it has applied the shuffles before its own.
MyTurn(p) == peer[p].shuffles = p

\* make_shuffle
MakeShuffle(p) ==
  /\ Phase(peer[p]) = "Shuffle" /\ MyTurn(p)
  /\ \E perm \in Rearrangements :
       LET new == Remask(peer[p].deck, perm, p)
           cards == [i \in 1 .. Cards |-> <<new[i - 1].card>> \o new[i - 1].masks]
       IN Broadcast(p, [peer[p] EXCEPT !.deck = new, !.shuffles = @ + 1],
            Payload("shuffle", p, {ShuffleBytes(p, cards, <<p>>)}))

\* reveal_tokens and own_reveal_contribution, for some positions.
Reveal(p, round, positions) ==
  LET key == KeyOf(p)
      card(pos) == peer[p].deck[pos]
      own == {[position |-> pos, token |-> Token(key, card(pos))] : pos \in positions}
  IN /\ Phase(peer[p]) = "Ready"
     /\ round \notin peer[p].gave
     /\ Broadcast(p, Collect(p, [peer[p] EXCEPT !.gave = @ \union {round}], round, own),
          Payload(round, p,
            {RevealBytes(p, pos, <<key, card(pos).card>> \o card(pos).masks, <<key>>, <<key>>) :
               pos \in positions}))

\* make_hole_reveal: for every card that is somebody else's.
RevealHole(p) == Reveal(p, "hole", OthersPositions(p))

\* make_community_reveal: the betting asks for one street after the other.
RevealStreet(p, i) ==
  /\ peer[p].localHole # <<>> /\ peer[p].done = Before(i)
  /\ Reveal(p, StreetOrder[i], Range(BoardPositions(StreetOrder[i])))

\* make_showdown_reveal: one's own two cards, when the board is there.
RevealShowdown(p) ==
  /\ peer[p].done = Street
  /\ Reveal(p, "showdown", Range(HolePositions(p)))

-----------------------------------------------------------------------------
(* What a peer takes from another: read, verified, then applied *)

\* ingest_key: the seat is bound to the info its owner proved the key with.
IngestKey(p, m) ==
  /\ m.kind = "key"
  /\ \E bytes \in m.parts : \E key \in {ReadKey(bytes)} :
       /\ key # <<>>
       /\ LET seat == key[1]
              public == key[2][1]
          IN /\ seat = m.from
             /\ key[4] = <<Info(seat)>>
             /\ key[3] = <<public, Info(seat)>>
             /\ peer' = [peer EXCEPT ![p] = AddKey(@, seat, public)]
  /\ UNCHANGED wire

\* verify_shuffle against the deck this replica holds.
VerifiesShuffle(s, new, by) == s.aggregate # {} /\ IsShuffle(s.deck, new, by)

\* ingest_shuffle: of the seat whose turn it is here (a payload's turn is its
\* author's seat).
IngestShuffle(p, m) ==
  /\ m.kind = "shuffle"
  /\ Phase(peer[p]) = "Shuffle" /\ m.from = peer[p].shuffles
  /\ \E bytes \in m.parts : \E shuffle \in {ReadShuffle(bytes)} :
       /\ shuffle # <<>>
       /\ LET card(i) == shuffle[i + 3]
              new == [i \in Position |-> Masked(card(i)[1], Tail(card(i)))]
          IN /\ shuffle[1] = m.from
             /\ VerifiesShuffle(peer[p], new, Last(shuffle)[1])
             /\ peer' = [peer EXCEPT ![p].deck = new, ![p].shuffles = @ + 1]
  /\ UNCHANGED wire

\* ingest_reveal and verify_reveal: a token counts when it was made with the
\* key its seat announced, for the card this replica has at that position.
VerifiesReveal(s, round, reveal) ==
  LET seat == reveal[1]
      position == reveal[2]
      public == reveal[5][1]
  IN /\ reveal # <<>>
     /\ <<seat, public>> \in s.announced
     /\ position \in Position
     /\ reveal[3] = <<public, CardAt(s, position)>> \o s.deck[position].masks
     /\ round = "hole" => HoleOwner(position) # seat

\* have_token: a repeated token is skipped before its proof is looked at.
HaveToken(s, round, reveal) ==
  \E t \in (CASE round = "hole" -> s.hole
              [] round = "showdown" -> s.showdown
              [] OTHER -> s.community) :
    t.position = reveal[2] /\ t.token.key = reveal[5][1]

IngestReveal(p, m) ==
  /\ m.kind \in {"hole", "showdown"} \union Street
  /\ Phase(peer[p]) = "Ready"
  /\ \E reveals \in {{r \in {ReadReveal(bytes) : bytes \in m.parts} :
                         ~HaveToken(peer[p], m.kind, r)}} :
       /\ reveals # {}
       /\ \A r \in reveals : VerifiesReveal(peer[p], m.kind, r)
       /\ LET batch == {[position |-> r[2],
                         token |-> Token(r[5][1], peer[p].deck[r[2]])] :
                          r \in reveals}
          IN peer' = [peer EXCEPT ![p] = Collect(p, @, m.kind, batch)]
  /\ UNCHANGED wire

-----------------------------------------------------------------------------
Init == peer = [p \in Seat |-> Fresh] /\ wire = {}

Ingest(p) ==
  \E m \in wire : m.from # p /\ (IngestKey(p, m) \/ IngestShuffle(p, m) \/ IngestReveal(p, m))

Next ==
  \E p \in Seat :
    \/ AnnounceKey(p)
    \/ MakeShuffle(p)
    \/ RevealHole(p)
    \/ \E i \in 1 .. Streets : RevealStreet(p, i)
    \/ RevealShowdown(p)
    \/ Ingest(p)

\* The senders repeat a payload until it is acknowledged and a payload that
\* came too early is kept and tried again, so a peer that can move does.
Spec == Init /\ [][Next]_vars /\ WF_vars(Next)

-----------------------------------------------------------------------------
(* Properties *)

Upto(cards, n) == cards = <<>> \/ (Len(cards) = n /\ Range(cards) \subseteq Position)

\* Replicas have the shape the code gives them: the aggregate key is the key of
\* all, and no street opens twice however often its tokens come (PeerDeal and
\* MentalDeal of the protocol crate).
TypeOK ==
  \A p \in Seat :
    /\ peer[p].announced \subseteq {<<s, KeyOf(s)>> : s \in Seat}
    /\ peer[p].aggregate \in {{}, {KeyOf(s) : s \in Seat}}
    /\ peer[p].shuffles \in 0 .. N
    /\ Upto(peer[p].localHole, 2)
    /\ \A s \in Seat : Upto(peer[p].shown[s], 2)
    /\ Len(peer[p].board) = (IF peer[p].done = {} THEN 0 ELSE 2) + Cardinality(peer[p].done)

\* Two replicas that applied as many shuffles hold the same face-down deck,
\* whatever order the shuffles reached them in and however often: the turns, kept
\* by make_shuffle and by ingest_shuffle, leave one chain of shuffles.
ReplicasInStep ==
  \A p, q \in Seat :
    peer[p].shuffles = peer[q].shuffles /\ peer[p].deck # <<>> /\ peer[q].deck # <<>>
      => peer[p].deck = peer[q].deck

\* deal_hole and deal_community_street of game/src/hand.rs, run over a deck.
DealHole(cards) ==
  LET serve(hole, idx) == [hole EXCEPT ![(Button + 1 + idx) % N] = Append(@, cards[idx])]
  IN FoldLeft(serve, [s \in Seat |-> <<>>], [i \in 1 .. 2 * N |-> i - 1])

DealBoard(cards) ==
  LET street(sofar, name) ==
        LET first == sofar.idx + 1     \* past the burn
            count == IF name = "flop" THEN 3 ELSE 1
        IN [idx |-> first + count,
            board |-> sofar.board \o [i \in 1 .. count |-> cards[first + i - 1]]]
  IN FoldLeft(street, [idx |-> 2 * N, board |-> <<>>], SubSeq(StreetOrder, 1, Streets)).board

\* The cards that come out are the ones the local dealer would have dealt from
\* the same deck, to the same seats and onto the same board, though nobody
\* sees that deck (DeckLayout against deal_hole and deal_community_street).
CardsAsDealt ==
  \A p \in Seat : Phase(peer[p]) = "Ready" =>
    \E cards \in {[i \in Position |-> CardAt(peer[p], i)]} :
    \E hole \in {DealHole(cards)} :
      /\ peer[p].localHole \in {<<>>, hole[p]}
      /\ \A s \in Seat : peer[p].shown[s] \in {<<>>, hole[s]}
      /\ IsPrefix(peer[p].board, DealBoard(cards))

\* A payload that is cut short, wherever it is cut, is refused and never read
\* as another one (the framing of wire, deal/src/distributed.rs).
CutPayloadsAreRefused ==
  \A m \in wire : \A bytes \in m.parts :
    LET read(b) == CASE m.kind = "key" -> ReadKey(b)
                     [] m.kind = "shuffle" -> ReadShuffle(b)
                     [] OTHER -> ReadReveal(b)
    IN \A n \in 0 .. Len(bytes) : read(SubSeq(bytes, 1, n)) = <<>> <=> n < Len(bytes)

\* What is open at some peer, and the deck of a peer no other is ahead of.
Furthest ==
  CHOOSE p \in Seat : /\ peer[p].deck = <<>> => \A q \in Seat : peer[q].deck = <<>>
                      /\ \A q \in Seat : peer[q].shuffles <= peer[p].shuffles
OpenedBy(p) ==
  {<<HolePositions(p)[i], peer[p].localHole[i]>> : i \in DOMAIN peer[p].localHole}
    \union (UNION {{<<HolePositions(s)[i], peer[p].shown[s][i]>> : i \in DOMAIN peer[p].shown[s]} :
                     s \in Seat})
    \union {<<(<<1, 2, 3, 5, 7>>[i]) + 2 * N, peer[p].board[i]>> : i \in DOMAIN peer[p].board}

\* The replicas together do what the deal of one process does: one deck,
\* shuffled by each player in turn, every card opened as that deck has it and
\* only after the last shuffle (deal/src/mental.rs).
Single ==
  INSTANCE SingleDeal WITH
    keyed <- peer[Furthest].deck # <<>>,
    deck <- peer[Furthest].deck,
    opened <- UNION {OpenedBy(p) : p \in Seat}
ImplementsSingleDeal == Single!Spec

\* Every deal comes to its end: each peer sees its cards, the board and the
\* hands shown, whatever the order of the payloads.
EveryDealEnds ==
  <>(\A p \in Seat : /\ peer[p].localHole # <<>> /\ peer[p].done = Street
                     /\ \A s \in Seat : peer[p].shown[s] # <<>>)
=============================================================================
