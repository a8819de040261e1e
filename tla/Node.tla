-------------------------------- MODULE Node --------------------------------
(***************************************************************************)
(* A host's networking node (net/src/node.rs, reachability.rs, lib.rs):    *)
(* the address book, the table URI built from it and carried to a guest,   *)
(* the warning about reachability, and the bounded queue of events between *)
(* the swarm task and the driver.  The swarm itself (libp2p) is external:  *)
(* it may report any address of its kind at any time.                      *)
(***************************************************************************)
EXTENDS Integers, Sequences, FiniteSets, SequencesExt

CONSTANTS
  ListenAddrs,     \* what the swarm may listen on
  MappedAddrs,     \* what UPnP may map, and let expire
  ObservedAddrs,   \* what other peers may see the host at
  Host,            \* the host's PeerId
  ChannelCap,      \* CHANNEL_CAP
  Radix            \* values of a byte: 256

ASSUME NodeConstants == ChannelCap \in Nat \ {0} /\ Radix \in Nat \ {0, 1}

\* A multiaddr is a sequence of protocol components.
Ip4(octets) == [proto |-> "ip4", value |-> octets]
Ip6(kind, seg) == [proto |-> "ip6", value |-> <<kind, seg>>]
Tcp == [proto |-> "tcp", value |-> <<>>]
Quic == [proto |-> "quic", value |-> <<>>]
P2p(peer) == [proto |-> "p2p", value |-> <<peer>>]

-----------------------------------------------------------------------------
(* reachability.rs *)

\* 100.64.0.0/10, the mark of a carrier's NAT.
Shared(o) == o[1] = 100 /\ o[2] \div 64 = 1

PrivateV4(o) ==
  \/ o[1] = 10
  \/ o[1] = 172 /\ o[2] \div 16 = 1
  \/ o[1] = 192 /\ o[2] = 168
  \/ o[1] = 169 /\ o[2] = 254
  \/ o[1] = 0
  \/ o = <<255, 255, 255, 255>>

ClassifyV4(o) ==
  CASE o[1] = 127 -> "Loopback"
    [] Shared(o) -> "CgnatLikely"
    [] PrivateV4(o) -> "PrivateLan"
    [] OTHER -> "PubliclyRoutable"

\* Unique-local fc00::/7 and link-local fe80::/10, by the first segment; a
\* mapped address counts as the IPv4 address it holds.
ClassifyV6(kind, seg) ==
  CASE kind = "loopback" -> "Loopback"
    [] kind = "mapped" -> ClassifyV4(seg)
    [] kind = "unspecified" \/ seg \div 512 = 126 \/ seg \div 64 = 1018 -> "PrivateLan"
    [] OTHER -> "PubliclyRoutable"

\* classify_multiaddr, by the first IP component; "None" when there is none.
Classify(a) ==
  LET ips == SelectSeq(a, LAMBDA c : c.proto \in {"ip4", "ip6"}) IN
  IF ips = <<>> THEN "None"
  ELSE IF ips[1].proto = "ip4" THEN ClassifyV4(ips[1].value)
  ELSE ClassifyV6(ips[1].value[1], ips[1].value[2])

\* A name without an address counts as routable.
Routable(a) == Classify(a) \in {"PubliclyRoutable", "None"}

-----------------------------------------------------------------------------
(* The table URI: net/src/lib.rs *)

\* One address: its length in two bytes, most significant first, then itself.
Framed(a) == <<(Len(a) \div Radix) % Radix, Len(a) % Radix>> \o a

EncodeUri(addrs) == FoldLeft(LAMBDA blob, a : blob \o Framed(a), <<>>, addrs)

\* decode_table_uri, one address at a time; <<>> for an error, when an address
\* is cut short or there is none.
DecodeUri(blob) ==
  LET step(read, i) ==
        IF read.cut \/ i # read.next THEN read
        ELSE IF i + 1 > Len(blob) THEN [read EXCEPT !.cut = TRUE]
        ELSE LET len == blob[i] * Radix + blob[i + 1]
                 end == i + 1 + len
             IN IF end > Len(blob) THEN [read EXCEPT !.cut = TRUE]
                ELSE [read EXCEPT !.next = end + 1,
                                  !.addrs = Append(@, SubSeq(blob, i + 2, end))]
      read == FoldLeft(step, [next |-> 1, addrs |-> <<>>, cut |-> FALSE],
                       [i \in 1 .. Len(blob) |-> i])
  IN IF read.cut THEN <<>> ELSE read.addrs

-----------------------------------------------------------------------------
VARIABLES
  listen, external,  \* AddrBook
  lastUri,           \* last_uri of run_swarm, <<>> for None
  warned,            \* warned of run_swarm
  graceArmed,        \* grace_armed of run_swarm
  queue,             \* the channel of NodeEvents to the driver
  lobby,             \* is the driver still in its lobby loop?
  appUri,            \* uri of run_host: what the lobby heard last, <<>> before
  outdated,          \* history: has an address expired since lastUri was built?
  dropped            \* history: was the event about lastUri dropped?

book == <<listen, external>>
driver == <<lobby, appUri>>
vars == <<book, lastUri, warned, graceArmed, queue, driver, outdated, dropped>>

\* Mutant of WithSelf: what the address named before is left in.
WithSelfToo(a) == Append(a, P2p(Host))

\* with_self_p2p: the address under the host's own name.
WithSelf(a) == Append(SelectSeq(a, LAMBDA c : c.proto # "p2p"), P2p(Host))

IsQuic(a) == \E i \in DOMAIN a : a[i].proto = "quic"

\* Mutant of Pool: the addresses of the local network come first.
PoolLanFirst(ls, es) ==
  SelectSeq(ls, LAMBDA a : Classify(a) \in {"PubliclyRoutable", "PrivateLan"}) \o SelectSeq(es, Routable)

\* The addresses worth sharing, best first.
Pool(ls, es) ==
  LET lanOnes == SelectSeq(ls, LAMBDA a : Classify(a) \in {"PubliclyRoutable", "PrivateLan"})
      public == SelectSeq(es, Routable)
  IN IF public # <<>> THEN public \o lanOnes
     ELSE lanOnes \o SelectSeq(es, LAMBDA a : Classify(a) # "Loopback")

\* The first address over QUIC and the first over TCP, in the order of the pool.
Chosen(pool) ==
  LET firsts == {i \in DOMAIN pool : \A j \in 1 .. i - 1 : IsQuic(pool[j]) # IsQuic(pool[i])}
  IN [k \in 1 .. Cardinality(firsts) |->
        WithSelf(pool[IF k = 1 THEN 1 ELSE CHOOSE i \in firsts : i # 1])]

\* best_uri; <<>> for None.
BestUri(ls, es) == EncodeUri(Chosen(Pool(ls, es)))

\* best_reachability; "None" when no address has a class.
BestReachability ==
  LET classes == {Classify(a) : a \in ToSet(external \o listen)}
  IN CASE "PubliclyRoutable" \in classes -> "PubliclyRoutable"
       [] "PrivateLan" \in classes -> "PrivateLan"
       [] "CgnatLikely" \in classes -> "CgnatLikely"
       [] "Loopback" \in classes -> "Loopback"
       [] OTHER -> "None"

-----------------------------------------------------------------------------
(* Events out: emit never blocks the swarm, it drops what does not fit *)

Info == [event |-> "Info"]
UriReady(uri) == [event |-> "TableUriReady", uri |-> uri]
Warning(class) == [event |-> "ReachabilityWarning", class |-> class]

Emit(q, event) == IF Len(q) < ChannelCap THEN Append(q, event) ELSE q

\* The URI becomes `uri` and the event follows those already in q.
Announce(uri, q) ==
  /\ lastUri' = uri
  /\ queue' = Emit(q, UriReady(uri))
  /\ dropped' = (Len(q) >= ChannelCap)
  /\ outdated' = FALSE

KeepUri(uri, q) ==
  /\ queue' = q
  /\ outdated' = (outdated /\ uri = <<>>)
  /\ UNCHANGED <<lastUri, dropped>>

\* Mutant of MaybeEmitUri: only the first URI is announced.
EmitUriOnce(q) ==
  \E uri \in {BestUri(listen', external')} :
    IF uri # <<>> /\ lastUri = <<>> THEN Announce(uri, q)
    ELSE lastUri' = uri /\ UNCHANGED <<queue, dropped, outdated>>

\* maybe_emit_uri, with the address book already updated; q is the queue so far.
MaybeEmitUri(q) ==
  \E uri \in {BestUri(listen', external')} :
    IF uri # <<>> /\ lastUri # uri THEN Announce(uri, q) ELSE KeepUri(uri, q)

\* maybe_warn: at most once, if the best address known is not routable.
MaybeWarn(q) ==
  \E best \in {BestReachability} :
    LET warn == ~warned /\ best \notin {"None", "PubliclyRoutable"} IN
    /\ warned' = (warned \/ warn)
    /\ queue' = IF warn THEN Emit(q, Warning(best)) ELSE q

-----------------------------------------------------------------------------
(* handle_swarm_event and handle_behaviour_event *)

Add(addrs, a) == IF Contains(addrs, a) THEN addrs ELSE Append(addrs, a)

NewListenAddr(a) ==
  /\ listen' = Add(listen, a)
  /\ UNCHANGED external
  /\ MaybeEmitUri(Emit(queue, Info))
  /\ UNCHANGED <<warned, graceArmed, driver>>

\* A candidate reported by a peer is confirmed only if it is routable: the peer may
\* be on the same network.
NewExternalAddrCandidate(a) ==
  /\ Routable(a)
  /\ external' = Add(external, a)
  /\ UNCHANGED listen
  /\ MaybeEmitUri(queue)
  /\ UNCHANGED <<warned, graceArmed, driver>>

\* The swarm confirms an address by itself: no Info goes out.
ExternalAddrConfirmed(a) ==
  /\ external' = Add(external, a)
  /\ UNCHANGED listen
  /\ MaybeEmitUri(queue)
  /\ UNCHANGED <<warned, graceArmed, driver>>

UpnpMaps(a) ==
  /\ external' = Add(external, a)
  /\ UNCHANGED listen
  /\ MaybeEmitUri(Emit(queue, Info))
  /\ UNCHANGED <<warned, graceArmed, driver>>

\* ExpiredExternalAddr takes the address off the book; the URI stays as it is.
UpnpExpires(a) ==
  /\ Contains(external, a)
  /\ external' = SelectSeq(external, LAMBDA e : e # a)
  /\ outdated' = TRUE
  /\ UNCHANGED <<listen, lastUri, warned, graceArmed, queue, driver, dropped>>

\* GatewayNotFound or NonRoutableGateway.
UpnpUnavailable ==
  /\ MaybeWarn(Emit(queue, Info))
  /\ UNCHANGED <<book, lastUri, graceArmed, driver, outdated, dropped>>

GraceElapses ==
  /\ graceArmed
  /\ ~warned
  /\ graceArmed' = FALSE
  /\ MaybeWarn(queue)
  /\ UNCHANGED <<book, lastUri, driver, outdated, dropped>>

-----------------------------------------------------------------------------
(* The driver *)

\* The lobby takes the next event and remembers the URI.
LobbyHears ==
  /\ lobby /\ queue # <<>>
  /\ queue' = Tail(queue)
  /\ appUri' = IF Head(queue).event = "TableUriReady" THEN Head(queue).uri ELSE appUri
  /\ UNCHANGED <<book, lastUri, warned, graceArmed, lobby, outdated, dropped>>

\* The last seat is taken.  If the lobby heard of no URI the driver asks for it once,
\* current_table_uri, best effort.
LobbyFills ==
  /\ lobby
  /\ lobby' = FALSE
  /\ appUri' \in IF appUri = <<>> THEN {appUri, lastUri} ELSE {appUri}
  /\ UNCHANGED <<book, lastUri, warned, graceArmed, queue, outdated, dropped>>

\* A hand is played: an event about addresses is taken and dropped.
HandIgnores ==
  /\ ~lobby /\ queue # <<>>
  /\ queue' = Tail(queue)
  /\ UNCHANGED <<book, lastUri, warned, graceArmed, driver, outdated, dropped>>

Init ==
  /\ listen = <<>> /\ external = <<>>
  /\ lastUri = <<>> /\ warned = FALSE /\ graceArmed = TRUE
  /\ queue = <<>> /\ lobby = TRUE /\ appUri = <<>>
  /\ outdated = FALSE /\ dropped = FALSE

Next ==
  \/ \E a \in ListenAddrs : NewListenAddr(a)
  \/ \E a \in MappedAddrs : ExternalAddrConfirmed(a) \/ UpnpMaps(a) \/ UpnpExpires(a)
  \/ \E a \in ObservedAddrs : NewExternalAddrCandidate(a)
  \/ UpnpUnavailable \/ GraceElapses
  \/ LobbyHears \/ LobbyFills \/ HandIgnores

\* The lobby awaits the next event and does nothing else.
Spec == Init /\ [][Next]_vars /\ WF_vars(LobbyHears)

-----------------------------------------------------------------------------
(* Properties *)

TypeOK ==
  /\ ToSet(listen) \subseteq ListenAddrs
  /\ ToSet(external) \subseteq MappedAddrs \cup ObservedAddrs
  /\ {warned, graceArmed, lobby, outdated, dropped} \subseteq BOOLEAN
  /\ Len(queue) <= ChannelCap
  /\ \A i \in DOMAIN queue : queue[i].event \in {"Info", "TableUriReady", "ReachabilityWarning"}

\* What a guest reads from the URI: one or two addresses, at most one for each
\* transport, every one of them naming this host and none of them a loopback.
UriIsDialable ==
  lastUri # <<>> =>
    LET addrs == DecodeUri(lastUri) IN
    /\ Len(addrs) \in 1 .. 2
    /\ Len(addrs) = 2 => IsQuic(addrs[1]) # IsQuic(addrs[2])
    /\ \A i \in DOMAIN addrs :
         /\ SelectSeq(addrs[i], LAMBDA c : c.proto = "p2p") = <<P2p(Host)>>
         /\ Classify(addrs[i]) # "Loopback"

\* A transport, by an address over it, has a public one in the URI.
SharesPublic(a) ==
  \E u \in ToSet(DecodeUri(lastUri)) : Routable(u) /\ IsQuic(u) = IsQuic(a)

PublicListen == {a \in ToSet(listen) : Classify(a) = "PubliclyRoutable"}

\* The host came to listen on an address of the local network before this one, over
\* the same transport: the pool keeps the order in which they were learnt.
BehindLan(a) ==
  \E i \in DOMAIN listen : \E j \in 1 .. i - 1 :
    listen[i] = a /\ Classify(listen[j]) = "PrivateLan" /\ IsQuic(listen[j]) = IsQuic(a)

\* Over every transport for which the host knows a public address, its own or one it
\* is seen at, in whatever order it learnt them, the URI carries a public one - but
\* for a host that listens on a public address and a LAN address was learnt first.
UriPrefersPublic ==
  ~outdated =>
    \A a \in {e \in ToSet(external) : Routable(e)} \cup {p \in PublicListen : ~BehindLan(p)} :
      SharesPublic(a)

\* What does not hold: that a host that listens on a public address shares one.
PublicListenIsShared == \A a \in PublicListen : SharesPublic(a)

\* While the lobby is open its invitation ends up being the current URI, unless the
\* event about that was dropped because the queue was full.
DriverHearsUri == []<>(~lobby \/ appUri = lastUri \/ dropped)
=============================================================================
