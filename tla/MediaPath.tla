----------------------------- MODULE MediaPath -----------------------------
(***************************************************************************)
(* A SIP call over UDP from end to end: the phones outside, the server     *)
(* (server/proxy.go, server/control.go, server/rtp_relay.go), the client   *)
(* (client/proxy.go) and the sockets it opens towards the local service.   *)
(*                                                                         *)
(* Goroutines of the server: the control loop, which reads what the client *)
(* sends and rewrites what goes out; the reader of the UDP proxy; the      *)
(* reader and the idle watcher of each relay.  At the client: the message  *)
(* loop and one reader per socket.  RTPRelay models the pool, the locks    *)
(* and the closing of sessions; here the session stays up, a call's relays *)
(* are released in one step, and what counts is where a packet ends up.    *)
(***************************************************************************)
EXTENDS SDP, TLC

CONSTANTS
    Calls,     \* Call-IDs
    Offers,    \* what the local service may send: <<call, body>>
    Phones,    \* external addresses
    Proxy,     \* the name of the SIP proxy
    Home,      \* the address of the local service
    Ports,     \* the port pool
    Relays,    \* bound: relay objects
    Sockets,   \* bound: UDP sockets of the client
    MaxWire,   \* bound: messages under way in one direction
    MaxPort,   \* bound: media of a body
    None

Keys == Calls \X (0 .. MaxPort - 1)
Names == Keys \cup {Proxy}

(* What the local service may offer: media of a call, no more than fit.    *)
ASSUME OfferAssumption ==
    \A o \in Offers : /\ o[1] \in Calls
                      /\ ExtractMediaEntries(o[2]) \in Seq(MediaOf(o[2]))
                      /\ Len(ExtractMediaEntries(o[2])) <= MaxPort
ASSUME LineAssumption == \A o \in Offers : \A i \in DOMAIN o[2] : IsLine(o[2][i])
ASSUME BoundAssumption ==
    /\ IsFiniteSet(Calls) /\ MaxPort \in Nat \ {0} /\ MaxWire \in Nat
    /\ Ports \subseteq Nat
ASSUME NameAssumption == Proxy \notin Keys /\ None \notin Relays \cup {Proxy}

VARIABLES
    peers,    \* ProxyInfo.udpPeers
    table,    \* ClientSession.rtpRelays
    relay,    \* RTPRelay objects
    loop,     \* the control loop
    toCli,    \* the control connection, server to client
    toSrv,    \* and back
    runner,   \* Client.proxies: the local address of each name
    sock      \* udpSession objects

vars == <<peers, table, relay, loop, toCli, toSrv, runner, sock>>

(* got: the sender of a packet that was read and not yet passed on. *)
NoRelay == [st |-> "free", key |-> None, port |-> 0, target |-> None, got |-> None]
Idle == [at |-> "idle", call |-> None, body |-> <<>>, idx |-> 0, ports |-> <<>>]
Closed == [st |-> "closed", name |-> None, target |-> None, peer |-> None, listed |-> FALSE]

NewRTPRelay(key, target) == [type |-> "New", name |-> key, target |-> target]
CloseRTPRelay(key) == [type |-> "Close", name |-> key]
UDPPacket(name, peer) == [type |-> "Packet", name |-> name, peer |-> peer]
Signalling(peer, offer) == [peer |-> peer, offer |-> offer]

(* A BYE has no body; other messages without one change nothing here.      *)
Bye(c) == <<c, <<>>>>
Byes == {Bye(c) : c \in Calls}

Targets == {None, Home} \cup
    UNION {MediaOf(o[2]) : o \in Offers}

TypeOK ==
    /\ peers \subseteq Phones
    /\ table \in [Keys -> Relays \cup {None}]
    /\ relay \in [Relays -> [st : {"free", "open", "stopping", "stopped"}, key : Keys \cup {None},
                             port : Ports \cup {0}, target : Targets,
                             got : Phones \cup {None}]]
    /\ loop.at \in {"idle", "entry", "notify", "write"} /\ loop.call \in Calls \cup {None}
    /\ loop.idx \in 0..(MaxPort - 1) /\ Range(loop.ports) \subseteq Ports
    /\ \A m \in ToSet(toCli) : m.type \in {"New", "Close", "Packet"} /\ m.name \in Names
    /\ ToSet(toSrv) \subseteq [peer : Phones, offer : Offers \cup Byes]
    /\ Len(toCli) <= MaxWire + Cardinality(Keys) /\ Len(toSrv) <= MaxWire
    /\ runner \in [Names -> Targets]
    /\ sock \in [Sockets -> [st : {"open", "closed"}, name : Names \cup {None}, target : Targets,
                             peer : Phones \cup {None}, listed : BOOLEAN]]

Init ==
    /\ peers = {}
    /\ table = [k \in Keys |-> None]
    /\ relay = [r \in Relays |-> NoRelay]
    /\ loop = Idle
    /\ toCli = <<>> /\ toSrv = <<>>
    /\ runner = [n \in Names |-> IF n = Proxy THEN Home ELSE None]
    /\ sock = [s \in Sockets |-> Closed]

-----------------------------------------------------------------------------
(* The proxy's reader: readUDP, handleUDPPacket. *)

(* Relays of a call: all are stopped and deleted, the client is told.      *)
(* A Stop the idle watcher has begun is waited for.                        *)
HeldBy(c) == {k \in Keys : k[1] = c /\ table[k] # None}

(* Mutant: a Stop that has begun is not waited for. *)
ReleasedAtOnce(c) ==
    /\ table' = [k \in Keys |-> IF k[1] = c THEN None ELSE table[k]]
    /\ relay' = [r \in Relays |-> IF \E k \in HeldBy(c) : table[k] = r /\ relay[r].st = "open"
                                  THEN [relay[r] EXCEPT !.st = "stopped"] ELSE relay[r]]

Released(c) ==
    /\ \A k \in HeldBy(c) : relay[table[k]].st # "stopping"
    /\ table' = [k \in Keys |-> IF k[1] = c THEN None ELSE table[k]]
    /\ relay' = [r \in Relays |-> IF \E k \in HeldBy(c) : table[k] = r
                                  THEN [relay[r] EXCEPT !.st = "stopped"] ELSE relay[r]]
Notices(c) ==
    SetToSeq({CloseRTPRelay(k) : k \in {j \in HeldBy(c) : relay[table[j]].st = "open"}})

(* Mutant: the peer is not noted. *)
FromPhoneUnnoted(x) ==
    /\ Len(toCli) < MaxWire
    /\ toCli' = Append(toCli, UDPPacket(Proxy, x))
    /\ UNCHANGED <<peers, table, relay, loop, toSrv, runner, sock>>

FromPhone(x) ==
    /\ Len(toCli) < MaxWire
    /\ peers' = peers \cup {x}
    /\ toCli' = Append(toCli, UDPPacket(Proxy, x))
    /\ UNCHANGED <<table, relay, loop, toSrv, runner, sock>>

ByeFromPhone(x, c) ==
    /\ Len(toCli) < MaxWire
    /\ peers' = peers \cup {x}
    /\ Released(c)
    /\ toCli' = toCli \o Notices(c) \o <<UDPPacket(Proxy, x)>>
    /\ UNCHANGED <<loop, toSrv, runner, sock>>

-----------------------------------------------------------------------------
(* The control loop: handleUDPPacketFromClient. *)

(* SendUDPPacketToPeer, rewriteSIPForExternal: a message with media starts *)
(* getOrCreateRTPRelays; any other is written at once, and one for a phone *)
(* nobody heard of is dropped.  Media on the way out (SendToPeer) changes  *)
(* nothing that matters here.                                              *)
Rewrite ==
    /\ loop.at = "idle" /\ toSrv # <<>> /\ Head(toSrv).offer \notin Byes
    /\ LET m == Head(toSrv)
       IN  loop' = IF m.peer \notin peers \/ ExtractMediaEntries(m.offer[2]) = <<>> THEN Idle
                   ELSE [Idle EXCEPT !.at = "entry", !.call = m.offer[1], !.body = m.offer[2]]
    /\ toSrv' = Tail(toSrv)
    /\ UNCHANGED <<peers, table, relay, toCli, runner, sock>>

(* releaseRelayOnBye of a BYE from inside.                                 *)
ByeFromHome(c) ==
    /\ loop.at = "idle" /\ toSrv # <<>> /\ Head(toSrv).offer = Bye(c)
    /\ Head(toSrv).peer \in peers
    /\ Len(toCli) < MaxWire
    /\ Released(c)
    /\ toCli' = toCli \o Notices(c)
    /\ toSrv' = Tail(toSrv)
    /\ UNCHANGED <<peers, loop, runner, sock>>

Key == <<loop.call, loop.idx>>
Entries == ExtractMediaEntries(loop.body)

(* Mutant: one entry too many. *)
NextEntryLate(l) ==
    IF l.idx = Len(Entries) THEN [l EXCEPT !.at = "write"]
    ELSE [l EXCEPT !.at = "entry", !.idx = @ + 1]

NextEntry(l) ==
    IF l.idx + 1 = Len(Entries) THEN [l EXCEPT !.at = "write"]
    ELSE [l EXCEPT !.at = "entry", !.idx = @ + 1]
GivenPort(p) ==
    LET i == loop.idx
    IN  [loop EXCEPT !.ports = [n \in DOMAIN loop.ports \cup {i} |->
                                    IF n = i THEN p ELSE loop.ports[n]]]

InUse == {relay[r].port : r \in {q \in Relays : relay[q].st = "open"}}

(* One media entry: the call's relay is used again if there is one.        *)
Reuse ==
    /\ loop.at = "entry" /\ table[Key] # None
    /\ loop' = NextEntry(GivenPort(relay[table[Key]].port))
    /\ UNCHANGED <<peers, table, relay, toCli, toSrv, runner, sock>>

(* Or else one is made: it listens, it is entered, the client is told.     *)
Gone(r) == /\ relay[r].st \in {"free", "stopped"} /\ relay[r].got = None
           /\ \A k \in Keys : table[k] # r
Create ==
    /\ loop.at = "entry" /\ table[Key] = None
    /\ Ports \ InUse # {}
    /\ \E r \in Relays :
        /\ Gone(r) /\ \A q \in Relays : Gone(q) => r <= q
        /\ LET p == Min(Ports \ InUse)
               e == Entries[loop.idx + 1]
           IN  /\ relay' = [relay EXCEPT ![r] = [NoRelay EXCEPT !.st = "open", !.key = Key,
                                                 !.port = p, !.target = e]]
               /\ table' = [table EXCEPT ![Key] = r]
               /\ loop' = [GivenPort(p) EXCEPT !.at = "notify"]
    /\ UNCHANGED <<peers, toCli, toSrv, runner, sock>>

(* No port is left, or it cannot be listened on. *)
NotMade ==
    /\ loop.at = "entry" /\ table[Key] = None
    /\ loop' = NextEntry(loop)
    /\ UNCHANGED <<peers, table, relay, toCli, toSrv, runner, sock>>

Notify ==
    /\ loop.at = "notify" /\ Len(toCli) < MaxWire
    /\ toCli' = Append(toCli, NewRTPRelay(Key, Entries[loop.idx + 1]))
    /\ loop' = NextEntry(loop)
    /\ UNCHANGED <<peers, table, relay, toSrv, runner, sock>>

(* The message as the phone gets it. *)
Sent == RewriteForExternal(Message("INVITE", loop.call, {}, TRUE, loop.body), loop.ports)

WriteToPhone ==
    /\ loop.at = "write"
    /\ loop' = Idle
    /\ UNCHANGED <<peers, table, relay, toCli, toSrv, runner, sock>>

-----------------------------------------------------------------------------
(* A relay: readLoop reads a packet, then passes it on, even if the relay  *)
(* has been stopped in between; idleWatch stops it and then tells.         *)
Receive(r, x) ==
    /\ relay[r].st = "open" /\ relay[r].got = None
    /\ relay' = [relay EXCEPT ![r].got = x]
    /\ UNCHANGED <<peers, table, loop, toCli, toSrv, runner, sock>>

Forward(r) ==
    /\ relay[r].got # None /\ Len(toCli) < MaxWire
    /\ toCli' = Append(toCli, UDPPacket(relay[r].key, relay[r].got))
    /\ relay' = [relay EXCEPT ![r].got = None]
    /\ UNCHANGED <<peers, table, loop, toSrv, runner, sock>>

IdleStop(r) ==
    /\ relay[r].st = "open"
    /\ relay' = [relay EXCEPT ![r].st = "stopping"]
    /\ UNCHANGED <<peers, table, loop, toCli, toSrv, runner, sock>>

IdleTell(r) ==
    /\ relay[r].st = "stopping" /\ Len(toCli) < MaxWire
    /\ toCli' = Append(toCli, CloseRTPRelay(relay[r].key))
    /\ relay' = [relay EXCEPT ![r].st = "stopped"]
    /\ UNCHANGED <<peers, table, loop, toSrv, runner, sock>>

-----------------------------------------------------------------------------
(* The client's loop. *)
Order == Head(toCli)
Obey(type) == toCli # <<>> /\ Order.type = type /\ toCli' = Tail(toCli)

(* handleNewRTPRelay: a new runner, whatever there was.  Sockets of an old *)
(* one are no longer in its map.                                           *)
HandleNewRTPRelay ==
    /\ Obey("New")
    /\ runner' = [runner EXCEPT ![Order.name] = Order.target]
    /\ sock' = [s \in Sockets |-> IF sock[s].name = Order.name
                                  THEN [sock[s] EXCEPT !.listed = FALSE] ELSE sock[s]]
    /\ UNCHANGED <<peers, table, relay, loop, toSrv>>

(* handleCloseRTPRelay *)
HandleCloseRTPRelay ==
    /\ Obey("Close")
    /\ runner' = [runner EXCEPT ![Order.name] = None]
    /\ sock' = [s \in Sockets |-> IF sock[s].name = Order.name /\ sock[s].listed
                                  THEN [sock[s] EXCEPT !.st = "closed", !.listed = FALSE]
                                  ELSE sock[s]]
    /\ UNCHANGED <<peers, table, relay, loop, toSrv>>

Session(name, x) == {s \in Sockets : sock[s].name = name /\ sock[s].peer = x /\ sock[s].listed}

(* forwardUDPToLocal: through the socket of that phone, or a new one.  The *)
(* socket may have been closed since; the packet is lost then.             *)
HandleUDPPacket ==
    /\ Obey("Packet")
    /\ IF runner[Order.name] = None \/ Session(Order.name, Order.peer) # {}
       THEN UNCHANGED sock
       ELSE \E s \in Sockets :
                /\ sock[s] = Closed
                /\ sock' = [sock EXCEPT ![s] = [st |-> "open", name |-> Order.name,
                                target |-> runner[Order.name], peer |-> Order.peer,
                                listed |-> TRUE]]
    /\ UNCHANGED <<peers, table, relay, loop, toSrv, runner>>

(* readLocalUDP: the local service sends a SIP message through the socket  *)
(* of a phone.                                                             *)
FromLocal(s) ==
    /\ sock[s].st = "open" /\ sock[s].name = Proxy
    /\ Len(toSrv) < MaxWire
    /\ \E o \in Offers \cup Byes : toSrv' = Append(toSrv, Signalling(sock[s].peer, o))
    /\ UNCHANGED <<peers, table, relay, loop, toCli, runner, sock>>

(* Mutant: the entry goes first, the socket later. *)
ReadTimeoutUnlisted(s) ==
    /\ sock[s].st = "open"
    /\ sock' = [sock EXCEPT ![s].listed = FALSE]
    /\ UNCHANGED <<peers, table, relay, loop, toCli, toSrv, runner>>

(* 120 seconds without an answer: the socket is closed, ...                *)
ReadTimeout(s) ==
    /\ sock[s].st = "open"
    /\ sock' = [sock EXCEPT ![s].st = "closed"]
    /\ UNCHANGED <<peers, table, relay, loop, toCli, toSrv, runner>>

(* ... and then the entry of its phone in its runner's map is deleted,     *)
(* whoever is listed there.                                                *)
Unlist(s) ==
    /\ sock[s].st = "closed" /\ sock[s] # Closed
    /\ LET entry == IF sock[s].listed THEN Session(sock[s].name, sock[s].peer) ELSE {}
       IN  sock' = [t \in Sockets |-> IF t = s THEN Closed
                                      ELSE [sock[t] EXCEPT !.listed = @ /\ t \notin entry]]
    /\ UNCHANGED <<peers, table, relay, loop, toCli, toSrv, runner>>

-----------------------------------------------------------------------------
LoopNext == Rewrite \/ (\E c \in Calls : ByeFromHome(c)) \/ Reuse \/ Create \/ NotMade \/ Notify \/ WriteToPhone
ClientNext == HandleNewRTPRelay \/ HandleCloseRTPRelay \/ HandleUDPPacket

Next ==
    \/ \E x \in Phones : FromPhone(x) \/ \E c \in Calls : ByeFromPhone(x, c)
    \/ LoopNext
    \/ \E r \in Relays : \/ Forward(r) \/ IdleStop(r) \/ IdleTell(r)
                         \/ \E x \in Phones : Receive(r, x)
    \/ ClientNext
    \/ \E s \in Sockets : FromLocal(s) \/ ReadTimeout(s) \/ Unlist(s)

Spec == Init /\ [][Next]_vars

-----------------------------------------------------------------------------
(* Properties. *)

(* README: for each medium, the m= line and the c= address that goes with  *)
(* it, a public port is relayed.  What a phone is told for a medium is the *)
(* port of the relay to where this medium was (as long as the relay runs:  *)
(* rtp_stale_port shows what becomes of one that was stopped).             *)
AnnouncedIsMine ==
    loop.at = "write" =>
        \A i \in DOMAIN Sent.body :
            LET n == IndexOf(loop.body, i)
                r == table[<<loop.call, n>>]
            IN  (/\ Sent.body[i].k = "m" /\ n \in DOMAIN loop.ports
                 /\ r # None /\ relay[r].st = "open")
                    => /\ Sent.body[i].port = relay[r].port
                       /\ relay[r].target = Meant(loop.body, n)

(* While a relay runs, the client that has caught up with the server has a *)
(* runner for it, to its target: no CloseRTPRelay of an earlier relay of   *)
(* the same call and medium takes it away (the two race with BYE, with the *)
(* idle watcher and with a new offer).                                     *)
RunnerServesItsRelay ==
    \A k \in Keys :
        LET r == table[k] IN
        (/\ r # None /\ relay[r].st = "open"
         /\ ~\E m \in ToSet(toCli) : m.name = k /\ m.type # "Packet"
         /\ ~(loop.at = "notify" /\ Key = k))
            => runner[k] = relay[r].target

(* The local service tells phones apart by the client's sockets: at most   *)
(* one is open for a phone of the proxy, though its reader may give it up  *)
(* while the loop forwards.                                                *)
OneSocketPerPhone ==
    \A s, t \in Sockets :
        (/\ sock[s].st = "open" /\ sock[t].st = "open"
         /\ sock[s].name = Proxy /\ sock[t].name = Proxy
         /\ sock[s].peer = sock[t].peer) => s = t

(* Whatever the client sends back for a phone, the proxy knows the phone.  *)
AnswersFindTheirPhone == \A m \in ToSet(toSrv) : m.peer \in peers

(* When that holds: the parser reads every medium as it is meant, and no   *)
(* later offer of a call moves a medium, because its relay is used again.  *)
ReadRight(o) ==
    LET entries == ExtractMediaEntries(o[2])
    IN  \A n \in 0..Len(entries) - 1 : entries[n + 1] = Meant(o[2], n)
Unmoved(o, p) ==
    LET before == ExtractMediaEntries(o[2])
        after == ExtractMediaEntries(p[2])
    IN  o[1] = p[1] => \A n \in DOMAIN before \cap DOMAIN after : before[n] = after[n]
=============================================================================
