------------------------------ MODULE RTPRelay ------------------------------
(***************************************************************************)
(* The RTP relays of the server (server/rtp_relay.go and the relay table   *)
(* of a control session in server/control.go), with the client's side of   *)
(* the NewRTPRelay / CloseRTPRelay exchange (client/proxy.go).             *)
(*                                                                         *)
(* Who runs concurrently:                                                  *)
(*   - workers, the goroutines that handle SIP messages of a session: its  *)
(*     control loop (SIP over UDP, from the inside), the reader of a UDP   *)
(*     proxy and the two pipes of every bridged SIP/TCP connection.  Each  *)
(*     handles one message at a time: a message with SDP creates or reuses *)
(*     relays (getOrCreateRTPRelays), a BYE releases those of its call;    *)
(*   - one idle watcher per relay;                                         *)
(*   - whoever closes the session (heartbeat, dashboard, read error).      *)
(* They share the port pool (its own mutex: one step), the relay table     *)
(* (rtpRelaysMu, held across steps where the code holds it) and the        *)
(* control connection, whose buffer is finite: sendMsg blocks when it is   *)
(* full.                                                                   *)
(***************************************************************************)
EXTENDS Integers, Sequences, TLC

CONSTANTS
    Sessions,     \* control sessions of the server
    Workers,      \* goroutines that handle SIP messages
    Loops,        \* the workers that are the control loop of their session
    Rewriters,    \* the workers on the way out, which rewrite SDP; the others
                  \* (UDP reader, inbound pipe) only look for a BYE
    SessionOf,    \* the session a worker belongs to
    Calls,        \* Call-IDs
    MaxMedia,     \* bound: media entries in one SDP
    Relays,       \* bound: RTPRelay objects alive at once
    AllowPorts,   \* allowPorts of the configuration, a sequence of ranges
    RTPBase,      \* 10000: ports below it are for signalling
    DefaultEnd,   \* 20000: the end of the pool nobody configured
    WireCap,      \* messages the control connection buffers
    Answers,      \* what a client may answer to NewRTPRelay (voxcli: TRUE)
    None          \* nobody, nothing

Keys == Calls \X (0 .. MaxMedia - 1)    \* the code's "callID#mediaIdx"

ASSUME SessionAssumption ==
    /\ SessionOf \in [Workers -> Sessions]
    /\ Loops \subseteq Workers
    /\ Rewriters \subseteq Workers
    /\ Answers \subseteq BOOLEAN
ASSUME BoundAssumption ==
    /\ Relays \subseteq Nat
    /\ MaxMedia \in Nat \ {0}
    /\ WireCap \in Nat \ {0}
ASSUME NoneAssumption ==
    /\ None \notin Relays \cup Keys
    /\ None \notin Workers \cup Sessions
    /\ Workers \cap Sessions = {}

-----------------------------------------------------------------------------
(* The pool: the configured ranges that reach RTPBase, each cut at RTPBase; *)
(* a single default range when there is none.                               *)

Pool ==
    LET kept == SelectSeq(AllowPorts, LAMBDA r : r.end >= RTPBase)
        cut(r) == [r EXCEPT !.start = IF @ < RTPBase THEN RTPBase ELSE @]
    IN  IF kept = <<>>
        THEN <<[start |-> RTPBase, end |-> DefaultEnd]>>
        ELSE [i \in DOMAIN kept |-> cut(kept[i])]

PortsOf(i) == Pool[i].start .. Pool[i].end
PoolPorts == UNION {PortsOf(i) : i \in DOMAIN Pool}

(* Alloc returns 0 for "none": 0 is no port of the pool. *)
ASSUME ZeroAssumption == 0 \notin PoolPorts

VARIABLES
    used,     \* rtpPortPool.used
    relay,    \* the RTPRelay objects
    table,    \* ClientSession.rtpRelays, by session and key
    mu,       \* who holds rtpRelaysMu of a session
    phase,    \* where a session is between use and the end of Close
    worker,   \* what each worker is doing
    wire,     \* RTP messages on the control connection, server to client
    refused   \* NewRTPRelayResp{OK: false} on their way back

vars == <<used, relay, table, mu, phase, worker, wire, refused>>

(* Mutant: Alloc forgets to look at used. *)
FirstFitBlind(p) ==
    \E i \in DOMAIN Pool : p \in PortsOf(i) /\ \A q \in PortsOf(i) : p <= q

(* The port the next Alloc returns: the lowest free one of the first range *)
(* that has a free one.                                                    *)
FirstFit(p) ==
    \E i \in DOMAIN Pool :
        /\ p \in PortsOf(i) \ used
        /\ \A q \in PortsOf(i) \ used : p <= q
        /\ \A j \in 1 .. i - 1 : PortsOf(j) \subseteq used

-----------------------------------------------------------------------------
(* A relay object is                                                       *)
(*   dead     not allocated, or stopped for good;                          *)
(*   made     built around an allocated port, not listening yet;           *)
(*   open     listening;                                                   *)
(*   closing  inside Stop: socket closed, port not given back;             *)
(*   freed    inside Stop: port given back, client not told yet.           *)
(* Stop runs under closeOnce, so nobody starts it twice, and a second      *)
(* caller waits until it is dead.                                          *)

RelayStates == {"dead", "made", "open", "closing", "freed"}
Messages == [type : {"NewRTPRelay", "CloseRTPRelay"}, key : Keys]

Idle == [at |-> "idle", key |-> None, last |-> 0, obj |-> None,
         doomed |-> {}, tell |-> FALSE]
Looking(k, last) ==
    [at |-> "lookup", key |-> k, last |-> last, obj |-> None,
     doomed |-> {}, tell |-> FALSE]
Releasing(keys, tell) ==
    [at |-> "release", key |-> None, last |-> 0, obj |-> None,
     doomed |-> keys, tell |-> tell]
Dead == [st |-> "dead", port |-> 0, home |-> None, key |-> None,
         tell |-> FALSE]

RelayObjects ==
    [st : RelayStates, port : PoolPorts \cup {0}, home : Sessions \cup {None},
     key : Keys \cup {None}, tell : BOOLEAN]

Working == {"lookup", "alloc", "start", "insert", "notify"}
Errands ==
    [at : Working \cup {"idle", "release"}, key : Keys \cup {None},
     last : 0 .. MaxMedia - 1, obj : Relays \cup {None},
     doomed : SUBSET Keys, tell : BOOLEAN]

TypeOK ==
    /\ used \subseteq PoolPorts
    /\ relay \in [Relays -> RelayObjects]
    /\ table \in [Sessions -> [Keys -> Relays \cup {None}]]
    /\ mu \in [Sessions -> Workers \cup Sessions \cup {None}]
    /\ phase \in [Sessions -> {"up", "closed", "sweeping", "swept"}]
    /\ worker \in [Workers -> Errands]
    /\ wire \in [Sessions -> Seq(Messages)]
    /\ refused \in [Sessions -> Seq(Keys)]

Init ==
    /\ used = {}
    /\ relay = [r \in Relays |-> Dead]
    /\ table = [s \in Sessions |-> [k \in Keys |-> None]]
    /\ mu = [s \in Sessions |-> None]
    /\ phase = [s \in Sessions |-> "up"]
    /\ worker = [w \in Workers |-> Idle]
    /\ wire = [s \in Sessions |-> <<>>]
    /\ refused = [s \in Sessions |-> <<>>]

(* Nothing refers to object r any more: its name may be used again. *)
Garbage(r) ==
    /\ relay[r].st = "dead"
    /\ \A s \in Sessions, k \in Keys : table[s][k] # r
    /\ \A w \in Workers : worker[w].obj # r

(* The object once its Stop is over; one in no table is as good as gone.   *)
Stopped(r) ==
    IF \E s \in Sessions, k \in Keys : table[s][k] = r
    THEN [relay[r] EXCEPT !.st = "dead", !.tell = FALSE]
    ELSE Dead

(* sendMsg: it waits for room on an open connection and fails at once on a *)
(* closed one.                                                             *)
CanSend(s) == phase[s] = "up" => Len(wire[s]) < WireCap
Send(s, type, k) ==
    wire' = IF phase[s] = "up"
            THEN [wire EXCEPT ![s] = Append(@, [type |-> type, key |-> k])]
            ELSE wire

-----------------------------------------------------------------------------
(* getOrCreateRTPRelays, step by step between its locks. *)

(* A control loop ends with its connection; a bridged SIP/TCP connection   *)
(* outlives the session it was opened under.                               *)
MayWork(w) ==
    /\ worker[w].at = "idle"
    /\ w \in Loops => phase[SessionOf[w]] = "up"

(* A SIP message of call c with n usable media entries arrives. *)
Offer(w, c, n) ==
    /\ MayWork(w)
    /\ w \in Rewriters
    /\ worker' = [worker EXCEPT ![w] =
                    Looking(<<c, 0>>, n - 1)]
    /\ UNCHANGED <<used, relay, table, mu, phase, wire, refused>>

(* Mutant: the loop over the media entries runs once too often. *)
AfterEntryLate(w) ==
    LET k == worker[w].key
    IN  IF k[2] > worker[w].last
        THEN Idle
        ELSE Looking(<<k[1], k[2] + 1>>, worker[w].last)

(* What w does after the current media entry: the next one, or return. *)
AfterEntry(w) ==
    LET k == worker[w].key
    IN  IF k[2] = worker[w].last
        THEN Idle
        ELSE Looking(<<k[1], k[2] + 1>>, worker[w].last)

(* The table is read under its lock and the lock dropped at once. *)
Lookup(w) ==
    LET s == SessionOf[w]
    IN  /\ worker[w].at = "lookup"
        /\ mu[s] = None
        /\ worker' = [worker EXCEPT ![w] =
                        IF table[s][worker[w].key] # None
                        THEN AfterEntry(w)
                        ELSE [@ EXCEPT !.at = "alloc"]]
        /\ UNCHANGED <<used, relay, table, mu, phase, wire, refused>>

Alloc(w) ==
    /\ worker[w].at = "alloc"
    /\ \E r \in Relays, p \in PoolPorts :
        /\ FirstFit(p)
        /\ Garbage(r)
        /\ \A q \in Relays : Garbage(q) => r <= q
        /\ used' = used \cup {p}
        /\ relay' = [relay EXCEPT ![r] =
                        [st |-> "made", port |-> p, home |-> SessionOf[w],
                         key |-> worker[w].key, tell |-> FALSE]]
        /\ worker' = [worker EXCEPT ![w].at = "start", ![w].obj = r]
    /\ UNCHANGED <<table, mu, phase, wire, refused>>

(* Alloc returned 0: the entry gets no relay. *)
Exhausted(w) ==
    /\ worker[w].at = "alloc"
    /\ PoolPorts \subseteq used
    /\ worker' = [worker EXCEPT ![w] = AfterEntry(w)]
    /\ UNCHANGED <<used, relay, table, mu, phase, wire, refused>>

(* ListenUDP succeeds: no other relay's socket is bound to the port. *)
StartOk(w) ==
    LET r == worker[w].obj
    IN  /\ worker[w].at = "start"
        /\ \A q \in Relays : relay[q].st = "open" => relay[q].port # relay[r].port
        /\ relay' = [relay EXCEPT ![r].st = "open"]
        /\ worker' = [worker EXCEPT ![w].at = "insert"]
        /\ UNCHANGED <<used, table, mu, phase, wire, refused>>

(* ListenUDP fails, whatever the reason (another program, or a UDP proxy,  *)
(* may have the port): it goes back to the pool and the entry gets none.   *)
StartFails(w) ==
    LET r == worker[w].obj
    IN  /\ worker[w].at = "start"
        /\ relay' = [relay EXCEPT ![r] = Dead]
        /\ used' = used \ {relay[r].port}
        /\ worker' = [worker EXCEPT ![w] = AfterEntry(w)]
        /\ UNCHANGED <<table, mu, phase, wire, refused>>

(* The relay is stored without a second look at the table, nor at the      *)
(* session having been closed meanwhile.                                   *)
Insert(w) ==
    LET s == SessionOf[w]
    IN  /\ worker[w].at = "insert"
        /\ mu[s] = None
        /\ table' = [table EXCEPT ![s][worker[w].key] = worker[w].obj]
        /\ worker' = [worker EXCEPT ![w].at = "notify"]
        /\ UNCHANGED <<used, relay, mu, phase, wire, refused>>

Notify(w) ==
    LET s == SessionOf[w]
    IN  /\ worker[w].at = "notify"
        /\ CanSend(s)
        /\ Send(s, "NewRTPRelay", worker[w].key)
        /\ worker' = [worker EXCEPT ![w] = AfterEntry(w)]
        /\ UNCHANGED <<used, relay, table, mu, phase, refused>>

-----------------------------------------------------------------------------
(* RTPRelay.Stop: close the socket, free the port, tell the client. *)

StopBegin(r, tell) ==
    relay' = [relay EXCEPT ![r].st = "closing", ![r].tell = tell]

(* Mutant: the client is told before the port is freed. *)
StopFreeAfterSend(r) ==
    /\ relay[r].st = "closing"
    /\ CanSend(relay[r].home)
    /\ used' = used \ {relay[r].port}
    /\ relay' = [relay EXCEPT ![r] =
                    IF relay[r].tell THEN [@ EXCEPT !.st = "freed"] ELSE Stopped(r)]
    /\ UNCHANGED <<table, mu, phase, worker, wire, refused>>

(* The port is freed by number; a silent Stop is then over. *)
StopFree(r) ==
    /\ relay[r].st = "closing"
    /\ used' = used \ {relay[r].port}
    /\ relay' = [relay EXCEPT ![r] =
                    IF relay[r].tell THEN [@ EXCEPT !.st = "freed"] ELSE Stopped(r)]
    /\ UNCHANGED <<table, mu, phase, worker, wire, refused>>

StopTell(r) ==
    /\ relay[r].st = "freed"
    /\ CanSend(relay[r].home)
    /\ Send(relay[r].home, "CloseRTPRelay", relay[r].key)
    /\ relay' = [relay EXCEPT ![r] = Stopped(r)]
    /\ UNCHANGED <<used, table, mu, phase, worker, refused>>

(* Mutant: Stop without closeOnce, so the idle watcher of a relay that is  *)
(* stopped but still in the table stops it again.                          *)
IdleStopAgain(r) ==
    /\ relay[r].key # None
    /\ relay[r].st \in {"open", "dead"}
    /\ StopBegin(r, TRUE)
    /\ UNCHANGED <<used, table, mu, phase, worker, wire, refused>>

(* idleWatch: more than 60 seconds without a packet, which can come to     *)
(* pass at any time after Start.  The relay stays in the session's table.  *)
IdleStop(r) ==
    /\ relay[r].st = "open"
    /\ StopBegin(r, TRUE)
    /\ UNCHANGED <<used, table, mu, phase, worker, wire, refused>>

-----------------------------------------------------------------------------
(* Stop and delete the relays of some keys, holding rtpRelaysMu throughout: *)
(* releaseRTPRelays for a BYE, handleNewRTPRelayResp for a refusal.         *)

TakeAndDoom(w, keys, tell) ==
    LET s == SessionOf[w]
    IN  /\ MayWork(w)
        /\ mu[s] = None
        /\ mu' = [mu EXCEPT ![s] = w]
        /\ worker' = [worker EXCEPT ![w] =
                        Releasing({k \in keys : table[s][k] # None}, tell)]

ReleaseBegin(w, c) ==
    /\ TakeAndDoom(w, {k \in Keys : k[1] = c}, TRUE)
    /\ UNCHANGED <<used, relay, table, phase, wire, refused>>

RefusalBegin(w) ==
    LET s == SessionOf[w]
    IN  /\ w \in Loops
        /\ refused[s] # <<>>
        /\ TakeAndDoom(w, {Head(refused[s])}, FALSE)
        /\ refused' = [refused EXCEPT ![s] = Tail(@)]
        /\ UNCHANGED <<used, relay, table, phase, wire>>

(* One entry after the other, in any order (a Go map). *)
ReleasePick(w) ==
    /\ worker[w].at = "release"
    /\ worker[w].key = None
    /\ \E k \in worker[w].doomed :
        worker' = [worker EXCEPT ![w].key = k]
    /\ UNCHANGED <<used, relay, table, mu, phase, wire, refused>>

(* closeOnce: only a relay nobody has stopped yet is stopped here. *)
ReleaseStop(w) ==
    LET s == SessionOf[w]
        k == worker[w].key
    IN  /\ worker[w].at = "release"
        /\ k # None
        /\ relay[table[s][k]].st = "open"
        /\ StopBegin(table[s][k], worker[w].tell)
        /\ UNCHANGED <<used, table, mu, phase, worker, wire, refused>>

(* Stop has returned, whoever ran it: the entry is deleted. *)
ReleaseDelete(w) ==
    LET s == SessionOf[w]
        k == worker[w].key
    IN  /\ worker[w].at = "release"
        /\ k # None
        /\ relay[table[s][k]].st = "dead"
        /\ table' = [table EXCEPT ![s][k] = None]
        /\ relay' = [relay EXCEPT ![table[s][k]] = Dead]
        /\ worker' = [worker EXCEPT ![w].doomed = @ \ {k}, ![w].key = None]
        /\ UNCHANGED <<used, mu, phase, wire, refused>>

(* Mutant: a BYE for a call without relays returns without the Unlock. *)
ReleaseEndLocked(w) ==
    /\ worker[w].at = "release"
    /\ worker[w].doomed = {}
    /\ worker' = [worker EXCEPT ![w] = Idle]
    /\ UNCHANGED <<used, relay, table, mu, phase, wire, refused>>

ReleaseEnd(w) ==
    /\ worker[w].at = "release"
    /\ worker[w].doomed = {}
    /\ mu' = [mu EXCEPT ![SessionOf[w]] = None]
    /\ worker' = [worker EXCEPT ![w] = Idle]
    /\ UNCHANGED <<used, relay, table, phase, wire, refused>>

-----------------------------------------------------------------------------
(* ClientSession.Close, under its closeOnce: the connection first, then    *)
(* every relay of the table under its lock, without telling the client.    *)

CloseConn(s) ==
    /\ phase[s] = "up"
    /\ phase' = [phase EXCEPT ![s] = "closed"]
    /\ wire' = [wire EXCEPT ![s] = <<>>]
    /\ refused' = [refused EXCEPT ![s] = <<>>]
    /\ UNCHANGED <<used, relay, table, mu, worker>>

SweepBegin(s) ==
    /\ phase[s] = "closed"
    /\ mu[s] = None
    /\ mu' = [mu EXCEPT ![s] = s]
    /\ phase' = [phase EXCEPT ![s] = "sweeping"]
    /\ UNCHANGED <<used, relay, table, worker, wire, refused>>

(* One Stop after the other: none of this loop is under way. *)
SweepStop(s) ==
    /\ phase[s] = "sweeping"
    /\ \A k \in Keys : table[s][k] # None =>
        ~(relay[table[s][k]].st = "closing" /\ ~relay[table[s][k]].tell)
    /\ \E k \in Keys :
        /\ table[s][k] # None
        /\ relay[table[s][k]].st = "open"
        /\ StopBegin(table[s][k], FALSE)
    /\ UNCHANGED <<used, table, mu, phase, worker, wire, refused>>

SweepEnd(s) ==
    /\ phase[s] = "sweeping"
    /\ \A k \in Keys : table[s][k] # None => relay[table[s][k]].st = "dead"
    /\ table' = [table EXCEPT ![s] = [k \in Keys |-> None]]
    /\ relay' = [r \in Relays |->
                    IF \E k \in Keys : table[s][k] = r THEN Dead ELSE relay[r]]
    /\ mu' = [mu EXCEPT ![s] = None]
    /\ phase' = [phase EXCEPT ![s] = "swept"]
    /\ UNCHANGED <<used, worker, wire, refused>>

-----------------------------------------------------------------------------
(* The client reads the control connection: it answers a NewRTPRelay, and  *)
(* only a refusal makes the server do anything.                            *)

ClientReads(s) ==
    /\ wire[s] # <<>>
    /\ wire' = [wire EXCEPT ![s] = Tail(@)]
    /\ \E ok \in Answers :
        IF Head(wire[s]).type = "NewRTPRelay" /\ ~ok
        THEN /\ Len(refused[s]) < WireCap
             /\ refused' = [refused EXCEPT ![s] = Append(@, Head(wire[s]).key)]
        ELSE UNCHANGED refused
    /\ UNCHANGED <<used, relay, table, mu, phase, worker>>

-----------------------------------------------------------------------------
WorkerNext(w) ==
    \/ \E c \in Calls, n \in 1 .. MaxMedia : Offer(w, c, n)
    \/ Lookup(w) \/ Alloc(w) \/ Exhausted(w)
    \/ StartOk(w) \/ StartFails(w) \/ Insert(w) \/ Notify(w)
    \/ \E c \in Calls : ReleaseBegin(w, c)
    \/ RefusalBegin(w)
    \/ ReleasePick(w) \/ ReleaseStop(w) \/ ReleaseDelete(w) \/ ReleaseEnd(w)

RelayNext(r) == StopFree(r) \/ StopTell(r) \/ IdleStop(r)

SessionNext(s) ==
    \/ CloseConn(s) \/ SweepBegin(s) \/ SweepStop(s) \/ SweepEnd(s)
    \/ ClientReads(s)

Next ==
    \/ \E w \in Workers : WorkerNext(w)
    \/ \E r \in Relays : RelayNext(r)
    \/ \E s \in Sessions : SessionNext(s)

Spec == Init /\ [][Next]_vars

(* Goroutines that can run do run, and a mutex is not kept from one that   *)
(* waits for it forever.  Messages, packets, closing and the client's      *)
(* progress are up to the environment: no fairness.                        *)
Fairness ==
    /\ \A w \in Workers :
        /\ SF_vars(Lookup(w) \/ Insert(w))
        /\ WF_vars(Alloc(w) \/ Exhausted(w) \/ StartOk(w) \/ StartFails(w))
        /\ WF_vars(Notify(w))
        /\ WF_vars(ReleasePick(w) \/ ReleaseStop(w) \/ ReleaseDelete(w)
                   \/ ReleaseEnd(w))
    /\ \A r \in Relays : WF_vars(StopFree(r)) /\ WF_vars(StopTell(r))
    /\ \A s \in Sessions : SF_vars(SweepBegin(s))
                           /\ WF_vars(SweepStop(s) \/ SweepEnd(s))

FairSpec == Spec /\ Fairness
-----------------------------------------------------------------------------
(* Properties. *)

(* A relay holds its port from Alloc until Stop or a failed Start frees it. *)
Holds(r) == relay[r].st \in {"made", "open", "closing"}

(* rtpPortPool.used is exact: a port is marked used when, and only when,   *)
(* some relay holds it, so no path (BYE, idle timeout, refusal, failed     *)
(* Start, session close, in any interleaving) leaks a port or frees it     *)
(* twice; and no two relays hold the same port.                            *)
PortOwnership ==
    /\ used = {relay[r].port : r \in {q \in Relays : Holds(q)}}
    /\ \A q, r \in Relays :
         q # r /\ Holds(q) /\ Holds(r) => relay[q].port # relay[r].port

(* Seen through its ports, the relay code implements PortLease. *)
Lease == INSTANCE PortLease WITH
            Holders <- Relays, LeasePorts <- PoolPorts, NoPort <- 0,
            lease <- [r \in Relays |-> IF Holds(r) THEN relay[r].port ELSE 0]
LeaseRefinement == Lease!LeaseSpec

(* README "RTP 媒体中继", 回收时机: a relay nobody sends through any more  *)
(* gives its port back, also when a BYE, the end of the session and the    *)
(* idle watcher meet on it, and when the client has stopped reading.       *)
TrafficEnds(r) == WF_vars(IdleStop(r))
IdleReclaimed ==
    \A r \in Relays : TrafficEnds(r) => (Holds(r) ~> ~Holds(r))

(* Close reaches its end although relays' Stop and a worker blocked in     *)
(* sendMsg hold its lock: closing the connection first unblocks them, with *)
(* no help from the client.                                                *)
CloseCompletes ==
    \A s \in Sessions : phase[s] = "closed" ~> phase[s] = "swept"

(* Two entries of the relay tables never stand for the same public port,   *)
(* so a SIP message is never given the port of another call's media.       *)
TablePortsDistinct ==
    \A s, t \in Sessions, k, m \in Keys :
        /\ <<s, k>> # <<t, m>>
        /\ table[s][k] # None
        /\ table[t][m] # None
        => relay[table[s][k]].port # relay[table[t][m]].port
=============================================================================
