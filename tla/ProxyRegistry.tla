--------------------------- MODULE ProxyRegistry ---------------------------
(***************************************************************************)
(* How proxies come and go on the server: the registry of the server       *)
(* (server.go, keyed by transport and port), the proxy map of each control *)
(* session (control.go) and the listeners (proxy.go).                      *)
(*                                                                         *)
(* Three goroutines meet on a session's map: its control loop (NewProxy,   *)
(* ProxyClosed), the dashboard (close a proxy, disconnect a client) and    *)
(* whoever runs Close (heartbeat, dashboard, read error, Shutdown).  Stop  *)
(* and UnregisterProxy are separate steps, the latter goes by key, and     *)
(* handleNewProxy holds no lock from its first look at the map until it    *)
(* stores the proxy there.                                                 *)
(***************************************************************************)
EXTENDS Integers

CONSTANTS
    Sessions,     \* control sessions; a reconnecting client gets one again
    Requests,     \* the NewProxy messages clients send
    PortAllowed,  \* the ports IsPortAllowed accepts
    Proxies,      \* bound: ProxyInfo objects alive at once
    None

(* SIP and IAX run over UDP, SIP-TCP and SIP-TLS over TCP. *)
Transport(type) ==
    CASE type \in {"sip", "iax"} -> "udp"
      [] type \in {"sip-tcp", "sip-tls"} -> "tcp"
      [] OTHER -> type
ProxyKey(q) == <<Transport(q.type), q.port>>
ProxyKeys == {ProxyKey(q) : q \in Requests}
Names == {q.name : q \in Requests}

ASSUME RequestAssumption ==
    \A q \in Requests : DOMAIN q = {"name", "type", "port"}
ASSUME ProxyAssumption == Proxies \subseteq Nat /\ None \notin Proxies
ASSUME NoneAssumption == None \notin {"loop", "close"}

VARIABLES
    registry,  \* Server.proxies
    proxy,     \* the ProxyInfo objects
    proxies,   \* ClientSession.proxies, by session and name
    mu,        \* who holds proxiesMu of a session for writing
    phase,     \* where a session is in its life
    loop,      \* what its control loop is doing
    toSweep,   \* the map entries Close has still to visit
    tasks      \* running pairs "Stop; UnregisterProxy"

vars == <<registry, proxy, proxies, mu, phase, loop, toSweep, tasks>>

(* A proxy object: made (registered, not listening), up (listening), down  *)
(* (listener closed) or dead.  A task runs Stop, then UnregisterProxy.     *)
Dead == [st |-> "dead", key |-> None, owner |-> None]
AtRest == [at |-> "idle", req |-> None, obj |-> None]
Actors == {"loop", "close", "dash"}

TypeOK ==
    /\ registry \in [ProxyKeys -> Proxies \cup {None}]
    /\ proxy \in [Proxies -> [st : {"dead", "made", "up", "down"},
                              key : ProxyKeys \cup {None},
                              owner : Sessions \cup {None}]]
    /\ proxies \in [Sessions -> [Names -> Proxies \cup {None}]]
    /\ mu \in [Sessions -> {"loop", "close", None}]
    /\ phase \in [Sessions -> {"off", "up", "closed", "sweeping", "swept"}]
    /\ loop \in [Sessions -> [at : {"idle", "register", "start", "insert", "closing"},
                              req : Requests \cup {None},
                              obj : Proxies \cup {None}]]
    /\ toSweep \in [Sessions -> SUBSET Names]
    /\ tasks \subseteq [obj : Proxies, session : Sessions, by : Actors,
                        next : {"stop", "unregister"}]

Init ==
    /\ registry = [k \in ProxyKeys |-> None]
    /\ proxy = [p \in Proxies |-> Dead]
    /\ proxies = [s \in Sessions |-> [n \in Names |-> None]]
    /\ mu = [s \in Sessions |-> None]
    /\ phase = [s \in Sessions |-> "off"]
    /\ loop = [s \in Sessions |-> AtRest]
    /\ toSweep = [s \in Sessions |-> {}]
    /\ tasks = {}

Garbage(p) ==
    /\ proxy[p].st = "dead"
    /\ \A s \in Sessions : loop[s].obj # p /\ \A n \in Names : proxies[s][n] # p
    /\ \A t \in tasks : t.obj # p

(* An actor starts Stop and UnregisterProxy on a proxy; it is done when it *)
(* has no task left.                                                       *)
Retire(p, s, by) ==
    tasks' = tasks \cup {[obj |-> p, session |-> s, by |-> by, next |-> "stop"]}
Done(s, by) == \A t \in tasks : ~(t.session = s /\ t.by = by)

-----------------------------------------------------------------------------
(* handleNewProxy, in the session's control loop. *)

(* Mutant: the name is not looked up. *)
CheckNothing(s, q) ==
    /\ phase[s] = "up"
    /\ loop[s].at = "idle"
    /\ loop' = [loop EXCEPT ![s] = [at |-> "register", req |-> q, obj |-> None]]
    /\ UNCHANGED <<registry, proxy, proxies, mu, phase, toSweep, tasks>>

(* The name must be new to the session; the lock is held for this look     *)
(* only.  (An error reply changes nothing here.)                           *)
CheckName(s, q) ==
    /\ phase[s] = "up"
    /\ loop[s].at = "idle"
    /\ mu[s] = None
    /\ proxies[s][q.name] = None
    /\ loop' = [loop EXCEPT ![s] = [at |-> "register", req |-> q, obj |-> None]]
    /\ UNCHANGED <<registry, proxy, proxies, mu, phase, toSweep, tasks>>

MayRegister(q) == registry[ProxyKey(q)] = None /\ q.port \in PortAllowed

Register(s) ==
    LET q == loop[s].req
    IN  /\ loop[s].at = "register"
        /\ MayRegister(q)
        /\ \E p \in Proxies :
            /\ Garbage(p)
            /\ \A o \in Proxies : Garbage(o) => p <= o
            /\ registry' = [registry EXCEPT ![ProxyKey(q)] = p]
            /\ proxy' = [proxy EXCEPT ![p] =
                            [st |-> "made", key |-> ProxyKey(q), owner |-> s]]
            /\ loop' = [loop EXCEPT ![s].at = "start", ![s].obj = p]
        /\ UNCHANGED <<proxies, mu, phase, toSweep, tasks>>

Refuse(s) ==
    /\ loop[s].at = "register"
    /\ ~MayRegister(loop[s].req)
    /\ loop' = [loop EXCEPT ![s] = AtRest]
    /\ UNCHANGED <<registry, proxy, proxies, mu, phase, toSweep, tasks>>

StartOk(s) ==
    LET p == loop[s].obj
    IN  /\ loop[s].at = "start"
        /\ \A o \in Proxies : proxy[o].st = "up" => proxy[o].key # proxy[p].key
        /\ proxy' = [proxy EXCEPT ![p].st = "up"]
        /\ loop' = [loop EXCEPT ![s].at = "insert"]
        /\ UNCHANGED <<registry, proxies, mu, phase, toSweep, tasks>>

(* The port is taken outside this server, or sip-tls has no certificate. *)
StartFails(s) ==
    LET p == loop[s].obj
    IN  /\ loop[s].at = "start"
        /\ registry' = [registry EXCEPT ![proxy[p].key] = None]
        /\ proxy' = [proxy EXCEPT ![p] = Dead]
        /\ loop' = [loop EXCEPT ![s] = AtRest]
        /\ UNCHANGED <<proxies, mu, phase, toSweep, tasks>>

(* Whether the session was closed meanwhile is not looked at. *)
Insert(s) ==
    /\ loop[s].at = "insert"
    /\ mu[s] = None
    /\ proxies' = [proxies EXCEPT ![s][loop[s].req.name] = loop[s].obj]
    /\ loop' = [loop EXCEPT ![s] = AtRest]
    /\ UNCHANGED <<registry, proxy, mu, phase, toSweep, tasks>>

-----------------------------------------------------------------------------
(* Stop and UnregisterProxy, for whoever retires a proxy. *)

(* stopOnce: closing the listener a second time does nothing. *)
StopProxy(t) ==
    /\ t.next = "stop"
    /\ tasks' = (tasks \ {t}) \cup {[t EXCEPT !.next = "unregister"]}
    /\ proxy' = [proxy EXCEPT ![t.obj].st = IF @ = "up" THEN "down" ELSE @]
    /\ UNCHANGED <<registry, proxies, mu, phase, loop, toSweep>>

(* The key is deleted, whichever proxy it stands for. *)
UnregisterProxy(t) ==
    /\ t.next = "unregister"
    /\ tasks' = tasks \ {t}
    /\ registry' = [registry EXCEPT ![proxy[t.obj].key] = None]
    /\ proxy' = [proxy EXCEPT ![t.obj].st = "dead"]
    /\ UNCHANGED <<proxies, mu, phase, loop, toSweep>>

(* handleProxyClosed: under the lock, then the entry is deleted. *)
ProxyClosed(s, n) ==
    /\ phase[s] = "up"
    /\ loop[s].at = "idle"
    /\ mu[s] = None
    /\ proxies[s][n] # None
    /\ mu' = [mu EXCEPT ![s] = "loop"]
    /\ loop' = [loop EXCEPT ![s] = [at |-> "closing", req |-> None,
                                    obj |-> proxies[s][n]]]
    /\ Retire(proxies[s][n], s, "loop")
    /\ UNCHANGED <<registry, proxy, proxies, phase, toSweep>>

ProxyClosedEnd(s) ==
    /\ loop[s].at = "closing"
    /\ Done(s, "loop")
    /\ mu' = [mu EXCEPT ![s] = None]
    /\ proxies' = [proxies EXCEPT ![s] =
                    [n \in Names |-> IF @[n] = loop[s].obj THEN None ELSE @[n]]]
    /\ loop' = [loop EXCEPT ![s] = AtRest]
    /\ UNCHANGED <<registry, proxy, phase, toSweep, tasks>>

(* Mutant: the entry stays in the map while the proxy is retired. *)
CloseProxyInPlace(s, n) ==
    /\ phase[s] # "off"
    /\ mu[s] = None
    /\ proxies[s][n] # None
    /\ Retire(proxies[s][n], s, "dash")
    /\ UNCHANGED <<registry, proxy, proxies, mu, phase, loop, toSweep>>

(* Mutant: closeProxy does not look whether it found the proxy. *)
CloseProxyBlind(s, n) ==
    /\ phase[s] # "off"
    /\ mu[s] = None
    /\ proxies' = [proxies EXCEPT ![s][n] = None]
    /\ Retire(proxies[s][n], s, "dash")
    /\ UNCHANGED <<registry, proxy, mu, phase, loop, toSweep>>

(* closeProxy, for the dashboard: the entry leaves the map under the lock, *)
(* the rest happens without it.                                            *)
CloseProxy(s, n) ==
    /\ phase[s] # "off"
    /\ mu[s] = None
    /\ proxies[s][n] # None
    /\ proxies' = [proxies EXCEPT ![s][n] = None]
    /\ Retire(proxies[s][n], s, "dash")
    /\ UNCHANGED <<registry, proxy, mu, phase, loop, toSweep>>

-----------------------------------------------------------------------------
(* The life of a session. *)

Connect(s) ==
    /\ phase[s] \in {"off", "swept"}
    /\ loop[s].at = "idle"
    /\ phase' = [phase EXCEPT ![s] = "up"]
    /\ proxies' = [proxies EXCEPT ![s] = [n \in Names |-> None]]
    /\ UNCHANGED <<registry, proxy, mu, loop, toSweep, tasks>>

(* Close, once per session: connection, then proxies under their lock. *)
CloseConn(s) ==
    /\ phase[s] = "up"
    /\ phase' = [phase EXCEPT ![s] = "closed"]
    /\ UNCHANGED <<registry, proxy, proxies, mu, loop, toSweep, tasks>>

(* Mutant: Close resets the map before it walks over it. *)
SweepNothing(s) ==
    /\ phase[s] = "closed"
    /\ mu[s] = None
    /\ mu' = [mu EXCEPT ![s] = "close"]
    /\ phase' = [phase EXCEPT ![s] = "sweeping"]
    /\ UNCHANGED <<registry, proxy, proxies, loop, toSweep, tasks>>

SweepBegin(s) ==
    /\ phase[s] = "closed"
    /\ mu[s] = None
    /\ mu' = [mu EXCEPT ![s] = "close"]
    /\ phase' = [phase EXCEPT ![s] = "sweeping"]
    /\ toSweep' = [toSweep EXCEPT ![s] = {n \in Names : proxies[s][n] # None}]
    /\ UNCHANGED <<registry, proxy, proxies, loop, tasks>>

SweepOne(s) ==
    /\ Done(s, "close")
    /\ \E n \in toSweep[s] :
        /\ Retire(proxies[s][n], s, "close")
        /\ toSweep' = [toSweep EXCEPT ![s] = @ \ {n}]
    /\ UNCHANGED <<registry, proxy, proxies, mu, phase, loop>>

SweepEnd(s) ==
    /\ phase[s] = "sweeping"
    /\ toSweep[s] = {}
    /\ Done(s, "close")
    /\ proxies' = [proxies EXCEPT ![s] = [n \in Names |-> None]]
    /\ mu' = [mu EXCEPT ![s] = None]
    /\ phase' = [phase EXCEPT ![s] = "swept"]
    /\ UNCHANGED <<registry, proxy, loop, toSweep, tasks>>

-----------------------------------------------------------------------------
LoopNext(s) ==
    \/ \E q \in Requests : CheckName(s, q)
    \/ Register(s) \/ Refuse(s) \/ StartOk(s) \/ StartFails(s) \/ Insert(s)
    \/ \E n \in Names : ProxyClosed(s, n)
    \/ ProxyClosedEnd(s)

SessionNext(s) ==
    \/ \E n \in Names : CloseProxy(s, n)
    \/ Connect(s) \/ CloseConn(s)
    \/ SweepBegin(s) \/ SweepOne(s) \/ SweepEnd(s)

TaskNext(p) ==
    \E t \in tasks : t.obj = p /\ (StopProxy(t) \/ UnregisterProxy(t))

Next ==
    \/ \E p \in Proxies : TaskNext(p)
    \/ \E s \in Sessions : LoopNext(s) \/ SessionNext(s)

Spec == Init /\ [][Next]_vars

(* Started handlers and tasks run on, and a mutex that is freed again and  *)
(* again is got in the end.  Messages, the dashboard and closing are not   *)
(* fair.                                                                   *)
Fairness ==
    /\ \A p \in Proxies : WF_vars(TaskNext(p))
    /\ \A s \in Sessions :
        /\ WF_vars(Register(s) \/ Refuse(s) \/ StartOk(s) \/ StartFails(s)
                   \/ ProxyClosedEnd(s))
        /\ SF_vars(Insert(s)) /\ SF_vars(SweepBegin(s))
        /\ WF_vars(SweepOne(s) \/ SweepEnd(s))

FairSpec == Spec /\ Fairness

-----------------------------------------------------------------------------
(* Properties. *)

(* The registry is exact: a key is taken when, and only when, one proxy    *)
(* is being started, listens or is being retired under it.  So however     *)
(* Close, ProxyClosed and the dashboard interleave, UnregisterProxy (which *)
(* goes by key) never drops another client's registration, a listener      *)
(* never outlives its key, and a key that is free can be bound.            *)
RegistryExact ==
    \A k \in ProxyKeys, p \in Proxies :
        registry[k] = p <=> proxy[p].st # "dead" /\ proxy[p].key = k

(* The name check of handleNewProxy is still good when the proxy is        *)
(* stored: an entry of a session's map is removed, never replaced.         *)
NamesNeverReplaced ==
    [][\A s \in Sessions, n \in Names :
        proxies[s][n] # None => proxies'[s][n] \in {proxies[s][n], None}]_vars

(* Once Close has begun, every proxy that was in the map is stopped and    *)
(* unregistered, whoever else holds the map's lock or retires it meanwhile. *)
CloseReleasesKeys ==
    \A s \in Sessions, p \in Proxies :
        phase[s] = "closed" /\ (\E n \in Names : proxies[s][n] = p)
            ~> proxy[p].st = "dead"

(* A client that was disconnected leaves no proxy behind once its loop has *)
(* returned.                                                               *)
ClosedSessionOwnsNothing ==
    \A s \in Sessions : phase[s] = "swept" /\ loop[s].at = "idle" =>
        \A p \in Proxies : proxy[p].owner = s => proxy[p].st # "up"
=============================================================================
