------------------------ MODULE ProxyRegistryProofs ------------------------
(***************************************************************************)
(* What ProxyRegistry guarantees for any number of sessions, requests and  *)
(* proxy objects: its type invariant, that the registry is exact, and that *)
(* no entry of a session's map is ever replaced.                           *)
(***************************************************************************)
EXTENDS ProxyRegistry, TLAPS

(* A proxy that is in use has a key of the registry. *)
Keyed == \A p \in Proxies : proxy[p].st # "dead" => proxy[p].key \in ProxyKeys

(* A proxy is retired by one task at a time, and has come as far as the    *)
(* task says.                                                              *)
TasksExact ==
    /\ \A t \in tasks : proxy[t.obj].st = IF t.next = "stop" THEN "up" ELSE "down"
    /\ \A t, u \in tasks : t.obj = u.obj => t = u

(* The proxy a loop has registered is known to nobody else until it is     *)
(* stored under its name, which is free.                                   *)
Fresh(s) == loop[s].at \in {"start", "insert"}
LoopsPrivate ==
    /\ \A s \in Sessions : loop[s].at \in {"register", "start", "insert"} =>
        /\ loop[s].req \in Requests
        /\ proxies[s][loop[s].req.name] = None
    /\ \A s \in Sessions : Fresh(s) =>
        /\ loop[s].obj \in Proxies
        /\ proxy[loop[s].obj].st = IF loop[s].at = "start" THEN "made" ELSE "up"
        /\ \A t \in tasks : t.obj # loop[s].obj
        /\ \A u \in Sessions : u # s /\ Fresh(u) => loop[u].obj # loop[s].obj
        /\ \A u \in Sessions, n \in Names : proxies[u][n] # loop[s].obj

(* The lock of a map is held by whoever retires its entries in place. *)
LocksHeld ==
    \A s \in Sessions :
        /\ loop[s].at = "closing" <=> mu[s] = "loop"
        /\ phase[s] = "sweeping" <=> mu[s] = "close"
        /\ toSweep[s] # {} => phase[s] = "sweeping"
        /\ \A n \in toSweep[s] : proxies[s][n] # None

(* A proxy is in one map under one name.  Unless its entry is being        *)
(* retired in place, it listens and nobody has begun to retire it.         *)
InPlace(s, n) ==
    \/ loop[s].at = "closing" /\ loop[s].obj = proxies[s][n]
    \/ phase[s] = "sweeping" /\ n \notin toSweep[s]
MapsExact ==
    /\ \A s, u \in Sessions, n, m \in Names :
        proxies[s][n] # None /\ proxies[s][n] = proxies[u][m] => s = u /\ n = m
    /\ \A s \in Sessions, n \in Names :
        proxies[s][n] # None /\ ~InPlace(s, n) =>
            /\ proxy[proxies[s][n]].st = "up"
            /\ \A t \in tasks : t.obj # proxies[s][n]

(* That the registry is exact is not inductive: UnregisterProxy goes by    *)
(* key, which is right only if the key is still that of the proxy retired. *)
IInv ==
    /\ TypeOK
    /\ RegistryExact
    /\ Keyed
    /\ TasksExact
    /\ LoopsPrivate
    /\ LocksHeld
    /\ MapsExact

-----------------------------------------------------------------------------
LEMMA InitIInv == Init => IInv
<1> SUFFICES ASSUME Init PROVE IInv
  OBVIOUS
<1>1. TypeOK
  BY DEF Init, TypeOK, Dead, AtRest
<1>2. RegistryExact /\ Keyed /\ TasksExact
  BY ProxyAssumption DEF Init, RegistryExact, Keyed, TasksExact, Dead
<1>3. LoopsPrivate
  BY DEF Init, LoopsPrivate, Fresh, AtRest
<1>4. LocksHeld
  BY NoneAssumption DEF Init, LocksHeld, AtRest
<1>5. MapsExact
  BY DEF Init, MapsExact
<1> QED
  BY <1>1, <1>2, <1>3, <1>4, <1>5 DEF IInv

LEMMA CheckNameKeeps ==
    ASSUME IInv, NEW s \in Sessions, NEW q \in Requests, CheckName(s, q)
    PROVE  IInv'
<1> USE DEF CheckName
<1>1. TypeOK'
  BY DEF IInv, TypeOK
<1>2. RegistryExact' /\ Keyed' /\ TasksExact'
  BY DEF IInv, RegistryExact, Keyed, TasksExact
<1>3. LoopsPrivate'
  BY DEF IInv, TypeOK, LoopsPrivate, Fresh
<1>4. LocksHeld' /\ MapsExact'
  BY DEF IInv, TypeOK, LocksHeld, MapsExact, InPlace
<1> QED
  BY <1>1, <1>2, <1>3, <1>4 DEF IInv

LEMMA RegisterKeeps ==
    ASSUME IInv, NEW s \in Sessions, Register(s)
    PROVE  IInv'
<1> DEFINE q == loop[s].req
           k == ProxyKey(q)
<1>1. /\ loop[s].at = "register" /\ q \in Requests /\ k \in ProxyKeys
      /\ registry[k] = None
  BY DEF IInv, LoopsPrivate, Register, MayRegister, ProxyKeys
<1>2. PICK p \in Proxies :
        /\ Garbage(p)
        /\ registry' = [registry EXCEPT ![k] = p]
        /\ proxy' = [proxy EXCEPT ![p] = [st |-> "made", key |-> k, owner |-> s]]
        /\ loop' = [loop EXCEPT ![s].at = "start", ![s].obj = p]
        /\ UNCHANGED <<proxies, mu, phase, toSweep, tasks>>
  BY DEF Register
<1> HIDE DEF k, q
<1>3. TypeOK'
  <2>1. registry' \in [ProxyKeys -> Proxies \cup {None}]
    BY <1>1, <1>2 DEF IInv, TypeOK
  <2>2. proxy' \in [Proxies -> [st : {"dead", "made", "up", "down"},
                               key : ProxyKeys \cup {None}, owner : Sessions \cup {None}]]
    BY <1>1, <1>2 DEF IInv, TypeOK
  <2>3. loop' \in [Sessions -> [at : {"idle", "register", "start", "insert", "closing"},
                               req : Requests \cup {None}, obj : Proxies \cup {None}]]
    <3> DEFINE L == [at : {"idle", "register", "start", "insert", "closing"},
                     req : Requests \cup {None}, obj : Proxies \cup {None}]
               n == [loop[s] EXCEPT !.at = "start", !.obj = p]
    <3>1. loop \in [Sessions -> L]
      BY DEF IInv, TypeOK
    <3>2. n \in L
      BY <3>1
    <3>3. loop' = [loop EXCEPT ![s] = n]
      BY <1>2, <3>1
    <3> HIDE DEF L, n
    <3>4. loop' \in [Sessions -> L]
      BY <3>1, <3>2, <3>3
    <3> QED
      BY <3>4 DEF L
  <2> QED
    BY <1>2, <2>1, <2>2, <2>3 DEF IInv, TypeOK
<1>4. RegistryExact' /\ Keyed'
  BY <1>1, <1>2, ProxyAssumption DEF IInv, TypeOK, RegistryExact, Keyed, Garbage
<1>5. TasksExact'
  BY <1>2 DEF IInv, TypeOK, TasksExact, Garbage
<1>6. LoopsPrivate'
  BY <1>1, <1>2 DEF IInv, TypeOK, LoopsPrivate, Fresh, Garbage
<1>7. LocksHeld' /\ MapsExact'
  BY <1>1, <1>2 DEF IInv, TypeOK, LocksHeld, MapsExact, InPlace, Garbage
<1> QED
  BY <1>3, <1>4, <1>5, <1>6, <1>7 DEF IInv

LEMMA RefuseKeeps ==
    ASSUME IInv, NEW s \in Sessions, Refuse(s)
    PROVE  IInv'
<1> USE DEF Refuse, AtRest
<1>1. TypeOK'
  BY DEF IInv, TypeOK
<1>2. RegistryExact' /\ Keyed' /\ TasksExact'
  BY DEF IInv, RegistryExact, Keyed, TasksExact
<1>3. LoopsPrivate'
  BY DEF IInv, TypeOK, LoopsPrivate, Fresh
<1>4. LocksHeld' /\ MapsExact'
  BY DEF IInv, TypeOK, LocksHeld, MapsExact, InPlace
<1> QED
  BY <1>1, <1>2, <1>3, <1>4 DEF IInv

LEMMA StartOkKeeps ==
    ASSUME IInv, NEW s \in Sessions, StartOk(s)
    PROVE  IInv'
<1> DEFINE p == loop[s].obj
<1>1. /\ Fresh(s) /\ p \in Proxies /\ proxy[p].st = "made"
      /\ \A t \in tasks : t.obj # p
      /\ \A u \in Sessions, n \in Names : proxies[u][n] # p
  BY DEF IInv, LoopsPrivate, Fresh, StartOk
<1>2. /\ loop[s].at = "start"
      /\ proxy' = [proxy EXCEPT ![p].st = "up"]
      /\ loop' = [loop EXCEPT ![s].at = "insert"]
      /\ UNCHANGED <<registry, proxies, mu, phase, toSweep, tasks>>
  BY DEF StartOk
<1>3. TypeOK'
  <2> DEFINE P == [st : {"dead", "made", "up", "down"}, key : ProxyKeys \cup {None},
                   owner : Sessions \cup {None}]
             L == [at : {"idle", "register", "start", "insert", "closing"},
                   req : Requests \cup {None}, obj : Proxies \cup {None}]
  <2>1. proxy \in [Proxies -> P] /\ loop \in [Sessions -> L]
    BY DEF IInv, TypeOK
  <2>2. [proxy[p] EXCEPT !.st = "up"] \in P /\ [loop[s] EXCEPT !.at = "insert"] \in L
    BY <1>1, <2>1
  <2> HIDE DEF p, P, L
  <2>3. proxy' \in [Proxies -> P] /\ loop' \in [Sessions -> L]
    BY <1>2, <2>1, <2>2
  <2> QED
    BY <1>2, <2>3 DEF IInv, TypeOK, P, L
<1>4. RegistryExact' /\ Keyed' /\ TasksExact'
  BY <1>1, <1>2 DEF IInv, TypeOK, RegistryExact, Keyed, TasksExact
<1>5. LoopsPrivate'
  BY <1>1, <1>2 DEF IInv, TypeOK, LoopsPrivate, Fresh
<1>6. LocksHeld' /\ MapsExact'
  BY <1>1, <1>2 DEF IInv, TypeOK, LocksHeld, MapsExact, InPlace
<1> QED
  BY <1>3, <1>4, <1>5, <1>6 DEF IInv

LEMMA StartFailsKeeps ==
    ASSUME IInv, NEW s \in Sessions, StartFails(s)
    PROVE  IInv'
<1> DEFINE p == loop[s].obj
<1>1. /\ Fresh(s) /\ p \in Proxies /\ proxy[p].st = "made"
      /\ proxy[p].key \in ProxyKeys /\ registry[proxy[p].key] = p
      /\ \A t \in tasks : t.obj # p
      /\ \A u \in Sessions, n \in Names : proxies[u][n] # p
  BY DEF IInv, LoopsPrivate, Fresh, StartFails, Keyed, RegistryExact
<1>2. /\ loop[s].at = "start"
      /\ registry' = [registry EXCEPT ![proxy[p].key] = None]
      /\ proxy' = [proxy EXCEPT ![p] = Dead]
      /\ loop' = [loop EXCEPT ![s] = AtRest]
      /\ UNCHANGED <<proxies, mu, phase, toSweep, tasks>>
  BY DEF StartFails
<1>3. TypeOK'
  BY <1>1, <1>2 DEF IInv, TypeOK, Dead, AtRest
<1>4. RegistryExact' /\ Keyed'
  BY <1>1, <1>2, ProxyAssumption DEF IInv, TypeOK, RegistryExact, Keyed, Dead
<1>5. TasksExact'
  BY <1>1, <1>2 DEF IInv, TypeOK, TasksExact, Dead
<1>6. LoopsPrivate'
  <2>1. DOMAIN loop = Sessions /\ DOMAIN proxy = Proxies
    BY DEF IInv, TypeOK
  <2>2. /\ loop'[s].at = "idle" /\ \A u \in Sessions : u # s => loop'[u] = loop[u]
        /\ \A q \in Proxies : q # p => proxy'[q] = proxy[q]
    BY <1>2, <2>1 DEF AtRest
  <2>3. \A u \in Sessions : u # s /\ Fresh(u) => loop[u].obj # p
    BY <1>1 DEF IInv, LoopsPrivate
  <2> HIDE DEF p
  <2> QED
    BY <1>2, <2>2, <2>3 DEF IInv, LoopsPrivate, Fresh
<1>7. LocksHeld'
  <2>1. DOMAIN loop = Sessions
    BY DEF IInv, TypeOK
  <2>2. \A u \in Sessions : loop'[u].at = "closing" <=> loop[u].at = "closing"
    BY <1>2, <2>1 DEF AtRest
  <2> QED
    BY <1>2, <2>2 DEF IInv, LocksHeld
<1>8. MapsExact'
  BY <1>1, <1>2 DEF IInv, TypeOK, MapsExact, InPlace, Dead, AtRest
<1> QED
  BY <1>3, <1>4, <1>5, <1>6, <1>7, <1>8 DEF IInv

LEMMA InsertKeeps ==
    ASSUME IInv, NEW s \in Sessions, Insert(s)
    PROVE  IInv'
<1> DEFINE p == loop[s].obj
           n == loop[s].req.name
<1>1. /\ p \in Proxies /\ proxy[p].st = "up"
      /\ loop[s].req \in Requests /\ n \in Names
      /\ proxies[s][n] = None
      /\ \A t \in tasks : t.obj # p
      /\ \A u \in Sessions : u # s /\ Fresh(u) => loop[u].obj # p
      /\ \A u \in Sessions, m \in Names : proxies[u][m] # p
  BY DEF IInv, LoopsPrivate, Fresh, Insert, Names
<1>2. /\ loop[s].at = "insert" /\ mu[s] = None
      /\ proxies' = [proxies EXCEPT ![s][n] = p]
      /\ loop' = [loop EXCEPT ![s] = AtRest]
      /\ UNCHANGED <<registry, proxy, mu, phase, toSweep, tasks>>
  BY DEF Insert
<1>3. phase[s] # "sweeping" /\ toSweep[s] = {}
  BY <1>2, NoneAssumption DEF IInv, LocksHeld
<1> HIDE DEF p, n
<1>4. TypeOK'
  BY <1>1, <1>2 DEF IInv, TypeOK, AtRest
<1>5. RegistryExact' /\ Keyed' /\ TasksExact'
  BY <1>2 DEF IInv, TypeOK, RegistryExact, Keyed, TasksExact
<1>6. LoopsPrivate'
  BY <1>1, <1>2 DEF IInv, TypeOK, LoopsPrivate, Fresh, AtRest
<1>7. LocksHeld'
  BY <1>1, <1>2, <1>3 DEF IInv, TypeOK, LocksHeld, AtRest
<1>8. MapsExact'
  BY <1>1, <1>2, <1>3, ProxyAssumption DEF IInv, TypeOK, MapsExact, InPlace, AtRest
<1> QED
  BY <1>4, <1>5, <1>6, <1>7, <1>8 DEF IInv

(* A proxy object keeps its type when its listener changes state. *)
LEMMA Restated ==
    ASSUME NEW K, NEW O, NEW St, NEW P, NEW p \in P, NEW x \in St,
           NEW f \in [P -> [st : St, key : K, owner : O]]
    PROVE  [f EXCEPT ![p].st = x] \in [P -> [st : St, key : K, owner : O]]
<1>1. f[p] \in [st : St, key : K, owner : O]
  OBVIOUS
<1>2. [f[p] EXCEPT !.st = x] \in [st : St, key : K, owner : O]
  BY <1>1
<1> QED
  BY <1>2

LEMMA StopProxyKeeps ==
    ASSUME IInv, NEW t \in tasks, StopProxy(t)
    PROVE  IInv'
<1> DEFINE p == t.obj
           u == [t EXCEPT !.next = "unregister"]
<1>1. /\ t \in [obj : Proxies, session : Sessions, by : Actors, next : {"stop", "unregister"}]
      /\ p \in Proxies /\ proxy[p].st = "up" /\ t.next = "stop"
      /\ u \in [obj : Proxies, session : Sessions, by : Actors, next : {"stop", "unregister"}]
      /\ u.obj = p /\ u.next = "unregister"
  BY DEF IInv, TypeOK, TasksExact, StopProxy
<1>2. /\ tasks' = (tasks \ {t}) \cup {u}
      /\ proxy' = [proxy EXCEPT ![p].st = "down"]
      /\ UNCHANGED <<registry, proxies, mu, phase, loop, toSweep>>
  BY <1>1 DEF IInv, TypeOK, StopProxy
<1> HIDE DEF p, u
<1>3. TypeOK'
  <2>1. tasks' \subseteq [obj : Proxies, session : Sessions, by : Actors,
                         next : {"stop", "unregister"}]
    BY <1>1, <1>2 DEF IInv, TypeOK
  <2>2. proxy' \in [Proxies -> [st : {"dead", "made", "up", "down"},
                               key : ProxyKeys \cup {None}, owner : Sessions \cup {None}]]
    BY <1>1, <1>2, Restated DEF IInv, TypeOK
  <2> QED
    BY <1>2, <2>1, <2>2 DEF IInv, TypeOK
<1>4. RegistryExact' /\ Keyed'
  BY <1>1, <1>2 DEF IInv, TypeOK, RegistryExact, Keyed
<1>5. TasksExact'
  BY <1>1, <1>2 DEF IInv, TypeOK, TasksExact, p
<1>6. LoopsPrivate'
  BY <1>1, <1>2 DEF IInv, TypeOK, LoopsPrivate, Fresh, p
<1>7. LocksHeld' /\ MapsExact'
  BY <1>1, <1>2 DEF IInv, TypeOK, LocksHeld, MapsExact, InPlace, p
<1> QED
  BY <1>3, <1>4, <1>5, <1>6, <1>7 DEF IInv

LEMMA UnregisterProxyKeeps ==
    ASSUME IInv, NEW t \in tasks, UnregisterProxy(t)
    PROVE  IInv'
<1> DEFINE p == t.obj
<1>1. /\ p \in Proxies /\ proxy[p].st = "down"
      /\ proxy[p].key \in ProxyKeys /\ registry[proxy[p].key] = p
  <2>1. p \in Proxies /\ t.next = "unregister"
    BY DEF IInv, TypeOK, UnregisterProxy
  <2>2. proxy[p].st = "down"
    BY <2>1 DEF IInv, TasksExact
  <2>3. proxy[p].key \in ProxyKeys
    BY <2>1, <2>2 DEF IInv, Keyed
  <2> QED
    BY <2>1, <2>2, <2>3 DEF IInv, RegistryExact
<1>2. /\ tasks' = tasks \ {t}
      /\ registry' = [registry EXCEPT ![proxy[p].key] = None]
      /\ proxy' = [proxy EXCEPT ![p].st = "dead"]
      /\ UNCHANGED <<proxies, mu, phase, loop, toSweep>>
  BY DEF UnregisterProxy
<1> HIDE DEF p
<1>3. TypeOK'
  <2>1. registry' \in [ProxyKeys -> Proxies \cup {None}]
    BY <1>1, <1>2 DEF IInv, TypeOK
  <2>2. proxy' \in [Proxies -> [st : {"dead", "made", "up", "down"},
                               key : ProxyKeys \cup {None}, owner : Sessions \cup {None}]]
    BY <1>1, <1>2, Restated DEF IInv, TypeOK
  <2> QED
    BY <1>2, <2>1, <2>2 DEF IInv, TypeOK
<1>4. RegistryExact' /\ Keyed'
  BY <1>1, <1>2, ProxyAssumption DEF IInv, TypeOK, RegistryExact, Keyed
<1>5. TasksExact'
  BY <1>1, <1>2 DEF IInv, TypeOK, TasksExact, p
<1>6. LoopsPrivate'
  BY <1>1, <1>2 DEF IInv, TypeOK, LoopsPrivate, Fresh, p
<1>7. LocksHeld' /\ MapsExact'
  BY <1>1, <1>2 DEF IInv, TypeOK, LocksHeld, MapsExact, InPlace, p
<1> QED
  BY <1>3, <1>4, <1>5, <1>6, <1>7 DEF IInv

(* An entry that nobody retires in place may be retired: its proxy listens *)
(* and no task has it.                                                     *)
LEMMA Retirable ==
    ASSUME IInv, NEW s \in Sessions, NEW n \in Names, NEW by \in Actors,
           proxies[s][n] # None, ~InPlace(s, n), Retire(proxies[s][n], s, by)
    PROVE  /\ proxies[s][n] \in Proxies /\ proxy[proxies[s][n]].st = "up"
           /\ \A t \in tasks : t.obj # proxies[s][n]
           /\ \E t : /\ tasks' = tasks \cup {t} /\ t.obj = proxies[s][n] /\ t.next = "stop"
                     /\ t \in [obj : Proxies, session : Sessions, by : Actors,
                              next : {"stop", "unregister"}]
<1>1. /\ proxies[s][n] \in Proxies /\ proxy[proxies[s][n]].st = "up"
      /\ \A t \in tasks : t.obj # proxies[s][n]
  BY DEF IInv, TypeOK, MapsExact
<1> DEFINE t == [obj |-> proxies[s][n], session |-> s, by |-> by, next |-> "stop"]
<1>2. /\ tasks' = tasks \cup {t} /\ t.obj = proxies[s][n] /\ t.next = "stop"
      /\ t \in [obj : Proxies, session : Sessions, by : Actors, next : {"stop", "unregister"}]
  BY <1>1 DEF Retire
<1> QED
  BY <1>1, <1>2

LEMMA ProxyClosedKeeps ==
    ASSUME IInv, NEW s \in Sessions, NEW n \in Names, ProxyClosed(s, n)
    PROVE  IInv'
<1> DEFINE p == proxies[s][n]
<1>1. ~InPlace(s, n)
  BY NoneAssumption DEF IInv, LocksHeld, InPlace, ProxyClosed
<1>2. PICK t : /\ tasks' = tasks \cup {t} /\ t.obj = p /\ t.next = "stop"
               /\ t \in [obj : Proxies, session : Sessions, by : Actors,
                        next : {"stop", "unregister"}]
  BY <1>1, Retirable DEF ProxyClosed, Actors
<1>3. p \in Proxies /\ proxy[p].st = "up" /\ \A u \in tasks : u.obj # p
  BY <1>1, Retirable DEF ProxyClosed, Actors
<1>4. /\ p # None /\ mu[s] = None /\ loop[s].at = "idle"
      /\ mu' = [mu EXCEPT ![s] = "loop"]
      /\ loop' = [loop EXCEPT ![s] = [at |-> "closing", req |-> None, obj |-> p]]
      /\ UNCHANGED <<registry, proxy, proxies, phase, toSweep>>
  BY DEF ProxyClosed
<1>5. TypeOK'
  BY <1>2, <1>3, <1>4 DEF IInv, TypeOK
<1>6. RegistryExact' /\ Keyed'
  BY <1>4 DEF IInv, RegistryExact, Keyed
<1>7. TasksExact'
  BY <1>2, <1>3, <1>4 DEF IInv, TypeOK, TasksExact
<1>8. LoopsPrivate'
  BY <1>2, <1>3, <1>4 DEF IInv, TypeOK, LoopsPrivate, Fresh
<1>9. LocksHeld'
  BY <1>4, NoneAssumption DEF IInv, TypeOK, LocksHeld
<1>10. MapsExact'
  BY <1>2, <1>3, <1>4 DEF IInv, TypeOK, MapsExact, InPlace
<1> QED
  BY <1>5, <1>6, <1>7, <1>8, <1>9, <1>10 DEF IInv

LEMMA ProxyClosedEndKeeps ==
    ASSUME IInv, NEW s \in Sessions, ProxyClosedEnd(s)
    PROVE  IInv'
<1> DEFINE left == [n \in Names |-> IF proxies[s][n] = loop[s].obj THEN None ELSE proxies[s][n]]
<1>1. /\ loop[s].at = "closing" /\ mu[s] = "loop"
      /\ mu' = [mu EXCEPT ![s] = None]
      /\ proxies' = [proxies EXCEPT ![s] = left]
      /\ loop' = [loop EXCEPT ![s] = AtRest]
      /\ UNCHANGED <<registry, proxy, phase, toSweep, tasks>>
  BY DEF IInv, LocksHeld, ProxyClosedEnd
<1>2. /\ left \in [Names -> Proxies \cup {None}]
      /\ \A n \in Names : left[n] # None => left[n] = proxies[s][n] /\ left[n] # loop[s].obj
  BY DEF IInv, TypeOK
<1>3. phase[s] # "sweeping" /\ toSweep[s] = {}
  BY <1>1 DEF IInv, LocksHeld
<1> HIDE DEF left
<1>4. TypeOK'
  BY <1>1, <1>2 DEF IInv, TypeOK, AtRest
<1>5. RegistryExact' /\ Keyed' /\ TasksExact'
  BY <1>1 DEF IInv, RegistryExact, Keyed, TasksExact
<1>6. LoopsPrivate'
  BY <1>1, <1>2, ProxyAssumption DEF IInv, TypeOK, LoopsPrivate, Fresh, AtRest
<1>7. LocksHeld'
  BY <1>1, <1>3, NoneAssumption DEF IInv, TypeOK, LocksHeld, AtRest
<1>8. MapsExact'
  BY <1>1, <1>2, <1>3 DEF IInv, TypeOK, MapsExact, InPlace, AtRest
<1> QED
  BY <1>4, <1>5, <1>6, <1>7, <1>8 DEF IInv

LEMMA CloseProxyKeeps ==
    ASSUME IInv, NEW s \in Sessions, NEW n \in Names, CloseProxy(s, n)
    PROVE  IInv'
<1> DEFINE p == proxies[s][n]
<1>1. /\ p # None /\ mu[s] = None
      /\ proxies' = [proxies EXCEPT ![s][n] = None]
      /\ Retire(p, s, "dash")
      /\ UNCHANGED <<registry, proxy, mu, phase, loop, toSweep>>
  BY DEF CloseProxy
<1>2. loop[s].at # "closing" /\ phase[s] # "sweeping" /\ toSweep[s] = {}
  BY <1>1, NoneAssumption DEF IInv, LocksHeld
<1>3. ~InPlace(s, n) /\ "dash" \in Actors
  BY <1>2 DEF InPlace, Actors
<1>4. PICK t : /\ tasks' = tasks \cup {t} /\ t.obj = p /\ t.next = "stop"
               /\ t \in [obj : Proxies, session : Sessions, by : Actors,
                        next : {"stop", "unregister"}]
  BY <1>1, <1>3, Retirable
<1>5. p \in Proxies /\ proxy[p].st = "up" /\ \A u \in tasks : u.obj # p
  BY <1>1, <1>3, Retirable
<1>6. TypeOK'
  BY <1>1, <1>4 DEF IInv, TypeOK
<1>7. RegistryExact' /\ Keyed'
  BY <1>1 DEF IInv, RegistryExact, Keyed
<1>8. TasksExact'
  BY <1>1, <1>4, <1>5 DEF IInv, TypeOK, TasksExact
<1>9. LoopsPrivate'
  BY <1>1, <1>4, <1>5, ProxyAssumption DEF IInv, TypeOK, LoopsPrivate, Fresh
<1>10. LocksHeld'
  BY <1>1, <1>2 DEF IInv, TypeOK, LocksHeld
<1>11. MapsExact'
  BY <1>1, <1>4, <1>5 DEF IInv, TypeOK, MapsExact, InPlace
<1> QED
  BY <1>6, <1>7, <1>8, <1>9, <1>10, <1>11 DEF IInv

LEMMA ConnectKeeps ==
    ASSUME IInv, NEW s \in Sessions, Connect(s)
    PROVE  IInv'
<1> USE DEF Connect
<1>1. phase[s] # "sweeping" /\ toSweep[s] = {} /\ mu[s] # "close"
  BY DEF IInv, LocksHeld
<1>2. TypeOK'
  BY DEF IInv, TypeOK
<1>3. RegistryExact' /\ Keyed' /\ TasksExact'
  BY DEF IInv, RegistryExact, Keyed, TasksExact
<1>4. LoopsPrivate'
  BY ProxyAssumption DEF IInv, TypeOK, LoopsPrivate, Fresh
<1>5. LocksHeld'
  BY <1>1 DEF IInv, TypeOK, LocksHeld
<1>6. MapsExact'
  BY <1>1 DEF IInv, TypeOK, MapsExact, InPlace
<1> QED
  BY <1>2, <1>3, <1>4, <1>5, <1>6 DEF IInv

LEMMA CloseConnKeeps ==
    ASSUME IInv, NEW s \in Sessions, CloseConn(s)
    PROVE  IInv'
<1> USE DEF CloseConn
<1>1. phase[s] # "sweeping" /\ toSweep[s] = {} /\ mu[s] # "close"
  BY DEF IInv, LocksHeld
<1>2. TypeOK'
  BY DEF IInv, TypeOK
<1>3. RegistryExact' /\ Keyed' /\ TasksExact' /\ LoopsPrivate'
  BY DEF IInv, RegistryExact, Keyed, TasksExact, LoopsPrivate, Fresh
<1>4. LocksHeld'
  BY <1>1 DEF IInv, TypeOK, LocksHeld
<1>5. MapsExact'
  BY <1>1 DEF IInv, TypeOK, MapsExact, InPlace
<1> QED
  BY <1>2, <1>3, <1>4, <1>5 DEF IInv

LEMMA SweepBeginKeeps ==
    ASSUME IInv, NEW s \in Sessions, SweepBegin(s)
    PROVE  IInv'
<1> USE DEF SweepBegin
<1>1. loop[s].at # "closing" /\ phase[s] # "sweeping"
  BY NoneAssumption DEF IInv, LocksHeld
<1>2. TypeOK'
  BY DEF IInv, TypeOK
<1>3. RegistryExact' /\ Keyed' /\ TasksExact' /\ LoopsPrivate'
  BY DEF IInv, RegistryExact, Keyed, TasksExact, LoopsPrivate, Fresh
<1>4. LocksHeld'
  BY <1>1 DEF IInv, TypeOK, LocksHeld
<1>5. MapsExact'
  BY <1>1 DEF IInv, TypeOK, MapsExact, InPlace
<1> QED
  BY <1>2, <1>3, <1>4, <1>5 DEF IInv

LEMMA SweepOneKeeps ==
    ASSUME IInv, NEW s \in Sessions, SweepOne(s)
    PROVE  IInv'
<1>1. PICK n \in toSweep[s] :
        /\ Retire(proxies[s][n], s, "close")
        /\ toSweep' = [toSweep EXCEPT ![s] = @ \ {n}]
        /\ UNCHANGED <<registry, proxy, proxies, mu, phase, loop>>
  BY DEF SweepOne
<1> DEFINE p == proxies[s][n]
<1>2. /\ n \in Names /\ p # None
      /\ phase[s] = "sweeping" /\ mu[s] = "close" /\ loop[s].at # "closing"
  BY DEF IInv, TypeOK, LocksHeld
<1>3. ~InPlace(s, n) /\ "close" \in Actors
  BY <1>2 DEF InPlace, Actors
<1>4. PICK t : /\ tasks' = tasks \cup {t} /\ t.obj = p /\ t.next = "stop"
               /\ t \in [obj : Proxies, session : Sessions, by : Actors,
                        next : {"stop", "unregister"}]
  BY <1>1, <1>2, <1>3, Retirable
<1>5. p \in Proxies /\ proxy[p].st = "up" /\ \A u \in tasks : u.obj # p
  BY <1>1, <1>2, <1>3, Retirable
<1>6. TypeOK'
  BY <1>1, <1>4 DEF IInv, TypeOK
<1>7. RegistryExact' /\ Keyed'
  BY <1>1 DEF IInv, RegistryExact, Keyed
<1>8. TasksExact'
  BY <1>1, <1>4, <1>5 DEF IInv, TypeOK, TasksExact
<1>9. LoopsPrivate'
  BY <1>1, <1>2, <1>4, <1>5 DEF IInv, TypeOK, LoopsPrivate, Fresh
<1>10. LocksHeld'
  BY <1>1, <1>2 DEF IInv, TypeOK, LocksHeld
<1>11. MapsExact'
  BY <1>1, <1>2, <1>4, <1>5 DEF IInv, TypeOK, MapsExact, InPlace
<1> QED
  BY <1>6, <1>7, <1>8, <1>9, <1>10, <1>11 DEF IInv

LEMMA SweepEndKeeps ==
    ASSUME IInv, NEW s \in Sessions, SweepEnd(s)
    PROVE  IInv'
<1> USE DEF SweepEnd
<1>1. mu[s] = "close" /\ loop[s].at # "closing"
  BY DEF IInv, LocksHeld
<1>2. TypeOK'
  BY DEF IInv, TypeOK
<1>3. RegistryExact' /\ Keyed' /\ TasksExact'
  BY DEF IInv, RegistryExact, Keyed, TasksExact
<1>4. LoopsPrivate'
  <2>1. \A u \in Sessions, n \in Names : proxies'[u][n] \in {proxies[u][n], None}
    BY DEF IInv, TypeOK
  <2>2. \A q \in Requests : q.name \in Names
    BY DEF Names
  <2> QED
    BY <2>1, <2>2, ProxyAssumption DEF IInv, LoopsPrivate, Fresh
<1>5. LocksHeld'
  BY <1>1, NoneAssumption DEF IInv, TypeOK, LocksHeld
<1>6. MapsExact'
  BY <1>1 DEF IInv, TypeOK, MapsExact, InPlace
<1> QED
  BY <1>2, <1>3, <1>4, <1>5, <1>6 DEF IInv

LEMMA StutterKeeps ==
    ASSUME IInv, UNCHANGED vars
    PROVE  IInv'
<1> USE DEF vars
<1>1. TypeOK' /\ RegistryExact' /\ Keyed' /\ TasksExact'
  BY DEF IInv, TypeOK, RegistryExact, Keyed, TasksExact
<1>2. LoopsPrivate' /\ LocksHeld' /\ MapsExact'
  BY DEF IInv, LoopsPrivate, Fresh, LocksHeld, MapsExact, InPlace
<1> QED
  BY <1>1, <1>2 DEF IInv

LEMMA NextKeeps == IInv /\ [Next]_vars => IInv'
<1> SUFFICES ASSUME IInv, [Next]_vars PROVE IInv'
  OBVIOUS
<1>1. ASSUME NEW p \in Proxies, TaskNext(p) PROVE IInv'
  BY <1>1, StopProxyKeeps, UnregisterProxyKeeps DEF TaskNext
<1>2. ASSUME NEW s \in Sessions, LoopNext(s) PROVE IInv'
  BY <1>2, CheckNameKeeps, RegisterKeeps, RefuseKeeps, StartOkKeeps, StartFailsKeeps,
     InsertKeeps, ProxyClosedKeeps, ProxyClosedEndKeeps DEF LoopNext
<1>3. ASSUME NEW s \in Sessions, SessionNext(s) PROVE IInv'
  BY <1>3, CloseProxyKeeps, ConnectKeeps, CloseConnKeeps, SweepBeginKeeps, SweepOneKeeps,
     SweepEndKeeps DEF SessionNext
<1>4. CASE UNCHANGED vars
  BY <1>4, StutterKeeps
<1> QED
  BY <1>1, <1>2, <1>3, <1>4 DEF Next

-----------------------------------------------------------------------------
(* The invariant holds of every behaviour of the registry, whatever        *)
(* sessions, requests and proxy objects there are.                         *)
THEOREM Invariance == Spec => []IInv
<1> QED
  BY InitIInv, NextKeeps, PTL DEF Spec

(* The state of the registry, the sessions and their loops has its type.   *)
THEOREM TypeCorrect == Spec => []TypeOK
<1>1. IInv => TypeOK
  BY DEF IInv
<1> QED
  BY <1>1, Invariance, PTL

(* A key of the server's registry is taken exactly while one proxy is      *)
(* started, listens or is retired under it (server.go RegisterProxy and    *)
(* UnregisterProxy, proxy.go Stop, control.go Close), for any number of    *)
(* sessions that race for it.                                              *)
THEOREM RegistryIsExact == Spec => []RegistryExact
<1>1. IInv => RegistryExact
  BY DEF IInv
<1> QED
  BY <1>1, Invariance, PTL

(* No proxy object is in two maps or under two names of one, and the proxy *)
(* a control loop is starting is in none: so no step retires the proxy of  *)
(* another session.                                                        *)
THEOREM MapsAreExact == Spec => [](MapsExact /\ LoopsPrivate)
<1>1. IInv => MapsExact /\ LoopsPrivate
  BY DEF IInv
<1> QED
  BY <1>1, Invariance, PTL

(* handleNewProxy stores a proxy only where the map still has no entry,    *)
(* although it has let go of the lock since it looked.                     *)
THEOREM NeverReplaced == Spec => NamesNeverReplaced
<1> DEFINE Kept(s, n) == proxies[s][n] # None => proxies'[s][n] \in {proxies[s][n], None}
           AllKept == \A s \in Sessions, n \in Names : Kept(s, n)
<1>1. ASSUME IInv, [Next]_vars PROVE AllKept
  <2> SUFFICES ASSUME NEW u \in Sessions, NEW m \in Names, proxies[u][m] # None
               PROVE  proxies'[u][m] \in {proxies[u][m], None}
    OBVIOUS
  <2>t. proxies \in [Sessions -> [Names -> Proxies \cup {None}]]
    BY <1>1 DEF IInv, TypeOK
  <2>1. ASSUME NEW s \in Sessions, Insert(s) PROVE proxies'[u][m] = proxies[u][m]
    <3>1. proxies[s][loop[s].req.name] = None
      BY <1>1, <2>1 DEF IInv, LoopsPrivate, Insert
    <3> QED
      BY <2>1, <2>t, <3>1 DEF Insert
  <2>2. ASSUME NEW s \in Sessions, ProxyClosedEnd(s)
        PROVE  proxies'[u][m] \in {proxies[u][m], None}
    BY <2>2, <2>t DEF ProxyClosedEnd
  <2>3. ASSUME NEW s \in Sessions, NEW n \in Names, CloseProxy(s, n)
        PROVE  proxies'[u][m] \in {proxies[u][m], None}
    BY <2>3, <2>t DEF CloseProxy
  <2>4. ASSUME NEW s \in Sessions, Connect(s) \/ SweepEnd(s)
        PROVE  proxies'[u][m] \in {proxies[u][m], None}
    BY <2>4, <2>t DEF Connect, SweepEnd
  <2>5. ASSUME UNCHANGED proxies PROVE proxies'[u][m] = proxies[u][m]
    BY <2>5
  <2>6. ASSUME NEW p \in Proxies, TaskNext(p) PROVE UNCHANGED proxies
    BY <2>6 DEF TaskNext, StopProxy, UnregisterProxy
  <2>7. ASSUME NEW s \in Sessions, LoopNext(s)
        PROVE  proxies'[u][m] \in {proxies[u][m], None}
    BY <2>1, <2>2, <2>5, <2>7
    DEF LoopNext, CheckName, Register, Refuse, StartOk, StartFails, ProxyClosed
  <2>8. ASSUME NEW s \in Sessions, SessionNext(s)
        PROVE  proxies'[u][m] \in {proxies[u][m], None}
    BY <2>3, <2>4, <2>5, <2>8 DEF SessionNext, CloseConn, SweepBegin, SweepOne
  <2> QED
    BY <1>1, <2>5, <2>6, <2>7, <2>8 DEF Next, vars
<1>2. UNCHANGED vars => AllKept
  BY DEF vars
<1> QED
  BY <1>1, <1>2, Invariance, PTL DEF Spec, NamesNeverReplaced
=============================================================================
