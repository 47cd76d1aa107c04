-------------------------- MODULE MediaPathProofs --------------------------
(***************************************************************************)
(* What MediaPath guarantees for any calls, media, phones, ports, relays   *)
(* and sockets.  Messages wait in two queues while relays come and go at   *)
(* one end and runners and sockets at the other.                           *)
(***************************************************************************)
EXTENDS MediaPath, FiniteSetTheorems, WellFoundedInduction, TLAPS

Media == UNION {MediaOf(o[2]) : o \in Offers}
Bodies == {<<>>} \cup {o[2] : o \in Offers}
Orders == [type : {"New"}, name : Keys, target : Media]
          \cup [type : {"Close"}, name : Keys]
          \cup [type : {"Packet"}, name : Names, peer : Phones]
PortMaps == UNION {[D -> Ports] : D \in SUBSET (0..(MaxPort - 1))}

RelayType == [st : {"free", "open", "stopping", "stopped"}, key : Keys \cup {None},
              port : Ports \cup {0}, target : Targets, got : Phones \cup {None}]
LoopType == [at : {"idle", "entry", "notify", "write"}, call : Calls \cup {None},
             body : Bodies, idx : 0..(MaxPort - 1), ports : PortMaps]
SockType == [st : {"open", "closed"}, name : Names \cup {None}, target : Targets,
             peer : Phones \cup {None}, listed : BOOLEAN]

Typed ==
    /\ peers \subseteq Phones
    /\ table \in [Keys -> Relays \cup {None}]
    /\ relay \in [Relays -> RelayType]
    /\ loop \in LoopType
    /\ toCli \in Seq(Orders)
    /\ toSrv \in Seq([peer : Phones, offer : Offers \cup Byes])
    /\ Len(toCli) <= MaxWire + Cardinality(Keys) /\ Len(toSrv) <= MaxWire
    /\ runner \in [Names -> Targets]
    /\ sock \in [Sockets -> SockType]

(* A relay that is not stopped yet is the one of its key, and a key's      *)
(* relay was made for it.                                                  *)
RelaysSound ==
    /\ \A k \in Keys : table[k] # None => relay[table[k]].key = k /\ relay[table[k]].st # "free"
    /\ \A r \in Relays :
        /\ relay[r].st \in {"open", "stopping"} =>
              relay[r].key \in Keys /\ table[relay[r].key] = r
        /\ relay[r].st # "free" => relay[r].key \in Keys /\ relay[r].port \in Ports
        /\ relay[r].got # None => relay[r].key \in Keys

(* The loop is at an entry of an offer; the relay it tells the client of   *)
(* leads there, unless a BYE has taken it away meanwhile.                  *)
LoopSound ==
    loop.at # "idle" =>
        /\ \E o \in Offers : loop.call = o[1] /\ loop.body = o[2]
        /\ loop.idx < Len(Entries)
        /\ DOMAIN loop.ports \subseteq 0..loop.idx
        /\ loop.at = "notify" /\ table[Key] # None =>
              relay[table[Key]].target = Entries[loop.idx + 1]

(* What the client will have for a key when it has read all its orders.    *)
Concerns(m, k) == m.type # "Packet" /\ m.name = k
LastOrder(q, k, t) ==
    \E i \in 1..Len(q) : /\ q[i] = NewRTPRelay(k, t)
                         /\ \A j \in (i + 1)..Len(q) : ~Concerns(q[j], k)
NoOrder(q, k) == \A i \in 1..Len(q) : ~Concerns(q[i], k)
Promises(q, now, k, t) == LastOrder(q, k, t) \/ (NoOrder(q, k) /\ now = t)
WillServe(k, t) == Promises(toCli, runner[k], k, t)

RunnersSound ==
    \A k \in Keys :
        table[k] # None /\ relay[table[k]].st = "open" /\ ~(loop.at = "notify" /\ Key = k)
            => WillServe(k, relay[table[k]].target)

(* A phone is known before anything else names it. *)
PhonesSound ==
    /\ \A i \in 1..Len(toCli) : toCli[i].type = "Packet" /\ toCli[i].name = Proxy
                                    => toCli[i].peer \in peers
    /\ \A s \in Sockets : sock[s].name = Proxy => sock[s].peer \in peers
    /\ \A i \in 1..Len(toSrv) : toSrv[i].peer \in peers

(* The client has one entry for a phone of a name.  The proxy's sockets    *)
(* keep theirs: no order takes the proxy's runner away.                    *)
SocketsSound ==
    /\ \A s, t \in Sockets :
        sock[s].listed /\ sock[t].listed /\ sock[s].name = sock[t].name
            /\ sock[s].peer = sock[t].peer => s = t
    /\ \A s \in Sockets : sock[s].name = Proxy => sock[s].listed

IInv == Typed /\ RelaysSound /\ LoopSound /\ RunnersSound /\ PhonesSound /\ SocketsSound

-----------------------------------------------------------------------------
(* Queues of orders. *)

LEMMA Appended ==
    ASSUME NEW q \in Seq(Orders), NEW m \in Orders, NEW now, NEW k, NEW t
    PROVE  /\ ~Concerns(m, k) /\ Promises(q, now, k, t) => Promises(Append(q, m), now, k, t)
           /\ m = NewRTPRelay(k, t) => Promises(Append(q, m), now, k, t)
<1>1. /\ Len(q) \in Nat /\ Len(Append(q, m)) = Len(q) + 1
      /\ \A i \in 1..Len(q) : Append(q, m)[i] = q[i]
      /\ Append(q, m)[Len(q) + 1] = m
  OBVIOUS
<1> DEFINE r == Append(q, m)
<1> HIDE DEF r
<1>2. ASSUME ~Concerns(m, k), LastOrder(q, k, t) PROVE LastOrder(r, k, t)
  BY <1>1, <1>2 DEF LastOrder, r
<1>3. ASSUME ~Concerns(m, k), NoOrder(q, k) PROVE NoOrder(r, k)
  BY <1>1, <1>3 DEF NoOrder, r
<1>4. ASSUME m = NewRTPRelay(k, t) PROVE LastOrder(r, k, t)
  <2>1. r[Len(q) + 1] = NewRTPRelay(k, t) /\ Len(r) = Len(q) + 1
    BY <1>1, <1>4 DEF r
  <2> QED
    BY <1>1, <2>1 DEF LastOrder
<1> QED
  BY <1>2, <1>3, <1>4 DEF Promises, r

LEMMA Joined ==
    ASSUME NEW q \in Seq(Orders), NEW n \in Seq(Orders), NEW now, NEW k, NEW t,
           NoOrder(n, k), Promises(q, now, k, t)
    PROVE  Promises(q \o n, now, k, t)
<1> DEFINE r == q \o n
<1>1. /\ Len(q) \in Nat /\ Len(n) \in Nat /\ Len(r) = Len(q) + Len(n)
      /\ \A i \in 1..Len(q) : r[i] = q[i]
      /\ \A i \in (Len(q) + 1)..Len(r) : i - Len(q) \in 1..Len(n) /\ r[i] = n[i - Len(q)]
  OBVIOUS
<1> HIDE DEF r
<1>2. \A i \in (Len(q) + 1)..Len(r) : ~Concerns(r[i], k)
  BY <1>1 DEF NoOrder
<1>3. ASSUME LastOrder(q, k, t) PROVE LastOrder(r, k, t)
  <2>1. PICK i \in 1..Len(q) : /\ q[i] = NewRTPRelay(k, t)
                              /\ \A j \in (i + 1)..Len(q) : ~Concerns(q[j], k)
    BY <1>3 DEF LastOrder
  <2>2. i \in 1..Len(r) /\ r[i] = NewRTPRelay(k, t)
    BY <1>1, <2>1
  <2>3. ASSUME NEW j \in (i + 1)..Len(r) PROVE ~Concerns(r[j], k)
    <3>1. j \in (i + 1)..Len(q) \/ j \in (Len(q) + 1)..Len(r)
      BY <1>1
    <3>2. CASE j \in (i + 1)..Len(q)
      <4>1. j \in 1..Len(q) /\ ~Concerns(q[j], k)
        BY <2>1, <3>2
      <4> QED
        BY <1>1, <4>1
    <3> QED
      BY <1>2, <3>1, <3>2
  <2> QED
    BY <2>2, <2>3 DEF LastOrder
<1>4. ASSUME NoOrder(q, k) PROVE NoOrder(r, k)
  BY <1>1, <1>2, <1>4 DEF NoOrder
<1> QED
  BY <1>3, <1>4 DEF Promises, r

LEMMA Obeyed ==
    ASSUME NEW q \in Seq(Orders), q # <<>>, NEW now, NEW k, NEW t, Promises(q, now, k, t)
    PROVE  /\ ~Concerns(Head(q), k) => Promises(Tail(q), now, k, t)
           /\ Head(q).type = "New" /\ Head(q).name = k => Promises(Tail(q), Head(q).target, k, t)
           /\ Head(q).type = "Close" /\ Head(q).name = k
                => \A after : Promises(Tail(q), after, k, t)
<1> DEFINE r == Tail(q)
<1>1. /\ Len(q) \in Nat /\ Len(q) > 0 /\ Len(r) = Len(q) - 1 /\ Head(q) = q[1]
      /\ \A i \in 1..Len(r) : r[i] = q[i + 1]
  OBVIOUS
<1> HIDE DEF r
<1>2. NoOrder(q, k) => NoOrder(r, k) /\ ~Concerns(Head(q), k)
  BY <1>1 DEF NoOrder
<1>3. ASSUME LastOrder(q, k, t), ~LastOrder(r, k, t)
      PROVE  Head(q) = NewRTPRelay(k, t) /\ NoOrder(r, k)
  <2>1. PICK i \in 1..Len(q) : /\ q[i] = NewRTPRelay(k, t)
                               /\ \A j \in (i + 1)..Len(q) : ~Concerns(q[j], k)
    BY <1>3 DEF LastOrder
  <2>2. i = 1
    <3>1. CASE i > 1
      <4>1. i - 1 \in 1..Len(r) /\ r[i - 1] = NewRTPRelay(k, t)
        BY <1>1, <2>1, <3>1
      <4>2. \A j \in ((i - 1) + 1)..Len(r) : ~Concerns(r[j], k)
        BY <1>1, <2>1, <3>1
      <4> QED
        BY <1>3, <4>1, <4>2 DEF LastOrder
    <3> QED
      BY <1>1, <3>1
  <2> QED
    BY <1>1, <2>1, <2>2 DEF NoOrder
<1> QED
  BY <1>2, <1>3 DEF Promises, r, Concerns, NewRTPRelay

LEMMA KeysFinite == IsFiniteSet(Keys) /\ Cardinality(Keys) \in Nat
<1>1. IsFiniteSet(0..(MaxPort - 1))
  BY BoundAssumption, FS_Interval
<1> QED
  BY <1>1, BoundAssumption, FS_Product, FS_CardinalityType DEF Keys

(* The notices of a call are orders to close, one for each of its relays   *)
(* at most, and concern no other call.                                     *)
LEMMA NoticesAre ==
    ASSUME NEW c
    PROVE  /\ Notices(c) \in Seq(Orders) /\ Len(Notices(c)) <= Cardinality(Keys)
           /\ \A i \in 1..Len(Notices(c)) :
                 Notices(c)[i] \in [type : {"Close"}, name : {k \in Keys : k[1] = c}]
<1> DEFINE Open == {j \in HeldBy(c) : relay[table[j]].st = "open"}
           S == {CloseRTPRelay(k) : k \in Open}
<1>1. IsFiniteSet(Open) /\ Cardinality(Open) <= Cardinality(Keys)
  <2>1. Open \subseteq Keys
    BY DEF HeldBy
  <2> QED
    BY <2>1, KeysFinite, FS_Subset
<1>2. IsFiniteSet(S) /\ Cardinality(S) <= Cardinality(Open)
  <2> DEFINE f == [k \in Open |-> CloseRTPRelay(k)]
  <2>1. IsFiniteSet(Open)
    BY <1>1
  <2>2. f \in Surjection(Open, S)
    BY DEF Surjection
  <2> QED
    BY <2>1, <2>2, FS_Surjection
<1>3. PICK f \in [1..Cardinality(S) -> S] : IsInjective(f)
  <2>1. Cardinality(S) \in Nat /\ ExistsBijection(1..Cardinality(S), S)
    BY <1>2, FS_CardinalityType
  <2> QED
    BY <2>1 DEF ExistsBijection, Bijection, Injection, IsInjective
<1>4. SetToSeq(S) \in [1..Cardinality(S) -> S]
  BY <1>3 DEF SetToSeq
<1>5. Notices(c) = SetToSeq(S)
  BY DEF Notices
<1>6. S \subseteq [type : {"Close"}, name : {k \in Keys : k[1] = c}]
  BY DEF HeldBy, CloseRTPRelay
<1>7. Cardinality(S) \in Nat /\ Cardinality(S) <= Cardinality(Keys)
  BY <1>1, <1>2, KeysFinite, FS_CardinalityType
<1> HIDE DEF S, Open
<1> DEFINE q == Notices(c)
<1>8. Len(q) = Cardinality(S) /\ \A i \in 1..Len(q) : q[i] \in S
  BY <1>4, <1>5, <1>7
<1>9. S \subseteq Orders
  BY <1>6 DEF Orders
<1>10. q \in Seq(Orders)
  BY <1>4, <1>5, <1>7, <1>9
<1> HIDE DEF q
<1> QED
  BY <1>6, <1>7, <1>8, <1>10 DEF q

-----------------------------------------------------------------------------
(* Initial states and what an action leaves alone. *)

LEMMA EmptyMap == <<>> \in PortMaps /\ DOMAIN <<>> = {}
<1>1. <<>> \in [{} -> Ports]
  OBVIOUS
<1>2. {} \in SUBSET (0..(MaxPort - 1))
  OBVIOUS
<1> QED
  BY <1>1, <1>2 DEF PortMaps

LEMMA Free ==
    /\ NoRelay \in RelayType /\ Idle \in LoopType /\ Closed \in SockType
    /\ NoRelay.st = "free" /\ NoRelay.got = None /\ Idle.at = "idle"
    /\ Closed.name = None /\ Closed.listed = FALSE /\ Closed.st = "closed"
<1>1. None \in Targets
  BY DEF Targets
<1>2. 0 \in 0..(MaxPort - 1) /\ <<>> \in Bodies
  BY BoundAssumption DEF Bodies
<1> QED
  BY <1>1, <1>2, EmptyMap DEF NoRelay, RelayType, Idle, LoopType, Closed, SockType

LEMMA Distinct ==
    /\ Proxy \notin Keys /\ Proxy # None /\ None \notin Relays
    /\ Proxy \in Names /\ Keys \subseteq Names
BY NameAssumption DEF Names

LEMMA InitIInv == Init => IInv
<1> SUFFICES ASSUME Init PROVE IInv
  OBVIOUS
<1> USE DEF Init
<1>1. Typed
  <2>1. Home \in Targets /\ None \in Targets
    BY DEF Targets
  <2>2. Len(toCli) = 0 /\ Len(toSrv) = 0 /\ MaxWire \in Nat /\ Cardinality(Keys) \in Nat
    BY KeysFinite, BoundAssumption
  <2>3. runner \in [Names -> Targets]
    BY <2>1
  <2> QED
    BY <2>2, <2>3, Free DEF Typed
<1>2. RelaysSound
  BY Free DEF RelaysSound
<1>3. LoopSound
  BY Free DEF LoopSound
<1>4. RunnersSound
  BY DEF RunnersSound
<1>5. SocketsSound
  BY Free, Distinct DEF SocketsSound
<1>6. PhonesSound
  BY Free, Distinct DEF PhonesSound
<1> QED
  BY <1>1, <1>2, <1>3, <1>4, <1>5, <1>6 DEF IInv

(* Orders about another key, or packets, change no promise.                *)
LEMMA PacketKeeps ==
    ASSUME IInv, NEW m \in Orders, m.type = "Packet", toCli' = Append(toCli, m)
    PROVE  \A k, t : WillServe(k, t) => Promises(toCli', runner[k], k, t)
BY Appended DEF IInv, Typed, WillServe, Concerns

LEMMA RunnersStay ==
    ASSUME RunnersSound, table \in [Keys -> Relays \cup {None}], runner' = runner,
           \A k \in Keys : table'[k] # None => table'[k] = table[k],
           \A r \in Relays : relay'[r].st = "open"
                => relay[r].st = "open" /\ relay'[r].target = relay[r].target,
           \A k \in Keys : loop.at = "notify" /\ Key = k => (loop.at = "notify" /\ Key = k)',
           \A k \in Keys : \A t : table'[k] # None /\ WillServe(k, t)
                => Promises(toCli', runner[k], k, t)
    PROVE  RunnersSound'
<1> SUFFICES ASSUME NEW k \in Keys, table'[k] # None, relay'[table'[k]].st = "open",
                    ~(loop.at = "notify" /\ Key = k)'
             PROVE  Promises(toCli', runner'[k], k, relay'[table'[k]].target)
  BY DEF RunnersSound, WillServe
<1>1. /\ table'[k] = table[k] /\ table[k] \in Relays /\ relay[table[k]].st = "open"
      /\ relay'[table[k]].target = relay[table[k]].target
      /\ ~(loop.at = "notify" /\ Key = k)
  OBVIOUS
<1>2. WillServe(k, relay[table[k]].target)
  BY <1>1 DEF RunnersSound
<1> QED
  BY <1>1, <1>2

LEMMA FromPhoneKeeps == ASSUME IInv, NEW x \in Phones, FromPhone(x) PROVE IInv'
<1> DEFINE m == UDPPacket(Proxy, x)
<1>1. /\ m \in Orders /\ m.type = "Packet" /\ m.peer = x
      /\ Len(toCli) < MaxWire /\ toCli' = Append(toCli, m) /\ peers' = peers \cup {x}
      /\ UNCHANGED <<table, relay, loop, toSrv, runner, sock>>
  BY Distinct DEF FromPhone, UDPPacket, Orders
<1> HIDE DEF m
<1>2. Typed'
  BY <1>1, KeysFinite, BoundAssumption DEF IInv, Typed
<1>3. RelaysSound' /\ LoopSound' /\ SocketsSound'
  BY <1>1 DEF IInv, RelaysSound, LoopSound, SocketsSound, Key, Entries
<1>4. RunnersSound'
  <2>1. \A k, t : WillServe(k, t) => Promises(toCli', runner[k], k, t)
    BY <1>1, PacketKeeps
  <2> QED
    BY <1>1, <2>1, RunnersStay DEF IInv, Typed, Key
<1>5. PhonesSound'
  <2>1. /\ Len(toCli') = Len(toCli) + 1 /\ Len(toCli) \in Nat
        /\ \A i \in 1..Len(toCli) : toCli'[i] = toCli[i]
        /\ toCli'[Len(toCli) + 1] = m
    BY <1>1 DEF IInv, Typed
  <2> QED
    BY <1>1, <2>1 DEF IInv, PhonesSound
<1> QED
  BY <1>2, <1>3, <1>4, <1>5 DEF IInv

(* A BYE takes the call's relays away, all of them and no others.          *)
LEMMA ReleasedKeeps ==
    ASSUME IInv, NEW c, Released(c)
    PROVE  /\ table' \in [Keys -> Relays \cup {None}] /\ relay' \in [Relays -> RelayType]
           /\ \A k \in Keys : table'[k] # None => /\ table'[k] = table[k] /\ k[1] # c
                                                  /\ relay'[table[k]] = relay[table[k]]
           /\ \A r \in Relays : relay'[r].st = "open" => relay'[r] = relay[r]
           /\ RelaysSound'
<1> DEFINE Stops(r) == \E k \in HeldBy(c) : table[k] = r
           Down(r) == [relay[r] EXCEPT !.st = "stopped"]
<1>1. /\ table \in [Keys -> Relays \cup {None}] /\ relay \in [Relays -> RelayType] /\ RelaysSound
  BY DEF IInv, Typed
<1>2. /\ \A k \in HeldBy(c) : relay[table[k]].st # "stopping"
      /\ table' = [k \in Keys |-> IF k[1] = c THEN None ELSE table[k]]
      /\ relay' = [r \in Relays |-> IF Stops(r) THEN Down(r) ELSE relay[r]]
  BY DEF Released
<1>3. ASSUME NEW r \in Relays
      PROVE  /\ Down(r) \in RelayType /\ Down(r).st = "stopped" /\ Down(r).key = relay[r].key
             /\ Down(r).got = relay[r].got /\ Down(r).port = relay[r].port
  <2>1. relay[r] \in RelayType
    BY <1>1
  <2> QED
    BY <2>1 DEF RelayType
<1>4. \A k \in Keys : k \in HeldBy(c) <=> k[1] = c /\ table[k] # None
  BY DEF HeldBy
<1>5. HeldBy(c) \subseteq Keys
  BY DEF HeldBy
<1> HIDE DEF Down
<1>6. ASSUME NEW k \in Keys, table'[k] # None
      PROVE  /\ table'[k] = table[k] /\ k[1] # c /\ table[k] \in Relays
             /\ relay'[table[k]] = relay[table[k]]
  <2>1. table'[k] = table[k] /\ k[1] # c /\ table[k] \in Relays
    BY <1>1, <1>2, <1>6
  <2>2. ~Stops(table[k])
    BY <1>1, <1>4, <1>5, <1>6, <2>1 DEF RelaysSound
  <2> QED
    BY <1>2, <2>1, <2>2
<1>7. \A r \in Relays : relay'[r].st = "open" => relay'[r] = relay[r]
  BY <1>2, <1>3
<1>8. table' \in [Keys -> Relays \cup {None}] /\ relay' \in [Relays -> RelayType]
  BY <1>1, <1>2, <1>3
<1>9. RelaysSound'
  <2>1. ASSUME NEW k \in Keys, table'[k] # None
        PROVE  relay'[table'[k]].key = k /\ relay'[table'[k]].st # "free"
    BY <1>1, <1>6, <2>1 DEF RelaysSound
  <2>2. ASSUME NEW r \in Relays, relay'[r].st \in {"open", "stopping"}
        PROVE  relay'[r].key \in Keys /\ table'[relay'[r].key] = r
    <3>1. ~Stops(r) /\ relay'[r] = relay[r]
      BY <1>2, <1>3, <2>2
    <3>2. relay[r].key \in Keys /\ table[relay[r].key] = r
      BY <1>1, <2>2, <3>1 DEF RelaysSound
    <3>3. r # None
      BY Distinct
    <3>4. relay[r].key[1] # c
      BY <1>4, <3>1, <3>2, <3>3
    <3> QED
      BY <1>2, <3>1, <3>2, <3>4
  <2>3. ASSUME NEW r \in Relays
        PROVE  /\ relay'[r].st # "free" => relay'[r].key \in Keys /\ relay'[r].port \in Ports
               /\ relay'[r].got # None => relay'[r].key \in Keys
    <3>1. CASE Stops(r)
      <4>1. PICK k \in Keys : table[k] = r
        BY <1>5, <3>1
      <4>2. relay[r].key \in Keys /\ relay[r].port \in Ports
        BY <1>1, <4>1, Distinct DEF RelaysSound
      <4> QED
        BY <1>2, <1>3, <3>1, <4>2
    <3>2. CASE ~Stops(r)
      BY <1>1, <1>2, <3>2 DEF RelaysSound
    <3> QED
      BY <3>1, <3>2
  <2> QED
    BY <2>1, <2>2, <2>3 DEF RelaysSound
<1> QED
  BY <1>6, <1>7, <1>8, <1>9

(* The notices about one call promise nothing to the keys of others.       *)
LEMMA NoticesKeep ==
    ASSUME IInv, NEW c, NEW k, k[1] # c, NEW t, WillServe(k, t)
    PROVE  Promises(toCli \o Notices(c), runner[k], k, t)
<1>1. Notices(c) \in Seq(Orders) /\ NoOrder(Notices(c), k)
  BY NoticesAre DEF NoOrder, Concerns
<1> QED
  BY <1>1, Joined DEF IInv, Typed, WillServe

LEMMA Either ==
    \A q, n \in Seq(Orders) :
        /\ q \o n \in Seq(Orders) /\ Len(q \o n) = Len(q) + Len(n)
        /\ Len(q) \in Nat /\ Len(n) \in Nat
        /\ \A i \in 1..Len(q \o n) : \/ i \in 1..Len(q) /\ (q \o n)[i] = q[i]
                                     \/ \E j \in 1..Len(n) : (q \o n)[i] = n[j]
<1> SUFFICES ASSUME NEW q \in Seq(Orders), NEW n \in Seq(Orders)
             PROVE  /\ q \o n \in Seq(Orders) /\ Len(q \o n) = Len(q) + Len(n)
                    /\ Len(q) \in Nat /\ Len(n) \in Nat
                    /\ \A i \in 1..Len(q \o n) :
                          \/ i \in 1..Len(q) /\ (q \o n)[i] = q[i]
                          \/ \E j \in 1..Len(n) : (q \o n)[i] = n[j]
  OBVIOUS
<1>1. /\ q \o n \in Seq(Orders) /\ Len(q \o n) = Len(q) + Len(n)
      /\ Len(q) \in Nat /\ Len(n) \in Nat
  OBVIOUS
<1>2. ASSUME NEW i \in 1..Len(q \o n), i \notin 1..Len(q)
      PROVE  \E j \in 1..Len(n) : (q \o n)[i] = n[j]
  <2>1. i - Len(q) \in 1..Len(n) /\ (q \o n)[i] = n[i - Len(q)]
    BY <1>1, <1>2
  <2> QED
    BY <2>1
<1> QED
  BY <1>1, <1>2

LEMMA ByeFromHomeKeeps == ASSUME IInv, NEW c \in Calls, ByeFromHome(c) PROVE IInv'
<1> DEFINE n == Notices(c)
<1>1. /\ loop.at = "idle" /\ toSrv # <<>> /\ Len(toCli) < MaxWire /\ Released(c)
      /\ toCli' = toCli \o n /\ toSrv' = Tail(toSrv)
      /\ UNCHANGED <<peers, loop, runner, sock>>
  BY DEF ByeFromHome
<1>2. /\ n \in Seq(Orders) /\ Len(n) <= Cardinality(Keys)
      /\ \A i \in 1..Len(n) : n[i].type = "Close"
  BY NoticesAre
<1>3. /\ table' \in [Keys -> Relays \cup {None}] /\ relay' \in [Relays -> RelayType]
      /\ \A k \in Keys : table'[k] # None => /\ table'[k] = table[k] /\ k[1] # c
                                             /\ relay'[table[k]] = relay[table[k]]
      /\ \A r \in Relays : relay'[r].st = "open" => relay'[r] = relay[r]
      /\ RelaysSound'
  BY <1>1, ReleasedKeeps
<1>4. \A k \in Keys : \A t : table'[k] # None /\ WillServe(k, t)
                              => Promises(toCli', runner[k], k, t)
  BY <1>1, <1>3, NoticesKeep
<1> HIDE DEF n
<1>5. /\ toCli' \in Seq(Orders) /\ Len(toCli') = Len(toCli) + Len(n)
      /\ Len(toCli) \in Nat /\ Len(n) \in Nat
      /\ \A i \in 1..Len(toCli') : \/ i \in 1..Len(toCli) /\ toCli'[i] = toCli[i]
                                   \/ toCli'[i].type = "Close"
  <2>1. toCli \in Seq(Orders)
    BY DEF IInv, Typed
  <2>2. /\ toCli \o n \in Seq(Orders) /\ Len(toCli \o n) = Len(toCli) + Len(n)
        /\ Len(toCli) \in Nat /\ Len(n) \in Nat
        /\ \A i \in 1..Len(toCli \o n) : \/ i \in 1..Len(toCli) /\ (toCli \o n)[i] = toCli[i]
                                         \/ \E j \in 1..Len(n) : (toCli \o n)[i] = n[j]
    BY <1>2, <2>1, Either
  <2> QED
    BY <1>1, <1>2, <2>2
<1>6. Typed'
  BY <1>1, <1>2, <1>3, <1>5, KeysFinite, BoundAssumption DEF IInv, Typed
<1>7. LoopSound' /\ SocketsSound'
  BY <1>1 DEF IInv, LoopSound, SocketsSound
<1>8. RunnersSound'
  BY <1>1, <1>3, <1>4, RunnersStay DEF IInv, Typed, Key
<1>9. PhonesSound'
  BY <1>1, <1>5 DEF IInv, Typed, PhonesSound
<1> QED
  BY <1>3, <1>6, <1>7, <1>8, <1>9 DEF IInv

LEMMA AtAnEntry ==
    ASSUME IInv, loop.at # "idle"
    PROVE  /\ Key \in Keys /\ loop.idx \in 0..(MaxPort - 1) /\ MaxPort \in Nat
           /\ Entries \in Seq(Media) /\ Len(Entries) \in Nat /\ Len(Entries) <= MaxPort
           /\ loop.idx < Len(Entries) /\ Entries[loop.idx + 1] \in Media
           /\ Media \subseteq Targets
<1>1. /\ loop.idx < Len(Entries) /\ loop.idx \in 0..(MaxPort - 1) /\ MaxPort \in Nat
  BY BoundAssumption DEF IInv, Typed, LoopType, LoopSound
<1> PICK o \in Offers : loop.call = o[1] /\ loop.body = o[2]
  BY DEF IInv, LoopSound
<1>2. /\ loop.call \in Calls /\ Entries \in Seq(MediaOf(loop.body)) /\ Len(Entries) <= MaxPort
  BY <1>1, OfferAssumption DEF Entries
<1>3. MediaOf(loop.body) \subseteq Media
  BY <1>1 DEF Media
<1>4. Entries \in Seq(Media) /\ Len(Entries) \in Nat
  BY <1>2, <1>3
<1>5. Media \subseteq Targets
  BY DEF Media, Targets
<1> QED
  BY <1>1, <1>2, <1>4, <1>5 DEF Key, Keys

LEMMA ByeFromPhoneKeeps ==
    ASSUME IInv, NEW x \in Phones, NEW c \in Calls, ByeFromPhone(x, c)
    PROVE  IInv'
<1> DEFINE m == UDPPacket(Proxy, x)
           n == Notices(c)
           q == toCli \o n
<1>1. /\ Len(toCli) < MaxWire /\ Released(c) /\ peers' = peers \cup {x}
      /\ toCli' = q \o <<m>>
      /\ UNCHANGED <<loop, toSrv, runner, sock>>
  BY DEF ByeFromPhone
<1>2. /\ n \in Seq(Orders) /\ Len(n) <= Cardinality(Keys)
      /\ \A i \in 1..Len(n) : n[i].type = "Close"
  BY NoticesAre
<1>3. /\ table' \in [Keys -> Relays \cup {None}] /\ relay' \in [Relays -> RelayType]
      /\ \A k \in Keys : table'[k] # None => /\ table'[k] = table[k] /\ k[1] # c
                                             /\ relay'[table[k]] = relay[table[k]]
      /\ \A r \in Relays : relay'[r].st = "open" => relay'[r] = relay[r]
      /\ RelaysSound'
  BY <1>1, ReleasedKeeps
<1>4. \A k \in Keys : \A t : table'[k] # None /\ WillServe(k, t) => Promises(q, runner[k], k, t)
  BY <1>1, <1>3, NoticesKeep
<1>5. m \in Orders /\ m.type = "Packet" /\ m.peer = x
  BY Distinct DEF UDPPacket, Orders
<1> HIDE DEF m, n
<1>6. /\ q \in Seq(Orders) /\ Len(q) = Len(toCli) + Len(n)
      /\ Len(toCli) \in Nat /\ Len(n) \in Nat
      /\ \A i \in 1..Len(q) : \/ i \in 1..Len(toCli) /\ q[i] = toCli[i]
                              \/ q[i].type = "Close"
  <2>1. toCli \in Seq(Orders)
    BY DEF IInv, Typed
  <2>2. /\ q \in Seq(Orders) /\ Len(q) = Len(toCli) + Len(n)
        /\ Len(toCli) \in Nat /\ Len(n) \in Nat
        /\ \A i \in 1..Len(q) : \/ i \in 1..Len(toCli) /\ q[i] = toCli[i]
                                \/ \E j \in 1..Len(n) : q[i] = n[j]
    BY <1>2, <2>1, Either
  <2> HIDE DEF q
  <2> QED
    BY <1>2, <2>2
<1> HIDE DEF q
<1>7. toCli' = Append(q, m)
  BY <1>1, <1>5, <1>6
<1>8. /\ toCli' \in Seq(Orders) /\ Len(toCli') = Len(q) + 1
      /\ \A i \in 1..Len(toCli') : (i \in 1..Len(q) /\ toCli'[i] = q[i]) \/ toCli'[i] = m
  BY <1>5, <1>6, <1>7
<1>9. Typed'
  BY <1>1, <1>2, <1>3, <1>6, <1>8, KeysFinite, BoundAssumption DEF IInv, Typed
<1>10. LoopSound'
  <2>1. loop.at # "idle" => Key \in Keys
    BY AtAnEntry
  <2> QED
    BY <1>1, <1>3, <2>1 DEF IInv, LoopSound, Key, Entries
<1>11. SocketsSound'
  BY <1>1 DEF IInv, SocketsSound
<1>12. RunnersSound'
  <2>1. \A k \in Keys : \A t : table'[k] # None /\ WillServe(k, t)
                              => Promises(toCli', runner[k], k, t)
    BY <1>4, <1>5, <1>6, <1>7, Appended DEF Concerns
  <2> QED
    BY <1>1, <1>3, <2>1, RunnersStay DEF IInv, Typed, Key
<1>13. PhonesSound'
  BY <1>1, <1>5, <1>6, <1>8 DEF IInv, PhonesSound
<1> QED
  BY <1>3, <1>9, <1>10, <1>11, <1>12, <1>13 DEF IInv

-----------------------------------------------------------------------------
(* The control loop. *)

LEMMA HeadOf == \A S : \A q \in Seq(S) : q # <<>> => Head(q) \in S
OBVIOUS

LEMMA ElementsOf == \A S : \A q \in Seq(S) : ToSet(q) \subseteq S
BY DEF ToSet

LEMMA RewriteKeeps == ASSUME IInv, Rewrite PROVE IInv'
<1> DEFINE m == Head(toSrv)
           at == [Idle EXCEPT !.at = "entry", !.call = m.offer[1], !.body = m.offer[2]]
<1>1. /\ loop.at = "idle" /\ toSrv # <<>> /\ m.offer \notin Byes /\ toSrv' = Tail(toSrv)
      /\ loop' = IF m.peer \notin peers \/ ExtractMediaEntries(m.offer[2]) = <<>> THEN Idle
                 ELSE at
      /\ UNCHANGED <<peers, table, relay, toCli, runner, sock>>
  BY DEF Rewrite
<1>2. m.offer \in Offers
  <2>1. toSrv \in Seq([peer : Phones, offer : Offers \cup Byes])
    BY DEF IInv, Typed
  <2>2. m \in [peer : Phones, offer : Offers \cup Byes]
    BY <1>1, <2>1, HeadOf
  <2> QED
    BY <1>1, <2>2
<1>3. /\ toSrv' \in Seq([peer : Phones, offer : Offers \cup Byes])
      /\ Len(toSrv) \in Nat /\ Len(toSrv') = Len(toSrv) - 1
      /\ \A i \in 1..Len(toSrv') : toSrv'[i] = toSrv[i + 1]
  BY <1>1 DEF IInv, Typed
<1>4. loop' = Idle \/ (loop' = at /\ ExtractMediaEntries(m.offer[2]) # <<>>)
  BY <1>1
<1>5. /\ at \in LoopType /\ at.at = "entry" /\ at.idx = 0 /\ DOMAIN at.ports = {}
      /\ at.call = m.offer[1] /\ at.body = m.offer[2]
  <2>1. m.offer[1] \in Calls /\ m.offer[2] \in Bodies
    BY <1>2, OfferAssumption DEF Bodies
  <2> QED
    BY <2>1, Free, EmptyMap DEF LoopType, Idle
<1>6. ExtractMediaEntries(m.offer[2]) # <<>> => 0 < Len(ExtractMediaEntries(m.offer[2]))
  BY <1>2, OfferAssumption
<1> HIDE DEF m, at
<1>7. Typed'
  BY <1>1, <1>3, <1>4, <1>5, Free, BoundAssumption DEF IInv, Typed
<1>8. LoopSound'
  BY <1>2, <1>4, <1>5, <1>6, Free DEF LoopSound, Entries
<1>9. RunnersSound'
  BY <1>1, RunnersStay DEF IInv, Typed, WillServe
<1>10. PhonesSound'
  BY <1>1, <1>3 DEF IInv, PhonesSound
<1>11. RelaysSound' /\ SocketsSound'
  BY <1>1 DEF IInv, RelaysSound, SocketsSound
<1> QED
  BY <1>7, <1>8, <1>9, <1>10, <1>11 DEF IInv

(* The next entry of the offer, if there is one. *)
LEMMA NextEntrySound ==
    ASSUME IInv, loop.at # "idle", NEW l \in LoopType,
           l.call = loop.call, l.body = loop.body, l.idx = loop.idx,
           DOMAIN l.ports \subseteq 0..loop.idx, loop' = NextEntry(l)
    PROVE  loop' \in LoopType /\ LoopSound' /\ loop'.at \in {"entry", "write"}
<1>1. /\ loop.idx \in 0..(MaxPort - 1) /\ MaxPort \in Nat /\ loop.idx < Len(Entries)
      /\ Len(Entries) \in Nat /\ Len(Entries) <= MaxPort
  BY AtAnEntry
<1>2. \E o \in Offers : loop.call = o[1] /\ loop.body = o[2]
  BY DEF IInv, LoopSound
<1>3. CASE l.idx + 1 = Len(Entries)
  <2>1. loop' = [l EXCEPT !.at = "write"]
    BY <1>3 DEF NextEntry
  <2>2. /\ loop' \in LoopType /\ loop'.at = "write" /\ loop'.call = loop.call
        /\ loop'.body = loop.body /\ loop'.idx = loop.idx /\ loop'.ports = l.ports
    BY <2>1 DEF LoopType
  <2> QED
    BY <1>1, <1>2, <2>2 DEF LoopSound, Entries
<1>4. CASE l.idx + 1 # Len(Entries)
  <2>1. loop' = [l EXCEPT !.at = "entry", !.idx = @ + 1]
    BY <1>4 DEF NextEntry
  <2>2. loop.idx + 1 \in 0..(MaxPort - 1) /\ loop.idx + 1 < Len(Entries)
    BY <1>1, <1>4
  <2>3. /\ loop' \in LoopType /\ loop'.at = "entry" /\ loop'.call = loop.call
        /\ loop'.body = loop.body /\ loop'.idx = loop.idx + 1 /\ loop'.ports = l.ports
    <3> DEFINE i == loop.idx + 1
               n == [l EXCEPT !.at = "entry", !.idx = i]
    <3>1. loop' = n /\ i \in 0..(MaxPort - 1)
      BY <2>1, <2>2
    <3> HIDE DEF i
    <3>2. /\ n \in LoopType /\ n.at = "entry" /\ n.call = l.call
          /\ n.body = l.body /\ n.idx = i /\ n.ports = l.ports
      BY <3>1 DEF LoopType
    <3> HIDE DEF n
    <3> QED
      BY <3>1, <3>2 DEF i
  <2>4. DOMAIN loop'.ports \subseteq 0..loop'.idx
    BY <1>1, <2>3
  <2> QED
    BY <1>1, <1>2, <2>2, <2>3, <2>4 DEF LoopSound, Entries
<1> QED
  BY <1>3, <1>4

LEMMA PortGiven ==
    ASSUME IInv, loop.at # "idle", NEW p \in Ports
    PROVE  LET l == GivenPort(p) IN
           /\ l \in LoopType /\ l.at = loop.at /\ l.call = loop.call /\ l.body = loop.body
           /\ l.idx = loop.idx /\ DOMAIN l.ports \subseteq 0..loop.idx
           /\ l.ports[loop.idx] = p
           /\ \A n \in DOMAIN l.ports : n # loop.idx => /\ n \in DOMAIN loop.ports
                                                        /\ l.ports[n] = loop.ports[n]
<1> DEFINE D == DOMAIN loop.ports \cup {loop.idx}
           f == [n \in D |-> IF n = loop.idx THEN p ELSE loop.ports[n]]
<1>1. /\ loop \in LoopType /\ loop.idx \in 0..(MaxPort - 1) /\ MaxPort \in Nat
      /\ DOMAIN loop.ports \subseteq 0..loop.idx
  BY AtAnEntry DEF IInv, Typed, LoopSound
<1>2. D \subseteq 0..loop.idx
  BY <1>1
<1>3. f \in [D -> Ports] /\ DOMAIN f = D
  <2>1. PICK E \in SUBSET (0..(MaxPort - 1)) : loop.ports \in [E -> Ports]
    BY <1>1 DEF LoopType, PortMaps
  <2> QED
    BY <2>1
<1>4. f \in PortMaps
  <2>1. D \in SUBSET (0..(MaxPort - 1))
    BY <1>1, <1>2
  <2> QED
    BY <1>3, <2>1 DEF PortMaps
<1>5. GivenPort(p) = [loop EXCEPT !.ports = f]
  BY <1>1 DEF GivenPort
<1> HIDE DEF f, D
<1>6. /\ [loop EXCEPT !.ports = f] \in LoopType
      /\ [loop EXCEPT !.ports = f].ports = f
  BY <1>1, <1>4 DEF LoopType
<1> QED
  <2>1. /\ f[loop.idx] = p
        /\ \A n \in DOMAIN f : n # loop.idx => n \in DOMAIN loop.ports /\ f[n] = loop.ports[n]
    BY DEF f, D
  <2> QED
    BY <1>1, <1>2, <1>3, <1>5, <1>6, <2>1 DEF LoopType

LEMMA ReuseKeeps == ASSUME IInv, Reuse PROVE IInv'
<1> DEFINE p == relay[table[Key]].port
<1>1. /\ loop.at = "entry" /\ table[Key] # None /\ loop' = NextEntry(GivenPort(p))
      /\ UNCHANGED <<peers, table, relay, toCli, toSrv, runner, sock>>
  BY DEF Reuse
<1>2. p \in Ports
  <2>1. Key \in Keys
    BY <1>1, AtAnEntry
  <2>2. table[Key] \in Relays /\ relay[table[Key]].st # "free"
    BY <1>1, <2>1 DEF IInv, Typed, RelaysSound
  <2> QED
    BY <2>2 DEF IInv, RelaysSound
<1> HIDE DEF p
<1>3. loop' \in LoopType /\ LoopSound' /\ loop'.at \in {"entry", "write"}
  BY <1>1, <1>2, PortGiven, NextEntrySound
<1>4. Typed'
  BY <1>1, <1>3 DEF IInv, Typed
<1>5. RunnersSound'
  BY <1>1, RunnersStay DEF IInv, Typed, WillServe
<1>6. RelaysSound' /\ SocketsSound' /\ PhonesSound'
  BY <1>1 DEF IInv, RelaysSound, SocketsSound, PhonesSound
<1> QED
  BY <1>3, <1>4, <1>5, <1>6 DEF IInv

LEMMA NotMadeKeeps == ASSUME IInv, NotMade PROVE IInv'
<1>1. /\ loop.at = "entry" /\ loop' = NextEntry(loop) /\ loop \in LoopType
      /\ DOMAIN loop.ports \subseteq 0..loop.idx
      /\ UNCHANGED <<peers, table, relay, toCli, toSrv, runner, sock>>
  BY DEF NotMade, IInv, Typed, LoopSound
<1>2. loop' \in LoopType /\ LoopSound' /\ loop'.at \in {"entry", "write"}
  BY <1>1, NextEntrySound
<1>3. Typed'
  BY <1>1, <1>2 DEF IInv, Typed
<1>4. RunnersSound'
  BY <1>1, RunnersStay DEF IInv, Typed, WillServe
<1>5. RelaysSound' /\ SocketsSound' /\ PhonesSound'
  BY <1>1 DEF IInv, RelaysSound, SocketsSound, PhonesSound
<1> QED
  BY <1>2, <1>3, <1>4, <1>5 DEF IInv

LEMMA WriteKeeps == ASSUME IInv, WriteToPhone PROVE IInv'
<1>1. /\ loop.at = "write" /\ loop' = Idle /\ Idle \in LoopType /\ Idle.at = "idle"
      /\ UNCHANGED <<peers, table, relay, toCli, toSrv, runner, sock>>
  BY Free DEF WriteToPhone
<1>2. Typed' /\ LoopSound'
  BY <1>1 DEF IInv, Typed, LoopSound
<1>3. RunnersSound'
  BY <1>1, RunnersStay DEF IInv, Typed, WillServe
<1>4. RelaysSound' /\ SocketsSound' /\ PhonesSound'
  BY <1>1 DEF IInv, RelaysSound, SocketsSound, PhonesSound
<1> QED
  BY <1>2, <1>3, <1>4 DEF IInv

(* A relay is made for an entry that has none, of an object nobody names.  *)
LEMMA CreateKeeps == ASSUME IInv, Create PROVE IInv'
<1>1. /\ loop.at = "entry" /\ table[Key] = None /\ Ports \ InUse # {}
      /\ UNCHANGED <<peers, toCli, toSrv, runner, sock>>
  BY DEF Create
<1> DEFINE p == Min(Ports \ InUse)
           e == Entries[loop.idx + 1]
           new == [NoRelay EXCEPT !.st = "open", !.key = Key, !.port = p, !.target = e]
<1>2. PICK r \in Relays : /\ Gone(r) /\ relay' = [relay EXCEPT ![r] = new]
                          /\ table' = [table EXCEPT ![Key] = r]
                          /\ loop' = [GivenPort(p) EXCEPT !.at = "notify"]
  BY DEF Create
<1>3. p \in Ports
  <2> DEFINE P == Ports \ InUse
  <2>1. P # {} /\ P \subseteq Nat
    BY <1>1, BoundAssumption
  <2>2. \E x \in P : \A y \in P : x <= y
    <3> DEFINE R == {ss \in Nat \X Nat : ss[1] < ss[2]}
    <3>1. IsWellFoundedOn(R, Nat)
      BY NatLessThanWellFounded DEF OpToRel
    <3>2. PICK x \in P : \A y \in P : ~(<<y, x>> \in R)
      <4> HIDE DEF P, R
      <4> QED BY <2>1, <3>1, WFMin
    <3>3. ASSUME NEW y \in P PROVE x <= y
      <4>1. <<y, x>> \in Nat \X Nat /\ x \in Nat /\ y \in Nat
        BY <2>1
      <4>2. ~(<<y, x>>[1] < <<y, x>>[2])
        BY <3>2, <4>1
      <4> QED
        BY <4>1, <4>2
    <3> QED
      BY <3>3
  <2>3. Min(P) \in P
    BY <2>2 DEF Min
  <2> QED
    BY <2>3
<1> HIDE DEF p
<1>4. /\ Key \in Keys /\ e \in Targets
  BY <1>1, AtAnEntry
<1>5. /\ new \in RelayType /\ new.st = "open" /\ new.key = Key /\ new.port = p
      /\ new.target = e /\ new.got = None
  BY <1>3, <1>4, Free DEF RelayType, NoRelay
<1>6. /\ table \in [Keys -> Relays \cup {None}] /\ relay \in [Relays -> RelayType]
      /\ RelaysSound /\ RunnersSound /\ LoopSound
  BY DEF IInv, Typed
<1> HIDE DEF new
<1>7. /\ table' \in [Keys -> Relays \cup {None}] /\ relay' \in [Relays -> RelayType]
      /\ table'[Key] = r /\ relay'[r] = new /\ r # None
      /\ \A k \in Keys : k # Key => table'[k] = table[k] /\ table[k] # r
      /\ \A q \in Relays : q # r => relay'[q] = relay[q]
  BY <1>2, <1>4, <1>5, <1>6, Distinct DEF Gone
<1> DEFINE g == GivenPort(p)
<1>8. /\ g \in LoopType /\ g.call = loop.call /\ g.body = loop.body /\ g.idx = loop.idx
      /\ DOMAIN g.ports \subseteq 0..loop.idx
  BY <1>1, <1>3, PortGiven
<1>9. /\ loop' \in LoopType /\ loop'.at = "notify" /\ loop'.call = loop.call
      /\ loop'.body = loop.body /\ loop'.idx = loop.idx
      /\ DOMAIN loop'.ports \subseteq 0..loop.idx
  <2> HIDE DEF g
  <2> QED
    BY <1>2, <1>8 DEF LoopType, g
<1>10. Key' = Key /\ Entries' = Entries
  BY <1>9 DEF Key, Entries
<1>11. RelaysSound'
  <2>1. ASSUME NEW k \in Keys, table'[k] # None
        PROVE  relay'[table'[k]].key = k /\ relay'[table'[k]].st # "free"
    <3>1. CASE k = Key
      BY <1>5, <1>7, <3>1
    <3>2. CASE k # Key
      BY <1>6, <1>7, <2>1, <3>2 DEF RelaysSound
    <3> QED
      BY <3>1, <3>2
  <2>2. ASSUME NEW q \in Relays, relay'[q].st \in {"open", "stopping"}
        PROVE  relay'[q].key \in Keys /\ table'[relay'[q].key] = q
    <3>1. CASE q = r
      BY <1>4, <1>5, <1>7, <3>1
    <3>2. CASE q # r
      <4>1. relay[q].key \in Keys /\ table[relay[q].key] = q
        BY <1>6, <1>7, <2>2, <3>2 DEF RelaysSound
      <4>2. relay[q].key # Key
        BY <1>1, <4>1, Distinct
      <4> QED
        BY <1>7, <3>2, <4>1, <4>2
    <3> QED
      BY <3>1, <3>2
  <2>3. ASSUME NEW q \in Relays
        PROVE  /\ relay'[q].st # "free" => relay'[q].key \in Keys /\ relay'[q].port \in Ports
               /\ relay'[q].got # None => relay'[q].key \in Keys
    BY <1>3, <1>4, <1>5, <1>6, <1>7 DEF RelaysSound
  <2> QED
    BY <2>1, <2>2, <2>3 DEF RelaysSound
<1>12. Typed'
  BY <1>1, <1>7, <1>9 DEF IInv, Typed
<1>13. LoopSound'
  BY <1>1, <1>5, <1>6, <1>7, <1>9, <1>10 DEF LoopSound
<1>14. RunnersSound'
  <2> SUFFICES ASSUME NEW k \in Keys, table'[k] # None, relay'[table'[k]].st = "open",
                      k # Key
               PROVE  Promises(toCli', runner'[k], k, relay'[table'[k]].target)
    BY <1>9, <1>10 DEF RunnersSound, WillServe
  <2>1. table'[k] = table[k] /\ table[k] \in Relays /\ relay'[table[k]] = relay[table[k]]
    BY <1>6, <1>7
  <2>2. WillServe(k, relay[table[k]].target)
    BY <1>1, <1>6, <2>1 DEF RunnersSound
  <2> QED
    BY <1>1, <2>1, <2>2 DEF WillServe
<1>15. SocketsSound' /\ PhonesSound'
  BY <1>1 DEF IInv, SocketsSound, PhonesSound
<1> QED
  BY <1>11, <1>12, <1>13, <1>14, <1>15 DEF IInv

(* The client is told where the relay leads, before it reads any packet of *)
(* the relay.                                                              *)
LEMMA NotifyKeeps == ASSUME IInv, Notify PROVE IInv'
<1> DEFINE t == Entries[loop.idx + 1]
           m == NewRTPRelay(Key, t)
<1>1. /\ loop.at = "notify" /\ Len(toCli) < MaxWire /\ toCli' = Append(toCli, m)
      /\ loop' = NextEntry(loop) /\ loop \in LoopType /\ DOMAIN loop.ports \subseteq 0..loop.idx
      /\ UNCHANGED <<peers, table, relay, toSrv, runner, sock>>
  BY DEF Notify, IInv, Typed, LoopSound
<1>2. loop' \in LoopType /\ LoopSound' /\ loop'.at \in {"entry", "write"}
  BY <1>1, NextEntrySound
<1>3. m \in Orders /\ m.type = "New" /\ m.name = Key
  BY <1>1, AtAnEntry DEF NewRTPRelay, Orders
<1>4. table[Key] # None => relay[table[Key]].target = t
  BY <1>1 DEF IInv, LoopSound
<1>5. Promises(toCli', runner[Key], Key, t)
  BY <1>1, <1>3, Appended DEF IInv, Typed
<1> HIDE DEF t, m
<1>6. /\ toCli' \in Seq(Orders) /\ Len(toCli') = Len(toCli) + 1 /\ Len(toCli) \in Nat
      /\ \A i \in 1..Len(toCli') : (i \in 1..Len(toCli) /\ toCli'[i] = toCli[i]) \/ toCli'[i] = m
  BY <1>1, <1>3 DEF IInv, Typed
<1>7. Typed'
  BY <1>1, <1>2, <1>6, KeysFinite, BoundAssumption DEF IInv, Typed
<1>8. RunnersSound'
  <2> SUFFICES ASSUME NEW k \in Keys, table[k] # None, relay[table[k]].st = "open"
               PROVE  Promises(toCli', runner[k], k, relay[table[k]].target)
    BY <1>1 DEF RunnersSound, WillServe
  <2>1. CASE k = Key
    BY <1>4, <1>5, <2>1
  <2>2. CASE k # Key
    <3>1. Promises(toCli, runner[k], k, relay[table[k]].target)
      BY <2>2 DEF IInv, RunnersSound, WillServe
    <3>2. toCli \in Seq(Orders) /\ ~Concerns(m, k)
      BY <1>3, <2>2 DEF IInv, Typed, Concerns
    <3> QED
      BY <1>1, <1>3, <3>1, <3>2, Appended
  <2> QED
    BY <2>1, <2>2
<1>9. PhonesSound'
  BY <1>1, <1>3, <1>6 DEF IInv, PhonesSound
<1>10. RelaysSound' /\ SocketsSound'
  BY <1>1 DEF IInv, RelaysSound, SocketsSound
<1> QED
  BY <1>2, <1>7, <1>8, <1>9, <1>10 DEF IInv

-----------------------------------------------------------------------------
(* The relays. *)

LEMMA ReceiveKeeps == ASSUME IInv, NEW r \in Relays, NEW x \in Phones, Receive(r, x) PROVE IInv'
<1>1. /\ relay[r].st = "open" /\ relay' = [relay EXCEPT ![r].got = x]
      /\ UNCHANGED <<peers, table, loop, toCli, toSrv, runner, sock>>
      /\ relay \in [Relays -> RelayType] /\ RelaysSound
  BY DEF Receive, IInv, Typed
<1>2. /\ relay' \in [Relays -> RelayType]
      /\ \A q \in Relays : /\ relay'[q].st = relay[q].st /\ relay'[q].key = relay[q].key
                           /\ relay'[q].port = relay[q].port
                           /\ relay'[q].target = relay[q].target
                           /\ q # r => relay'[q].got = relay[q].got
  BY <1>1 DEF RelayType
<1>3. Typed'
  BY <1>1, <1>2 DEF IInv, Typed
<1>4. RelaysSound'
  BY <1>1, <1>2, Distinct DEF IInv, Typed, RelaysSound
<1>5. LoopSound'
  <2>1. loop.at # "idle" => Key \in Keys
    BY AtAnEntry
  <2> QED
    BY <1>1, <1>2, <2>1 DEF IInv, Typed, LoopSound, Key, Entries
<1>6. RunnersSound'
  BY <1>1, <1>2, RunnersStay DEF IInv, Typed, WillServe, Key
<1>7. SocketsSound' /\ PhonesSound'
  BY <1>1 DEF IInv, SocketsSound, PhonesSound
<1> QED
  BY <1>3, <1>4, <1>5, <1>6, <1>7 DEF IInv

LEMMA IdleStopKeeps == ASSUME IInv, NEW r \in Relays, IdleStop(r) PROVE IInv'
<1>1. /\ relay[r].st = "open" /\ relay' = [relay EXCEPT ![r].st = "stopping"]
      /\ UNCHANGED <<peers, table, loop, toCli, toSrv, runner, sock>>
      /\ relay \in [Relays -> RelayType] /\ RelaysSound
  BY DEF IdleStop, IInv, Typed
<1>2. /\ relay' \in [Relays -> RelayType] /\ relay'[r].st = "stopping"
      /\ \A q \in Relays : /\ relay'[q].key = relay[q].key /\ relay'[q].port = relay[q].port
                           /\ relay'[q].target = relay[q].target
                           /\ relay'[q].got = relay[q].got
                           /\ q # r => relay'[q].st = relay[q].st
  BY <1>1 DEF RelayType
<1>3. Typed'
  BY <1>1, <1>2 DEF IInv, Typed
<1>4. RelaysSound'
  BY <1>1, <1>2, Distinct DEF IInv, Typed, RelaysSound
<1>5. LoopSound'
  <2>1. loop.at # "idle" => Key \in Keys
    BY AtAnEntry
  <2> QED
    BY <1>1, <1>2, <2>1 DEF IInv, Typed, LoopSound, Key, Entries
<1>6. RunnersSound'
  BY <1>1, <1>2, RunnersStay DEF IInv, Typed, WillServe, Key
<1>7. SocketsSound' /\ PhonesSound'
  BY <1>1 DEF IInv, SocketsSound, PhonesSound
<1> QED
  BY <1>3, <1>4, <1>5, <1>6, <1>7 DEF IInv

LEMMA ForwardKeeps == ASSUME IInv, NEW r \in Relays, Forward(r) PROVE IInv'
<1> DEFINE m == UDPPacket(relay[r].key, relay[r].got)
<1>1. /\ relay[r].got # None /\ Len(toCli) < MaxWire /\ toCli' = Append(toCli, m)
      /\ relay' = [relay EXCEPT ![r].got = None]
      /\ UNCHANGED <<peers, table, loop, toSrv, runner, sock>>
      /\ relay \in [Relays -> RelayType] /\ RelaysSound
  BY DEF Forward, IInv, Typed
<1>2. /\ relay' \in [Relays -> RelayType]
      /\ \A q \in Relays : /\ relay'[q].st = relay[q].st /\ relay'[q].key = relay[q].key
                           /\ relay'[q].port = relay[q].port
                           /\ relay'[q].target = relay[q].target
                           /\ relay'[q].got # None => relay[q].got # None
  BY <1>1 DEF RelayType
<1>3. relay[r].key \in Keys /\ relay[r].got \in Phones
  <2>1. relay[r] \in RelayType
    BY <1>1
  <2> QED
    BY <1>1, <2>1 DEF RelayType, RelaysSound
<1>4. m \in Orders /\ m.type = "Packet" /\ m.name # Proxy
  BY <1>3, Distinct DEF UDPPacket, Orders
<1> HIDE DEF m
<1>5. /\ toCli' \in Seq(Orders) /\ Len(toCli') = Len(toCli) + 1 /\ Len(toCli) \in Nat
      /\ \A i \in 1..Len(toCli') : (i \in 1..Len(toCli) /\ toCli'[i] = toCli[i]) \/ toCli'[i] = m
  BY <1>1, <1>4 DEF IInv, Typed
<1>6. Typed'
  BY <1>1, <1>2, <1>5, KeysFinite, BoundAssumption DEF IInv, Typed
<1>7. RelaysSound'
  BY <1>1, <1>2, Distinct DEF IInv, Typed, RelaysSound
<1>8. LoopSound'
  <2>1. loop.at # "idle" => Key \in Keys
    BY AtAnEntry
  <2> QED
    BY <1>1, <1>2, <2>1 DEF IInv, Typed, LoopSound, Key, Entries
<1>9. RunnersSound'
  <2>1. \A k, t : WillServe(k, t) => Promises(toCli', runner[k], k, t)
    BY <1>1, <1>4, PacketKeeps
  <2> QED
    BY <1>1, <1>2, <2>1, RunnersStay DEF IInv, Typed, Key
<1>10. SocketsSound' /\ PhonesSound'
  BY <1>1, <1>4, <1>5 DEF IInv, SocketsSound, PhonesSound
<1> QED
  BY <1>6, <1>7, <1>8, <1>9, <1>10 DEF IInv

(* What an idle relay's watcher tells the client is about a key that has   *)
(* no running relay: the one that stopped is still in the table.           *)
LEMMA IdleTellKeeps == ASSUME IInv, NEW r \in Relays, IdleTell(r) PROVE IInv'
<1> DEFINE h == relay[r].key
           m == CloseRTPRelay(h)
<1>1. /\ relay[r].st = "stopping" /\ Len(toCli) < MaxWire /\ toCli' = Append(toCli, m)
      /\ relay' = [relay EXCEPT ![r].st = "stopped"]
      /\ UNCHANGED <<peers, table, loop, toSrv, runner, sock>>
      /\ relay \in [Relays -> RelayType] /\ RelaysSound /\ RunnersSound
  BY DEF IdleTell, IInv, Typed
<1>2. /\ relay' \in [Relays -> RelayType] /\ relay'[r].st = "stopped"
      /\ \A q \in Relays : /\ relay'[q].key = relay[q].key /\ relay'[q].port = relay[q].port
                           /\ relay'[q].target = relay[q].target
                           /\ relay'[q].got = relay[q].got
                           /\ q # r => relay'[q].st = relay[q].st
  BY <1>1 DEF RelayType
<1>3. h \in Keys /\ table[h] = r
  BY <1>1 DEF RelaysSound
<1>4. m \in Orders /\ m.type = "Close" /\ m.name = h
  BY <1>3 DEF CloseRTPRelay, Orders
<1> HIDE DEF m
<1>5. /\ toCli' \in Seq(Orders) /\ Len(toCli') = Len(toCli) + 1 /\ Len(toCli) \in Nat
      /\ \A i \in 1..Len(toCli') : (i \in 1..Len(toCli) /\ toCli'[i] = toCli[i]) \/ toCli'[i] = m
  BY <1>1, <1>4 DEF IInv, Typed
<1>6. Typed'
  BY <1>1, <1>2, <1>5, KeysFinite, BoundAssumption DEF IInv, Typed
<1>7. RelaysSound'
  BY <1>1, <1>2, Distinct DEF IInv, Typed, RelaysSound
<1>8. LoopSound'
  <2>1. loop.at # "idle" => Key \in Keys
    BY AtAnEntry
  <2> QED
    BY <1>1, <1>2, <2>1 DEF IInv, Typed, LoopSound, Key, Entries
<1>9. RunnersSound'
  <2> SUFFICES ASSUME NEW k \in Keys, table[k] # None, relay'[table[k]].st = "open",
                      ~(loop.at = "notify" /\ Key = k)
               PROVE  Promises(toCli', runner[k], k, relay'[table[k]].target)
    BY <1>1 DEF RunnersSound, WillServe, Key
  <2>1. /\ table[k] \in Relays /\ table[k] # r /\ k # h
        /\ relay[table[k]].st = "open" /\ relay'[table[k]].target = relay[table[k]].target
    BY <1>1, <1>2, <1>3 DEF IInv, Typed
  <2>2. Promises(toCli, runner[k], k, relay[table[k]].target)
    BY <1>1, <2>1 DEF RunnersSound, WillServe
  <2>3. toCli \in Seq(Orders) /\ ~Concerns(m, k)
    BY <1>4, <2>1 DEF IInv, Typed, Concerns
  <2> QED
    BY <1>1, <1>4, <2>1, <2>2, <2>3, Appended
<1>10. SocketsSound' /\ PhonesSound'
  BY <1>1, <1>4, <1>5 DEF IInv, SocketsSound, PhonesSound
<1> QED
  BY <1>6, <1>7, <1>8, <1>9, <1>10 DEF IInv

-----------------------------------------------------------------------------
(* The client. *)

LEMMA OrderRead ==
    ASSUME IInv, NEW type, Obey(type)
    PROVE  /\ toCli # <<>> /\ Order \in Orders /\ Order.type = type
           /\ toCli \in Seq(Orders) /\ toCli' \in Seq(Orders) /\ toCli' = Tail(toCli)
           /\ Len(toCli) \in Nat /\ Len(toCli') = Len(toCli) - 1 /\ Order = toCli[1]
           /\ Len(toCli) > 0
           /\ \A i \in 1..Len(toCli') : i + 1 \in 1..Len(toCli) /\ toCli'[i] = toCli[i + 1]
<1>1. /\ toCli \in Seq(Orders) /\ toCli # <<>> /\ toCli' = Tail(toCli) /\ Order.type = type
  BY DEF Obey, IInv, Typed
<1>2. Order \in Orders
  BY <1>1, HeadOf DEF Order
<1> QED
  BY <1>1, <1>2 DEF Order

(* An order about a key settles the runner of that key, for good or until  *)
(* the next order about it.                                                *)
LEMMA OrderSettles ==
    ASSUME IInv, NEW h \in Keys, NEW type, Obey(type), NEW v, type # "Packet", Order.name = h,
           type = "New" => v = Order.target, type \in {"New", "Close"},
           runner' = [runner EXCEPT ![h] = v], UNCHANGED <<table, relay, loop>>
    PROVE  RunnersSound'
<1>1. /\ toCli \in Seq(Orders) /\ toCli # <<>> /\ toCli' = Tail(toCli)
      /\ Order = Head(toCli) /\ Order.type = type /\ runner \in [Names -> Targets]
  BY OrderRead DEF Order, IInv, Typed
<1> SUFFICES ASSUME NEW k \in Keys, table[k] # None, relay[table[k]].st = "open",
                    ~(loop.at = "notify" /\ Key = k)
             PROVE  Promises(toCli', runner'[k], k, relay[table[k]].target)
  BY DEF RunnersSound, WillServe, Key
<1>2. Promises(toCli, runner[k], k, relay[table[k]].target)
  BY DEF IInv, RunnersSound, WillServe
<1>3. CASE k = h
  <2>1. runner'[k] = v
    BY <1>1, <1>3, Distinct
  <2> QED
    BY <1>1, <1>2, <1>3, <2>1, Obeyed
<1>4. CASE k # h
  <2>1. runner'[k] = runner[k]
    BY <1>1, <1>4, Distinct
  <2>2. ~Concerns(Head(toCli), k)
    BY <1>1, <1>4 DEF Concerns
  <2> QED
    BY <1>1, <1>2, <2>1, <2>2, Obeyed
<1> QED
  BY <1>3, <1>4

LEMMA NewKeeps == ASSUME IInv, HandleNewRTPRelay PROVE IInv'
<1> DEFINE Off(s) == [sock[s] EXCEPT !.listed = FALSE]
<1>1. /\ Obey("New") /\ runner' = [runner EXCEPT ![Order.name] = Order.target]
      /\ sock' = [s \in Sockets |-> IF sock[s].name = Order.name THEN Off(s) ELSE sock[s]]
      /\ UNCHANGED <<peers, table, relay, loop, toSrv>>
      /\ sock \in [Sockets -> SockType] /\ runner \in [Names -> Targets]
  BY DEF HandleNewRTPRelay, IInv, Typed
<1>2. /\ Order.name \in Keys /\ Order.target \in Targets /\ Order.name # Proxy
  <2>1. Order \in Orders /\ Order.type = "New"
    BY <1>1, OrderRead
  <2>2. Media \subseteq Targets
    BY DEF Media, Targets
  <2> QED
    BY <2>1, <2>2, Distinct DEF Orders
<1>3. ASSUME NEW s \in Sockets
      PROVE  /\ Off(s) \in SockType /\ Off(s).name = sock[s].name
             /\ Off(s).peer = sock[s].peer /\ Off(s).listed = FALSE
  <2>1. sock[s] \in SockType
    BY <1>1
  <2> QED
    BY <2>1 DEF SockType
<1> HIDE DEF Off
<1>4. /\ sock' \in [Sockets -> SockType]
      /\ \A s \in Sockets : /\ sock'[s].name = sock[s].name /\ sock'[s].peer = sock[s].peer
                            /\ sock'[s].listed => sock[s].listed
                            /\ sock[s].name = Proxy => sock'[s] = sock[s]
  BY <1>1, <1>2, <1>3
<1>5. /\ toCli' \in Seq(Orders) /\ Len(toCli) \in Nat /\ Len(toCli') = Len(toCli) - 1
      /\ \A i \in 1..Len(toCli') : i + 1 \in 1..Len(toCli) /\ toCli'[i] = toCli[i + 1]
  BY <1>1, OrderRead
<1>6. Typed'
  <2>1. runner' \in [Names -> Targets]
    BY <1>1, <1>2
  <2>2. Len(toCli') <= MaxWire + Cardinality(Keys)
    BY <1>5, KeysFinite, BoundAssumption DEF IInv, Typed
  <2> QED
    BY <1>1, <1>4, <1>5, <2>1, <2>2 DEF IInv, Typed
<1>7. RunnersSound'
  BY <1>1, <1>2, OrderSettles
<1>8. SocketsSound'
  BY <1>4 DEF IInv, SocketsSound
<1>9. PhonesSound'
  BY <1>1, <1>4, <1>5 DEF IInv, PhonesSound
<1>10. RelaysSound' /\ LoopSound'
  BY <1>1 DEF IInv, RelaysSound, LoopSound, Key, Entries
<1> QED
  BY <1>6, <1>7, <1>8, <1>9, <1>10 DEF IInv

LEMMA CloseKeeps == ASSUME IInv, HandleCloseRTPRelay PROVE IInv'
<1> DEFINE Off(s) == [sock[s] EXCEPT !.st = "closed", !.listed = FALSE]
<1>1. /\ Obey("Close") /\ runner' = [runner EXCEPT ![Order.name] = None]
      /\ sock' = [s \in Sockets |-> IF sock[s].name = Order.name /\ sock[s].listed
                                     THEN Off(s) ELSE sock[s]]
      /\ UNCHANGED <<peers, table, relay, loop, toSrv>>
      /\ sock \in [Sockets -> SockType] /\ runner \in [Names -> Targets]
  BY DEF HandleCloseRTPRelay, IInv, Typed
<1>2. /\ Order.name \in Keys /\ Order.name # Proxy
  <2>1. Order \in Orders /\ Order.type = "Close"
    BY <1>1, OrderRead
  <2> QED
    BY <2>1, Distinct DEF Orders
<1>3. ASSUME NEW s \in Sockets
      PROVE  /\ Off(s) \in SockType /\ Off(s).name = sock[s].name
             /\ Off(s).peer = sock[s].peer /\ Off(s).listed = FALSE
  <2>1. sock[s] \in SockType
    BY <1>1
  <2> QED
    BY <2>1 DEF SockType
<1> HIDE DEF Off
<1>4. /\ sock' \in [Sockets -> SockType]
      /\ \A s \in Sockets : /\ sock'[s].name = sock[s].name /\ sock'[s].peer = sock[s].peer
                            /\ sock'[s].listed => sock[s].listed
                            /\ sock[s].name = Proxy => sock'[s] = sock[s]
  BY <1>1, <1>2, <1>3
<1>5. /\ toCli' \in Seq(Orders) /\ Len(toCli) \in Nat /\ Len(toCli') = Len(toCli) - 1
      /\ \A i \in 1..Len(toCli') : i + 1 \in 1..Len(toCli) /\ toCli'[i] = toCli[i + 1]
  BY <1>1, OrderRead
<1>6. Typed'
  <2>1. runner' \in [Names -> Targets]
    BY <1>1, <1>2 DEF Targets
  <2>2. Len(toCli') <= MaxWire + Cardinality(Keys)
    BY <1>5, KeysFinite, BoundAssumption DEF IInv, Typed
  <2> QED
    BY <1>1, <1>4, <1>5, <2>1, <2>2 DEF IInv, Typed
<1>7. RunnersSound'
  BY <1>1, <1>2, OrderSettles
<1>8. SocketsSound'
  BY <1>4 DEF IInv, SocketsSound
<1>9. PhonesSound'
  BY <1>1, <1>4, <1>5 DEF IInv, PhonesSound
<1>10. RelaysSound' /\ LoopSound'
  BY <1>1 DEF IInv, RelaysSound, LoopSound, Key, Entries
<1> QED
  BY <1>6, <1>7, <1>8, <1>9, <1>10 DEF IInv

(* A packet is for a phone the proxy knows; a socket is opened for it if   *)
(* none is listed.                                                         *)
LEMMA PacketHandled == ASSUME IInv, HandleUDPPacket PROVE IInv'
<1>1. /\ Obey("Packet") /\ UNCHANGED <<peers, table, relay, loop, toSrv, runner>>
      /\ sock \in [Sockets -> SockType] /\ runner \in [Names -> Targets] /\ SocketsSound
      /\ PhonesSound
  BY DEF HandleUDPPacket, IInv, Typed
<1>2. /\ Order.name \in Names /\ Order.peer \in Phones
      /\ Order.name = Proxy => Order.peer \in peers
  <2>1. Order \in Orders /\ Order.type = "Packet" /\ Order = toCli[1] /\ Len(toCli) \in Nat
        /\ Len(toCli) > 0
    BY <1>1, OrderRead
  <2> QED
    BY <1>1, <2>1, Distinct DEF Orders, PhonesSound
<1>3. /\ toCli' \in Seq(Orders) /\ Len(toCli) \in Nat /\ Len(toCli') = Len(toCli) - 1
      /\ \A i \in 1..Len(toCli') : i + 1 \in 1..Len(toCli) /\ toCli'[i] = toCli[i + 1]
  BY <1>1, OrderRead
<1>4. /\ sock' \in [Sockets -> SockType] /\ SocketsSound'
      /\ \A s \in Sockets : sock'[s].name = Proxy => sock'[s].peer \in peers
  <2>1. CASE UNCHANGED sock
    BY <1>1, <2>1 DEF SocketsSound, PhonesSound
  <2>2. CASE sock' # sock
    <3> DEFINE new == [st |-> "open", name |-> Order.name, target |-> runner[Order.name],
                       peer |-> Order.peer, listed |-> TRUE]
    <3>1. Session(Order.name, Order.peer) = {}
      BY <2>2 DEF HandleUDPPacket
    <3>2. PICK s \in Sockets : sock' = [sock EXCEPT ![s] = new]
      BY <2>2 DEF HandleUDPPacket
    <3>3. /\ new \in SockType /\ new.name = Order.name /\ new.peer = Order.peer
          /\ new.listed = TRUE
      BY <1>1, <1>2 DEF SockType
    <3> HIDE DEF new
    <3>4. /\ sock' \in [Sockets -> SockType] /\ sock'[s] = new
          /\ \A t \in Sockets : t # s => sock'[t] = sock[t]
      BY <1>1, <3>2, <3>3
    <3>5. \A t \in Sockets : ~(sock[t].name = Order.name /\ sock[t].peer = Order.peer
                               /\ sock[t].listed)
      BY <3>1 DEF Session
    <3>6. SocketsSound'
      <4>1. ASSUME NEW t \in Sockets, NEW u \in Sockets, sock'[t].listed, sock'[u].listed,
                   sock'[t].name = sock'[u].name, sock'[t].peer = sock'[u].peer
            PROVE  t = u
        BY <1>1, <3>3, <3>4, <3>5, <4>1 DEF SocketsSound
      <4>2. ASSUME NEW t \in Sockets, sock'[t].name = Proxy PROVE sock'[t].listed
        BY <1>1, <3>3, <3>4, <4>2 DEF SocketsSound
      <4> QED
        BY <4>1, <4>2 DEF SocketsSound
    <3> QED
      BY <1>1, <1>2, <3>3, <3>4, <3>6 DEF PhonesSound
  <2> QED
    BY <2>1, <2>2
<1>5. Typed'
  BY <1>1, <1>3, <1>4, KeysFinite, BoundAssumption DEF IInv, Typed
<1>6. RunnersSound'
  <2>1. toCli \in Seq(Orders) /\ toCli # <<>> /\ toCli' = Tail(toCli) /\ Order = Head(toCli)
        /\ Order.type = "Packet"
    BY <1>1, OrderRead DEF Order
  <2>2. \A k, t : WillServe(k, t) => Promises(toCli', runner[k], k, t)
    BY <2>1, Obeyed DEF WillServe, Concerns
  <2> QED
    BY <1>1, <2>2, RunnersStay DEF IInv, Typed, Key
<1>7. PhonesSound'
  BY <1>1, <1>3, <1>4 DEF PhonesSound
<1>8. RelaysSound' /\ LoopSound'
  BY <1>1 DEF IInv, RelaysSound, LoopSound, Key, Entries
<1> QED
  BY <1>4, <1>5, <1>6, <1>7, <1>8 DEF IInv

LEMMA FromLocalKeeps == ASSUME IInv, NEW s \in Sockets, FromLocal(s) PROVE IInv'
<1> DEFINE S == [peer : Phones, offer : Offers \cup Byes]
<1>1. /\ sock[s].name = Proxy /\ Len(toSrv) < MaxWire
      /\ UNCHANGED <<peers, table, relay, loop, toCli, runner, sock>>
  BY DEF FromLocal
<1>2. PICK o \in Offers \cup Byes : toSrv' = Append(toSrv, Signalling(sock[s].peer, o))
  BY DEF FromLocal
<1> DEFINE m == Signalling(sock[s].peer, o)
<1>3. m \in S /\ m.peer \in peers
  <2>1. sock[s].peer \in peers /\ peers \subseteq Phones
    BY <1>1 DEF IInv, Typed, PhonesSound
  <2> QED
    BY <2>1 DEF Signalling
<1>4. toSrv \in Seq(S)
  BY DEF IInv, Typed
<1> HIDE DEF m, S
<1>5. /\ toSrv' \in Seq(S) /\ Len(toSrv') = Len(toSrv) + 1 /\ Len(toSrv) \in Nat
      /\ \A i \in 1..Len(toSrv') : (i \in 1..Len(toSrv) /\ toSrv'[i] = toSrv[i]) \/ toSrv'[i] = m
  BY <1>2, <1>3, <1>4 DEF m
<1>6. Typed'
  BY <1>1, <1>5, BoundAssumption DEF IInv, Typed, S
<1>7. PhonesSound'
  BY <1>1, <1>3, <1>5 DEF IInv, PhonesSound
<1>8. RunnersSound'
  BY <1>1, RunnersStay DEF IInv, Typed, WillServe, Key
<1>9. RelaysSound' /\ LoopSound' /\ SocketsSound'
  BY <1>1 DEF IInv, RelaysSound, LoopSound, SocketsSound, Key, Entries
<1> QED
  BY <1>6, <1>7, <1>8, <1>9 DEF IInv

LEMMA ReaderKeeps ==
    ASSUME IInv, NEW s \in Sockets, ReadTimeout(s) \/ Unlist(s)
    PROVE  IInv'
<1>1. PICK new \in SockType :
        /\ sock' = [sock EXCEPT ![s] = new]
        /\ \/ new.name = sock[s].name /\ new.peer = sock[s].peer /\ new.listed = sock[s].listed
           \/ new.name = None /\ new.listed = FALSE
  <2>1. sock[s] \in SockType
    BY DEF IInv, Typed
  <2>2. CASE ReadTimeout(s)
    <3> DEFINE new == [sock[s] EXCEPT !.st = "closed"]
    <3>1. new \in SockType /\ new.name = sock[s].name /\ new.peer = sock[s].peer
          /\ new.listed = sock[s].listed
      BY <2>1 DEF SockType
    <3>2. sock' = [sock EXCEPT ![s] = new]
      BY <2>2 DEF ReadTimeout
    <3> QED
      BY <3>1, <3>2
  <2>3. CASE Unlist(s)
    <3>1. /\ sock \in [Sockets -> SockType]
          /\ \A t \in Sockets : t # s /\ sock[s].listed => t \notin Session(sock[s].name, sock[s].peer)
      BY DEF IInv, Typed, SocketsSound, Session
    <3>2. \A t \in Sockets : [sock[t] EXCEPT !.listed = @] = sock[t]
      BY <3>1 DEF SockType
    <3>3. \A t \in Sockets : t # s => sock'[t] = sock[t]
      <4> SUFFICES ASSUME NEW t \in Sockets, t # s PROVE sock'[t] = sock[t]
        OBVIOUS
      <4> DEFINE entry == IF sock[s].listed THEN Session(sock[s].name, sock[s].peer) ELSE {}
      <4>1. t \notin entry
        BY <3>1
      <4>2. sock'[t] = [sock[t] EXCEPT !.listed = @ /\ t \notin entry]
        BY <2>3 DEF Unlist
      <4> HIDE DEF entry
      <4>3. sock[t].listed \in BOOLEAN /\ sock[t] \in SockType
        BY <3>1 DEF SockType
      <4>4. (sock[t].listed /\ t \notin entry) = sock[t].listed
        BY <4>1, <4>3
      <4> QED
        BY <3>2, <4>2, <4>4
    <3>4. sock' = [sock EXCEPT ![s] = Closed]
      BY <2>3, <3>1, <3>3 DEF Unlist
    <3> QED
      BY <3>4, Free
  <2> QED
    BY <2>2, <2>3
<1>2. /\ UNCHANGED <<peers, table, relay, loop, toCli, toSrv, runner>>
      /\ sock \in [Sockets -> SockType]
  BY DEF ReadTimeout, Unlist, IInv, Typed
<1>3. /\ sock' \in [Sockets -> SockType] /\ sock'[s] = new
      /\ \A t \in Sockets : t # s => sock'[t] = sock[t]
  BY <1>1, <1>2
<1>4. Typed'
  BY <1>2, <1>3 DEF IInv, Typed
<1>5. SocketsSound' /\ PhonesSound'
  BY <1>1, <1>2, <1>3, Distinct DEF IInv, SocketsSound, PhonesSound
<1>6. RunnersSound'
  BY <1>2, RunnersStay DEF IInv, Typed, WillServe, Key
<1>7. RelaysSound' /\ LoopSound'
  BY <1>2 DEF IInv, RelaysSound, LoopSound, Key, Entries
<1> QED
  BY <1>4, <1>5, <1>6, <1>7 DEF IInv

LEMMA NextKeeps == IInv /\ [Next]_vars => IInv'
<1> SUFFICES ASSUME IInv, [Next]_vars PROVE IInv'
  OBVIOUS
<1>1. CASE UNCHANGED vars
  BY <1>1 DEF vars, IInv, Typed, RelaysSound, LoopSound, RunnersSound, PhonesSound, SocketsSound,
              WillServe, Key, Entries
<1>2. CASE \E x \in Phones : FromPhone(x) \/ \E c \in Calls : ByeFromPhone(x, c)
  BY <1>2, FromPhoneKeeps, ByeFromPhoneKeeps
<1>3. CASE LoopNext
  BY <1>3, RewriteKeeps, ByeFromHomeKeeps, ReuseKeeps, CreateKeeps, NotMadeKeeps, NotifyKeeps,
     WriteKeeps DEF LoopNext
<1>4. CASE \E r \in Relays : \/ Forward(r) \/ IdleStop(r) \/ IdleTell(r)
                             \/ \E x \in Phones : Receive(r, x)
  BY <1>4, ForwardKeeps, IdleStopKeeps, IdleTellKeeps, ReceiveKeeps
<1>5. CASE ClientNext
  BY <1>5, NewKeeps, CloseKeeps, PacketHandled DEF ClientNext
<1>6. CASE \E s \in Sockets : FromLocal(s) \/ ReadTimeout(s) \/ Unlist(s)
  BY <1>6, FromLocalKeeps, ReaderKeeps
<1> QED
  BY <1>1, <1>2, <1>3, <1>4, <1>5, <1>6 DEF Next

LEMMA Inductive == Spec => []IInv
BY InitIInv, NextKeeps, PTL DEF Spec

-----------------------------------------------------------------------------
(* Every reachable state has its types: a queue to the client never holds  *)
(* more than its bound and one notice per key.                             *)
THEOREM TypeCorrect == Spec => []TypeOK
<1>1. IInv => TypeOK
  <2> SUFFICES ASSUME IInv PROVE TypeOK
    OBVIOUS
  <2>1. Typed
    BY DEF IInv
  <2>2. relay \in [Relays -> RelayType] /\ sock \in [Sockets -> SockType]
    BY <2>1 DEF Typed
  <2>3. /\ loop.at \in {"idle", "entry", "notify", "write"} /\ loop.call \in Calls \cup {None}
        /\ loop.idx \in 0..(MaxPort - 1) /\ Range(loop.ports) \subseteq Ports
    <3>1. PICK D \in SUBSET (0..(MaxPort - 1)) : loop.ports \in [D -> Ports]
      BY <2>1 DEF Typed, LoopType, PortMaps
    <3>2. Range(loop.ports) \subseteq Ports
      BY <3>1 DEF Range
    <3> QED
      BY <2>1, <3>2 DEF Typed, LoopType
  <2>4. \A m \in ToSet(toCli) : m.type \in {"New", "Close", "Packet"} /\ m.name \in Names
    <3>1. \A m \in Orders : m.type \in {"New", "Close", "Packet"} /\ m.name \in Names
      BY Distinct DEF Orders
    <3> QED
      BY <2>1, <3>1 DEF Typed, ToSet
  <2>5. ToSet(toSrv) \subseteq [peer : Phones, offer : Offers \cup Byes]
    BY <2>1, ElementsOf DEF Typed
  <2> QED
    BY <2>1, <2>2, <2>3, <2>4, <2>5 DEF TypeOK, Typed, RelayType, SockType
<1> QED
  BY <1>1, Inductive, PTL

(* While a relay runs, a client that has read all it was told about the    *)
(* relay's key has a runner to the relay's target.                         *)
THEOREM RunnerServes == Spec => []RunnerServesItsRelay
<1>1. IInv => RunnerServesItsRelay
  <2> SUFFICES ASSUME IInv, NEW k \in Keys, table[k] # None, relay[table[k]].st = "open",
                      ~\E m \in ToSet(toCli) : m.name = k /\ m.type # "Packet",
                      ~(loop.at = "notify" /\ Key = k)
               PROVE  runner[k] = relay[table[k]].target
    BY DEF RunnerServesItsRelay
  <2>1. Promises(toCli, runner[k], k, relay[table[k]].target)
    BY DEF IInv, RunnersSound, WillServe
  <2>2. \A i \in 1..Len(toCli) : ~Concerns(toCli[i], k)
    BY DEF IInv, Typed, ToSet, Concerns
  <2>3. ~LastOrder(toCli, k, relay[table[k]].target)
    BY <2>2 DEF LastOrder, NewRTPRelay, Concerns
  <2> QED
    BY <2>1, <2>3 DEF Promises
<1> QED
  BY <1>1, Inductive, PTL

(* The local service sees one socket per phone of the proxy.               *)
THEOREM OneSocket == Spec => []OneSocketPerPhone
<1>1. IInv => OneSocketPerPhone
  BY DEF IInv, SocketsSound, OneSocketPerPhone
<1> QED
  BY <1>1, Inductive, PTL

(* The proxy knows the phone of every answer under way.                    *)
THEOREM AnswersFind == Spec => []AnswersFindTheirPhone
<1>1. IInv => AnswersFindTheirPhone
  BY DEF IInv, Typed, PhonesSound, AnswersFindTheirPhone, ToSet
<1> QED
  BY <1>1, Inductive, PTL

-----------------------------------------------------------------------------
(* What the phones are told.  A relay leads to a medium of an offer of its *)
(* call, and the ports the loop has collected are those of the relays that *)
(* still run: between two entries a BYE may take one away, and only the    *)
(* loop itself makes another.                                              *)
TargetsSound ==
    \A k \in Keys : table[k] # None =>
        \E o \in Offers :
            /\ o[1] = k[1] /\ k[2] + 1 \in DOMAIN ExtractMediaEntries(o[2])
            /\ relay[table[k]].target = ExtractMediaEntries(o[2])[k[2] + 1]
PortsSound ==
    loop.at # "idle" => \A n \in DOMAIN loop.ports :
        LET r == table[<<loop.call, n>>]
        IN  (r # None /\ relay[r].st = "open") => relay[r].port = loop.ports[n]
Announces == TargetsSound /\ PortsSound

LEMMA CallKeys ==
    ASSUME IInv, loop.at # "idle", NEW n \in DOMAIN loop.ports
    PROVE  <<loop.call, n>> \in Keys /\ n \in 0..loop.idx
<1>1. n \in 0..loop.idx /\ loop.idx \in 0..(MaxPort - 1) /\ MaxPort \in Nat /\ Key \in Keys
  BY AtAnEntry DEF IInv, LoopSound
<1> QED
  BY <1>1 DEF Key, Keys

(* Relays that stop or leave the table take nothing back.                  *)
LEMMA TargetsStay ==
    ASSUME TargetsSound,
           \A k \in Keys : table'[k] # None =>
                /\ table'[k] = table[k] /\ relay'[table[k]].target = relay[table[k]].target
    PROVE  TargetsSound'
BY DEF TargetsSound

LEMMA PortsStay ==
    ASSUME IInv, PortsSound, loop' = loop,
           \A k \in Keys : (table'[k] # None /\ relay'[table'[k]].st = "open") =>
                /\ table'[k] = table[k] /\ relay[table[k]].st = "open"
                /\ relay'[table[k]].port = relay[table[k]].port
    PROVE  PortsSound'
BY CallKeys DEF PortsSound

LEMMA ReleasedAnnounces ==
    ASSUME IInv, Announces, NEW c, Released(c), loop' = loop
    PROVE  Announces'
<1>1. \A k \in Keys : table'[k] # None => /\ table'[k] = table[k]
                                          /\ relay'[table[k]] = relay[table[k]]
  BY ReleasedKeeps
<1>2. TargetsSound'
  BY <1>1, TargetsStay DEF Announces
<1>3. PortsSound'
  BY <1>1, PortsStay DEF Announces
<1> QED
  BY <1>2, <1>3 DEF Announces

LEMMA RelayAnnounces ==
    ASSUME IInv, Announces, UNCHANGED <<table, loop>>, NEW r \in Relays,
           \/ Forward(r) \/ IdleStop(r) \/ IdleTell(r) \/ \E x \in Phones : Receive(r, x)
    PROVE  Announces'
<1>1. table \in [Keys -> Relays \cup {None}] /\ relay \in [Relays -> RelayType]
  BY DEF IInv, Typed
<1>2. \A q \in Relays : /\ relay'[q].port = relay[q].port /\ relay'[q].target = relay[q].target
                        /\ relay'[q].st = "open" => relay[q].st = "open"
  <2>1. \A q \in Relays : relay[q] \in RelayType
    BY <1>1
  <2>2. CASE Forward(r)
    BY <1>1, <2>1, <2>2 DEF Forward, RelayType
  <2>3. CASE IdleStop(r)
    BY <1>1, <2>1, <2>3 DEF IdleStop, RelayType
  <2>4. CASE IdleTell(r)
    BY <1>1, <2>1, <2>4 DEF IdleTell, RelayType
  <2>5. CASE \E x \in Phones : Receive(r, x)
    BY <1>1, <2>1, <2>5 DEF Receive, RelayType
  <2> QED
    BY <2>2, <2>3, <2>4, <2>5
<1>3. ASSUME NEW k \in Keys, table'[k] # None
      PROVE  /\ table'[k] = table[k] /\ relay'[table[k]].target = relay[table[k]].target
             /\ relay'[table[k]].port = relay[table[k]].port
             /\ relay'[table[k]].st = "open" => relay[table[k]].st = "open"
  <2>1. table'[k] = table[k] /\ table[k] \in Relays
    BY <1>1, <1>3
  <2> QED
    BY <1>2, <2>1
<1>4. TargetsSound'
  BY <1>3, TargetsStay DEF Announces
<1>5. PortsSound'
  BY <1>3, PortsStay DEF Announces
<1> QED
  BY <1>4, <1>5 DEF Announces

(* Going on to the next entry keeps the ports. *)
LEMMA NextPorts ==
    ASSUME NEW l \in LoopType, loop' = NextEntry(l)
    PROVE  loop'.ports = l.ports /\ loop'.call = l.call
BY DEF NextEntry, LoopType

LEMMA CreateAnnounces == ASSUME IInv, Announces, Create PROVE Announces'
<1> DEFINE p == Min(Ports \ InUse)
           e == Entries[loop.idx + 1]
           new == [NoRelay EXCEPT !.st = "open", !.key = Key, !.port = p, !.target = e]
<1>1. loop.at = "entry" /\ table[Key] = None
  BY DEF Create
<1>2. PICK r \in Relays : /\ Gone(r) /\ relay' = [relay EXCEPT ![r] = new]
                          /\ table' = [table EXCEPT ![Key] = r]
                          /\ loop' = [GivenPort(p) EXCEPT !.at = "notify"]
  BY DEF Create
<1>3. new.port = p /\ new.target = e
  BY DEF NoRelay
<1> HIDE DEF new
<1>4. /\ Key \in Keys /\ loop \in LoopType
      /\ table \in [Keys -> Relays \cup {None}] /\ relay \in [Relays -> RelayType]
  BY <1>1, AtAnEntry DEF IInv, Typed
<1>5. /\ table'[Key] = r /\ relay'[r] = new
      /\ \A k \in Keys : k # Key => table'[k] = table[k] /\ table[k] # r
      /\ \A q \in Relays : q # r => relay'[q] = relay[q]
  BY <1>2, <1>4 DEF Gone
<1>6. /\ loop'.call = loop.call /\ loop.idx \in DOMAIN loop'.ports /\ loop'.ports[loop.idx] = p
      /\ \A n \in DOMAIN loop'.ports : n # loop.idx => /\ n \in DOMAIN loop.ports
                                                       /\ loop'.ports[n] = loop.ports[n]
  <2> HIDE DEF p
  <2>1. /\ loop'.call = loop.call
        /\ loop'.ports = [n \in DOMAIN loop.ports \cup {loop.idx} |->
                             IF n = loop.idx THEN p ELSE loop.ports[n]]
    BY <1>2, <1>4 DEF GivenPort, LoopType
  <2> QED
    BY <2>1
<1>7. TargetsSound'
  <2> SUFFICES ASSUME NEW k \in Keys, table'[k] # None
               PROVE  \E o \in Offers :
                        /\ o[1] = k[1] /\ k[2] + 1 \in DOMAIN ExtractMediaEntries(o[2])
                        /\ relay'[table'[k]].target = ExtractMediaEntries(o[2])[k[2] + 1]
    BY DEF TargetsSound
  <2>1. CASE k = Key
    <3>1. PICK o \in Offers : loop.call = o[1] /\ loop.body = o[2]
      BY <1>1 DEF IInv, LoopSound
    <3>2. /\ k[1] = o[1] /\ k[2] = loop.idx /\ Entries = ExtractMediaEntries(o[2])
      BY <2>1, <3>1 DEF Key, Entries
    <3>3. loop.idx + 1 \in DOMAIN Entries
      BY <1>1, AtAnEntry
    <3> QED
      BY <1>3, <1>5, <2>1, <3>2, <3>3
  <2>2. CASE k # Key
    <3>1. table'[k] = table[k] /\ relay'[table'[k]] = relay[table[k]]
      BY <1>4, <1>5, <2>2
    <3> QED
      BY <3>1 DEF Announces, TargetsSound
  <2> QED
    BY <2>1, <2>2
<1>8. PortsSound'
  <2> SUFFICES ASSUME NEW n \in DOMAIN loop'.ports, table'[<<loop.call, n>>] # None,
                      relay'[table'[<<loop.call, n>>]].st = "open"
               PROVE  relay'[table'[<<loop.call, n>>]].port = loop'.ports[n]
    BY <1>6 DEF PortsSound
  <2>1. CASE n = loop.idx
    BY <1>3, <1>5, <1>6, <2>1 DEF Key
  <2>2. CASE n # loop.idx
    <3> DEFINE k == <<loop.call, n>>
    <3>1. k \in Keys /\ k # Key /\ n \in DOMAIN loop.ports /\ loop'.ports[n] = loop.ports[n]
      BY <1>1, <1>6, <2>2, CallKeys DEF Key
    <3>2. table'[k] = table[k] /\ table[k] \in Relays /\ relay'[table[k]] = relay[table[k]]
      BY <1>4, <1>5, <3>1
    <3> QED
      BY <1>1, <3>1, <3>2 DEF Announces, PortsSound
  <2> QED
    BY <2>1, <2>2
<1> QED
  BY <1>7, <1>8 DEF Announces

LEMMA LoopAnnounces == ASSUME IInv, Announces, LoopNext PROVE Announces'
<1>1. CASE Rewrite
  <2>1. UNCHANGED <<table, relay>> /\ loop'.ports = <<>>
    BY <1>1 DEF Rewrite, Idle
  <2> QED
    BY <2>1, EmptyMap DEF Announces, TargetsSound, PortsSound
<1>2. CASE \E c \in Calls : ByeFromHome(c)
  BY <1>2, ReleasedAnnounces DEF ByeFromHome
<1>3. CASE Reuse
  <2> DEFINE p == relay[table[Key]].port
             l == GivenPort(p)
  <2>1. /\ loop.at = "entry" /\ table[Key] # None /\ loop' = NextEntry(l)
        /\ UNCHANGED <<table, relay>>
    BY <1>3 DEF Reuse
  <2>2. p \in Ports
    <3>1. Key \in Keys
      BY <2>1, AtAnEntry
    <3>2. table[Key] \in Relays /\ relay[table[Key]].st # "free"
      BY <2>1, <3>1 DEF IInv, Typed, RelaysSound
    <3> QED
      BY <3>2 DEF IInv, RelaysSound
  <2> HIDE DEF p
  <2>3. /\ l \in LoopType /\ l.call = loop.call /\ l.ports[loop.idx] = p
        /\ \A n \in DOMAIN l.ports : n # loop.idx => /\ n \in DOMAIN loop.ports
                                                     /\ l.ports[n] = loop.ports[n]
    BY <2>1, <2>2, PortGiven
  <2> HIDE DEF l
  <2>4. loop'.ports = l.ports /\ loop'.call = loop.call
    BY <2>1, <2>3, NextPorts
  <2>5. PortsSound'
    <3> SUFFICES ASSUME NEW n \in DOMAIN l.ports, table[<<loop.call, n>>] # None,
                        relay[table[<<loop.call, n>>]].st = "open"
                 PROVE  relay[table[<<loop.call, n>>]].port = l.ports[n]
      BY <2>1, <2>4 DEF PortsSound
    <3>1. CASE n = loop.idx
      BY <2>3, <3>1 DEF Key, p
    <3>2. CASE n # loop.idx
      BY <2>1, <2>3, <3>2 DEF Announces, PortsSound
    <3> QED
      BY <3>1, <3>2
  <2> QED
    BY <2>1, <2>5 DEF Announces, TargetsSound
<1>4. CASE Create
  BY <1>4, CreateAnnounces
<1>5. CASE NotMade \/ Notify
  <2>1. /\ loop' = NextEntry(loop) /\ loop \in LoopType /\ loop.at # "idle"
        /\ UNCHANGED <<table, relay>>
    BY <1>5 DEF NotMade, Notify, IInv, Typed
  <2>2. loop'.ports = loop.ports /\ loop'.call = loop.call
    BY <2>1, NextPorts
  <2> QED
    BY <2>1, <2>2 DEF Announces, TargetsSound, PortsSound
<1>6. CASE WriteToPhone
  BY <1>6, Free DEF WriteToPhone, Announces, TargetsSound, PortsSound
<1> QED
  BY <1>1, <1>2, <1>3, <1>4, <1>5, <1>6 DEF LoopNext

LEMMA NextAnnounces == IInv /\ Announces /\ [Next]_vars => Announces'
<1> SUFFICES ASSUME IInv, Announces, [Next]_vars PROVE Announces'
  OBVIOUS
<1>1. CASE UNCHANGED <<table, relay, loop>>
  BY <1>1 DEF Announces, TargetsSound, PortsSound
<1>2. CASE \E x \in Phones, c \in Calls : ByeFromPhone(x, c)
  BY <1>2, ReleasedAnnounces DEF ByeFromPhone
<1>3. CASE LoopNext
  BY <1>3, LoopAnnounces
<1>4. CASE \E r \in Relays : \/ Forward(r) \/ IdleStop(r) \/ IdleTell(r)
                             \/ \E x \in Phones : Receive(r, x)
  <2>1. UNCHANGED <<table, loop>>
    BY <1>4 DEF Forward, IdleStop, IdleTell, Receive
  <2> QED
    BY <1>4, <2>1, RelayAnnounces
<1> QED
  BY <1>1, <1>2, <1>3, <1>4 DEF Next, vars, FromPhone, ClientNext, HandleNewRTPRelay,
     HandleCloseRTPRelay, HandleUDPPacket, FromLocal, ReadTimeout, Unlist

(* A line of the message that goes out for a medium with a relay has the   *)
(* port collected for that medium.                                         *)
LEMMA SentPort ==
    ASSUME IInv, loop.at = "write", NEW i \in DOMAIN Sent.body, Sent.body[i].k = "m",
           IndexOf(loop.body, i) \in DOMAIN loop.ports
    PROVE  Sent.body[i].port = loop.ports[IndexOf(loop.body, i)]
<1> DEFINE n == IndexOf(loop.body, i)
           msg == Message("INVITE", loop.call, {}, TRUE, loop.body)
           l == loop.body[i]
<1>1. loop.ports # <<>>
  BY EmptyMap
<1>2. Sent.body = RewriteSDPWithRelays(loop.body, loop.ports)
  <2>1. msg.sdp = TRUE /\ msg.body = loop.body
    BY DEF Message
  <2>2. Sent = RewriteForExternal(msg, loop.ports)
    BY DEF Sent
  <2>3. msg = [method |-> "INVITE", call |-> loop.call, hosts |-> {}, sdp |-> TRUE,
               body |-> loop.body]
    BY DEF Message
  <2> HIDE DEF msg
  <2> QED
    BY <1>1, <2>1, <2>2, <2>3 DEF RewriteForExternal
<1>3. i \in DOMAIN loop.body
  BY <1>2 DEF RewriteSDPWithRelays
<1>4. IsLine(l)
  <2>1. PICK o \in Offers : loop.body = o[2]
    BY DEF IInv, LoopSound
  <2> QED
    BY <1>3, <2>1, LineAssumption
<1> HIDE DEF n
<1>5. Sent.body[i] = CASE l.k \in {"o", "c"} -> [l EXCEPT !.addr = Public]
                       [] l.k = "m" /\ n \in DOMAIN loop.ports ->
                             [l EXCEPT !.port = loop.ports[n], !.plain = TRUE]
                       [] OTHER -> l
  BY <1>2, <1>3 DEF RewriteSDPWithRelays, n
<1>6. l.k = "m"
  <2>1. CASE l.k \in {"o", "c"}
    <3>1. Sent.body[i] = [l EXCEPT !.addr = Public]
      BY <1>5, <2>1
    <3>2. l = [k |-> l.k, addr |-> l.addr]
      BY <1>4, <2>1 DEF IsLine
    <3>3. [l EXCEPT !.addr = Public].k = l.k
      BY <3>2
    <3> QED
      BY <2>1, <3>1, <3>3
  <2>2. CASE l.k \notin {"o", "c", "m"}
    BY <1>5, <2>2
  <2> QED
    BY <2>1, <2>2
<1>7. Sent.body[i] = [l EXCEPT !.port = loop.ports[n], !.plain = TRUE]
  BY <1>5, <1>6 DEF n
<1>8. l = [k |-> "m", port |-> l.port, plain |-> l.plain]
  BY <1>4, <1>6 DEF IsLine
<1>9. [l EXCEPT !.port = loop.ports[n], !.plain = TRUE].port = loop.ports[n]
  BY <1>8
<1> QED
  BY <1>7, <1>9 DEF n

(* What a phone is told for a medium is the port of the running relay to   *)
(* where this medium is, whatever comes between: for bodies the parser     *)
(* reads as they are meant, and calls that do not move a medium.           *)
THEOREM Announced ==
    ASSUME \A o \in Offers : ReadRight(o), \A o, p \in Offers : Unmoved(o, p)
    PROVE  Spec => []AnnouncedIsMine
<1>1. Init => Announces
  BY Free DEF Init, Announces, TargetsSound, PortsSound
<1>2. IInv /\ Announces => AnnouncedIsMine
  <2> SUFFICES ASSUME IInv, Announces, loop.at = "write", NEW i \in DOMAIN Sent.body,
                      Sent.body[i].k = "m", IndexOf(loop.body, i) \in DOMAIN loop.ports,
                      table[<<loop.call, IndexOf(loop.body, i)>>] # None,
                      relay[table[<<loop.call, IndexOf(loop.body, i)>>]].st = "open"
               PROVE  /\ Sent.body[i].port =
                            relay[table[<<loop.call, IndexOf(loop.body, i)>>]].port
                      /\ relay[table[<<loop.call, IndexOf(loop.body, i)>>]].target =
                            Meant(loop.body, IndexOf(loop.body, i))
    BY DEF AnnouncedIsMine
  <2>1. Sent.body[i].port = loop.ports[IndexOf(loop.body, i)]
    BY SentPort
  <2> DEFINE n == IndexOf(loop.body, i)
             r == table[<<loop.call, n>>]
  <2> HIDE DEF n
  <2>2. relay[r].port = loop.ports[n]
    BY DEF Announces, PortsSound, n
  <2>3. <<loop.call, n>> \in Keys /\ n \in 0..loop.idx
    BY CallKeys DEF n
  <2>4. PICK o \in Offers : /\ o[1] = loop.call /\ n + 1 \in DOMAIN ExtractMediaEntries(o[2])
                            /\ relay[r].target = ExtractMediaEntries(o[2])[n + 1]
    BY <2>3 DEF Announces, TargetsSound, n
  <2>5. PICK p \in Offers : loop.call = p[1] /\ loop.body = p[2]
    BY DEF IInv, LoopSound
  <2>6. /\ Entries = ExtractMediaEntries(p[2]) /\ n \in 0..Len(Entries) - 1
        /\ n + 1 \in DOMAIN Entries
    BY <2>3, <2>5, AtAnEntry DEF Entries
  <2>7. relay[r].target = Entries[n + 1]
    BY <2>4, <2>5, <2>6 DEF Unmoved
  <2>8. Entries[n + 1] = Meant(loop.body, n)
    BY <2>5, <2>6 DEF ReadRight
  <2> QED
    BY <2>1, <2>2, <2>7, <2>8 DEF n
<1> QED
  BY <1>1, <1>2, Inductive, NextAnnounces, PTL DEF Spec
=============================================================================
