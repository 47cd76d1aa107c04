--------------------------- MODULE RTPRelayProofs ---------------------------
(***************************************************************************)
(* What RTPRelay guarantees for any number of sessions, goroutines, calls, *)
(* media entries and relay objects, and for any configured port ranges:    *)
(* its type invariant, the exact and exclusive ownership of pool ports,    *)
(* and that it implements PortLease.                                       *)
(***************************************************************************)
EXTENDS RTPRelay, SequenceTheorems, TLAPS

(* A worker in the loop over the media entries stands at an entry of its   *)
(* message, and the relay of one that is about to listen is its own.       *)
CursorOK ==
    \A w \in Workers :
        worker[w].at \in Working =>
            worker[w].key \in Keys /\ worker[w].key[2] <= worker[w].last

StartOwns ==
    \A w \in Workers : worker[w].at = "start" =>
        /\ worker[w].obj \in Relays
        /\ relay[worker[w].obj].st = "made"
        /\ \A v \in Workers :
             v # w /\ worker[v].at = "start" => worker[v].obj # worker[w].obj

(* A relay in use belongs to a session and has its key there. *)
AtHome ==
    \A r \in Relays : relay[r].st # "dead" =>
        relay[r].home \in Sessions /\ relay[r].key \in Keys

(* Ownership alone is not inductive: that a failed Start gives back a port *)
(* nobody else holds takes StartOwns, and the rest is what types need.     *)
IInv == TypeOK /\ CursorOK /\ StartOwns /\ AtHome /\ PortOwnership

-----------------------------------------------------------------------------
(* The initial states satisfy the invariant. *)
LEMMA InitIInv == Init => IInv
<1> SUFFICES ASSUME Init PROVE IInv
  OBVIOUS
<1>1. Dead \in RelayObjects
  BY DEF Dead, RelayObjects, RelayStates
<1>2. Idle \in Errands
  BY BoundAssumption DEF Idle, Errands
<1>3. TypeOK
  BY <1>1, <1>2 DEF Init, TypeOK, Messages
<1>4. CursorOK /\ StartOwns /\ AtHome
  BY DEF Init, Idle, Dead, CursorOK, StartOwns, AtHome, Working
<1>5. PortOwnership
  BY DEF Init, PortOwnership, Holds, Dead
<1> QED
  BY <1>3, <1>4, <1>5 DEF IInv

(* The worker's next entry, or its return, is a sound place to be. *)
LEMMA AfterEntrySound ==
  ASSUME IInv, NEW w \in Workers, worker[w].at \in Working
  PROVE  /\ AfterEntry(w) \in Errands
         /\ AfterEntry(w).at \in {"idle", "lookup"}
         /\ AfterEntry(w).at = "lookup" =>
              /\ AfterEntry(w).key \in Keys
              /\ AfterEntry(w).key[2] <= AfterEntry(w).last
<1>1. /\ worker[w] \in Errands
      /\ worker[w].key \in Keys
      /\ worker[w].key[2] <= worker[w].last
  BY DEF IInv, TypeOK, CursorOK
<1>2. CASE worker[w].key[2] = worker[w].last
  BY <1>1, <1>2, BoundAssumption DEF AfterEntry, Idle, Errands
<1>3. CASE worker[w].key[2] # worker[w].last
  <2>1. PICK c \in Calls, i \in 0 .. MaxMedia - 1 : worker[w].key = <<c, i>>
    BY <1>1 DEF Keys
  <2>2. /\ i + 1 \in 0 .. MaxMedia - 1
        /\ i + 1 <= worker[w].last
        /\ worker[w].last \in 0 .. MaxMedia - 1
    BY <1>1, <1>3, <2>1, BoundAssumption DEF Errands
  <2>3. AfterEntry(w) = Looking(<<c, i + 1>>, worker[w].last)
    BY <1>3, <2>1 DEF AfterEntry
  <2>4. <<c, i + 1>> \in Keys
    BY <2>2 DEF Keys
  <2> QED
    BY <2>2, <2>3, <2>4 DEF Looking, Errands, Working
<1> QED
  BY <1>2, <1>3

(* A step that frees no port, allocates none and changes no holder keeps   *)
(* the ownership of ports as it is.                                        *)
LEMMA OwnershipFrame ==
  ASSUME PortOwnership, used' = used,
         \A r \in Relays : /\ Holds(r)' <=> Holds(r)
                           /\ Holds(r) => relay'[r].port = relay[r].port
  PROVE  PortOwnership'
<1>1. used' = {relay'[r].port : r \in {q \in Relays : Holds(q)'}}
  <2>1. {q \in Relays : Holds(q)'} = {q \in Relays : Holds(q)}
    OBVIOUS
  <2>2. used = {relay[r].port : r \in {q \in Relays : Holds(q)}}
    BY DEF PortOwnership
  <2>3. {relay'[r].port : r \in {q \in Relays : Holds(q)}}
          = {relay[r].port : r \in {q \in Relays : Holds(q)}}
    OBVIOUS
  <2> QED
    BY <2>1, <2>2, <2>3
<1>2. \A q, r \in Relays :
        q # r /\ Holds(q)' /\ Holds(r)' => relay'[q].port # relay'[r].port
  BY DEF PortOwnership
<1> QED
  BY <1>1, <1>2 DEF PortOwnership

(* A worker that moves on to its next entry, or returns, keeps the         *)
(* invariants about workers, as long as no relay is touched.               *)
LEMMA MoveOn ==
  ASSUME IInv, NEW w \in Workers, NEW e \in Errands,
         worker' = [worker EXCEPT ![w] = e],
         e.at # "start",
         e.at \in Working => e.key \in Keys /\ e.key[2] <= e.last,
         \A v \in Workers : worker[v].at = "start" /\ v # w =>
             relay'[worker[v].obj] = relay[worker[v].obj]
  PROVE  /\ worker' \in [Workers -> Errands]
         /\ CursorOK'
         /\ StartOwns'
<1>1. worker \in [Workers -> Errands]
  BY DEF IInv, TypeOK
<1>2. worker' \in [Workers -> Errands]
  BY <1>1
<1>3. CursorOK'
  BY <1>1 DEF IInv, CursorOK
<1>4. StartOwns'
  BY <1>1 DEF IInv, StartOwns
<1> QED
  BY <1>2, <1>3, <1>4

-----------------------------------------------------------------------------
(* The steps of a worker that creates relays. *)

LEMMA OfferSound ==
  ASSUME IInv, NEW w \in Workers, NEW c \in Calls, NEW n \in 1 .. MaxMedia,
         Offer(w, c, n)
  PROVE  IInv'
<1> USE DEF Offer
<1>1. <<c, 0>> \in Keys /\ n - 1 \in 0 .. MaxMedia - 1
  BY BoundAssumption DEF Keys
<1>2. Looking(<<c, 0>>, n - 1) \in Errands
  BY <1>1 DEF Looking, Errands, Working
<1>3. worker' \in [Workers -> Errands] /\ CursorOK' /\ StartOwns'
  <2> DEFINE e == Looking(<<c, 0>>, n - 1)
  <2>1. e.at = "lookup" /\ e.key = <<c, 0>> /\ e.last = n - 1
    BY DEF Looking
  <2>2. e.key \in Keys /\ e.key[2] <= e.last
    BY <1>1, <2>1
  <2>3. worker' = [worker EXCEPT ![w] = e]
    OBVIOUS
  <2> HIDE DEF e
  <2> QED
    BY <1>2, <2>1, <2>2, <2>3, MoveOn DEF e
<1>4. TypeOK'
  BY <1>3 DEF IInv, TypeOK
<1>5. PortOwnership'
  BY OwnershipFrame DEF IInv, Holds
<1> QED
  BY <1>3, <1>4, <1>5 DEF IInv, AtHome

LEMMA LookupSound ==
  ASSUME IInv, NEW w \in Workers, Lookup(w)
  PROVE  IInv'
<1> USE DEF Lookup
<1>1. worker[w].at \in Working /\ worker[w] \in Errands
  BY DEF Working, IInv, TypeOK
<1>2. CASE table[SessionOf[w]][worker[w].key] # None
  <2>1. worker' = [worker EXCEPT ![w] = AfterEntry(w)]
    BY <1>2
  <2>2. worker' \in [Workers -> Errands] /\ CursorOK' /\ StartOwns'
    BY <1>1, <2>1, AfterEntrySound, MoveOn DEF Working
  <2> QED
    BY <2>2, OwnershipFrame DEF IInv, TypeOK, Holds, AtHome
<1>3. CASE table[SessionOf[w]][worker[w].key] = None
  <2> DEFINE e == [worker[w] EXCEPT !.at = "alloc"]
  <2>1. worker' = [worker EXCEPT ![w] = e]
    BY <1>3
  <2>2. /\ e \in Errands
        /\ e.at = "alloc"
        /\ e.key = worker[w].key /\ e.last = worker[w].last
    BY <1>1 DEF Errands, Working
  <2>3. e.key \in Keys /\ e.key[2] <= e.last
    BY <1>1, <2>2 DEF IInv, CursorOK
  <2> HIDE DEF e
  <2>4. worker' \in [Workers -> Errands] /\ CursorOK' /\ StartOwns'
    BY <2>1, <2>2, <2>3, MoveOn
  <2> QED
    BY <2>4, OwnershipFrame DEF IInv, TypeOK, Holds, AtHome
<1> QED
  BY <1>2, <1>3

LEMMA AllocSound ==
  ASSUME IInv, NEW w \in Workers, Alloc(w)
  PROVE  IInv'
<1>1. PICK r \in Relays, p \in PoolPorts :
        /\ FirstFit(p)
        /\ Garbage(r)
        /\ used' = used \cup {p}
        /\ relay' = [relay EXCEPT ![r] =
                       [st |-> "made", port |-> p, home |-> SessionOf[w],
                        key |-> worker[w].key, tell |-> FALSE]]
        /\ worker' = [worker EXCEPT ![w].at = "start", ![w].obj = r]
  BY DEF Alloc
<1>2. /\ worker[w].at = "alloc"
      /\ UNCHANGED <<table, mu, phase, wire, refused>>
  BY DEF Alloc
<1>3. worker[w] \in Errands /\ worker[w].key \in Keys
      /\ worker[w].key[2] <= worker[w].last
  BY <1>2 DEF IInv, TypeOK, CursorOK, Working
<1>4. p \notin used
  BY <1>1 DEF FirstFit
<1>5. relay' \in [Relays -> RelayObjects]
  BY <1>1, <1>3, SessionAssumption DEF IInv, TypeOK, RelayObjects, RelayStates
<1>6. /\ worker' \in [Workers -> Errands]
      /\ worker'[w].at = "start" /\ worker'[w].obj = r
      /\ worker'[w].key = worker[w].key /\ worker'[w].last = worker[w].last
      /\ \A v \in Workers : v # w => worker'[v] = worker[v]
  BY <1>1, <1>3 DEF IInv, TypeOK, Errands, Working
<1>7. relay'[r].st = "made" /\ relay'[r].port = p
      /\ \A q \in Relays : q # r => relay'[q] = relay[q]
  BY <1>1 DEF IInv, TypeOK
<1>8. TypeOK'
  BY <1>1, <1>2, <1>5, <1>6 DEF IInv, TypeOK
<1>9. CursorOK'
  BY <1>3, <1>6 DEF IInv, CursorOK
<1>10. StartOwns'
  <2>1. \A v \in Workers : worker[v].obj # r
    BY <1>1 DEF Garbage
  <2> QED
    BY <1>6, <1>7, <2>1 DEF IInv, StartOwns
<1>11. PortOwnership'
  <2>1. ~Holds(r)
    BY <1>1 DEF Garbage, Holds
  <2>2. Holds(r)' /\ \A q \in Relays : q # r => (Holds(q)' <=> Holds(q))
    BY <1>7 DEF Holds
  <2>3. {q \in Relays : Holds(q)'} = {q \in Relays : Holds(q)} \cup {r}
    BY <2>1, <2>2
  <2>4. {relay'[q].port : q \in {x \in Relays : Holds(x)'}}
          = {relay[q].port : q \in {x \in Relays : Holds(x)}} \cup {p}
    BY <1>7, <2>1, <2>3
  <2>5. \A q \in Relays : Holds(q) => relay[q].port # p
    BY <1>4 DEF IInv, PortOwnership
  <2> QED
    BY <1>1, <1>7, <2>2, <2>4, <2>5 DEF IInv, PortOwnership
<1>12. AtHome'
  BY <1>1, <1>3, <1>7, SessionAssumption DEF IInv, AtHome, TypeOK
<1> QED
  BY <1>8, <1>9, <1>10, <1>11, <1>12 DEF IInv

LEMMA ExhaustedSound ==
  ASSUME IInv, NEW w \in Workers, Exhausted(w)
  PROVE  IInv'
<1> USE DEF Exhausted
<1>1. worker' \in [Workers -> Errands] /\ CursorOK' /\ StartOwns'
  BY AfterEntrySound, MoveOn DEF Working
<1> QED
  BY <1>1, OwnershipFrame DEF IInv, TypeOK, Holds, AtHome

LEMMA StartOkSound ==
  ASSUME IInv, NEW w \in Workers, StartOk(w)
  PROVE  IInv'
<1> DEFINE r == worker[w].obj
<1>1. /\ worker[w].at = "start"
      /\ relay' = [relay EXCEPT ![r].st = "open"]
      /\ worker' = [worker EXCEPT ![w].at = "insert"]
      /\ UNCHANGED <<used, table, mu, phase, wire, refused>>
  BY DEF StartOk
<1>2. /\ r \in Relays /\ relay[r].st = "made"
      /\ \A v \in Workers : v # w /\ worker[v].at = "start" => worker[v].obj # r
  BY <1>1 DEF IInv, StartOwns
<1>3. /\ worker' \in [Workers -> Errands]
      /\ worker'[w].at = "insert"
      /\ worker'[w].key = worker[w].key /\ worker'[w].last = worker[w].last
      /\ \A v \in Workers : v # w => worker'[v] = worker[v]
  <2> DEFINE e == [worker[w] EXCEPT !.at = "insert"]
  <2>1. worker \in [Workers -> Errands] /\ worker[w] \in Errands
    BY DEF IInv, TypeOK
  <2>2. /\ e \in Errands /\ e.at = "insert"
        /\ e.key = worker[w].key /\ e.last = worker[w].last
    BY <2>1 DEF Errands, Working
  <2>3. worker' = [worker EXCEPT ![w] = e]
    BY <1>1
  <2> HIDE DEF e
  <2> QED
    BY <2>1, <2>2, <2>3
<1> HIDE DEF r
<1>4. /\ relay' \in [Relays -> RelayObjects]
      /\ relay'[r].st = "open" /\ relay'[r].port = relay[r].port
      /\ relay'[r].home = relay[r].home /\ relay'[r].key = relay[r].key
      /\ \A q \in Relays : q # r => relay'[q] = relay[q]
  <2> DEFINE e == [relay[r] EXCEPT !.st = "open"]
  <2>1. relay \in [Relays -> RelayObjects] /\ relay[r] \in RelayObjects
    BY <1>2 DEF IInv, TypeOK
  <2>2. /\ e \in RelayObjects /\ e.st = "open" /\ e.port = relay[r].port
        /\ e.home = relay[r].home /\ e.key = relay[r].key
    BY <2>1 DEF RelayObjects, RelayStates
  <2>3. relay' = [relay EXCEPT ![r] = e]
    BY <1>1
  <2> HIDE DEF e
  <2> QED
    BY <1>2, <2>1, <2>2, <2>3
<1>5. TypeOK'
  BY <1>1, <1>3, <1>4 DEF IInv, TypeOK
<1>6. CursorOK'
  BY <1>1, <1>3 DEF IInv, CursorOK, Working
<1>7. StartOwns'
  BY <1>2, <1>3, <1>4 DEF IInv, StartOwns
<1>8. PortOwnership'
  BY <1>1, <1>2, <1>4, OwnershipFrame DEF IInv, Holds
<1>9. AtHome'
  BY <1>2, <1>4 DEF IInv, AtHome
<1> QED
  BY <1>5, <1>6, <1>7, <1>8, <1>9 DEF IInv

(* Giving back the port of one holder leaves the others with theirs. *)
LEMMA FreeOne ==
  ASSUME PortOwnership, NEW r \in Relays, Holds(r),
         used' = used \ {relay[r].port},
         ~Holds(r)',
         \A q \in Relays : q # r => relay'[q] = relay[q]
  PROVE  PortOwnership'
<1>1. \A q \in Relays : q # r => (Holds(q)' <=> Holds(q))
  BY DEF Holds
<1>2. {q \in Relays : Holds(q)'} = {q \in Relays : Holds(q)} \ {r}
  BY <1>1
<1>3. {relay'[q].port : q \in {x \in Relays : Holds(x)'}}
        = {relay[q].port : q \in {x \in Relays : Holds(x)} \ {r}}
  BY <1>2
<1>4. \A q \in Relays : q # r /\ Holds(q) => relay[q].port # relay[r].port
  BY DEF PortOwnership
<1>5. used = {relay[q].port : q \in {x \in Relays : Holds(x)}}
  BY DEF PortOwnership
<1>6. used \ {relay[r].port}
        = {relay[q].port : q \in {x \in Relays : Holds(x)} \ {r}}
  BY <1>4, <1>5
<1>7. \A p, q \in Relays :
        p # q /\ Holds(p)' /\ Holds(q)' => relay'[p].port # relay'[q].port
  BY <1>1 DEF PortOwnership
<1> QED
  BY <1>3, <1>6, <1>7 DEF PortOwnership

LEMMA StartFailsSound ==
  ASSUME IInv, NEW w \in Workers, StartFails(w)
  PROVE  IInv'
<1> DEFINE r == worker[w].obj
<1>1. /\ worker[w].at = "start"
      /\ relay' = [relay EXCEPT ![r] = Dead]
      /\ used' = used \ {relay[r].port}
      /\ worker' = [worker EXCEPT ![w] = AfterEntry(w)]
      /\ UNCHANGED <<table, mu, phase, wire, refused>>
  BY DEF StartFails
<1>2. /\ r \in Relays /\ relay[r].st = "made"
      /\ \A v \in Workers : v # w /\ worker[v].at = "start" =>
           worker[v].obj \in Relays /\ worker[v].obj # r
  BY <1>1 DEF IInv, StartOwns
<1> HIDE DEF r
<1>3. /\ relay' \in [Relays -> RelayObjects]
      /\ relay'[r].st = "dead"
      /\ \A q \in Relays : q # r => relay'[q] = relay[q]
  BY <1>1, <1>2 DEF IInv, TypeOK, RelayObjects, RelayStates, Dead
<1>4. worker' \in [Workers -> Errands] /\ CursorOK' /\ StartOwns'
  BY <1>1, <1>2, <1>3, AfterEntrySound, MoveOn DEF Working
<1>5. TypeOK'
  BY <1>1, <1>3, <1>4 DEF IInv, TypeOK
<1>6. PortOwnership'
  BY <1>1, <1>2, <1>3, FreeOne DEF IInv, Holds
<1>7. AtHome'
  BY <1>3 DEF IInv, AtHome
<1> QED
  BY <1>4, <1>5, <1>6, <1>7 DEF IInv

LEMMA InsertSound ==
  ASSUME IInv, NEW w \in Workers, Insert(w)
  PROVE  IInv'
<1> USE DEF Insert
<1> DEFINE e == [worker[w] EXCEPT !.at = "notify"]
<1>1. worker[w].at \in Working /\ worker[w] \in Errands
  BY DEF Working, IInv, TypeOK
<1>2. worker' = [worker EXCEPT ![w] = e]
  OBVIOUS
<1>3. /\ e \in Errands
      /\ e.at = "notify"
      /\ e.key = worker[w].key /\ e.last = worker[w].last
  BY <1>1 DEF Errands, Working
<1>4. e.key \in Keys /\ e.key[2] <= e.last
  BY <1>1, <1>3 DEF IInv, CursorOK
<1>5. table' \in [Sessions -> [Keys -> Relays \cup {None}]]
  BY <1>1, SessionAssumption DEF IInv, TypeOK, Errands
<1> HIDE DEF e
<1>6. worker' \in [Workers -> Errands] /\ CursorOK' /\ StartOwns'
  BY <1>2, <1>3, <1>4, MoveOn
<1> QED
  BY <1>5, <1>6, OwnershipFrame DEF IInv, TypeOK, Holds, AtHome

(* Sending keeps the control connections well typed. *)
LEMMA SendSound ==
  ASSUME IInv, NEW s \in Sessions, NEW type \in {"NewRTPRelay", "CloseRTPRelay"},
         NEW k \in Keys, Send(s, type, k)
  PROVE  wire' \in [Sessions -> Seq(Messages)]
<1>1. [type |-> type, key |-> k] \in Messages
  BY DEF Messages
<1>2. Append(wire[s], [type |-> type, key |-> k]) \in Seq(Messages)
  BY <1>1 DEF IInv, TypeOK
<1> QED
  BY <1>2 DEF Send, IInv, TypeOK

LEMMA NotifySound ==
  ASSUME IInv, NEW w \in Workers, Notify(w)
  PROVE  IInv'
<1> USE DEF Notify
<1>1. worker' \in [Workers -> Errands] /\ CursorOK' /\ StartOwns'
  BY AfterEntrySound, MoveOn DEF Working
<1>2. worker[w].key \in Keys /\ SessionOf[w] \in Sessions
  BY SessionAssumption DEF IInv, CursorOK, Working
<1>3. wire' \in [Sessions -> Seq(Messages)]
  BY <1>2, SendSound
<1> QED
  BY <1>1, <1>3, OwnershipFrame DEF IInv, TypeOK, Holds, AtHome

-----------------------------------------------------------------------------
(* The steps of Stop. *)

(* A step that only moves relays along their life after "made", keeping    *)
(* their port while they hold it, keeps the invariants about workers.      *)
LEMMA WorkersFrame ==
  ASSUME IInv, worker' = worker,
         \A r \in Relays : relay[r].st = "made" => relay'[r] = relay[r]
  PROVE  CursorOK' /\ StartOwns'
BY DEF IInv, CursorOK, StartOwns

(* Entering Stop: an open relay keeps its port while it closes. *)
LEMMA StopBeginSound ==
  ASSUME IInv, NEW r \in Relays, NEW tell \in BOOLEAN,
         relay[r].st = "open", StopBegin(r, tell),
         UNCHANGED <<used, worker>>
  PROVE  /\ relay' \in [Relays -> RelayObjects]
         /\ CursorOK' /\ StartOwns' /\ AtHome' /\ PortOwnership'
<1>1. /\ relay' \in [Relays -> RelayObjects]
      /\ relay'[r].st = "closing" /\ relay'[r].port = relay[r].port
      /\ relay'[r].home = relay[r].home /\ relay'[r].key = relay[r].key
      /\ \A q \in Relays : q # r => relay'[q] = relay[q]
  <2> DEFINE e == [relay[r] EXCEPT !.st = "closing", !.tell = tell]
  <2>1. relay \in [Relays -> RelayObjects] /\ relay[r] \in RelayObjects
    BY DEF IInv, TypeOK
  <2>2. /\ e \in RelayObjects /\ e.st = "closing" /\ e.port = relay[r].port
        /\ e.home = relay[r].home /\ e.key = relay[r].key
    BY <2>1 DEF RelayObjects, RelayStates
  <2>3. relay' = [relay EXCEPT ![r] = e]
    BY DEF StopBegin
  <2> HIDE DEF e
  <2> QED
    BY <2>1, <2>2, <2>3
<1>2. CursorOK' /\ StartOwns'
  BY <1>1, WorkersFrame
<1>3. AtHome'
  BY <1>1 DEF IInv, AtHome
<1>4. PortOwnership'
  BY <1>1, OwnershipFrame DEF IInv, Holds
<1> QED
  BY <1>1, <1>2, <1>3, <1>4

(* The object Stop leaves behind. *)
LEMMA StoppedSound ==
  ASSUME IInv, NEW r \in Relays
  PROVE  Stopped(r) \in RelayObjects /\ Stopped(r).st = "dead"
<1> DEFINE e == [relay[r] EXCEPT !.st = "dead", !.tell = FALSE]
<1>1. relay[r] \in RelayObjects
  BY DEF IInv, TypeOK
<1>2. e \in RelayObjects /\ e.st = "dead"
  BY <1>1 DEF RelayObjects, RelayStates
<1>3. Dead \in RelayObjects /\ Dead.st = "dead"
  BY DEF Dead, RelayObjects, RelayStates
<1>4. Stopped(r) = e \/ Stopped(r) = Dead
  BY DEF Stopped
<1> QED
  BY <1>2, <1>3, <1>4

LEMMA StopFreeSound ==
  ASSUME IInv, NEW r \in Relays, StopFree(r)
  PROVE  IInv'
<1> USE DEF StopFree
<1>1. /\ relay' \in [Relays -> RelayObjects]
      /\ relay'[r].st \in {"freed", "dead"}
      /\ relay'[r].st = "freed" =>
           relay'[r].home = relay[r].home /\ relay'[r].key = relay[r].key
      /\ \A q \in Relays : q # r => relay'[q] = relay[q]
  <2>1. CASE relay[r].tell
    <3> DEFINE e == [relay[r] EXCEPT !.st = "freed"]
    <3>1. relay' = [relay EXCEPT ![r] = e]
      BY <2>1
    <3>2. /\ e \in RelayObjects
          /\ e.st = "freed" /\ e.home = relay[r].home /\ e.key = relay[r].key
      BY DEF IInv, TypeOK, RelayObjects, RelayStates
    <3> HIDE DEF e
    <3> QED
      BY <3>1, <3>2 DEF IInv, TypeOK
  <2>2. CASE ~relay[r].tell
    BY <2>2, StoppedSound DEF IInv, TypeOK
  <2> QED
    BY <2>1, <2>2
<1>2. CursorOK' /\ StartOwns'
  BY <1>1, WorkersFrame
<1>3. AtHome'
  BY <1>1 DEF IInv, AtHome
<1>4. PortOwnership'
  BY <1>1, FreeOne DEF IInv, Holds
<1> QED
  BY <1>1, <1>2, <1>3, <1>4 DEF IInv, TypeOK

LEMMA StopTellSound ==
  ASSUME IInv, NEW r \in Relays, StopTell(r)
  PROVE  IInv'
<1> USE DEF StopTell
<1>1. wire' \in [Sessions -> Seq(Messages)]
  BY SendSound DEF IInv, AtHome
<1>2. /\ relay' \in [Relays -> RelayObjects]
      /\ relay'[r].st = "dead"
      /\ \A q \in Relays : q # r => relay'[q] = relay[q]
  BY StoppedSound DEF IInv, TypeOK
<1>3. CursorOK' /\ StartOwns'
  BY <1>2, WorkersFrame
<1>4. AtHome'
  BY <1>2 DEF IInv, AtHome
<1>5. PortOwnership'
  BY <1>2, OwnershipFrame DEF IInv, Holds
<1> QED
  BY <1>1, <1>2, <1>3, <1>4, <1>5 DEF IInv, TypeOK

LEMMA IdleStopSound ==
  ASSUME IInv, NEW r \in Relays, IdleStop(r)
  PROVE  IInv'
BY StopBeginSound DEF IdleStop, IInv, TypeOK

-----------------------------------------------------------------------------
(* The steps of a BYE and of a refusal. *)

LEMMA TakeAndDoomSound ==
  ASSUME IInv, NEW w \in Workers, NEW keys \in SUBSET Keys,
         NEW tell \in BOOLEAN, TakeAndDoom(w, keys, tell),
         relay' = relay
  PROVE  /\ mu' \in [Sessions -> Workers \cup Sessions \cup {None}]
         /\ worker' \in [Workers -> Errands]
         /\ CursorOK' /\ StartOwns'
<1> DEFINE doomed == {k \in keys : table[SessionOf[w]][k] # None}
           e == Releasing(doomed, tell)
<1>1. e \in Errands /\ e.at = "release"
  BY BoundAssumption DEF Releasing, Errands
<1>2. worker' = [worker EXCEPT ![w] = e]
  BY DEF TakeAndDoom
<1> HIDE DEF e
<1>3. worker' \in [Workers -> Errands] /\ CursorOK' /\ StartOwns'
  BY <1>1, <1>2, MoveOn DEF Working
<1>4. mu' \in [Sessions -> Workers \cup Sessions \cup {None}]
  BY DEF TakeAndDoom, IInv, TypeOK
<1> QED
  BY <1>3, <1>4

LEMMA ReleaseBeginSound ==
  ASSUME IInv, NEW w \in Workers, NEW c \in Calls, ReleaseBegin(w, c)
  PROVE  IInv'
<1> USE DEF ReleaseBegin
<1>1. /\ mu' \in [Sessions -> Workers \cup Sessions \cup {None}]
      /\ worker' \in [Workers -> Errands]
      /\ CursorOK' /\ StartOwns'
  BY TakeAndDoomSound
<1> QED
  BY <1>1, OwnershipFrame DEF IInv, TypeOK, Holds, AtHome

LEMMA RefusalBeginSound ==
  ASSUME IInv, NEW w \in Workers, RefusalBegin(w)
  PROVE  IInv'
<1> USE DEF RefusalBegin
<1>1. refused[SessionOf[w]] \in Seq(Keys) /\ SessionOf[w] \in Sessions
  BY SessionAssumption DEF IInv, TypeOK
<1>2. /\ Head(refused[SessionOf[w]]) \in Keys
      /\ Tail(refused[SessionOf[w]]) \in Seq(Keys)
  BY <1>1, HeadTailProperties
<1>3. /\ mu' \in [Sessions -> Workers \cup Sessions \cup {None}]
      /\ worker' \in [Workers -> Errands]
      /\ CursorOK' /\ StartOwns'
  BY <1>2, TakeAndDoomSound
<1>4. refused' \in [Sessions -> Seq(Keys)]
  BY <1>2 DEF IInv, TypeOK
<1> QED
  BY <1>3, <1>4, OwnershipFrame DEF IInv, TypeOK, Holds, AtHome

LEMMA ReleasePickSound ==
  ASSUME IInv, NEW w \in Workers, ReleasePick(w)
  PROVE  IInv'
<1>1. PICK k \in worker[w].doomed : worker' = [worker EXCEPT ![w].key = k]
  BY DEF ReleasePick
<1>2. /\ worker[w].at = "release"
      /\ UNCHANGED <<used, relay, table, mu, phase, wire, refused>>
  BY DEF ReleasePick
<1>3. worker' \in [Workers -> Errands] /\ CursorOK' /\ StartOwns'
  <2> DEFINE e == [worker[w] EXCEPT !.key = k]
  <2>1. worker[w] \in Errands /\ k \in Keys
    BY <1>1 DEF IInv, TypeOK, Errands
  <2>2. worker' = [worker EXCEPT ![w] = e]
    BY <1>1
  <2>3. e \in Errands /\ e.at = "release"
    BY <1>2, <2>1 DEF Errands
  <2> HIDE DEF e
  <2> QED
    BY <1>2, <2>2, <2>3, MoveOn DEF Working
<1> QED
  BY <1>2, <1>3, OwnershipFrame DEF IInv, TypeOK, Holds, AtHome

LEMMA ReleaseStopSound ==
  ASSUME IInv, NEW w \in Workers, ReleaseStop(w)
  PROVE  IInv'
<1> DEFINE s == SessionOf[w]
           k == worker[w].key
<1>1. /\ k # None
      /\ relay[table[s][k]].st = "open"
      /\ StopBegin(table[s][k], worker[w].tell)
  BY DEF ReleaseStop
<1>2. UNCHANGED <<used, table, mu, phase, worker, wire, refused>>
  BY DEF ReleaseStop
<1>3. worker[w] \in Errands /\ k \in Keys /\ table[s][k] \in Relays \cup {None}
  BY <1>1, SessionAssumption DEF IInv, TypeOK, Errands
<1>4. CASE table[s][k] \in Relays
  <2>1. worker[w].tell \in BOOLEAN
    BY <1>3 DEF Errands
  <2>2. /\ relay' \in [Relays -> RelayObjects]
        /\ CursorOK' /\ StartOwns' /\ AtHome' /\ PortOwnership'
    BY <1>1, <1>2, <1>4, <2>1, StopBeginSound
  <2> QED
    BY <1>2, <2>2 DEF IInv, TypeOK
<1>5. CASE table[s][k] = None
  <2>1. relay' = relay
    BY <1>1, <1>5, NoneAssumption DEF StopBegin, IInv, TypeOK
  <2> QED
    BY <1>2, <2>1, WorkersFrame, OwnershipFrame DEF IInv, TypeOK, Holds, AtHome
<1> QED
  BY <1>3, <1>4, <1>5

LEMMA ReleaseDeleteSound ==
  ASSUME IInv, NEW w \in Workers, ReleaseDelete(w)
  PROVE  IInv'
<1> DEFINE s == SessionOf[w]
           k == worker[w].key
<1>1. /\ k # None
      /\ relay[table[s][k]].st = "dead"
      /\ table' = [table EXCEPT ![s][k] = None]
      /\ relay' = [relay EXCEPT ![table[s][k]] = Dead]
      /\ worker' = [worker EXCEPT ![w].doomed = @ \ {k}, ![w].key = None]
  BY DEF ReleaseDelete
<1>2. worker[w].at = "release" /\ UNCHANGED <<used, mu, phase, wire, refused>>
  BY DEF ReleaseDelete
<1>3. worker[w] \in Errands /\ k \in Keys /\ s \in Sessions
  BY <1>1, SessionAssumption DEF IInv, TypeOK, Errands
<1>4. /\ relay' \in [Relays -> RelayObjects]
      /\ \A r \in Relays : \/ relay'[r] = relay[r]
                           \/ relay[r].st = "dead" /\ relay'[r].st = "dead"
  BY <1>1 DEF IInv, TypeOK, Dead, RelayObjects, RelayStates
<1>5. worker' \in [Workers -> Errands] /\ CursorOK' /\ StartOwns'
  <2> DEFINE e == [worker[w] EXCEPT !.doomed = @ \ {k}, !.key = None]
  <2>1. worker' = [worker EXCEPT ![w] = e]
    BY <1>1
  <2>2. e \in Errands /\ e.at = "release"
    BY <1>2, <1>3 DEF Errands
  <2>3. \A v \in Workers : worker[v].at = "start" =>
          relay'[worker[v].obj] = relay[worker[v].obj]
    BY <1>4 DEF IInv, StartOwns
  <2> HIDE DEF e
  <2> QED
    BY <2>1, <2>2, <2>3, MoveOn DEF Working
<1>6. table' \in [Sessions -> [Keys -> Relays \cup {None}]]
  BY <1>1, <1>3 DEF IInv, TypeOK
<1>7. AtHome'
  BY <1>4 DEF IInv, AtHome
<1>8. PortOwnership'
  BY <1>2, <1>4, OwnershipFrame DEF IInv, Holds
<1> QED
  BY <1>2, <1>4, <1>5, <1>6, <1>7, <1>8 DEF IInv, TypeOK

LEMMA ReleaseEndSound ==
  ASSUME IInv, NEW w \in Workers, ReleaseEnd(w)
  PROVE  IInv'
<1> USE DEF ReleaseEnd
<1>1. Idle \in Errands /\ Idle.at = "idle"
  BY BoundAssumption DEF Idle, Errands
<1>2. worker' \in [Workers -> Errands] /\ CursorOK' /\ StartOwns'
  BY <1>1, MoveOn DEF Working
<1> QED
  BY <1>2, OwnershipFrame DEF IInv, TypeOK, Holds, AtHome

-----------------------------------------------------------------------------
(* The steps of Close, and of the client. *)

LEMMA CloseConnSound ==
  ASSUME IInv, NEW s \in Sessions, CloseConn(s)
  PROVE  IInv'
<1> USE DEF CloseConn
<1>1. <<>> \in Seq(Messages) /\ <<>> \in Seq(Keys)
  OBVIOUS
<1> QED
  BY <1>1, WorkersFrame, OwnershipFrame DEF IInv, TypeOK, Holds, AtHome

LEMMA SweepBeginSound ==
  ASSUME IInv, NEW s \in Sessions, SweepBegin(s)
  PROVE  IInv'
BY WorkersFrame, OwnershipFrame DEF SweepBegin, IInv, TypeOK, Holds, AtHome

LEMMA SweepStopSound ==
  ASSUME IInv, NEW s \in Sessions, SweepStop(s)
  PROVE  IInv'
<1> USE DEF SweepStop
<1>1. PICK k \in Keys : /\ table[s][k] # None
                        /\ relay[table[s][k]].st = "open"
                        /\ StopBegin(table[s][k], FALSE)
  OBVIOUS
<1>2. table[s][k] \in Relays
  BY <1>1 DEF IInv, TypeOK
<1>3. /\ relay' \in [Relays -> RelayObjects]
      /\ CursorOK' /\ StartOwns' /\ AtHome' /\ PortOwnership'
  BY <1>1, <1>2, StopBeginSound
<1> QED
  BY <1>3 DEF IInv, TypeOK

LEMMA SweepEndSound ==
  ASSUME IInv, NEW s \in Sessions, SweepEnd(s)
  PROVE  IInv'
<1> USE DEF SweepEnd
<1>1. /\ relay' \in [Relays -> RelayObjects]
      /\ \A r \in Relays : \/ relay'[r] = relay[r]
                           \/ relay[r].st = "dead" /\ relay'[r].st = "dead"
  BY NoneAssumption DEF IInv, TypeOK, Dead, RelayObjects, RelayStates
<1>2. CursorOK' /\ StartOwns'
  BY <1>1, WorkersFrame
<1>3. AtHome'
  BY <1>1 DEF IInv, AtHome
<1>4. PortOwnership'
  BY <1>1, OwnershipFrame DEF IInv, Holds
<1>5. /\ table' \in [Sessions -> [Keys -> Relays \cup {None}]]
      /\ mu' \in [Sessions -> Workers \cup Sessions \cup {None}]
      /\ phase' \in [Sessions -> {"up", "closed", "sweeping", "swept"}]
  BY DEF IInv, TypeOK
<1> QED
  BY <1>1, <1>2, <1>3, <1>4, <1>5 DEF IInv, TypeOK

LEMMA ClientReadsSound ==
  ASSUME IInv, NEW s \in Sessions, ClientReads(s)
  PROVE  IInv'
<1> USE DEF ClientReads
<1>1. wire[s] \in Seq(Messages) /\ refused[s] \in Seq(Keys)
  BY DEF IInv, TypeOK
<1>2. Head(wire[s]) \in Messages /\ Tail(wire[s]) \in Seq(Messages)
  BY <1>1, HeadTailProperties
<1>3. Append(refused[s], Head(wire[s]).key) \in Seq(Keys)
  BY <1>1, <1>2 DEF Messages
<1>4. /\ wire' \in [Sessions -> Seq(Messages)]
      /\ refused' \in [Sessions -> Seq(Keys)]
  BY <1>2, <1>3 DEF IInv, TypeOK
<1> QED
  BY <1>4, WorkersFrame, OwnershipFrame DEF IInv, TypeOK, Holds, AtHome

-----------------------------------------------------------------------------
(* Every step, and every stutter, preserves the invariant. *)
LEMMA NextIInv == IInv /\ [Next]_vars => IInv'
<1> SUFFICES ASSUME IInv, [Next]_vars PROVE IInv'
  OBVIOUS
<1>1. CASE \E w \in Workers : WorkerNext(w)
  <2> PICK w \in Workers : WorkerNext(w)
    BY <1>1
  <2>1. CASE \E c \in Calls, n \in 1 .. MaxMedia : Offer(w, c, n)
    BY <2>1, OfferSound
  <2>2. CASE Lookup(w) \/ Alloc(w) \/ Exhausted(w)
    BY <2>2, LookupSound, AllocSound, ExhaustedSound
  <2>3. CASE StartOk(w) \/ StartFails(w) \/ Insert(w) \/ Notify(w)
    BY <2>3, StartOkSound, StartFailsSound, InsertSound, NotifySound
  <2>4. CASE \E c \in Calls : ReleaseBegin(w, c)
    BY <2>4, ReleaseBeginSound
  <2>5. CASE RefusalBegin(w)
    BY <2>5, RefusalBeginSound
  <2>6. CASE \/ ReleasePick(w) \/ ReleaseStop(w)
             \/ ReleaseDelete(w) \/ ReleaseEnd(w)
    BY <2>6, ReleasePickSound, ReleaseStopSound, ReleaseDeleteSound, ReleaseEndSound
  <2> QED
    BY <2>1, <2>2, <2>3, <2>4, <2>5, <2>6 DEF WorkerNext
<1>2. CASE \E r \in Relays : RelayNext(r)
  BY <1>2, StopFreeSound, StopTellSound, IdleStopSound DEF RelayNext
<1>3. CASE \E s \in Sessions : SessionNext(s)
  BY <1>3, CloseConnSound, SweepBeginSound, SweepStopSound, SweepEndSound,
     ClientReadsSound DEF SessionNext
<1>4. CASE UNCHANGED vars
  BY <1>4, WorkersFrame, OwnershipFrame DEF vars, IInv, TypeOK, Holds, AtHome
<1> QED
  BY <1>1, <1>2, <1>3, <1>4 DEF Next

(* Every reachable state satisfies the invariant. *)
THEOREM Invariance == Spec => []IInv
<1>1. Init => IInv
  BY InitIInv
<1>2. IInv /\ [Next]_vars => IInv'
  BY NextIInv
<1> QED
  BY <1>1, <1>2, PTL DEF Spec

(* Type correctness: in particular every port in use is one of the pool,   *)
(* and every message names a relay key.                                    *)
THEOREM TypeCorrect == Spec => []TypeOK
<1>1. IInv => TypeOK
  BY DEF IInv
<1> QED
  BY <1>1, Invariance, PTL

(* However BYEs, idle timeouts, refusals, failed listens and closing       *)
(* sessions interleave, used is exactly the set of ports some relay holds, *)
(* and two relays never hold the same port.                                *)
THEOREM PortsOwned == Spec => []PortOwnership
<1>1. IInv => PortOwnership
  BY DEF IInv
<1> QED
  BY <1>1, Invariance, PTL

-----------------------------------------------------------------------------
(* RTPRelay implements PortLease: allocating acquires a lease, a failed    *)
(* Start and the freeing step of Stop give one back, and no other step     *)
(* changes who holds what.                                                 *)

SameHolders ==
    \A r \in Relays : /\ Holds(r)' <=> Holds(r)
                      /\ Holds(r) => relay'[r].port = relay[r].port

leases == [r \in Relays |-> IF Holds(r) THEN relay[r].port ELSE 0]

LEMMA SameHoldersSameLeases == SameHolders => leases' = leases
BY DEF SameHolders, leases

LEMMA AllocAcquires ==
  ASSUME IInv, NEW w \in Workers, Alloc(w)
  PROVE  \E r \in Relays, p \in PoolPorts : Lease!Acquire(r, p)
<1>1. PICK r \in Relays, p \in PoolPorts :
        /\ FirstFit(p)
        /\ Garbage(r)
        /\ relay' = [relay EXCEPT ![r] =
                       [st |-> "made", port |-> p, home |-> SessionOf[w],
                        key |-> worker[w].key, tell |-> FALSE]]
  BY DEF Alloc
<1>2. p \notin used
  BY <1>1 DEF FirstFit
<1>3. \A q \in Relays : Holds(q) => relay[q].port # p
  BY <1>2 DEF IInv, PortOwnership
<1>4. /\ ~Holds(r)
      /\ Holds(r)' /\ relay'[r].port = p
      /\ \A q \in Relays : q # r => relay'[q] = relay[q]
  BY <1>1 DEF Garbage, Holds, IInv, TypeOK
<1>5. leases[r] = 0
  BY <1>4 DEF leases
<1>6. p \notin {leases[q] : q \in Relays} \ {0}
  BY <1>3, ZeroAssumption DEF leases
<1>7. leases' = [leases EXCEPT ![r] = p]
  BY <1>4 DEF leases, Holds
<1> QED
  BY <1>5, <1>6, <1>7 DEF Lease!Acquire, Lease!Leased, leases

LEMMA FreeingGivesBack ==
  ASSUME IInv, NEW r \in Relays, Holds(r), ~Holds(r)',
         \A q \in Relays : q # r => relay'[q] = relay[q]
  PROVE  Lease!GiveBack(r)
<1>1. relay[r].port \in PoolPorts
  BY DEF IInv, TypeOK, PortOwnership
<1>2. leases[r] # 0
  BY <1>1, ZeroAssumption DEF leases
<1>3. leases' = [leases EXCEPT ![r] = 0]
  BY DEF leases, Holds
<1> QED
  BY <1>2, <1>3 DEF Lease!GiveBack, leases

LEMMA WorkerStepRefines ==
  ASSUME IInv, NEW w \in Workers, WorkerNext(w)
  PROVE  Lease!LeaseNext \/ leases' = leases
<1>1. CASE Alloc(w)
  BY <1>1, AllocAcquires DEF Lease!LeaseNext
<1>2. CASE StartFails(w)
  <2>1. PICK r \in Relays : /\ relay[r].st = "made"
                            /\ relay' = [relay EXCEPT ![r] = Dead]
    BY <1>2 DEF StartFails, IInv, StartOwns
  <2>2. /\ Holds(r) /\ ~Holds(r)'
        /\ \A q \in Relays : q # r => relay'[q] = relay[q]
    BY <2>1 DEF Holds, Dead, IInv, TypeOK
  <2> QED
    BY <2>2, FreeingGivesBack DEF Lease!LeaseNext
<1>3. CASE StartOk(w)
  <2>1. /\ worker[w].obj \in Relays
        /\ relay[worker[w].obj].st = "made"
        /\ relay' = [relay EXCEPT ![worker[w].obj].st = "open"]
    BY <1>3 DEF StartOk, IInv, StartOwns
  <2>2. SameHolders
    BY <2>1 DEF SameHolders, Holds, IInv, TypeOK, RelayObjects
  <2> QED
    BY <2>2, SameHoldersSameLeases
<1>4. CASE ReleaseStop(w)
  <2>1. PICK r : relay[r].st = "open"
                 /\ relay' = [relay EXCEPT ![r].st = "closing",
                                           ![r].tell = worker[w].tell]
    BY <1>4 DEF ReleaseStop, StopBegin
  <2>2. SameHolders
    BY <2>1 DEF SameHolders, Holds, IInv, TypeOK, RelayObjects
  <2> QED
    BY <2>2, SameHoldersSameLeases
<1>5. CASE ReleaseDelete(w)
  <2>1. PICK r : relay[r].st = "dead" /\ relay' = [relay EXCEPT ![r] = Dead]
    BY <1>5 DEF ReleaseDelete
  <2>2. SameHolders
    BY <2>1 DEF SameHolders, Holds, Dead, IInv, TypeOK
  <2> QED
    BY <2>2, SameHoldersSameLeases
<1>6. CASE relay' = relay
  BY <1>6, SameHoldersSameLeases DEF SameHolders, Holds
<1>7. \/ Alloc(w) \/ StartFails(w) \/ StartOk(w) \/ ReleaseStop(w)
      \/ ReleaseDelete(w) \/ relay' = relay
  BY DEF WorkerNext, Offer, Lookup, Exhausted, Insert, Notify, ReleaseBegin,
         RefusalBegin, ReleasePick, ReleaseEnd
<1> QED
  BY <1>1, <1>2, <1>3, <1>4, <1>5, <1>6, <1>7

LEMMA RelayStepRefines ==
  ASSUME IInv, NEW r \in Relays, RelayNext(r)
  PROVE  Lease!LeaseNext \/ leases' = leases
<1>1. CASE StopFree(r)
  <2>1. /\ Holds(r) /\ ~Holds(r)'
        /\ \A q \in Relays : q # r => relay'[q] = relay[q]
    BY <1>1, StoppedSound DEF StopFree, Holds, IInv, TypeOK, RelayObjects
  <2> QED
    BY <2>1, FreeingGivesBack DEF Lease!LeaseNext
<1>2. CASE StopTell(r)
  <2>1. SameHolders
    BY <1>2, StoppedSound DEF StopTell, SameHolders, Holds, IInv, TypeOK
  <2> QED
    BY <2>1, SameHoldersSameLeases
<1>3. CASE IdleStop(r)
  <2>1. SameHolders
    BY <1>3 DEF IdleStop, StopBegin, SameHolders, Holds, IInv, TypeOK, RelayObjects
  <2> QED
    BY <2>1, SameHoldersSameLeases
<1> QED
  BY <1>1, <1>2, <1>3 DEF RelayNext

LEMMA SessionStepRefines ==
  ASSUME IInv, NEW s \in Sessions, SessionNext(s)
  PROVE  leases' = leases
<1>1. CASE SweepStop(s)
  <2>1. PICK k \in Keys : relay[table[s][k]].st = "open"
                          /\ StopBegin(table[s][k], FALSE)
    BY <1>1 DEF SweepStop
  <2>2. SameHolders
    BY <2>1 DEF StopBegin, SameHolders, Holds, IInv, TypeOK, RelayObjects
  <2> QED
    BY <2>2, SameHoldersSameLeases
<1>2. CASE SweepEnd(s)
  <2>1. SameHolders
    BY <1>2, NoneAssumption
       DEF SweepEnd, SameHolders, Holds, Dead, IInv, TypeOK
  <2> QED
    BY <2>1, SameHoldersSameLeases
<1>3. CASE relay' = relay
  BY <1>3, SameHoldersSameLeases DEF SameHolders, Holds
<1>4. SweepStop(s) \/ SweepEnd(s) \/ relay' = relay
  BY DEF SessionNext, CloseConn, SweepBegin, ClientReads
<1> QED
  BY <1>1, <1>2, <1>3, <1>4

(* Every behaviour of the relay code, seen as who holds which port, is a   *)
(* behaviour of PortLease.                                                 *)
THEOREM ImplementsLease == Spec => LeaseRefinement
<1>1. Init => Lease!LeaseInit
  BY DEF Init, Dead, Holds, Lease!LeaseInit
<1>2. IInv /\ [Next]_vars => [Lease!LeaseNext]_leases
  <2> SUFFICES ASSUME IInv, [Next]_vars PROVE Lease!LeaseNext \/ leases' = leases
    OBVIOUS
  <2>1. CASE UNCHANGED vars
    BY <2>1 DEF vars, leases, Holds
  <2> QED
    BY <2>1, WorkerStepRefines, RelayStepRefines, SessionStepRefines DEF Next
<1>3. [Lease!LeaseNext]_leases
        <=> [Lease!LeaseNext]_([r \in Relays |->
                                  IF Holds(r) THEN relay[r].port ELSE 0])
  BY DEF leases
<1> QED
  BY <1>1, <1>2, <1>3, Invariance, PTL DEF Spec, LeaseRefinement, Lease!LeaseSpec

(* The promise itself: in every behaviour of PortLease leases are          *)
(* exclusive, whatever the holders and the ports.                          *)
THEOREM LeasesExclusive == Lease!LeaseSpec => []Lease!LeaseInv
<1> USE DEF Lease!LeaseTypeOK, Lease!Exclusive, Lease!LeaseInv
<1>1. Lease!LeaseInit => Lease!LeaseInv
  BY DEF Lease!LeaseInit
<1>2. Lease!LeaseInv /\ [Lease!LeaseNext]_([r \in Relays |->
                                               IF Holds(r) THEN relay[r].port ELSE 0])
      => Lease!LeaseInv'
  <2> DEFINE lease == [r \in Relays |-> IF Holds(r) THEN relay[r].port ELSE 0]
  <2> SUFFICES ASSUME Lease!LeaseInv, [Lease!LeaseNext]_lease PROVE Lease!LeaseInv'
    OBVIOUS
  <2>1. ASSUME NEW h \in Relays, NEW p \in PoolPorts, Lease!Acquire(h, p)
        PROVE  Lease!LeaseInv'
    <3>1. lease \in [Relays -> PoolPorts \cup {0}]
      OBVIOUS
    <3>2. \A f, g \in Relays : f # g /\ lease[f] # 0 => lease[f] # lease[g]
      OBVIOUS
    <3>3. lease[h] = 0 /\ lease' = [lease EXCEPT ![h] = p]
      BY <2>1 DEF Lease!Acquire
    <3>4. p \notin {lease[g] : g \in Relays} \ {0}
      BY <2>1 DEF Lease!Acquire, Lease!Leased
    <3>5. /\ lease' \in [Relays -> PoolPorts \cup {0}]
          /\ \A f, g \in Relays : f # g /\ lease'[f] # 0 => lease'[f] # lease'[g]
      <4> HIDE DEF lease
      <4> QED
        BY <3>1, <3>2, <3>3, <3>4, ZeroAssumption
    <3> QED
      BY <3>5
  <2>2. ASSUME NEW h \in Relays, Lease!GiveBack(h)
        PROVE  Lease!LeaseInv'
    <3>1. lease \in [Relays -> PoolPorts \cup {0}]
      OBVIOUS
    <3>2. \A f, g \in Relays : f # g /\ lease[f] # 0 => lease[f] # lease[g]
      OBVIOUS
    <3>3. lease' = [lease EXCEPT ![h] = 0]
      BY <2>2 DEF Lease!GiveBack
    <3>4. /\ lease' \in [Relays -> PoolPorts \cup {0}]
          /\ \A f, g \in Relays : f # g /\ lease'[f] # 0 => lease'[f] # lease'[g]
      <4> HIDE DEF lease
      <4> QED
        BY <3>1, <3>2, <3>3
    <3> QED
      BY <3>4
  <2>3. CASE lease' = lease
    BY <2>3
  <2> QED
    BY <2>1, <2>2, <2>3 DEF Lease!LeaseNext
<1> QED
  BY <1>1, <1>2, PTL DEF Lease!LeaseSpec
=============================================================================
