------------------------ MODULE ControlChannelProofs ------------------------
(***************************************************************************)
(* What ControlChannel guarantees for any number of connections, proxies,  *)
(* faults and whatever the times: a port is held for peers with the token  *)
(* only, who is in the table of clients is a live session of that address, *)
(* and the server ends a session that is silent and none whose client is   *)
(* there.                                                                  *)
(***************************************************************************)
EXTENDS ControlChannel, TLAPS

Messages == {"Auth", "NewProxy", "Ping"} \X Nat

ConnType ==
    [path : {"free", "up", "cut", "eof"}, good : BOOLEAN, addr : Addrs \cup {None},
     toSrv : Seq(Messages), toCli : Seq(Answers),
     hand : {"none", "added", "loop", "start", "exit", "close", "done"},
     closed : {"open", "conn", "done"}, beat : {"off", "on", "close", "end"},
     tick : Nat, age : Nat, slack : Nat, mine : SUBSET Ports]
ClientType ==
    [at : {"down", "ready", "auth", "register", "run", "stopped"},
     conn : Conns \cup {None}, reg : Nat, tick : Nat]

Typed ==
    /\ client \in ClientType
    /\ conn \in [Conns -> ConnType]
    /\ table \in [Addrs -> Conns \cup {None}]
    /\ owner \in [Ports -> Conns \cup {None, Leaked}]

(* A connection that is not in use is in no handler's hands; the loop is   *)
(* entered with the token only.                                            *)
Admitted(c) ==
    /\ c.path = "free" => c.hand = "none" /\ c.toSrv = <<>>
    /\ c.hand \in {"loop", "start"} => c.good

(* A port belongs to a session that was let in; it is in the session's map *)
(* unless it is the one port that the handler is just starting.            *)
OwnersSound ==
    /\ \A p \in Ports : owner[p] \in Conns =>
        /\ conn[owner[p]].good
        /\ conn[owner[p]].path # "free"
        /\ p \notin conn[owner[p]].mine => conn[owner[p]].hand = "start"
    /\ \A p, q \in Ports :
        /\ owner[p] \in Conns /\ owner[p] = owner[q]
        /\ p \notin conn[owner[p]].mine /\ q \notin conn[owner[p]].mine
        => p = q
    /\ \A k \in Conns : conn[k].hand = "start" =>
        \E p \in Ports : owner[p] = k /\ p \notin conn[k].mine
    /\ \A k \in Conns : \A p \in conn[k].mine : owner[p] = k

IInv ==
    /\ Typed
    /\ \A k \in Conns : Admitted(conn[k])
    /\ OwnersSound
    /\ ListedAreLive

(* What a step of a session may do to the table. *)
Listed(c) == c.hand \in {"added", "loop", "start", "exit"}
TableStep(k, c) ==
    \/ table' = table /\ (Listed(conn[k]) => Listed(c) /\ c.addr = conn[k].addr)
    \/ table' = [table EXCEPT ![conn[k].addr] = k] /\ Listed(c) /\ c.addr = conn[k].addr
    \/ table' = [table EXCEPT ![conn[k].addr] = None] /\ ~Listed(c)

-----------------------------------------------------------------------------
LEMMA EmptyTyped == <<>> \in Seq(Answers) /\ <<>> \in Seq(Messages)
OBVIOUS

LEMMA FreshTyped ==
    /\ Fresh \in ConnType /\ Fresh.path = "free" /\ Fresh.hand = "none"
    /\ Fresh.toSrv = <<>> /\ Fresh.mine = {}
BY DEF Fresh, ConnType

LEMMA InitIInv == Init => IInv
<1> SUFFICES ASSUME Init PROVE IInv
  OBVIOUS
<1>1. Typed
  BY FreshTyped DEF Init, Typed, Down, ClientType
<1>2. \A k \in Conns : Admitted(conn[k])
  BY FreshTyped DEF Init, Admitted
<1>3. OwnersSound
  BY NobodyAssumption, FreshTyped DEF Init, OwnersSound
<1>4. ListedAreLive
  BY DEF Init, ListedAreLive
<1> QED
  BY <1>1, <1>2, <1>3, <1>4 DEF IInv

LEMMA SendsTyped ==
    ASSUME NEW c \in ConnType, NEW m \in Messages, NEW a \in Answers
    PROVE  /\ ToServer(c, m) \in ConnType /\ ToClient(c, a) \in ConnType
           /\ \A d \in {ToServer(c, m), ToClient(c, a)} :
                /\ d.path = c.path /\ d.good = c.good
                /\ d.addr = c.addr /\ d.hand = c.hand
                /\ d.mine = c.mine /\ d.closed = c.closed
                /\ d.path = "free" => d.toSrv = c.toSrv
           /\ ToClient(c, a).toSrv = c.toSrv
           /\ ToServer(c, m).toCli = c.toCli
<1> DEFINE d == [c EXCEPT !.toSrv = Append(@, m)]
           e == [c EXCEPT !.toCli = Append(@, a)]
<1>1. Append(c.toSrv, m) \in Seq(Messages) /\ Append(c.toCli, a) \in Seq(Answers)
  BY DEF ConnType
<1>2. /\ d \in ConnType /\ d.path = c.path /\ d.good = c.good
      /\ d.addr = c.addr /\ d.hand = c.hand
      /\ d.mine = c.mine /\ d.closed = c.closed /\ d.toCli = c.toCli
  BY <1>1 DEF ConnType
<1>3. /\ e \in ConnType /\ e.path = c.path /\ e.good = c.good
      /\ e.addr = c.addr /\ e.hand = c.hand
      /\ e.mine = c.mine /\ e.closed = c.closed /\ e.toSrv = c.toSrv
  BY <1>1 DEF ConnType
<1>4. ToServer(c, m) = c \/ (ToServer(c, m) = d /\ c.path = "up")
  BY DEF ToServer
<1>5. ToClient(c, a) = c \/ (ToClient(c, a) = e /\ c.path = "up")
  BY DEF ToClient
<1> HIDE DEF d, e
<1> QED
  BY <1>2, <1>3, <1>4, <1>5

(* Who is in the table after a step of one session. *)
LEMMA TableKeeps ==
    ASSUME IInv, NEW k \in Conns, NEW new \in ConnType,
           conn' = [conn EXCEPT ![k] = new], TableStep(k, new)
    PROVE  table' \in [Addrs -> Conns \cup {None}] /\ ListedAreLive'
<1>1. conn \in [Conns -> ConnType] /\ table \in [Addrs -> Conns \cup {None}]
  BY DEF IInv, Typed
<1>2. \A j \in Conns : conn'[j] = IF j = k THEN new ELSE conn[j]
  BY <1>1
<1>3. table' \in [Addrs -> Conns \cup {None}]
  BY <1>1 DEF TableStep
<1>4. \A a \in Addrs : table[a] # None =>
          table[a] \in Conns /\ conn[table[a]].addr = a /\ Listed(conn[table[a]])
  BY <1>1 DEF IInv, ListedAreLive, Listed
<1>5. ASSUME NEW a \in Addrs, table'[a] # None
      PROVE  conn'[table'[a]].addr = a /\ Listed(conn'[table'[a]])
  <2>1. CASE table' = table /\ (Listed(conn[k]) => Listed(new)
                            /\ new.addr = conn[k].addr)
    BY <1>2, <1>4, <1>5, <2>1
  <2>2. CASE /\ table' = [table EXCEPT ![conn[k].addr] = k]
             /\ Listed(new) /\ new.addr = conn[k].addr
    <3>1. CASE a = conn[k].addr
      BY <1>1, <1>2, <2>2, <3>1
    <3>2. CASE a # conn[k].addr
      <4>1. table'[a] = table[a] /\ table[a] # k
        BY <1>1, <1>4, <1>5, <2>2, <3>2
      <4> QED
        BY <1>2, <1>4, <1>5, <4>1
    <3> QED
      BY <3>1, <3>2
  <2>3. CASE table' = [table EXCEPT ![conn[k].addr] = None] /\ ~Listed(new)
    <3>1. a # conn[k].addr
      BY <1>1, <1>5, <2>3
    <3>2. table'[a] = table[a] /\ table[a] # k
      BY <1>1, <1>4, <1>5, <2>3, <3>1
    <3> QED
      BY <1>2, <1>4, <1>5, <3>2
  <2> QED
    BY <2>1, <2>2, <2>3 DEF TableStep
<1> QED
  BY <1>3, <1>5 DEF ListedAreLive, Listed

(* A step of one session that lets nobody in without the token, and leaves *)
(* the proxies where they are.                                             *)
LEMMA QuietKeeps ==
    ASSUME IInv, NEW k \in Conns, NEW new \in ConnType,
           conn' = [conn EXCEPT ![k] = new], client' \in ClientType,
           new.good = conn[k].good, new.mine = conn[k].mine,
           new.hand = "start" <=> conn[k].hand = "start",
           conn[k].path # "free" => new.path # "free",
           Admitted(new), TableStep(k, new), owner' = owner
    PROVE  IInv'
<1>1. conn \in [Conns -> ConnType]
  BY DEF IInv, Typed
<1>2. table' \in [Addrs -> Conns \cup {None}] /\ ListedAreLive'
  BY TableKeeps
<1>3. Typed'
  BY <1>1, <1>2 DEF IInv, Typed
<1>4. \A j \in Conns : conn'[j] = IF j = k THEN new ELSE conn[j]
  BY <1>1
<1>5. \A j \in Conns : Admitted(conn'[j])
  BY <1>4 DEF IInv
<1>6. OwnersSound'
  BY <1>4 DEF IInv, OwnersSound
<1> QED
  BY <1>2, <1>3, <1>5, <1>6 DEF IInv

-----------------------------------------------------------------------------
(* The client. *)

LEMMA QuitKeeps ==
    ASSUME IInv, NEW k \in Conns, NEW where \in {"down", "stopped"}, Quit(k, where),
           UNCHANGED <<table, owner>>
    PROVE  IInv'
<1> DEFINE to == IF conn[k].path = "up" THEN "eof" ELSE conn[k].path
           slack == IF AtWork(conn[k]) THEN conn[k].slack ELSE 0
           new == [conn[k] EXCEPT !.path = to, !.toCli = <<>>, !.slack = slack]
<1>1. conn \in [Conns -> ConnType] /\ conn[k] \in ConnType /\ slack \in Nat
  BY DEF IInv, Typed, ConnType
<1>2. /\ new \in ConnType /\ new.path = to /\ new.good = conn[k].good
      /\ new.addr = conn[k].addr /\ new.hand = conn[k].hand
      /\ new.mine = conn[k].mine /\ new.toSrv = conn[k].toSrv
  BY <1>1, EmptyTyped DEF ConnType
<1>3. conn' = [conn EXCEPT ![k] = new]
  BY <1>1 DEF Quit
<1>4. client' \in ClientType
  BY DEF Quit, Down, ClientType
<1>5. to = "free" <=> conn[k].path = "free"
  OBVIOUS
<1> HIDE DEF to, slack, new
<1>6. Admitted(new) /\ TableStep(k, new)
  BY <1>2, <1>5 DEF IInv, Admitted, TableStep, Listed
<1> QED
  BY <1>1, <1>2, <1>3, <1>4, <1>5, <1>6, QuietKeeps

LEMMA ProceedKeeps ==
    ASSUME IInv, NEW k \in Conns, NEW c \in ConnType, conn[k].path = "up",
           c.path = "up", c.good = conn[k].good, c.addr = conn[k].addr, c.hand = conn[k].hand,
           c.mine = conn[k].mine, c.toCli # <<>>,
           Proceed(k, c), client' \in ClientType, UNCHANGED <<table, owner>>
    PROVE  IInv'
<1> DEFINE new == [c EXCEPT !.toCli = Tail(@)]
<1>1. Tail(c.toCli) \in Seq(Answers)
  BY DEF ConnType
<1>2. /\ new \in ConnType /\ new.path = "up" /\ new.good = conn[k].good
      /\ new.addr = conn[k].addr
      /\ new.hand = conn[k].hand /\ new.mine = conn[k].mine
  BY <1>1 DEF ConnType
<1>3. conn' = [conn EXCEPT ![k] = new]
  BY DEF Proceed
<1> HIDE DEF new
<1>4. Admitted(new) /\ TableStep(k, new)
  BY <1>2 DEF IInv, Admitted, TableStep, Listed
<1> QED
  BY <1>2, <1>3, <1>4, QuietKeeps

LEMMA ClientReadsKeeps ==
    ASSUME IInv, NEW k \in Conns, ClientReads(k)
    PROVE  IInv'
<1>1. /\ conn[k] \in ConnType /\ conn[k].path = "up" /\ conn[k].toCli # <<>>
      /\ client \in ClientType /\ UNCHANGED <<table, owner>>
  BY DEF IInv, Typed, ClientReads
<1>2. ASSUME NEW p \in Nat, NEW next \in ClientType, client' = next,
             Proceed(k, ToServer(conn[k], NewProxy(p)))
      PROVE  IInv'
  <2>1. NewProxy(p) \in Messages /\ "AuthOK" \in Answers
    BY DEF NewProxy, Messages, Answers
  <2> DEFINE c == ToServer(conn[k], NewProxy(p))
  <2>2. /\ c \in ConnType /\ c.path = "up" /\ c.good = conn[k].good
        /\ c.addr = conn[k].addr /\ c.hand = conn[k].hand
        /\ c.mine = conn[k].mine /\ c.toCli # <<>>
    BY <1>1, <2>1, SendsTyped
  <2> HIDE DEF c
  <2> QED
    BY <1>1, <1>2, <2>2, ProceedKeeps DEF c
<1>3. ASSUME NEW next \in ClientType, client' = next,
             Proceed(k, conn[k]) \/ Proceed(k, [conn[k] EXCEPT !.slack = 0])
      PROVE  IInv'
  <2> DEFINE c == [conn[k] EXCEPT !.slack = 0]
  <2>1. /\ c \in ConnType /\ c.path = "up" /\ c.good = conn[k].good /\ c.addr = conn[k].addr
        /\ c.hand = conn[k].hand /\ c.mine = conn[k].mine /\ c.toCli # <<>>
    BY <1>1 DEF ConnType
  <2> HIDE DEF c
  <2>2. CASE Proceed(k, conn[k])
    BY <1>1, <1>3, <2>2, ProceedKeeps
  <2>3. CASE Proceed(k, c)
    BY <1>1, <1>3, <2>1, <2>3, ProceedKeeps
  <2> QED
    BY <1>3, <2>2, <2>3 DEF c
<1>4. /\ [client EXCEPT !.at = "register"] \in ClientType
      /\ [client EXCEPT !.reg = @ + 1] \in ClientType
      /\ [client EXCEPT !.reg = @ + 1, !.at = "run", !.tick = 0] \in ClientType
      /\ client.reg + 2 \in Nat
  <2>1. client.reg \in Nat /\ client.reg + 1 \in Nat /\ client.reg + 2 \in Nat
    BY <1>1 DEF ClientType
  <2> QED
    BY <1>1, <2>1 DEF ClientType
<1>5. \/ client' = [client EXCEPT !.at = "register"] /\ Proceed(k, ToServer(conn[k], NewProxy(1)))
      \/ /\ client' = [client EXCEPT !.reg = @ + 1]
         /\ Proceed(k, ToServer(conn[k], NewProxy(client.reg + 2)))
      \/ /\ client' = [client EXCEPT !.reg = @ + 1, !.at = "run", !.tick = 0]
         /\ Proceed(k, [conn[k] EXCEPT !.slack = 0])
      \/ Quit(k, "down")
      \/ client' = client /\ Proceed(k, conn[k])
  BY DEF ClientReads
<1> QED
  BY <1>1, <1>2, <1>3, <1>4, <1>5, QuitKeeps

LEMMA ClientPingKeeps ==
    ASSUME IInv, NEW k \in Conns, ClientPing(k)
    PROVE  IInv'
<1> DEFINE waited == IF conn[k].toSrv = <<>> THEN 0 ELSE conn[k].slack
           aired == [conn[k] EXCEPT !.slack = waited]
           new == ToServer(aired, Ping)
<1>1. /\ conn \in [Conns -> ConnType] /\ conn[k] \in ConnType
      /\ client \in ClientType
  BY DEF IInv, Typed
<1>2. /\ aired \in ConnType /\ aired.path = conn[k].path /\ aired.good = conn[k].good
      /\ aired.addr = conn[k].addr
      /\ aired.hand = conn[k].hand /\ aired.mine = conn[k].mine /\ aired.toSrv = conn[k].toSrv
  BY <1>1 DEF ConnType
<1>3. Ping \in Messages /\ "AuthOK" \in Answers
  BY DEF Ping, Messages, Answers
<1> HIDE DEF aired
<1>4. /\ new \in ConnType /\ new.path = conn[k].path /\ new.good = conn[k].good
      /\ new.addr = conn[k].addr
      /\ new.hand = conn[k].hand /\ new.mine = conn[k].mine
      /\ new.path = "free" => new.toSrv = conn[k].toSrv
  BY <1>2, <1>3, SendsTyped
<1>5. /\ conn' = [conn EXCEPT ![k] = new] /\ client' = [client EXCEPT !.tick = 0]
      /\ UNCHANGED <<table, owner>>
  BY <1>1 DEF ClientPing, aired
<1>6. client' \in ClientType
  BY <1>1, <1>5 DEF ClientType
<1> HIDE DEF new
<1>7. Admitted(new) /\ TableStep(k, new)
  BY <1>4, <1>5 DEF IInv, Admitted, TableStep, Listed
<1> QED
  BY <1>1, <1>4, <1>5, <1>6, <1>7, QuietKeeps

LEMMA CutKeeps ==
    ASSUME IInv, NEW k \in Conns, Cut(k)
    PROVE  IInv'
<1> DEFINE slack == IF AtWork(conn[k]) THEN conn[k].slack ELSE 0
           new == [conn[k] EXCEPT !.path = "cut", !.toCli = <<>>, !.slack = slack]
<1>1. /\ conn \in [Conns -> ConnType] /\ conn[k] \in ConnType
      /\ client \in ClientType /\ slack \in Nat
  BY DEF IInv, Typed, ConnType
<1>2. /\ new \in ConnType /\ new.path = "cut" /\ new.good = conn[k].good
      /\ new.addr = conn[k].addr
      /\ new.hand = conn[k].hand /\ new.mine = conn[k].mine
  BY <1>1, EmptyTyped DEF ConnType
<1>3. /\ conn' = [conn EXCEPT ![k] = new] /\ UNCHANGED <<client, table, owner>>
  BY <1>1 DEF Cut
<1> HIDE DEF new
<1>4. Admitted(new) /\ TableStep(k, new)
  BY <1>2, <1>3 DEF IInv, Admitted, TableStep, Listed
<1> QED
  BY <1>1, <1>2, <1>3, <1>4, QuietKeeps

(* A connection that is not in use has no port, so its peer may be anyone. *)
LEMMA NewPeerKeeps ==
    ASSUME IInv, NEW k \in Conns, NEW new \in ConnType, conn[k].path = "free",
           new.hand = "none", new.path = "up", new.mine = {},
           conn' = [conn EXCEPT ![k] = new], client' \in ClientType,
           UNCHANGED <<table, owner>>
    PROVE  IInv'
<1>1. conn \in [Conns -> ConnType] /\ conn[k].hand = "none"
  BY DEF IInv, Typed, Admitted
<1>2. table' \in [Addrs -> Conns \cup {None}] /\ ListedAreLive'
  BY <1>1, TableKeeps DEF TableStep, Listed
<1>3. Typed'
  BY <1>1, <1>2 DEF IInv, Typed
<1>4. \A j \in Conns : conn'[j] = IF j = k THEN new ELSE conn[j]
  BY <1>1
<1>5. \A j \in Conns : Admitted(conn'[j])
  BY <1>4 DEF IInv, Admitted
<1>6. \A p \in Ports : owner[p] # k
  BY DEF IInv, OwnersSound
<1>7. OwnersSound'
  BY <1>4, <1>6 DEF IInv, OwnersSound
<1> QED
  BY <1>2, <1>3, <1>5, <1>7 DEF IInv

LEMMA ConnectKeeps ==
    ASSUME IInv, NEW k \in Conns, NEW a \in Addrs, Connect(k, a)
    PROVE  IInv'
<1> DEFINE new == [Fresh EXCEPT !.path = "up", !.addr = a, !.toSrv = <<Auth>>]
<1>1. <<Auth>> \in Seq(Messages)
  BY DEF Auth, Messages
<1>2. new \in ConnType /\ new.hand = "none" /\ new.path = "up" /\ new.mine = {}
  BY <1>1, FreshTyped DEF ConnType
<1>3. /\ conn' = [conn EXCEPT ![k] = new] /\ UNCHANGED <<table, owner>>
      /\ conn[k].path = "free" /\ client' = [client EXCEPT !.at = "auth", !.conn = k]
  BY DEF Connect, Unused
<1>4. client' \in ClientType
  BY <1>3 DEF IInv, Typed, ClientType
<1> HIDE DEF new
<1> QED
  BY <1>2, <1>3, <1>4, NewPeerKeeps

LEMMA StrangerKeeps ==
    ASSUME IInv, NEW k \in Conns, NEW a \in Addrs, Stranger(k, a)
    PROVE  IInv'
<1> DEFINE new == [Fresh EXCEPT !.path = "up", !.good = FALSE, !.addr = a,
                                !.toSrv = <<Auth, NewProxy(1), Ping>>]
<1>1. <<Auth, NewProxy(1), Ping>> \in Seq(Messages)
  <2>1. Auth \in Messages /\ NewProxy(1) \in Messages /\ Ping \in Messages
    BY DEF Auth, NewProxy, Ping, Messages
  <2> QED
    BY <2>1
<1>2. new \in ConnType /\ new.hand = "none" /\ new.path = "up" /\ new.mine = {}
  BY <1>1, FreshTyped DEF ConnType
<1>3. /\ conn' = [conn EXCEPT ![k] = new] /\ UNCHANGED <<client, table, owner>>
      /\ conn[k].path = "free"
  BY DEF Stranger, Unused
<1>4. client' \in ClientType
  BY <1>3 DEF IInv, Typed
<1> HIDE DEF new
<1> QED
  BY <1>2, <1>3, <1>4, NewPeerKeeps

-----------------------------------------------------------------------------
(* The handler. *)

LEMMA AddClientKeeps ==
    ASSUME IInv, NEW k \in Conns, AddClient(k)
    PROVE  IInv'
<1> DEFINE new == [conn[k] EXCEPT !.hand = "added", !.age = 0, !.toSrv = Tail(@)]
<1>1. /\ conn \in [Conns -> ConnType] /\ conn[k] \in ConnType /\ client \in ClientType
      /\ conn[k].hand = "none" /\ conn[k].toSrv # <<>>
  BY DEF IInv, Typed, AddClient
<1>2. conn[k].path # "free"
  BY <1>1 DEF IInv, Admitted
<1>3. Tail(conn[k].toSrv) \in Seq(Messages)
  BY <1>1 DEF ConnType
<1>4. /\ new \in ConnType /\ new.path = conn[k].path /\ new.good = conn[k].good
      /\ new.addr = conn[k].addr
      /\ new.hand = "added" /\ new.mine = conn[k].mine
  BY <1>1, <1>3 DEF ConnType
<1>5. /\ conn' = [conn EXCEPT ![k] = new] /\ table' = [table EXCEPT ![conn[k].addr] = k]
      /\ UNCHANGED <<client, owner>>
  BY <1>1 DEF AddClient
<1> HIDE DEF new
<1>6. Admitted(new) /\ TableStep(k, new)
  BY <1>2, <1>4, <1>5 DEF Admitted, TableStep, Listed
<1> QED
  BY <1>1, <1>2, <1>4, <1>5, <1>6, QuietKeeps

LEMMA HandleAuthPayloadKeeps ==
    ASSUME IInv, NEW k \in Conns, HandleAuthPayload(k)
    PROVE  IInv'
<1>1. /\ conn \in [Conns -> ConnType] /\ conn[k] \in ConnType /\ client \in ClientType
      /\ conn[k].hand = "added" /\ UNCHANGED <<client, table, owner>>
  BY DEF IInv, Typed, HandleAuthPayload
<1>2. conn[k].path # "free"
  BY <1>1 DEF IInv, Admitted
<1>3. "AuthOK" \in Answers /\ "AuthBad" \in Answers /\ Ping \in Messages
  BY DEF Answers, Ping, Messages
<1>4. CASE LetIn(k)
  <2> DEFINE told == ToClient(conn[k], "AuthOK")
             new == [told EXCEPT !.hand = "loop", !.beat = "on", !.tick = 0]
  <2>1. /\ told \in ConnType /\ told.path = conn[k].path /\ told.good = conn[k].good
        /\ told.addr = conn[k].addr
        /\ told.mine = conn[k].mine
    BY <1>1, <1>3, SendsTyped
  <2>2. conn' = [conn EXCEPT ![k] = new] /\ conn[k].good
    BY <1>4 DEF LetIn
  <2> HIDE DEF told
  <2>3. /\ new \in ConnType /\ new.path = conn[k].path /\ new.good = conn[k].good
        /\ new.addr = conn[k].addr
        /\ new.mine = conn[k].mine /\ new.hand = "loop"
    BY <2>1 DEF ConnType
  <2> HIDE DEF new
  <2>4. Admitted(new) /\ TableStep(k, new)
    BY <1>1, <1>2, <2>2, <2>3 DEF Admitted, TableStep, Listed
  <2> QED
    BY <1>1, <1>2, <2>2, <2>3, <2>4, QuietKeeps
<1>5. CASE TurnedAway(k, "exit")
  <2> DEFINE told == ToClient(conn[k], "AuthBad")
             new == [told EXCEPT !.hand = "exit"]
  <2>1. /\ told \in ConnType /\ told.path = conn[k].path /\ told.good = conn[k].good
        /\ told.addr = conn[k].addr
        /\ told.mine = conn[k].mine
    BY <1>1, <1>3, SendsTyped
  <2>2. conn' = [conn EXCEPT ![k] = new]
    BY <1>5 DEF TurnedAway
  <2> HIDE DEF told
  <2>3. /\ new \in ConnType /\ new.path = conn[k].path /\ new.good = conn[k].good
        /\ new.addr = conn[k].addr
        /\ new.mine = conn[k].mine /\ new.hand = "exit"
    BY <2>1 DEF ConnType
  <2> HIDE DEF new
  <2>4. Admitted(new) /\ TableStep(k, new)
    BY <1>1, <1>2, <2>3 DEF Admitted, TableStep, Listed
  <2> QED
    BY <1>1, <1>2, <2>2, <2>3, <2>4, QuietKeeps
<1> QED
  BY <1>4, <1>5 DEF HandleAuthPayload

(* A message that is taken from the connection. *)
LEMMA TakenTyped ==
    ASSUME IInv, NEW k \in Conns, NEW m, Receives(k, m)
    PROVE  LET c == [conn[k] EXCEPT !.toSrv = Tail(@)]
           IN  /\ c \in ConnType /\ c.path = conn[k].path /\ c.good = conn[k].good
               /\ c.addr = conn[k].addr
               /\ c.hand = "loop" /\ c.mine = conn[k].mine
               /\ conn[k].hand = "loop" /\ conn[k].path # "free" /\ conn[k].good
<1>1. conn[k] \in ConnType /\ conn[k].toSrv # <<>> /\ conn[k].hand = "loop"
  BY DEF IInv, Typed, Receives
<1>2. conn[k].path # "free" /\ conn[k].good
  BY <1>1 DEF IInv, Admitted
<1>3. Tail(conn[k].toSrv) \in Seq(Messages)
  BY <1>1 DEF ConnType
<1> QED
  BY <1>1, <1>2, <1>3 DEF ConnType

LEMMA HandlePingKeeps ==
    ASSUME IInv, NEW k \in Conns, HandlePing(k)
    PROVE  IInv'
<1> DEFINE c == [conn[k] EXCEPT !.toSrv = Tail(@)]
           slack == IF Len(conn[k].toSrv) = 1 THEN 0 ELSE conn[k].slack
           new == [conn[k] EXCEPT !.age = 0, !.toSrv = Tail(@), !.slack = slack]
<1>1. conn \in [Conns -> ConnType] /\ conn[k] \in ConnType /\ client \in ClientType
      /\ slack \in Nat
  BY DEF IInv, Typed, ConnType
<1>2. /\ c \in ConnType /\ c.path = conn[k].path /\ c.good = conn[k].good
      /\ c.addr = conn[k].addr
      /\ c.hand = "loop" /\ c.mine = conn[k].mine
      /\ conn[k].hand = "loop" /\ conn[k].path # "free" /\ conn[k].good
  BY TakenTyped DEF HandlePing
<1>3. UNCHANGED <<client, table, owner>>
  BY DEF HandlePing
<1>4. conn' = [conn EXCEPT ![k] = new]
  BY DEF HandlePing
<1>5. /\ new = [c EXCEPT !.age = 0, !.slack = slack]
  BY <1>1 DEF ConnType
<1> HIDE DEF c, slack
<1>6. /\ new \in ConnType /\ new.path = conn[k].path /\ new.good = conn[k].good
      /\ new.addr = conn[k].addr
      /\ new.mine = conn[k].mine /\ new.hand = "loop"
  BY <1>1, <1>2, <1>5 DEF ConnType
<1> HIDE DEF new
<1>7. Admitted(new) /\ TableStep(k, new)
  BY <1>2, <1>3, <1>6 DEF Admitted, TableStep, Listed
<1> QED
  BY <1>1, <1>2, <1>3, <1>4, <1>6, <1>7, QuietKeeps

LEMMA HandleNewProxyKeeps ==
    ASSUME IInv, NEW k \in Conns, NEW p \in Ports, HandleNewProxy(k, p)
    PROVE  IInv'
<1> DEFINE c == [conn[k] EXCEPT !.toSrv = Tail(@)]
<1>1. /\ conn \in [Conns -> ConnType] /\ conn[k] \in ConnType /\ client \in ClientType
      /\ owner \in [Ports -> Conns \cup {None, Leaked}] /\ UNCHANGED <<client, table>>
  BY DEF IInv, Typed, HandleNewProxy
<1>2. /\ c \in ConnType /\ c.path = conn[k].path /\ c.good = conn[k].good
      /\ c.addr = conn[k].addr
      /\ c.hand = "loop" /\ c.mine = conn[k].mine
      /\ conn[k].hand = "loop" /\ conn[k].path # "free" /\ conn[k].good
  BY TakenTyped DEF HandleNewProxy
<1>3. \/ /\ owner[p] = None /\ owner' = [owner EXCEPT ![p] = k]
         /\ conn' = [conn EXCEPT ![k] = [c EXCEPT !.hand = "start"]]
      \/ conn' = [conn EXCEPT ![k] = ToClient(c, "ProxyBad")] /\ owner' = owner
  BY DEF HandleNewProxy
<1> HIDE DEF c
<1>4. ASSUME owner[p] = None, owner' = [owner EXCEPT ![p] = k],
             conn' = [conn EXCEPT ![k] = [c EXCEPT !.hand = "start"]]
      PROVE  IInv'
  <2> DEFINE new == [c EXCEPT !.hand = "start"]
  <2>1. /\ new \in ConnType /\ new.path = conn[k].path /\ new.good = conn[k].good
        /\ new.addr = conn[k].addr
        /\ new.mine = conn[k].mine /\ new.hand = "start"
    BY <1>2 DEF ConnType
  <2>2. conn' = [conn EXCEPT ![k] = new]
    BY <1>4
  <2> HIDE DEF new
  <2>3. TableStep(k, new)
    BY <1>1, <1>2, <2>1 DEF TableStep, Listed
  <2>4. table' \in [Addrs -> Conns \cup {None}] /\ ListedAreLive'
    BY <2>1, <2>2, <2>3, TableKeeps
  <2>5. Typed'
    BY <1>1, <1>4, <2>1, <2>2, <2>4 DEF Typed
  <2>6. \A j \in Conns : conn'[j] = IF j = k THEN new ELSE conn[j]
    BY <1>1, <2>2
  <2>7. \A j \in Conns : Admitted(conn'[j])
    BY <1>2, <2>1, <2>6 DEF IInv, Admitted
  <2>8. \A q \in Ports : owner'[q] = IF q = p THEN k ELSE owner[q]
    BY <1>1, <1>4
  <2>9. \A j \in Conns : p \notin conn[j].mine
    BY <1>4, NobodyAssumption DEF IInv, OwnersSound
  <2>10. OwnersSound'
    <3>0. /\ \A q \in Ports : owner[q] = k => q \in conn[k].mine
          /\ \A j \in Conns : conn[j].mine \subseteq Ports
      <4>1. \A q \in Ports : owner[q] = k => q \in conn[k].mine
        BY <1>2 DEF IInv, OwnersSound
      <4>2. ASSUME NEW j \in Conns
            PROVE  conn[j].mine \subseteq Ports
        BY <1>1 DEF ConnType
      <4> QED
        BY <4>1, <4>2
    <3>1. ASSUME NEW q \in Ports, owner'[q] \in Conns
          PROVE  /\ conn'[owner'[q]].good /\ conn'[owner'[q]].path # "free"
                 /\ q \notin conn'[owner'[q]].mine => conn'[owner'[q]].hand = "start"
      <4>1. CASE owner'[q] = k
        BY <1>2, <2>1, <2>6, <4>1
      <4>2. CASE owner'[q] # k
        <5>1. owner'[q] = owner[q] /\ conn'[owner'[q]] = conn[owner[q]]
          BY <2>6, <2>8, <3>1, <4>2
        <5> QED
          BY <3>1, <5>1 DEF IInv, OwnersSound
      <4> QED
        BY <4>1, <4>2
    <3>2. \A q, r \in Ports :
            /\ owner'[q] \in Conns /\ owner'[q] = owner'[r]
            /\ q \notin conn'[owner'[q]].mine /\ r \notin conn'[owner'[q]].mine
            => q = r
      BY <1>2, <2>1, <2>6, <2>8, <3>0 DEF IInv, OwnersSound
    <3>3. ASSUME NEW j \in Conns, conn'[j].hand = "start"
          PROVE  \E q \in Ports : owner'[q] = j /\ q \notin conn'[j].mine
      <4>1. CASE j = k
        BY <2>1, <2>6, <2>8, <2>9, <4>1
      <4>2. CASE j # k
        <5>1. PICK q \in Ports : owner[q] = j /\ q \notin conn[j].mine
          BY <2>6, <3>3, <4>2 DEF IInv, OwnersSound
        <5>2. q # p
          BY <1>4, <5>1, NobodyAssumption
        <5> QED
          BY <2>6, <2>8, <4>2, <5>1, <5>2
      <4> QED
        BY <4>1, <4>2
    <3>4. ASSUME NEW j \in Conns, NEW q \in conn'[j].mine PROVE owner'[q] = j
      <4>1. q \in conn[j].mine /\ q \in Ports
        BY <2>1, <2>6, <3>0
      <4>2. owner[q] = j /\ q # p
        BY <2>9, <4>1 DEF IInv, OwnersSound
      <4> QED
        BY <2>8, <4>1, <4>2
    <3> QED
      BY <3>1, <3>2, <3>3, <3>4 DEF OwnersSound
  <2> QED
    BY <2>4, <2>5, <2>7, <2>10 DEF IInv
<1>5. ASSUME conn' = [conn EXCEPT ![k] = ToClient(c, "ProxyBad")], owner' = owner
      PROVE  IInv'
  <2> DEFINE new == ToClient(c, "ProxyBad")
  <2>1. "ProxyBad" \in Answers /\ Ping \in Messages
    BY DEF Answers, Ping, Messages
  <2>2. /\ new \in ConnType /\ new.path = conn[k].path /\ new.good = conn[k].good
        /\ new.addr = conn[k].addr
        /\ new.mine = conn[k].mine /\ new.hand = "loop"
    BY <1>2, <2>1, SendsTyped
  <2> HIDE DEF new
  <2>3. Admitted(new) /\ TableStep(k, new)
    BY <1>1, <1>2, <2>2 DEF Admitted, TableStep, Listed
  <2>4. conn' = [conn EXCEPT ![k] = new]
    BY <1>5 DEF new
  <2> QED
    BY <1>1, <1>2, <1>5, <2>2, <2>3, <2>4, QuietKeeps
<1> QED
  BY <1>3, <1>4, <1>5

LEMMA ProxyStartedKeeps ==
    ASSUME IInv, NEW k \in Conns, ProxyStarted(k)
    PROVE  IInv'
<1> DEFINE p == CHOOSE q \in Ports : owner[q] = k /\ q \notin conn[k].mine
           told == ToClient(conn[k], "ProxyOK")
           new == [told EXCEPT !.hand = "loop", !.mine = @ \cup {p}]
<1>1. /\ conn \in [Conns -> ConnType] /\ conn[k] \in ConnType /\ client \in ClientType
      /\ conn[k].hand = "start" /\ UNCHANGED <<client, table, owner>>
      /\ owner \in [Ports -> Conns \cup {None, Leaked}]
  BY DEF IInv, Typed, ProxyStarted
<1>2. p \in Ports /\ owner[p] = k /\ p \notin conn[k].mine
  <2>1. \E q \in Ports : owner[q] = k /\ q \notin conn[k].mine
    BY <1>1 DEF IInv, OwnersSound
  <2> QED
    BY <2>1
<1>3. conn[k].path # "free" /\ conn[k].good
  BY <1>1 DEF IInv, Admitted
<1>4. conn' = [conn EXCEPT ![k] = new]
  BY DEF ProxyStarted
<1>5. "ProxyOK" \in Answers /\ Ping \in Messages
  BY DEF Answers, Ping, Messages
<1>6. /\ told \in ConnType /\ told.path = conn[k].path /\ told.good = conn[k].good
      /\ told.addr = conn[k].addr
      /\ told.mine = conn[k].mine
  BY <1>1, <1>5, SendsTyped
<1> HIDE DEF p, told
<1>7. told.mine \cup {p} \in SUBSET Ports
  BY <1>2, <1>6 DEF ConnType
<1>8. /\ new \in ConnType /\ new.path = conn[k].path /\ new.good = conn[k].good
      /\ new.addr = conn[k].addr
      /\ new.mine = conn[k].mine \cup {p} /\ new.hand = "loop"
  BY <1>6, <1>7 DEF ConnType
<1> HIDE DEF new
<1>9. table' \in [Addrs -> Conns \cup {None}] /\ ListedAreLive'
  <2>1. TableStep(k, new)
    BY <1>1, <1>8 DEF TableStep, Listed
  <2> QED
    BY <1>4, <1>8, <2>1, TableKeeps
<1>10. Typed'
  BY <1>1, <1>4, <1>8, <1>9 DEF Typed
<1>11. \A j \in Conns : conn'[j] = IF j = k THEN new ELSE conn[j]
  BY <1>1, <1>4
<1>12. \A j \in Conns : Admitted(conn'[j])
  BY <1>3, <1>8, <1>11 DEF IInv, Admitted
<1>13. \A q \in Ports : owner[q] = k => q \in new.mine
  BY <1>2, <1>8 DEF IInv, OwnersSound
<1>14. \A q \in new.mine : owner[q] = k
  BY <1>2, <1>8 DEF IInv, OwnersSound
<1>15. OwnersSound'
  <2>1. ASSUME NEW q \in Ports, owner[q] \in Conns
        PROVE  /\ conn'[owner[q]].good /\ conn'[owner[q]].path # "free"
               /\ q \notin conn'[owner[q]].mine => conn'[owner[q]].hand = "start"
    <3>1. CASE owner[q] = k
      BY <1>3, <1>8, <1>11, <1>13, <3>1
    <3>2. CASE owner[q] # k
      BY <1>11, <2>1, <3>2 DEF IInv, OwnersSound
    <3> QED
      BY <3>1, <3>2
  <2>2. \A q, r \in Ports :
          /\ owner[q] \in Conns /\ owner[q] = owner[r]
          /\ q \notin conn'[owner[q]].mine /\ r \notin conn'[owner[q]].mine
          => q = r
    BY <1>11, <1>13 DEF IInv, OwnersSound
  <2>3. \A j \in Conns : conn'[j].hand = "start" =>
          \E q \in Ports : owner[q] = j /\ q \notin conn'[j].mine
    BY <1>8, <1>11 DEF IInv, OwnersSound
  <2>4. \A j \in Conns : \A q \in conn'[j].mine : owner[q] = j
    BY <1>11, <1>14 DEF IInv, OwnersSound
  <2> QED
    BY <1>1, <2>1, <2>2, <2>3, <2>4 DEF OwnersSound
<1> QED
  BY <1>9, <1>10, <1>12, <1>15 DEF IInv

LEMMA RequestWorkConnKeeps ==
    ASSUME IInv, NEW k \in Conns, RequestWorkConn(k)
    PROVE  IInv'
<1> DEFINE new == ToClient(conn[k], "WorkConn")
<1>1. /\ conn \in [Conns -> ConnType] /\ conn[k] \in ConnType /\ client \in ClientType
      /\ conn[k].path = "up" /\ UNCHANGED <<client, table, owner>>
      /\ conn' = [conn EXCEPT ![k] = new]
  BY DEF IInv, Typed, RequestWorkConn
<1>2. "WorkConn" \in Answers /\ Ping \in Messages
  BY DEF Answers, Ping, Messages
<1>3. /\ new \in ConnType /\ new.path = conn[k].path /\ new.good = conn[k].good
      /\ new.addr = conn[k].addr
      /\ new.mine = conn[k].mine /\ new.hand = conn[k].hand
  BY <1>1, <1>2, SendsTyped
<1> HIDE DEF new
<1>4. Admitted(new) /\ TableStep(k, new)
  BY <1>1, <1>3 DEF IInv, Admitted, TableStep, Listed
<1> QED
  BY <1>1, <1>3, <1>4, QuietKeeps

(* The handler moves on, to where no proxy is started. *)
LEMMA HandMoves ==
    ASSUME IInv, NEW k \in Conns, NEW to \in {"exit", "close", "done"},
           conn[k].hand \notin {"none", "start"},
           conn' = [conn EXCEPT ![k].hand = to], UNCHANGED <<client, owner>>,
           \/ table' = table /\ (to = "exit" <=> Listed(conn[k]))
           \/ table' = [table EXCEPT ![conn[k].addr] = None] /\ to # "exit"
    PROVE  IInv'
<1> DEFINE new == [conn[k] EXCEPT !.hand = to]
<1>1. /\ conn \in [Conns -> ConnType] /\ conn[k] \in ConnType /\ client \in ClientType
  BY DEF IInv, Typed
<1>2. /\ new \in ConnType /\ new.path = conn[k].path /\ new.good = conn[k].good
      /\ new.addr = conn[k].addr
      /\ new.mine = conn[k].mine /\ new.hand = to
      /\ conn' = [conn EXCEPT ![k] = new]
  BY <1>1 DEF ConnType
<1>3. conn[k].path # "free"
  BY DEF IInv, Admitted
<1> HIDE DEF new
<1>4. Admitted(new) /\ TableStep(k, new)
  BY <1>2, <1>3 DEF Admitted, TableStep, Listed
<1> QED
  BY <1>1, <1>2, <1>3, <1>4, QuietKeeps

LEMMA HandlerLeaves ==
    ASSUME IInv, NEW k \in Conns,
           LoopEnds(k) \/ CutNoticed(k) \/ RemoveClient(k) \/ HandlerEnds(k)
    PROVE  IInv'
<1>1. CASE LoopEnds(k) \/ CutNoticed(k)
  BY <1>1, HandMoves DEF LoopEnds, CutNoticed, LoopFails, Listed
<1>2. CASE RemoveClient(k)
  BY <1>2, HandMoves DEF RemoveClient
<1>3. CASE HandlerEnds(k)
  BY <1>3, HandMoves DEF HandlerEnds, Listed
<1> QED
  BY <1>1, <1>2, <1>3

-----------------------------------------------------------------------------
(* Close and the heartbeat. *)

LEMMA CloseConnKeeps ==
    ASSUME IInv, NEW k \in Conns, CloseConn(k)
    PROVE  IInv'
<1> DEFINE new == [conn[k] EXCEPT !.closed = "conn", !.toSrv = <<>>, !.age = 0, !.slack = 0]
<1>1. /\ conn \in [Conns -> ConnType] /\ conn[k] \in ConnType /\ client \in ClientType
      /\ conn' = [conn EXCEPT ![k] = new] /\ UNCHANGED <<client, table, owner>>
  BY DEF IInv, Typed, CloseConn
<1>2. /\ new \in ConnType /\ new.path = conn[k].path /\ new.good = conn[k].good
      /\ new.addr = conn[k].addr
      /\ new.mine = conn[k].mine /\ new.hand = conn[k].hand /\ new.toSrv = <<>>
  BY <1>1, EmptyTyped DEF ConnType
<1> HIDE DEF new
<1>3. Admitted(new) /\ TableStep(k, new)
  BY <1>1, <1>2 DEF IInv, Admitted, TableStep, Listed
<1> QED
  BY <1>1, <1>2, <1>3, QuietKeeps

(* The ports of a session that is closed or used again are no longer its   *)
(* own: they are free, or lost.                                            *)
LEMMA PortsLeave ==
    ASSUME IInv, NEW k \in Conns, NEW new \in ConnType, NEW to \in {None, Leaked},
           conn' = [conn EXCEPT ![k] = new], UNCHANGED client,
           owner' = [p \in Ports |-> IF p \in conn[k].mine THEN to ELSE owner[p]],
           new.mine = {}, Admitted(new), TableStep(k, new),
           new.hand = "start" <=> conn[k].hand = "start",
           conn[k].hand = "start" => new.good = conn[k].good /\ new.path = conn[k].path
    PROVE  IInv'
<1>1. /\ conn \in [Conns -> ConnType] /\ client \in ClientType
      /\ owner \in [Ports -> Conns \cup {None, Leaked}]
  BY DEF IInv, Typed
<1>2. table' \in [Addrs -> Conns \cup {None}] /\ ListedAreLive'
  BY TableKeeps
<1>3. Typed'
  BY <1>1, <1>2 DEF IInv, Typed
<1>4. \A j \in Conns : conn'[j] = IF j = k THEN new ELSE conn[j]
  BY <1>1
<1>5. \A j \in Conns : Admitted(conn'[j])
  BY <1>4 DEF IInv
<1>6. \A p \in Ports : owner'[p] = IF p \in conn[k].mine THEN to ELSE owner[p]
  OBVIOUS
<1>7. to \notin Conns
  BY NobodyAssumption
<1>8. \A p \in Ports : owner'[p] \in Conns => owner'[p] = owner[p] /\ p \notin conn[k].mine
  BY <1>6, <1>7
<1>9. \A j \in Conns : j # k => \A p \in conn[j].mine : p \in Ports /\ owner'[p] = j
  <2> SUFFICES ASSUME NEW j \in Conns, j # k, NEW p \in conn[j].mine
               PROVE  p \in Ports /\ owner'[p] = j
    OBVIOUS
  <2>1. p \in Ports /\ owner[p] = j
    BY <1>1 DEF IInv, OwnersSound, ConnType
  <2>2. p \notin conn[k].mine
    BY <2>1 DEF IInv, OwnersSound
  <2> QED
    BY <1>6, <2>1, <2>2
<1>10. OwnersSound'
  <2>1. ASSUME NEW p \in Ports, owner'[p] \in Conns
        PROVE  /\ conn'[owner'[p]].good /\ conn'[owner'[p]].path # "free"
               /\ p \notin conn'[owner'[p]].mine => conn'[owner'[p]].hand = "start"
    <3>1. owner'[p] = owner[p] /\ p \notin conn[k].mine
      BY <1>8, <2>1
    <3>2. CASE owner[p] = k
      <4>1. conn[k].hand = "start" /\ conn[k].good /\ conn[k].path # "free"
        BY <2>1, <3>1, <3>2 DEF IInv, OwnersSound
      <4> QED
        BY <1>4, <3>1, <3>2, <4>1
    <3>3. CASE owner[p] # k
      BY <1>4, <2>1, <3>1, <3>3 DEF IInv, OwnersSound
    <3> QED
      BY <3>2, <3>3
  <2>2. ASSUME NEW p \in Ports, NEW q \in Ports, owner'[p] \in Conns, owner'[p] = owner'[q],
               p \notin conn'[owner'[p]].mine, q \notin conn'[owner'[p]].mine
        PROVE  p = q
    <3>1. /\ owner'[p] = owner[p] /\ p \notin conn[k].mine
          /\ owner'[q] = owner[q] /\ q \notin conn[k].mine
      BY <1>8, <2>2
    <3> QED
      BY <1>4, <2>2, <3>1 DEF IInv, OwnersSound
  <2>3. ASSUME NEW j \in Conns, conn'[j].hand = "start"
        PROVE  \E p \in Ports : owner'[p] = j /\ p \notin conn'[j].mine
    <3>1. PICK p \in Ports : owner[p] = j /\ p \notin conn[j].mine
      BY <1>4, <2>3 DEF IInv, OwnersSound
    <3>2. p \notin conn[k].mine
      BY <3>1 DEF IInv, OwnersSound
    <3> QED
      BY <1>4, <1>6, <3>1, <3>2
  <2>4. \A j \in Conns : \A p \in conn'[j].mine : owner'[p] = j
    BY <1>4, <1>9
  <2> QED
    BY <2>1, <2>2, <2>3, <2>4 DEF OwnersSound
<1> QED
  BY <1>2, <1>3, <1>5, <1>10 DEF IInv

LEMMA CloseProxiesKeeps ==
    ASSUME IInv, NEW k \in Conns, CloseProxies(k)
    PROVE  IInv'
<1> DEFINE new == [conn[k] EXCEPT !.closed = "done", !.mine = {}]
<1>1. /\ conn[k] \in ConnType /\ UNCHANGED <<client, table>>
      /\ conn' = [conn EXCEPT ![k] = new]
      /\ owner' = [p \in Ports |-> IF p \in conn[k].mine THEN None ELSE owner[p]]
  BY DEF IInv, Typed, CloseProxies
<1>2. /\ new \in ConnType /\ new.path = conn[k].path /\ new.good = conn[k].good
      /\ new.addr = conn[k].addr
      /\ new.mine = {} /\ new.hand = conn[k].hand /\ new.toSrv = conn[k].toSrv
  BY <1>1 DEF ConnType
<1> HIDE DEF new
<1>3. Admitted(new) /\ TableStep(k, new)
  BY <1>1, <1>2 DEF IInv, Admitted, TableStep, Listed
<1> QED
  BY <1>1, <1>2, <1>3, PortsLeave

LEMMA RecycleKeeps ==
    ASSUME IInv, NEW k \in Conns, Recycle(k)
    PROVE  IInv'
<1>1. /\ UNCHANGED <<client, table>> /\ conn' = [conn EXCEPT ![k] = Fresh]
      /\ owner' = [p \in Ports |-> IF p \in conn[k].mine THEN Leaked ELSE owner[p]]
      /\ conn[k].hand \in {"done", "none"}
  BY DEF Recycle, Over
<1>2. Admitted(Fresh) /\ TableStep(k, Fresh)
  BY <1>1, FreshTyped DEF Admitted, TableStep, Listed
<1> QED
  BY <1>1, <1>2, FreshTyped, PortsLeave

LEMMA HeartbeatKeeps ==
    ASSUME IInv, NEW k \in Conns, Heartbeat(k) \/ HeartbeatEnds(k)
    PROVE  IInv'
<1> DEFINE after == IF conn[k].age > Timeout THEN "close" ELSE conn[k].beat
           beaten == [conn[k] EXCEPT !.tick = 0, !.beat = after]
           ended == [conn[k] EXCEPT !.beat = "end", !.tick = 0]
<1>1. /\ conn \in [Conns -> ConnType] /\ conn[k] \in ConnType /\ client \in ClientType
      /\ UNCHANGED <<client, table, owner>>
  BY DEF IInv, Typed, Heartbeat, HeartbeatEnds
<1>2. conn' = [conn EXCEPT ![k] = beaten] \/ conn' = [conn EXCEPT ![k] = ended]
  BY <1>1 DEF Heartbeat, HeartbeatEnds
<1>3. \A c \in {beaten, ended} :
        /\ c \in ConnType /\ c.path = conn[k].path /\ c.good = conn[k].good
        /\ c.addr = conn[k].addr
        /\ c.mine = conn[k].mine /\ c.hand = conn[k].hand /\ c.toSrv = conn[k].toSrv
  <2>1. after \in {"off", "on", "close", "end"}
    BY <1>1 DEF ConnType
  <2> HIDE DEF after
  <2>2. /\ beaten \in ConnType /\ beaten.path = conn[k].path /\ beaten.good = conn[k].good
        /\ beaten.addr = conn[k].addr
        /\ beaten.mine = conn[k].mine /\ beaten.hand = conn[k].hand
        /\ beaten.toSrv = conn[k].toSrv
    BY <1>1, <2>1 DEF ConnType
  <2>3. /\ ended \in ConnType /\ ended.path = conn[k].path /\ ended.good = conn[k].good
        /\ ended.addr = conn[k].addr
        /\ ended.mine = conn[k].mine /\ ended.hand = conn[k].hand
        /\ ended.toSrv = conn[k].toSrv
    BY <1>1 DEF ConnType
  <2> HIDE DEF beaten, ended
  <2> QED
    BY <2>2, <2>3
<1> HIDE DEF beaten, ended
<1>4. \A c \in {beaten, ended} : Admitted(c) /\ TableStep(k, c)
  BY <1>1, <1>3 DEF IInv, Admitted, TableStep, Listed
<1> QED
  BY <1>1, <1>2, <1>3, <1>4, QuietKeeps

LEMMA TickKeeps ==
    ASSUME IInv, Tick
    PROVE  IInv'
<1>1. /\ conn \in [Conns -> ConnType] /\ client \in ClientType /\ UNCHANGED <<table, owner>>
      /\ conn' = [k \in Conns |-> Older(conn[k])]
  BY DEF IInv, Typed, Tick
<1>2. ASSUME NEW c \in ConnType
      PROVE  /\ Older(c) \in ConnType /\ Older(c).path = c.path /\ Older(c).good = c.good
             /\ Older(c).addr = c.addr
             /\ Older(c).hand = c.hand /\ Older(c).mine = c.mine /\ Older(c).toSrv = c.toSrv
  <2> DEFINE slack == IF Pending(c) THEN c.slack + 1 ELSE c.slack
             age == IF c.hand # "none" /\ c.closed = "open" THEN c.age + 1 ELSE c.age
             tick == IF c.beat = "on" THEN c.tick + 1 ELSE c.tick
  <2>1. slack \in Nat /\ age \in Nat /\ tick \in Nat
    BY DEF ConnType
  <2>2. Older(c) = [c EXCEPT !.slack = slack, !.age = age, !.tick = tick]
    BY DEF Older
  <2> HIDE DEF slack, age, tick
  <2> DEFINE new == [c EXCEPT !.slack = slack, !.age = age, !.tick = tick]
  <2>3. new \in ConnType
    BY <2>1 DEF ConnType
  <2>4. /\ new.path = c.path /\ new.good = c.good /\ new.addr = c.addr
        /\ new.hand = c.hand /\ new.mine = c.mine /\ new.toSrv = c.toSrv
    BY DEF ConnType
  <2> QED
    BY <2>2, <2>3, <2>4
<1>3. client' \in ClientType
  BY <1>1 DEF Tick, ClientType
<1> HIDE DEF Tick
<1>4. \A k \in Conns : /\ conn'[k] \in ConnType
                        /\ conn'[k].path = conn[k].path /\ conn'[k].good = conn[k].good
                        /\ conn'[k].addr = conn[k].addr
                        /\ conn'[k].hand = conn[k].hand /\ conn'[k].mine = conn[k].mine
                        /\ conn'[k].toSrv = conn[k].toSrv
  BY <1>1, <1>2
<1>5. Typed'
  BY <1>1, <1>3, <1>4 DEF IInv, Typed
<1>6. \A k \in Conns : Admitted(conn'[k])
  BY <1>4 DEF IInv, Admitted
<1>7. OwnersSound'
  BY <1>1, <1>4 DEF IInv, OwnersSound
<1>8. ListedAreLive'
  BY <1>1, <1>4 DEF IInv, Typed, ListedAreLive
<1> QED
  BY <1>5, <1>6, <1>7, <1>8 DEF IInv

(* Steps of the dashboard and of Shutdown, and no step at all. *)
LEMMA OthersKeep ==
    ASSUME IInv, UNCHANGED <<client, conn, table, owner>>
    PROVE  IInv'
BY DEF IInv, Typed, Admitted, OwnersSound, ListedAreLive

-----------------------------------------------------------------------------
LEMMA NextKeeps == IInv /\ [Next]_vars => IInv'
<1> SUFFICES ASSUME IInv, [Next]_vars PROVE IInv'
  OBVIOUS
<1>1. ASSUME NEW k \in Conns,
             \/ ClientReadFails(k) \/ Killed(k) \/ GivesUp(k)
             \/ PingFails(k) \/ Terminated(k)
      PROVE  IInv'
  BY <1>1, QuitKeeps DEF ClientReadFails, Killed, GivesUp, PingFails, Terminated
<1>2. ASSUME NEW k \in Conns, ClientNext(k) \/ ClientPing(k) PROVE IInv'
  BY <1>1, <1>2, ConnectKeeps, ClientReadsKeeps, ClientPingKeeps DEF ClientNext
<1>3. ASSUME NEW k \in Conns, HandlerNext(k) \/ CutNoticed(k) PROVE IInv'
  BY <1>3, AddClientKeeps, HandleAuthPayloadKeeps, HandlePingKeeps, HandleNewProxyKeeps,
     ProxyStartedKeeps, HandlerLeaves DEF HandlerNext
<1>4. ASSUME NEW k \in Conns, CloseNext(k) PROVE IInv'
  BY <1>4, CloseConnKeeps, CloseProxiesKeeps DEF CloseNext
<1>5. ASSUME NEW k \in Conns, Faults(k) PROVE IInv'
  BY <1>1, <1>5, StrangerKeeps, CutKeeps, RequestWorkConnKeeps DEF Faults
<1>6. ASSUME UNCHANGED <<client, conn, table, owner>> PROVE IInv'
  BY <1>6, OthersKeep
<1>7. CASE (\E a \in Addrs : WebCloses(a)) \/ WebReturns \/ Shutdown \/ ShutdownEnds \/ Exited
  BY <1>6, <1>7 DEF WebCloses, WebReturns, Shutdown, ShutdownEnds, Exited, vars
<1>8. CASE UNCHANGED vars
  BY <1>6, <1>8 DEF vars
<1> QED
  BY <1>1, <1>2, <1>3, <1>4, <1>5, <1>7, <1>8, HeartbeatKeeps, RecycleKeeps, TickKeeps DEF Next

(* The invariant holds of every behaviour, whatever connections, proxies,  *)
(* times and faults there are.                                             *)
THEOREM Invariance == Spec => []IInv
<1> QED
  BY InitIInv, NextKeeps, PTL DEF Spec

(* handleControlConn and HandleAuthPayload (server.go, control.go): a      *)
(* remote port is never held for a peer without the token, whatever it     *)
(* sends and when, and whoever closes the session.                         *)
THEOREM OnlyWithTheToken == Spec => []OnlyAuthenticated
<1>1. IInv => OnlyAuthenticated
  BY DEF IInv, OwnersSound, OnlyAuthenticated
<1> QED
  BY <1>1, Invariance, PTL

(* addClient and removeClient (server.go): whoever the dashboard lists, or *)
(* closes, or Shutdown closes, is a session of the address it is found     *)
(* under, whose handler has added it and not taken it out, although an     *)
(* address may come again before the handler of its last session is        *)
(* through.                                                                *)
THEOREM ListedOnesLive == Spec => []ListedAreLive
<1>1. IInv => ListedAreLive
  BY DEF IInv
<1> QED
  BY <1>1, Invariance, PTL

-----------------------------------------------------------------------------
(* The heartbeats, for every interval, timeout and delay that              *)
(* TimesAssumption allows: the server ends a session that is silent in     *)
(* time, and never one whose client is there.                              *)

(* The server's side.  Before the heartbeat starts, the session is no      *)
(* older than its messages have waited.                                    *)
Watched(c) ==
    /\ c.slack <= Delay
    /\ c.closed # "open" => c.age = 0
    /\ c.hand \in {"none", "added"} => c.toCli = <<>> /\ c.mine = {}
    /\ c.hand = "added" => c.age <= c.slack
    /\ c.beat = "on" /\ c.closed = "open" => c.tick <= Interval /\ c.age <= Timeout + c.tick

NoAnswer(q) == \A i \in 1..Len(q) : q[i] # "ProxyOK"
OneAnswer(q) == \A i, j \in 1..Len(q) : q[i] = "ProxyOK" /\ q[j] = "ProxyOK" => i = j
AllPings(q) == \A i \in 1..Len(q) : q[i] = Ping

(* The client's side.  While it waits for an answer, its request or the    *)
(* answer is under way, so that the wait is bounded by Delay; ...          *)
Authenticating(c) ==
    \/ c.hand = "none" /\ Len(c.toSrv) = 1
    \/ c.hand = "added" /\ c.toSrv = <<>>
    \/ c.hand = "loop" /\ c.toSrv = <<>> /\ Len(c.toCli) = 1
Registering(c) ==
    \/ c.hand = "start" /\ c.toSrv = <<>> /\ NoAnswer(c.toCli)
    \/ c.hand = "loop" /\ Len(c.toSrv) = 1 /\ c.toSrv[1] # Ping /\ NoAnswer(c.toCli)
    \/ c.hand = "loop" /\ c.toSrv = <<>> /\ c.toCli # <<>> /\ OneAnswer(c.toCli)

(* ... afterwards it pings once in an interval, and a ping waits no longer *)
(* than Delay either.                                                      *)
Beating(cl, c) ==
    /\ c.hand = "loop"
    /\ AllPings(c.toSrv)
    /\ cl.tick <= Interval
    /\ c.toSrv = <<>> => c.age <= cl.tick + Delay
    /\ c.toSrv # <<>> => c.age <= Interval + Delay + c.slack

Punctual(cl, c) ==
    /\ c.good
    /\ \/ cl.at = "auth" /\ Authenticating(c) /\ c.age <= c.slack
       \/ cl.at = "register" /\ Registering(c) /\ c.age <= c.slack
       \/ cl.at = "run" /\ Beating(cl, c)

(* A client and a connection that may be its own. *)
Belongs(cl, c) ==
    /\ c.path # "free"
    /\ cl.at \in {"register", "run"} => c.hand \notin {"none", "added"}
    /\ c.path = "up" /\ c.closed = "open" => Punctual(cl, c)

HInv ==
    /\ client.at \in {"down", "ready", "stopped"} => client.conn = None
    /\ \A k \in Conns : Watched(conn[k])
    /\ \A k \in Conns : client.conn = k => Belongs(client, conn[k])

(* What no step may do (the body of LiveClientKept). *)
Spares(k) ==
    conn[k].beat = "on" /\ conn'[k].beat = "close" => ~(client.conn = k /\ conn[k].path = "up")
Spared == \A k \in Conns : Spares(k)

-----------------------------------------------------------------------------
LEMMA Times ==
    /\ Interval \in Nat /\ Interval > 0 /\ Timeout \in Nat /\ Delay \in Nat
    /\ Delay <= Interval /\ Interval + Delay + Delay <= Timeout
BY TimesAssumption

LEMMA InitHInv == Init => HInv
<1> SUFFICES ASSUME Init PROVE HInv
  OBVIOUS
<1>1. Watched(Fresh)
  BY Times DEF Fresh, Watched
<1>2. client.conn = None /\ \A k \in Conns : conn[k] = Fresh
  BY DEF Init, Down
<1> QED
  BY <1>1, <1>2, NobodyAssumption DEF HInv

(* A step of one connection and of the client, if the connection is its    *)
(* own, before or after.                                                   *)
LEMMA StepKeeps ==
    ASSUME IInv, HInv, NEW k \in Conns, NEW new, NEW cl,
           conn' = [conn EXCEPT ![k] = new], client' = cl,
           Watched(new),
           \/ cl = client
           \/ client.conn \in {k, None} /\ cl.conn \in {k, None},
           cl.at \in {"down", "ready", "stopped"} => cl.conn = None,
           cl.conn = k => Belongs(cl, new),
           new.beat = "close" => conn[k].beat # "on" \/ client.conn # k \/ conn[k].path # "up"
    PROVE  HInv' /\ Spared
<1>1. \A j \in Conns : conn'[j] = IF j = k THEN new ELSE conn[j]
  BY DEF IInv, Typed
<1>2. \A j \in Conns : Watched(conn'[j])
  BY <1>1 DEF HInv
<1>3. ASSUME NEW j \in Conns, cl.conn = j PROVE Belongs(cl, conn'[j])
  <2>1. CASE j = k
    BY <1>1, <1>3, <2>1
  <2>2. CASE j # k
    <3>1. cl = client
      BY <1>3, <2>2, NobodyAssumption
    <3> QED
      BY <1>1, <1>3, <2>2, <3>1 DEF HInv
  <2> QED
    BY <2>1, <2>2
<1>4. Spared
  BY <1>1 DEF Spared, Spares
<1> QED
  BY <1>2, <1>3, <1>4 DEF HInv

(* The same when only the connection changes. *)
LEMMA SessionStepKeeps ==
    ASSUME IInv, HInv, NEW k \in Conns, NEW new,
           conn' = [conn EXCEPT ![k] = new], client' = client,
           Watched(new),
           client.conn = k => Belongs(client, new),
           new.beat = conn[k].beat \/ new.beat # "close"
    PROVE  HInv' /\ Spared
<1>1. client.at \in {"down", "ready", "stopped"} => client.conn = None
  BY DEF HInv
<1> QED
  BY <1>1, StepKeeps

LEMMA Quiescent == ASSUME HInv, UNCHANGED <<client, conn>> PROVE HInv' /\ Spared
BY DEF HInv, Spared, Spares

-----------------------------------------------------------------------------
(* Messages under way. *)

LEMMA Empty == ASSUME NEW S, NEW q \in Seq(S) PROVE q = <<>> <=> Len(q) = 0
<1>1. ASSUME q # <<>> PROVE Len(q) \in Nat /\ Len(q) > 0
  BY <1>1
<1> QED
  BY <1>1

LEMMA NotEmpty == \A S : \A q \in Seq(S) : Len(q) = 1 => q # <<>>
BY Empty

LEMMA Answered ==
    ASSUME NEW q \in Seq(Answers), NEW a \in Answers
    PROVE  /\ Append(q, a) # <<>> /\ (q = <<>> => Len(Append(q, a)) = 1)
           /\ NoAnswer(q) => OneAnswer(Append(q, a))
           /\ a # "ProxyOK" => /\ NoAnswer(q) => NoAnswer(Append(q, a))
                               /\ OneAnswer(q) => OneAnswer(Append(q, a))
<1>1. /\ Len(q) \in Nat /\ Len(Append(q, a)) = Len(q) + 1
      /\ \A i \in 1..Len(q) : Append(q, a)[i] = q[i]
      /\ Append(q, a)[Len(q) + 1] = a /\ Append(q, a) # <<>>
  OBVIOUS
<1>2. q = <<>> => Len(q) = 0
  BY Empty
<1> QED
  BY <1>1, <1>2 DEF NoAnswer, OneAnswer

LEMMA Read ==
    ASSUME NEW q \in Seq(Answers), q # <<>>
    PROVE  /\ NoAnswer(q) => Head(q) # "ProxyOK" /\ NoAnswer(Tail(q))
           /\ OneAnswer(q) /\ Head(q) = "ProxyOK" => NoAnswer(Tail(q))
           /\ Len(q) = 1 => NoAnswer(Tail(q))
<1>1. /\ Len(q) \in Nat /\ Len(q) > 0 /\ Head(q) = q[1] /\ Len(Tail(q)) = Len(q) - 1
      /\ \A i \in 1..(Len(q) - 1) : Tail(q)[i] = q[i + 1]
  OBVIOUS
<1>2. \A i \in 1..(Len(q) - 1) : i + 1 \in 1..Len(q) /\ i + 1 # 1 /\ 1 \in 1..Len(q)
  BY <1>1
<1> QED
  BY <1>1, <1>2 DEF NoAnswer, OneAnswer

LEMMA Taken ==
    ASSUME NEW q \in Seq(Messages), q # <<>>
    PROVE  /\ Len(q) = 1 => Tail(q) = <<>> /\ Head(q) = q[1]
           /\ AllPings(q) => Head(q) = Ping /\ AllPings(Tail(q))
<1>1. /\ Len(q) \in Nat /\ Len(q) > 0 /\ Head(q) = q[1] /\ Len(Tail(q)) = Len(q) - 1
      /\ \A i \in 1..(Len(q) - 1) : Tail(q)[i] = q[i + 1]
      /\ Tail(q) \in Seq(Messages)
  OBVIOUS
<1>2. Tail(q) = <<>> <=> Len(Tail(q)) = 0
  BY <1>1, Empty
<1> QED
  BY <1>1, <1>2 DEF AllPings

LEMMA NothingSent == \A q \in Seq(Messages) : q = <<>> => AllPings(q)
BY Empty DEF AllPings

LEMMA Sent ==
    ASSUME NEW q \in Seq(Messages), NEW m \in Messages
    PROVE  /\ Append(q, m) # <<>>
           /\ q = <<>> => Len(Append(q, m)) = 1 /\ Append(q, m)[1] = m
           /\ AllPings(q) /\ m = Ping => AllPings(Append(q, m))
<1>1. /\ Len(q) \in Nat /\ Len(Append(q, m)) = Len(q) + 1
      /\ \A i \in 1..Len(q) : Append(q, m)[i] = q[i]
      /\ Append(q, m)[Len(q) + 1] = m /\ Append(q, m) # <<>>
  OBVIOUS
<1>2. q = <<>> => Len(q) = 0
  BY Empty
<1> QED
  BY <1>1, <1>2 DEF AllPings

(* What a connection is after a message is sent. *)
LEMMA ToServerIs ==
    ASSUME NEW c \in ConnType, NEW m \in Messages
    PROVE  LET q == IF c.path = "up" /\ c.closed = "open" THEN Append(c.toSrv, m) ELSE c.toSrv
           IN  q \in Seq(Messages) /\ ToServer(c, m) = [c EXCEPT !.toSrv = q]
<1> DEFINE q == IF c.path = "up" /\ c.closed = "open" THEN Append(c.toSrv, m) ELSE c.toSrv
<1>1. Append(c.toSrv, m) \in Seq(Messages) /\ c.toSrv \in Seq(Messages)
  BY DEF ConnType
<1>2. c = [c EXCEPT !.toSrv = c.toSrv]
  BY DEF ConnType
<1>3. ToServer(c, m) = IF c.path = "up" /\ c.closed = "open"
                       THEN [c EXCEPT !.toSrv = Append(c.toSrv, m)] ELSE c
  BY DEF ToServer
<1> QED
  BY <1>1, <1>2, <1>3, Zenon

LEMMA ToClientIs ==
    ASSUME NEW c \in ConnType, NEW a \in Answers
    PROVE  LET q == IF c.path = "up" /\ c.closed = "open" THEN Append(c.toCli, a) ELSE c.toCli
           IN  q \in Seq(Answers) /\ ToClient(c, a) = [c EXCEPT !.toCli = q]
<1> DEFINE q == IF c.path = "up" /\ c.closed = "open" THEN Append(c.toCli, a) ELSE c.toCli
<1>1. Append(c.toCli, a) \in Seq(Answers) /\ c.toCli \in Seq(Answers)
  BY DEF ConnType
<1>2. c = [c EXCEPT !.toCli = c.toCli]
  BY DEF ConnType
<1>3. ToClient(c, a) = IF c.path = "up" /\ c.closed = "open"
                       THEN [c EXCEPT !.toCli = Append(c.toCli, a)] ELSE c
  BY DEF ToClient
<1> QED
  BY <1>1, <1>2, <1>3, Zenon

LEMMA Given ==
    ASSUME IInv, HInv, NEW k \in Conns
    PROVE  /\ conn[k] \in ConnType /\ client \in ClientType
           /\ Watched(conn[k])
           /\ client.conn = k => Belongs(client, conn[k])
BY DEF IInv, Typed, HInv

-----------------------------------------------------------------------------
(* The handler. *)

LEMMA AddClientSpares ==
    ASSUME IInv, HInv, NEW k \in Conns, AddClient(k)
    PROVE  HInv' /\ Spared
<1> DEFINE c == conn[k]
           new == [c EXCEPT !.hand = "added", !.age = 0, !.toSrv = Tail(@)]
<1>1. /\ c \in ConnType /\ Watched(c)
      /\ client.conn = k => Belongs(client, c)
  BY Given
<1>2. c.hand = "none" /\ c.toSrv # <<>> /\ conn' = [conn EXCEPT ![k] = new] /\ client' = client
  BY DEF AddClient
<1> HIDE DEF c
<1>3. /\ new.hand = "added" /\ new.age = 0 /\ new.toSrv = Tail(c.toSrv)
      /\ new.path = c.path /\ new.good = c.good /\ new.toCli = c.toCli /\ new.closed = c.closed
      /\ new.beat = c.beat /\ new.tick = c.tick /\ new.slack = c.slack /\ new.mine = c.mine
  BY <1>1 DEF ConnType
<1>4. c.toSrv \in Seq(Messages) /\ c.slack \in Nat /\ c.tick \in Nat
  BY <1>1 DEF ConnType
<1> HIDE DEF new
<1>5. Watched(new)
  BY <1>1, <1>2, <1>3, <1>4, Times DEF Watched
<1>6. ASSUME client.conn = k PROVE Belongs(client, new)
  <2>1. /\ c.path # "free" /\ client.at \notin {"register", "run"}
        /\ c.path = "up" /\ c.closed = "open" => Punctual(client, c)
    BY <1>1, <1>2, <1>6 DEF Belongs
  <2>2. ASSUME c.path = "up", c.closed = "open" PROVE Punctual(client, new)
    <3>1. c.good /\ client.at = "auth" /\ Len(c.toSrv) = 1
      BY <1>2, <2>1, <2>2 DEF Punctual, Authenticating
    <3>2. new.toSrv = <<>>
      BY <1>2, <1>3, <1>4, <3>1, Taken
    <3> QED
      <4>1. new.age <= new.slack
        BY <1>3, <1>4
      <4>2. new.good /\ Authenticating(new)
        BY <1>3, <3>1, <3>2 DEF Authenticating
      <4> QED
        BY <3>1, <4>1, <4>2 DEF Punctual
  <2> QED
    BY <1>3, <2>1, <2>2 DEF Belongs
<1> QED
  BY <1>2, <1>3, <1>5, <1>6, SessionStepKeeps DEF c

LEMMA LetInSpares ==
    ASSUME IInv, HInv, NEW k \in Conns, LetIn(k), conn[k].hand = "added", client' = client
    PROVE  HInv' /\ Spared
<1> DEFINE c == conn[k]
           q == IF c.path = "up" /\ c.closed = "open" THEN Append(c.toCli, "AuthOK") ELSE c.toCli
           told == [c EXCEPT !.toCli = q]
           new == [told EXCEPT !.hand = "loop", !.beat = "on", !.tick = 0]
<1>1. /\ c \in ConnType /\ Watched(c)
      /\ client.conn = k => Belongs(client, c)
  BY Given
<1>2. "AuthOK" \in Answers
  BY DEF Answers
<1>3. q \in Seq(Answers) /\ ToClient(c, "AuthOK") = told
  BY <1>1, <1>2, ToClientIs
<1>4. c.hand = "added" /\ c.closed = "open" /\ conn' = [conn EXCEPT ![k] = new]
  BY <1>3 DEF LetIn
<1> HIDE DEF c
<1>5. c.path = "up" => q = Append(c.toCli, "AuthOK")
  BY <1>4
<1>6. c.toCli \in Seq(Answers) /\ c.slack \in Nat /\ c.age \in Nat
  BY <1>1 DEF ConnType
<1> HIDE DEF q
<1>7. /\ new.hand = "loop" /\ new.beat = "on" /\ new.tick = 0 /\ new.toCli = q
      /\ new.path = c.path /\ new.good = c.good /\ new.toSrv = c.toSrv /\ new.closed = c.closed
      /\ new.age = c.age /\ new.slack = c.slack /\ new.mine = c.mine
  BY <1>1 DEF ConnType
<1> HIDE DEF told, new
<1>8. c.toCli = <<>> /\ c.age <= c.slack /\ c.slack <= Delay
  BY <1>1, <1>4 DEF Watched
<1>9. Watched(new)
  BY <1>4, <1>6, <1>7, <1>8, Times DEF Watched
<1>10. ASSUME client.conn = k PROVE Belongs(client, new)
  <2>1. /\ c.path # "free" /\ client.at \notin {"register", "run"}
        /\ c.path = "up" => Punctual(client, c)
    BY <1>1, <1>4, <1>10 DEF Belongs
  <2>2. ASSUME c.path = "up" PROVE Punctual(client, new)
    <3>1. c.good /\ client.at = "auth" /\ c.toSrv = <<>>
      BY <1>4, <2>1, <2>2 DEF Punctual, Authenticating
    <3>2. Len(q) = 1
      BY <1>2, <1>5, <1>6, <1>8, <2>2, Answered
    <3> QED
      BY <1>7, <1>8, <3>1, <3>2 DEF Punctual, Authenticating
  <2> QED
    BY <1>7, <2>1, <2>2 DEF Belongs
<1> QED
  BY <1>4, <1>7, <1>9, <1>10, SessionStepKeeps

(* A client knows the token: if it is turned away, its connection has      *)
(* ended before.                                                           *)
LEMMA TurnedAwaySpares ==
    ASSUME IInv, HInv, NEW k \in Conns, TurnedAway(k, "exit"), conn[k].hand = "added",
           client' = client
    PROVE  HInv' /\ Spared
<1> DEFINE c == conn[k]
           q == IF c.path = "up" /\ c.closed = "open" THEN Append(c.toCli, "AuthBad") ELSE c.toCli
           told == [c EXCEPT !.toCli = q]
           new == [told EXCEPT !.hand = "exit"]
<1>1. /\ c \in ConnType /\ Watched(c)
      /\ client.conn = k => Belongs(client, c)
  BY Given
<1>2. "AuthBad" \in Answers
  BY DEF Answers
<1>3. q \in Seq(Answers) /\ ToClient(c, "AuthBad") = told
  BY <1>1, <1>2, ToClientIs
<1>4. /\ c.hand = "added" /\ conn' = [conn EXCEPT ![k] = new]
      /\ ~c.good \/ c.closed # "open" \/ c.path # "up"
  BY <1>3 DEF TurnedAway
<1> HIDE DEF c, q
<1>5. /\ new.hand = "exit" /\ new.beat = c.beat /\ new.tick = c.tick
      /\ new.path = c.path /\ new.good = c.good /\ new.closed = c.closed
      /\ new.age = c.age /\ new.slack = c.slack /\ new.mine = c.mine
  BY <1>1 DEF ConnType
<1> HIDE DEF told, new
<1>6. Watched(new)
  BY <1>1, <1>5 DEF Watched
<1>7. client.conn = k => Belongs(client, new)
  BY <1>1, <1>4, <1>5 DEF Belongs, Punctual
<1> QED
  BY <1>4, <1>5, <1>6, <1>7, SessionStepKeeps DEF c

LEMMA HandlePingSpares ==
    ASSUME IInv, HInv, NEW k \in Conns, HandlePing(k)
    PROVE  HInv' /\ Spared
<1> DEFINE c == conn[k]
           slack == IF Len(c.toSrv) = 1 THEN 0 ELSE c.slack
           new == [c EXCEPT !.age = 0, !.toSrv = Tail(@), !.slack = slack]
<1>1. /\ c \in ConnType /\ Watched(c)
      /\ client.conn = k => Belongs(client, c)
      /\ client \in ClientType
  BY Given
<1>2. /\ c.hand = "loop" /\ c.closed = "open" /\ c.toSrv # <<>> /\ Head(c.toSrv) = Ping
      /\ conn' = [conn EXCEPT ![k] = new] /\ client' = client
  BY DEF HandlePing, Receives
<1> HIDE DEF c
<1>3. /\ new.age = 0 /\ new.toSrv = Tail(c.toSrv) /\ new.hand = c.hand
      /\ new.path = c.path /\ new.good = c.good /\ new.toCli = c.toCli /\ new.closed = c.closed
      /\ new.beat = c.beat /\ new.tick = c.tick /\ new.slack = slack /\ new.mine = c.mine
  BY <1>1 DEF ConnType
<1>4. /\ c.toSrv \in Seq(Messages) /\ c.slack \in Nat /\ c.tick \in Nat
      /\ client.tick \in Nat
      /\ slack \in Nat /\ slack <= Delay
  BY <1>1, Times DEF ConnType, ClientType, Watched
<1> HIDE DEF slack, new
<1>5. Watched(new)
  BY <1>1, <1>2, <1>3, <1>4, Times DEF Watched
<1>6. ASSUME client.conn = k PROVE Belongs(client, new)
  <2>1. /\ c.path # "free"
        /\ c.path = "up" => Punctual(client, c)
    BY <1>1, <1>2, <1>6 DEF Belongs
  <2>2. ASSUME c.path = "up" PROVE Punctual(client, new)
    <3>1. Len(c.toSrv) = 1 => c.toSrv[1] = Ping
      BY <1>2, <1>4, Taken
    <3>2. c.good /\ client.at = "run" /\ Beating(client, c)
      BY <1>2, <2>1, <2>2, <3>1 DEF Punctual, Authenticating, Registering
    <3>3. AllPings(new.toSrv)
      BY <1>2, <1>3, <1>4, <3>2, Taken DEF Beating
    <3> QED
      BY <1>2, <1>3, <1>4, <3>2, <3>3, Times DEF Punctual, Beating
  <2> QED
    BY <1>2, <1>3, <2>1, <2>2 DEF Belongs
<1> QED
  BY <1>2, <1>3, <1>5, <1>6, SessionStepKeeps DEF c

LEMMA HandleNewProxySpares ==
    ASSUME IInv, HInv, NEW k \in Conns, NEW p \in Ports, HandleNewProxy(k, p)
    PROVE  HInv' /\ Spared
<1> DEFINE c == conn[k]
           d == [c EXCEPT !.toSrv = Tail(@)]
           q == IF d.path = "up" /\ d.closed = "open" THEN Append(d.toCli, "ProxyBad") ELSE d.toCli
           started == [d EXCEPT !.hand = "start"]
           refused == [d EXCEPT !.toCli = q]
<1>1. /\ c \in ConnType /\ Watched(c)
      /\ client.conn = k => Belongs(client, c)
  BY Given
<1>2. /\ c.hand = "loop" /\ c.closed = "open" /\ c.toSrv # <<>> /\ Head(c.toSrv) = NewProxy(p)
      /\ client' = client
  BY DEF HandleNewProxy, Receives
<1>3. d \in ConnType
  BY TakenTyped DEF HandleNewProxy
<1>4. "ProxyBad" \in Answers /\ NewProxy(p) # Ping
  BY DEF Answers, NewProxy, Ping
<1>5. q \in Seq(Answers) /\ ToClient(d, "ProxyBad") = refused
  BY <1>3, <1>4, ToClientIs
<1>6. conn' = [conn EXCEPT ![k] = started] \/ conn' = [conn EXCEPT ![k] = refused]
  BY <1>5 DEF HandleNewProxy
<1> HIDE DEF c
<1>7. /\ d.toSrv = Tail(c.toSrv) /\ d.hand = c.hand /\ d.toCli = c.toCli
      /\ d.path = c.path /\ d.good = c.good /\ d.closed = c.closed /\ d.age = c.age
      /\ d.beat = c.beat /\ d.tick = c.tick /\ d.slack = c.slack /\ d.mine = c.mine
  BY <1>1 DEF ConnType
<1>8. c.path = "up" => q = Append(c.toCli, "ProxyBad")
  BY <1>2, <1>7
<1>9. c.toSrv \in Seq(Messages) /\ c.toCli \in Seq(Answers)
  BY <1>1 DEF ConnType
<1> HIDE DEF d, q
<1>10. /\ started.hand = "start" /\ started.toSrv = d.toSrv /\ started.toCli = c.toCli
       /\ refused.hand = "loop" /\ refused.toSrv = d.toSrv /\ refused.toCli = q
       /\ \A e \in {started, refused} :
            /\ e.path = c.path /\ e.good = c.good /\ e.closed = c.closed /\ e.age = c.age
            /\ e.beat = c.beat /\ e.tick = c.tick /\ e.slack = c.slack /\ e.mine = c.mine
  BY <1>2, <1>3, <1>7 DEF ConnType
<1> HIDE DEF started, refused
<1>11. \A e \in {started, refused} : Watched(e)
  BY <1>1, <1>10 DEF Watched
<1>12. ASSUME client.conn = k, NEW e \in {started, refused} PROVE Belongs(client, e)
  <2>1. /\ c.path # "free"
        /\ c.path = "up" => Punctual(client, c)
    BY <1>1, <1>2, <1>12 DEF Belongs
  <2>2. ASSUME c.path = "up" PROVE Punctual(client, e)
    <3>1. ~AllPings(c.toSrv)
      BY <1>2, <1>4, <1>9, Taken
    <3>2. /\ c.good /\ client.at = "register" /\ c.age <= c.slack
          /\ Len(c.toSrv) = 1 /\ NoAnswer(c.toCli)
      BY <1>2, <2>1, <2>2, <3>1 DEF Punctual, Authenticating, Registering, Beating
    <3>3. d.toSrv = <<>>
      BY <1>2, <1>7, <1>9, <3>2, Taken
    <3>4. q # <<>> /\ OneAnswer(q)
      BY <1>4, <1>8, <1>9, <2>2, <3>2, Answered
    <3>5. Registering(e)
      BY <1>10, <3>2, <3>3, <3>4 DEF Registering
    <3> QED
      BY <1>10, <3>2, <3>5 DEF Punctual
  <2> QED
    BY <1>10, <2>1, <2>2 DEF Belongs
<1>13. \A e \in {started, refused} : e.beat = conn[k].beat
  BY <1>10 DEF c
<1> QED
  BY <1>2, <1>6, <1>11, <1>12, <1>13, SessionStepKeeps

LEMMA ProxyStartedSpares ==
    ASSUME IInv, HInv, NEW k \in Conns, ProxyStarted(k)
    PROVE  HInv' /\ Spared
<1> DEFINE c == conn[k]
           p == CHOOSE r \in Ports : owner[r] = k /\ r \notin conn[k].mine
           q == IF c.path = "up" /\ c.closed = "open" THEN Append(c.toCli, "ProxyOK") ELSE c.toCli
           told == [c EXCEPT !.toCli = q]
           new == [told EXCEPT !.hand = "loop", !.mine = @ \cup {p}]
<1>1. /\ c \in ConnType /\ Watched(c)
      /\ client.conn = k => Belongs(client, c)
  BY Given
<1>2. "ProxyOK" \in Answers
  BY DEF Answers
<1>3. q \in Seq(Answers) /\ ToClient(c, "ProxyOK") = told
  BY <1>1, <1>2, ToClientIs
<1>4. c.hand = "start" /\ client' = client /\ conn' = [conn EXCEPT ![k] = new]
  BY <1>3 DEF ProxyStarted
<1> HIDE DEF c, p
<1>5. c.path = "up" /\ c.closed = "open" => q = Append(c.toCli, "ProxyOK")
  OBVIOUS
<1>6. c.toCli \in Seq(Answers)
  BY <1>1 DEF ConnType
<1> HIDE DEF q
<1>7. /\ new.hand = "loop" /\ new.beat = c.beat /\ new.tick = c.tick /\ new.toCli = q
      /\ new.path = c.path /\ new.good = c.good /\ new.toSrv = c.toSrv /\ new.closed = c.closed
      /\ new.age = c.age /\ new.slack = c.slack
  BY <1>1 DEF ConnType
<1> HIDE DEF told, new
<1>8. Watched(new)
  BY <1>1, <1>7 DEF Watched
<1>9. ASSUME client.conn = k PROVE Belongs(client, new)
  <2>1. /\ c.path # "free"
        /\ c.path = "up" /\ c.closed = "open" => Punctual(client, c)
    BY <1>1, <1>9 DEF Belongs
  <2>2. ASSUME c.path = "up", c.closed = "open" PROVE Punctual(client, new)
    <3>1. /\ c.good /\ client.at = "register" /\ c.age <= c.slack
          /\ c.toSrv = <<>> /\ NoAnswer(c.toCli)
      BY <1>4, <2>1, <2>2 DEF Punctual, Authenticating, Registering, Beating
    <3>2. q # <<>> /\ OneAnswer(q)
      BY <1>2, <1>5, <1>6, <2>2, <3>1, Answered
    <3>3. Registering(new)
      BY <1>7, <3>1, <3>2 DEF Registering
    <3> QED
      BY <1>7, <3>1, <3>3 DEF Punctual
  <2> QED
    BY <1>7, <2>1, <2>2 DEF Belongs
<1> QED
  BY <1>4, <1>7, <1>8, <1>9, SessionStepKeeps DEF c

(* NewWorkConn may come between a request and its answer. *)
LEMMA RequestWorkConnSpares ==
    ASSUME IInv, HInv, NEW k \in Conns, RequestWorkConn(k)
    PROVE  HInv' /\ Spared
<1> DEFINE c == conn[k]
           q == IF c.path = "up" /\ c.closed = "open" THEN Append(c.toCli, "WorkConn") ELSE c.toCli
           new == [c EXCEPT !.toCli = q]
<1>1. /\ c \in ConnType /\ Watched(c)
      /\ client.conn = k => Belongs(client, c)
  BY Given
<1>2. "WorkConn" \in Answers
  BY DEF Answers
<1>3. q \in Seq(Answers) /\ ToClient(c, "WorkConn") = new
  BY <1>1, <1>2, ToClientIs
<1>4. /\ c.path = "up" /\ c.closed = "open" /\ client.at = "register"
      /\ client' = client /\ conn' = [conn EXCEPT ![k] = new]
  BY <1>3 DEF RequestWorkConn
<1>5. c.hand \notin {"none", "added"}
  <2>1. PICK p \in Ports : owner[p] = k
    BY DEF RequestWorkConn
  <2>2. p \in c.mine \/ c.hand = "start"
    BY <2>1 DEF IInv, OwnersSound
  <2> QED
    BY <1>1, <2>2 DEF Watched
<1> HIDE DEF c
<1>6. q = Append(c.toCli, "WorkConn")
  BY <1>4
<1>7. c.toCli \in Seq(Answers)
  BY <1>1 DEF ConnType
<1> HIDE DEF q
<1>8. /\ new.hand = c.hand /\ new.beat = c.beat /\ new.tick = c.tick /\ new.toCli = q
      /\ new.path = c.path /\ new.good = c.good /\ new.toSrv = c.toSrv /\ new.closed = c.closed
      /\ new.age = c.age /\ new.slack = c.slack /\ new.mine = c.mine
  BY <1>1 DEF ConnType
<1> HIDE DEF new
<1>9. Watched(new)
  BY <1>1, <1>5, <1>8 DEF Watched
<1>10. ASSUME client.conn = k PROVE Belongs(client, new)
  <2>1. Punctual(client, c)
    BY <1>1, <1>4, <1>10 DEF Belongs
  <2>2. c.good /\ Registering(c) /\ c.age <= c.slack
    BY <1>4, <2>1 DEF Punctual
  <2>3. /\ q # <<>>
        /\ NoAnswer(c.toCli) => NoAnswer(q)
        /\ OneAnswer(c.toCli) => OneAnswer(q)
    BY <1>2, <1>6, <1>7, Answered
  <2>4. Registering(new)
    BY <1>8, <2>2, <2>3 DEF Registering
  <2>5. Punctual(client, new)
    BY <1>4, <1>8, <2>2, <2>4 DEF Punctual
  <2> QED
    BY <1>4, <1>5, <1>8, <2>5 DEF Belongs
<1> QED
  BY <1>4, <1>8, <1>9, <1>10, SessionStepKeeps DEF c

(* The handler leaves its loop only when the connection is closed at one   *)
(* end or cut, so the client has nothing to expect of it.                  *)
LEMMA HandSpares ==
    ASSUME IInv, HInv, NEW k \in Conns, NEW to \in {"exit", "close", "done"},
           conn' = [conn EXCEPT ![k].hand = to], client' = client,
           conn[k].closed # "open" \/ conn[k].path # "up" \/ conn[k].hand = "exit"
    PROVE  HInv' /\ Spared
<1> DEFINE c == conn[k]
           new == [c EXCEPT !.hand = to]
<1>1. /\ c \in ConnType /\ Watched(c)
      /\ client.conn = k => Belongs(client, c)
  BY Given
<1>2. c.closed # "open" \/ c.path # "up" \/ c.hand = "exit"
  OBVIOUS
<1>3. conn' = [conn EXCEPT ![k] = new]
  BY DEF IInv, Typed
<1> HIDE DEF c
<1>4. /\ new.hand = to /\ new.beat = c.beat /\ new.tick = c.tick
      /\ new.path = c.path /\ new.closed = c.closed
      /\ new.age = c.age /\ new.slack = c.slack
  BY <1>1 DEF ConnType
<1> HIDE DEF new
<1>5. Watched(new)
  BY <1>1, <1>4 DEF Watched
<1>6. client.conn = k => Belongs(client, new)
  BY <1>1, <1>2, <1>4 DEF Belongs, Punctual, Authenticating, Registering, Beating
<1> QED
  BY <1>3, <1>4, <1>5, <1>6, SessionStepKeeps DEF c

LEMMA HandlerLeavesSpares ==
    ASSUME IInv, HInv, NEW k \in Conns,
           LoopEnds(k) \/ CutNoticed(k) \/ RemoveClient(k) \/ HandlerEnds(k)
    PROVE  HInv' /\ Spared
<1>1. CASE LoopEnds(k) \/ CutNoticed(k)
  BY <1>1, HandSpares DEF LoopEnds, CutNoticed, LoopFails
<1>2. CASE RemoveClient(k)
  BY <1>2, HandSpares DEF RemoveClient
<1>3. CASE HandlerEnds(k)
  BY <1>3, HandSpares DEF HandlerEnds
<1> QED
  BY <1>1, <1>2, <1>3

-----------------------------------------------------------------------------
(* Close and the heartbeat. *)

LEMMA CloseSpares ==
    ASSUME IInv, HInv, NEW k \in Conns, CloseNext(k)
    PROVE  HInv' /\ Spared
<1> DEFINE c == conn[k]
           shutting == [c EXCEPT !.closed = "conn", !.toSrv = <<>>, !.age = 0, !.slack = 0]
           closed == [c EXCEPT !.closed = "done", !.mine = {}]
<1>1. /\ c \in ConnType /\ Watched(c)
      /\ client.conn = k => Belongs(client, c)
  BY Given
<1>2. /\ \/ conn' = [conn EXCEPT ![k] = shutting]
         \/ conn' = [conn EXCEPT ![k] = closed] /\ c.closed = "conn"
      /\ client' = client
  BY DEF CloseNext, CloseConn, CloseProxies, IInv, Typed
<1> HIDE DEF c
<1>3. /\ shutting.hand = c.hand /\ shutting.beat = c.beat /\ shutting.path = c.path
      /\ shutting.closed = "conn" /\ shutting.age = 0 /\ shutting.slack = 0
      /\ shutting.toCli = c.toCli /\ shutting.mine = c.mine
      /\ closed.hand = c.hand /\ closed.beat = c.beat /\ closed.path = c.path
      /\ closed.closed = "done" /\ closed.age = c.age /\ closed.slack = c.slack
      /\ closed.toCli = c.toCli /\ closed.mine = {}
  BY <1>1 DEF ConnType
<1> HIDE DEF shutting, closed
<1>4. Watched(shutting)
  BY <1>1, <1>3, Times DEF Watched
<1>5. c.closed = "conn" => Watched(closed)
  BY <1>1, <1>3 DEF Watched
<1>6. client.conn = k => Belongs(client, shutting) /\ Belongs(client, closed)
  BY <1>1, <1>3 DEF Belongs
<1>7. CASE conn' = [conn EXCEPT ![k] = shutting]
  BY <1>2, <1>3, <1>4, <1>6, <1>7, SessionStepKeeps DEF c
<1>8. CASE conn' = [conn EXCEPT ![k] = closed] /\ c.closed = "conn"
  BY <1>2, <1>3, <1>5, <1>6, <1>8, SessionStepKeeps DEF c
<1> QED
  BY <1>2, <1>7, <1>8

(* No client has a connection that is used again. *)
LEMMA RecycleSpares ==
    ASSUME IInv, HInv, NEW k \in Conns, Recycle(k)
    PROVE  HInv' /\ Spared
<1>1. client.conn # k /\ conn' = [conn EXCEPT ![k] = Fresh] /\ client' = client
  BY DEF Recycle, Over
<1>2. Watched(Fresh) /\ Fresh.beat # "close"
  BY Times DEF Watched, Fresh
<1> QED
  BY <1>1, <1>2, SessionStepKeeps

(* A session whose client is there is not as old as the timeout. *)
LEMMA Young ==
    ASSUME IInv, HInv, NEW k \in Conns, client.conn = k, conn[k].path = "up"
    PROVE  conn[k].age <= Timeout
<1> DEFINE c == conn[k]
<1>1. /\ c \in ConnType /\ client \in ClientType /\ Watched(c) /\ Belongs(client, c)
  BY Given
<1>2. c.age \in Nat /\ c.slack \in Nat /\ client.tick \in Nat /\ c.slack <= Delay
  BY <1>1 DEF ConnType, ClientType, Watched
<1>3. CASE c.closed # "open"
  BY <1>1, <1>3, Times DEF Watched
<1>4. CASE c.closed = "open"
  <2>1. Punctual(client, c)
    BY <1>1, <1>4 DEF Belongs
  <2>2. c.age <= c.slack \/ Beating(client, c)
    BY <2>1 DEF Punctual
  <2>3. CASE c.age <= c.slack
    BY <1>2, <2>3, Times
  <2>4. CASE Beating(client, c)
    BY <1>2, <2>4, Times DEF Beating
  <2> QED
    BY <2>2, <2>3, <2>4
<1> QED
  BY <1>3, <1>4

LEMMA HeartbeatSpares ==
    ASSUME IInv, HInv, NEW k \in Conns, Heartbeat(k)
    PROVE  HInv' /\ Spared
<1> DEFINE c == conn[k]
           after == IF c.age > Timeout THEN "close" ELSE c.beat
           new == [c EXCEPT !.tick = 0, !.beat = after]
<1>1. /\ c \in ConnType /\ Watched(c)
      /\ client.conn = k => Belongs(client, c)
  BY Given
<1>2. /\ c.beat = "on" /\ client' = client /\ conn' = [conn EXCEPT ![k] = new]
  BY DEF Heartbeat, IInv, Typed
<1>3. client.conn = k /\ c.path = "up" => c.age <= Timeout
  BY Young
<1> HIDE DEF c
<1>4. c.age \in Nat
  BY <1>1 DEF ConnType
<1>5. /\ after = "on" => c.age <= Timeout
      /\ after = "close" => c.age > Timeout
  BY <1>2, <1>4, Times
<1> HIDE DEF after
<1>6. /\ new.hand = c.hand /\ new.beat = after /\ new.tick = 0 /\ new.toCli = c.toCli
      /\ new.path = c.path /\ new.good = c.good /\ new.toSrv = c.toSrv /\ new.closed = c.closed
      /\ new.age = c.age /\ new.slack = c.slack /\ new.mine = c.mine
  BY <1>1 DEF ConnType
<1> HIDE DEF new
<1>7. Watched(new)
  BY <1>1, <1>4, <1>5, <1>6, Times DEF Watched
<1>8. client.conn = k => Belongs(client, new)
  BY <1>1, <1>6 DEF Belongs, Punctual, Authenticating, Registering, Beating
<1>9. new.beat = "close" => client.conn # k \/ c.path # "up"
  BY <1>3, <1>4, <1>5, <1>6, Times
<1>10. client.at \in {"down", "ready", "stopped"} => client.conn = None
  BY DEF HInv
<1> QED
  BY <1>2, <1>7, <1>8, <1>9, <1>10, StepKeeps DEF c

LEMMA HeartbeatEndsSpares ==
    ASSUME IInv, HInv, NEW k \in Conns, HeartbeatEnds(k)
    PROVE  HInv' /\ Spared
<1> DEFINE c == conn[k]
           new == [c EXCEPT !.beat = "end", !.tick = 0]
<1>1. /\ c \in ConnType /\ Watched(c)
      /\ client.conn = k => Belongs(client, c)
  BY Given
<1>2. client' = client /\ conn' = [conn EXCEPT ![k] = new]
  BY DEF HeartbeatEnds, IInv, Typed
<1> HIDE DEF c
<1>3. /\ new.hand = c.hand /\ new.beat = "end" /\ new.tick = 0 /\ new.toCli = c.toCli
      /\ new.path = c.path /\ new.good = c.good /\ new.toSrv = c.toSrv /\ new.closed = c.closed
      /\ new.age = c.age /\ new.slack = c.slack /\ new.mine = c.mine
  BY <1>1 DEF ConnType
<1> HIDE DEF new
<1>4. Watched(new)
  BY <1>1, <1>3 DEF Watched
<1>5. client.conn = k => Belongs(client, new)
  BY <1>1, <1>3 DEF Belongs, Punctual, Authenticating, Registering, Beating
<1> QED
  BY <1>2, <1>3, <1>4, <1>5, SessionStepKeeps

-----------------------------------------------------------------------------
(* The client. *)

LEMMA QuitSpares ==
    ASSUME IInv, HInv, NEW k \in Conns, client.conn = k,
           NEW where \in {"down", "stopped"}, Quit(k, where)
    PROVE  HInv' /\ Spared
<1> DEFINE c == conn[k]
           to == IF c.path = "up" THEN "eof" ELSE c.path
           slack == IF AtWork(c) THEN c.slack ELSE 0
           new == [c EXCEPT !.path = to, !.toCli = <<>>, !.slack = slack]
           cl == [Down EXCEPT !.at = where]
<1>1. c \in ConnType /\ Watched(c)
  BY Given
<1>2. client' = cl /\ conn' = [conn EXCEPT ![k] = new]
  BY DEF Quit, IInv, Typed
<1>3. /\ slack \in {0, c.slack} /\ (c.hand = "added" => slack = c.slack)
      /\ c.slack \in Nat
  BY <1>1 DEF AtWork, ConnType
<1> HIDE DEF c, to, slack
<1>4. /\ new.hand = c.hand /\ new.beat = c.beat /\ new.tick = c.tick /\ new.toCli = <<>>
      /\ new.closed = c.closed /\ new.age = c.age /\ new.slack = slack /\ new.mine = c.mine
  BY <1>1 DEF ConnType
<1> HIDE DEF new
<1>5. Watched(new)
  BY <1>1, <1>3, <1>4, Times DEF Watched
<1>6. cl.conn = None /\ cl.conn # k
  BY NobodyAssumption DEF Down
<1>7. new.beat = "close" => conn[k].beat # "on"
  BY <1>4 DEF c
<1> HIDE DEF cl
<1> QED
  BY <1>2, <1>5, <1>6, <1>7, StepKeeps

LEMMA ConnectSpares ==
    ASSUME IInv, HInv, NEW k \in Conns, NEW a \in Addrs, Connect(k, a)
    PROVE  HInv' /\ Spared
<1> DEFINE new == [Fresh EXCEPT !.path = "up", !.addr = a, !.toSrv = <<Auth>>]
           cl == [client EXCEPT !.at = "auth", !.conn = k]
<1>1. client' = cl /\ conn' = [conn EXCEPT ![k] = new] /\ client.at = "ready"
  BY DEF Connect
<1>2. client \in ClientType /\ client.conn = None
  BY <1>1, Given DEF HInv
<1>3. cl.at = "auth" /\ cl.conn = k
  BY <1>2 DEF ClientType
<1>4. /\ new.hand = "none" /\ new.toCli = <<>> /\ new.mine = {} /\ new.slack = 0 /\ new.age = 0
      /\ new.beat = "off" /\ new.path = "up" /\ new.good /\ new.toSrv = <<Auth>>
  BY DEF Fresh
<1>5. Len(<<Auth>>) = 1
  OBVIOUS
<1> HIDE DEF new, cl
<1>6. Watched(new)
  BY <1>4, Times DEF Watched
<1>7. Belongs(cl, new)
  BY <1>3, <1>4, <1>5 DEF Belongs, Punctual, Authenticating
<1> QED
  BY <1>1, <1>2, <1>3, <1>4, <1>6, <1>7, StepKeeps

LEMMA StrangerSpares ==
    ASSUME IInv, HInv, NEW k \in Conns, NEW a \in Addrs, Stranger(k, a)
    PROVE  HInv' /\ Spared
<1> DEFINE q == <<Auth, NewProxy(1), Ping>>
           new == [Fresh EXCEPT !.path = "up", !.good = FALSE, !.addr = a, !.toSrv = q]
<1>1. client' = client /\ conn' = [conn EXCEPT ![k] = new] /\ conn[k].path = "free"
  BY DEF Stranger, Unused
<1> HIDE DEF q
<1>2. client.conn # k
  BY <1>1, Given DEF Belongs
<1>3. Watched(new) /\ new.beat # "close"
  BY Times DEF Fresh, Watched
<1> QED
  BY <1>1, <1>2, <1>3, SessionStepKeeps

LEMMA CutSpares ==
    ASSUME IInv, HInv, NEW k \in Conns, Cut(k)
    PROVE  HInv' /\ Spared
<1> DEFINE c == conn[k]
           slack == IF AtWork(c) THEN c.slack ELSE 0
           new == [c EXCEPT !.path = "cut", !.toCli = <<>>, !.slack = slack]
<1>1. /\ c \in ConnType /\ Watched(c)
      /\ client.conn = k => Belongs(client, c)
  BY Given
<1>2. client' = client /\ conn' = [conn EXCEPT ![k] = new]
  BY DEF Cut, IInv, Typed
<1>3. /\ slack \in {0, c.slack} /\ (c.hand = "added" => slack = c.slack)
      /\ c.slack \in Nat
  BY <1>1 DEF AtWork, ConnType
<1> HIDE DEF c, slack
<1>4. /\ new.hand = c.hand /\ new.beat = c.beat /\ new.tick = c.tick /\ new.toCli = <<>>
      /\ new.path = "cut" /\ new.closed = c.closed
      /\ new.age = c.age /\ new.slack = slack /\ new.mine = c.mine
  BY <1>1 DEF ConnType
<1> HIDE DEF new
<1>5. Watched(new)
  BY <1>1, <1>3, <1>4, Times DEF Watched
<1>6. client.conn = k => Belongs(client, new)
  BY <1>1, <1>4 DEF Belongs
<1> QED
  BY <1>2, <1>4, <1>5, <1>6, SessionStepKeeps DEF c

(* The client reads the answer it has waited for and asks for a proxy. *)
LEMMA NextRequest ==
    ASSUME IInv, HInv, NEW k \in Conns, client.conn = k, NEW cl, NEW n \in Nat,
           conn[k].path = "up", conn[k].toCli # <<>>,
           client.at = "auth" \/ (client.at = "register" /\ Head(conn[k].toCli) = "ProxyOK"),
           cl.at = "register", cl.conn = k, client' = cl,
           Proceed(k, ToServer(conn[k], NewProxy(n)))
    PROVE  HInv' /\ Spared
<1> DEFINE c == conn[k]
           q == IF c.path = "up" /\ c.closed = "open" THEN Append(c.toSrv, NewProxy(n)) ELSE c.toSrv
           d == [c EXCEPT !.toSrv = q]
           new == [d EXCEPT !.toCli = Tail(@)]
<1>1. c \in ConnType /\ Watched(c) /\ Belongs(client, c)
  BY Given
<1>2. NewProxy(n) \in Messages /\ NewProxy(n) # Ping
  BY DEF NewProxy, Messages, Ping
<1>3. q \in Seq(Messages) /\ ToServer(c, NewProxy(n)) = d
  BY <1>1, <1>2, ToServerIs
<1>4. conn' = [conn EXCEPT ![k] = new] /\ c.path = "up" /\ c.toCli # <<>>
  BY <1>3 DEF Proceed
<1>5. client.at = "auth" \/ (client.at = "register" /\ Head(c.toCli) = "ProxyOK")
  OBVIOUS
<1> HIDE DEF c
<1>6. c.closed = "open" => q = Append(c.toSrv, NewProxy(n))
  BY <1>4
<1>7. c.toCli \in Seq(Answers) /\ c.toSrv \in Seq(Messages)
  BY <1>1 DEF ConnType
<1> HIDE DEF q
<1>8. /\ new.hand = c.hand /\ new.beat = c.beat /\ new.tick = c.tick /\ new.toCli = Tail(c.toCli)
      /\ new.path = c.path /\ new.good = c.good /\ new.toSrv = q /\ new.closed = c.closed
      /\ new.age = c.age /\ new.slack = c.slack /\ new.mine = c.mine
  BY <1>1 DEF ConnType
<1> HIDE DEF d, new
<1>9. c.hand \notin {"none", "added"}
  BY <1>1, <1>4 DEF Watched
<1>10. Watched(new)
  BY <1>1, <1>8, <1>9 DEF Watched
<1>11. ASSUME c.closed = "open" PROVE Punctual(cl, new)
  <2>1. Punctual(client, c)
    BY <1>1, <1>4, <1>11 DEF Belongs
  <2>2. /\ NoAnswer(c.toCli) => Head(c.toCli) # "ProxyOK"
        /\ OneAnswer(c.toCli) /\ Head(c.toCli) = "ProxyOK" => NoAnswer(Tail(c.toCli))
        /\ Len(c.toCli) = 1 => NoAnswer(Tail(c.toCli))
    BY <1>4, <1>7, Read
  <2>3. /\ c.good /\ c.age <= c.slack /\ c.hand = "loop" /\ c.toSrv = <<>>
        /\ NoAnswer(Tail(c.toCli))
    BY <1>5, <1>9, <2>1, <2>2 DEF Punctual, Authenticating, Registering
  <2>4. Len(q) = 1 /\ q[1] # Ping
    BY <1>2, <1>6, <1>7, <1>11, <2>3, Sent
  <2>5. Registering(new)
    BY <1>8, <2>3, <2>4 DEF Registering
  <2> QED
    BY <1>8, <2>3, <2>5 DEF Punctual
<1>12. Belongs(cl, new)
  BY <1>4, <1>8, <1>9, <1>11 DEF Belongs
<1> QED
  BY <1>4, <1>8, <1>10, <1>12, StepKeeps DEF c

(* The client reads its last answer, or a message in its loop. *)
LEMMA GoesOn ==
    ASSUME IInv, HInv, NEW k \in Conns, client.conn = k, NEW cl,
           conn[k].path = "up", conn[k].toCli # <<>>, NEW slack \in {0, conn[k].slack},
           \/ client.at = "register" /\ Head(conn[k].toCli) = "ProxyOK" /\ cl.tick = 0
           \/ client.at = "run" /\ cl = client /\ slack = conn[k].slack,
           cl.at = "run", cl.conn = k, client' = cl,
           Proceed(k, [conn[k] EXCEPT !.slack = slack])
    PROVE  HInv' /\ Spared
<1> DEFINE c == conn[k]
           d == [c EXCEPT !.slack = slack]
           new == [d EXCEPT !.toCli = Tail(@)]
<1>1. c \in ConnType /\ Watched(c) /\ Belongs(client, c)
  BY Given
<1>2. conn' = [conn EXCEPT ![k] = new] /\ c.path = "up" /\ c.toCli # <<>>
  BY DEF Proceed
<1>3. \/ client.at = "register" /\ Head(c.toCli) = "ProxyOK" /\ cl.tick = 0
      \/ client.at = "run" /\ cl = client /\ slack = c.slack
  OBVIOUS
<1> HIDE DEF c
<1>4. /\ c.toCli \in Seq(Answers) /\ c.toSrv \in Seq(Messages)
      /\ c.age \in Nat /\ c.slack \in Nat /\ slack \in {0, c.slack}
  BY <1>1 DEF ConnType, c
<1>5. /\ new.hand = c.hand /\ new.beat = c.beat /\ new.tick = c.tick
      /\ new.path = c.path /\ new.good = c.good /\ new.toSrv = c.toSrv /\ new.closed = c.closed
      /\ new.age = c.age /\ new.slack = slack /\ new.mine = c.mine
  BY <1>1 DEF ConnType
<1> HIDE DEF d, new
<1>6. c.hand \notin {"none", "added"} /\ c.slack <= Delay
  BY <1>1, <1>2 DEF Watched
<1>7. Watched(new)
  BY <1>1, <1>4, <1>5, <1>6, Times DEF Watched
<1>8. ASSUME c.closed = "open" PROVE Punctual(cl, new)
  <2>1. Punctual(client, c)
    BY <1>1, <1>2, <1>8 DEF Belongs
  <2>2. CASE client.at = "register"
    <3>1. NoAnswer(c.toCli) => Head(c.toCli) # "ProxyOK"
      BY <1>2, <1>4, Read
    <3>2. c.good /\ c.age <= c.slack /\ c.hand = "loop" /\ c.toSrv = <<>>
      BY <1>3, <2>1, <2>2, <3>1 DEF Punctual, Registering
    <3>3. cl.tick = 0 /\ AllPings(c.toSrv)
      BY <1>3, <1>4, <2>2, <3>2, NothingSent
    <3>4. c.age <= cl.tick + Delay /\ cl.tick <= Interval
      BY <1>4, <1>6, <3>2, <3>3, Times
    <3>5. Beating(cl, new)
      BY <1>5, <3>2, <3>3, <3>4 DEF Beating
    <3> QED
      BY <1>5, <3>2, <3>5 DEF Punctual
  <2>3. CASE client.at = "run"
    <3>1. c.good /\ Beating(cl, c)
      BY <1>3, <2>1, <2>3 DEF Punctual
    <3>2. Beating(cl, new)
      BY <1>3, <1>5, <2>3, <3>1 DEF Beating
    <3> QED
      BY <1>5, <3>1, <3>2 DEF Punctual
  <2> QED
    BY <1>3, <2>2, <2>3
<1>9. Belongs(cl, new)
  BY <1>2, <1>5, <1>6, <1>8 DEF Belongs
<1> QED
  BY <1>2, <1>5, <1>7, <1>9, StepKeeps DEF c

LEMMA ClientReadsSpares ==
    ASSUME IInv, HInv, NEW k \in Conns, ClientReads(k)
    PROVE  HInv' /\ Spared
<1>1. /\ client \in ClientType /\ client.conn = k
      /\ conn[k].path = "up" /\ conn[k].toCli # <<>>
  BY Given DEF ClientReads
<1> DEFINE asked == [client EXCEPT !.at = "register"]
           onward == [client EXCEPT !.reg = @ + 1]
           runs == [client EXCEPT !.reg = @ + 1, !.at = "run", !.tick = 0]
<1>2. /\ asked.conn = k /\ asked.at = "register" /\ onward.conn = k /\ onward.at = client.at
      /\ runs.conn = k /\ runs.at = "run" /\ runs.tick = 0
      /\ 1 \in Nat /\ client.reg + 2 \in Nat
  BY <1>1 DEF ClientType
<1>3. \/ /\ client.at = "auth" /\ client' = asked
         /\ Proceed(k, ToServer(conn[k], NewProxy(1)))
      \/ /\ client.at = "register" /\ Head(conn[k].toCli) = "ProxyOK" /\ client' = onward
         /\ Proceed(k, ToServer(conn[k], NewProxy(client.reg + 2)))
      \/ /\ client.at = "register" /\ Head(conn[k].toCli) = "ProxyOK" /\ client' = runs
         /\ Proceed(k, [conn[k] EXCEPT !.slack = 0])
      \/ Quit(k, "down")
      \/ client.at = "run" /\ client' = client /\ Proceed(k, conn[k])
  BY DEF ClientReads
<1> HIDE DEF asked, onward, runs
<1>4. CASE client.at = "auth" /\ client' = asked /\ Proceed(k, ToServer(conn[k], NewProxy(1)))
  BY <1>1, <1>2, <1>4, NextRequest
<1>5. CASE /\ client.at = "register" /\ Head(conn[k].toCli) = "ProxyOK" /\ client' = onward
           /\ Proceed(k, ToServer(conn[k], NewProxy(client.reg + 2)))
  BY <1>1, <1>2, <1>5, NextRequest
<1>6. CASE /\ client.at = "register" /\ Head(conn[k].toCli) = "ProxyOK" /\ client' = runs
           /\ Proceed(k, [conn[k] EXCEPT !.slack = 0])
  BY <1>1, <1>2, <1>6, GoesOn
<1>7. CASE client.at = "run" /\ client' = client /\ Proceed(k, conn[k])
  <2>1. [conn[k] EXCEPT !.slack = conn[k].slack] = conn[k]
    BY Given DEF ConnType
  <2> QED
    BY <1>1, <1>7, <2>1, GoesOn
<1> QED
  BY <1>1, <1>3, <1>4, <1>5, <1>6, <1>7, QuitSpares

LEMMA ClientPingSpares ==
    ASSUME IInv, HInv, NEW k \in Conns, ClientPing(k)
    PROVE  HInv' /\ Spared
<1> DEFINE c == conn[k]
           waited == IF c.toSrv = <<>> THEN 0 ELSE c.slack
           aired == [c EXCEPT !.slack = waited]
           q == IF aired.path = "up" /\ aired.closed = "open"
                THEN Append(aired.toSrv, Ping) ELSE aired.toSrv
           new == [aired EXCEPT !.toSrv = q]
           cl == [client EXCEPT !.tick = 0]
<1>1. /\ c \in ConnType /\ Watched(c)
      /\ client \in ClientType
  BY Given
<1>2. /\ client.conn = k /\ client.at = "run" /\ client.tick = Interval /\ client' = cl
      /\ conn' = [conn EXCEPT ![k] = ToServer(aired, Ping)]
  BY DEF ClientPing
<1>3. Belongs(client, c)
  BY <1>2, Given
<1> HIDE DEF c
<1>4. c.toSrv \in Seq(Messages) /\ c.age \in Nat /\ c.slack \in Nat /\ c.slack <= Delay
  BY <1>1 DEF ConnType, Watched
<1>5. /\ waited \in Nat /\ waited <= Delay
      /\ c.toSrv # <<>> => waited = c.slack
  BY <1>4, Times
<1> HIDE DEF waited
<1>6. /\ aired \in ConnType /\ aired.slack = waited
      /\ aired.hand = c.hand /\ aired.beat = c.beat /\ aired.tick = c.tick
      /\ aired.path = c.path /\ aired.good = c.good /\ aired.closed = c.closed
      /\ aired.age = c.age /\ aired.mine = c.mine
      /\ aired.toSrv = c.toSrv /\ aired.toCli = c.toCli
  BY <1>1, <1>5 DEF ConnType
<1> HIDE DEF aired
<1>7. Ping \in Messages
  BY DEF Ping, Messages
<1>8. conn' = [conn EXCEPT ![k] = new]
  BY <1>2, <1>6, <1>7, ToServerIs
<1>9. c.path = "up" /\ c.closed = "open" => q = Append(c.toSrv, Ping)
  BY <1>6
<1> HIDE DEF q
<1>10. /\ new.hand = c.hand /\ new.beat = c.beat /\ new.tick = c.tick /\ new.toCli = c.toCli
       /\ new.path = c.path /\ new.good = c.good /\ new.toSrv = q /\ new.closed = c.closed
       /\ new.age = c.age /\ new.slack = waited /\ new.mine = c.mine
  BY <1>6 DEF ConnType
<1> HIDE DEF new
<1>11. cl.at = "run" /\ cl.conn = k /\ cl.tick = 0
  BY <1>1, <1>2 DEF ClientType
<1> HIDE DEF cl
<1>12. c.hand \notin {"none", "added"} /\ c.path # "free"
  BY <1>2, <1>3 DEF Belongs
<1>13. Watched(new)
  <2>1. /\ new.closed # "open" => new.age = 0
        /\ new.beat = "on" /\ new.closed = "open" =>
             new.tick <= Interval /\ new.age <= Timeout + new.tick
    BY <1>1, <1>10 DEF Watched
  <2> QED
    BY <1>5, <1>10, <1>12, <2>1 DEF Watched
<1>14. ASSUME c.path = "up", c.closed = "open" PROVE Punctual(cl, new)
  <2>1. c.good /\ Beating(client, c)
    BY <1>2, <1>3, <1>14 DEF Belongs, Punctual
  <2>2. q # <<>> /\ AllPings(q)
    BY <1>4, <1>7, <1>9, <1>14, <2>1, Sent DEF Beating
  <2>3. c.age <= Interval + Delay + waited
    <3>1. CASE c.toSrv = <<>>
      <4>1. c.age <= Interval + Delay
        BY <1>2, <2>1, <3>1 DEF Beating
      <4> QED
        BY <1>4, <1>5, <4>1, Times
    <3>2. CASE c.toSrv # <<>>
      BY <1>5, <2>1, <3>2 DEF Beating
    <3> QED
      BY <3>1, <3>2
  <2>4. cl.tick <= Interval
    BY <1>11, Times
  <2>5. Beating(cl, new)
    BY <1>10, <2>1, <2>2, <2>3, <2>4 DEF Beating
  <2> QED
    BY <1>10, <1>11, <2>1, <2>5 DEF Punctual
<1>15. Belongs(cl, new)
  BY <1>10, <1>12, <1>14 DEF Belongs
<1> QED
  BY <1>2, <1>8, <1>10, <1>11, <1>13, <1>15, StepKeeps DEF c

-----------------------------------------------------------------------------
(* Time. *)

LEMMA TickSpares ==
    ASSUME IInv, HInv, Tick
    PROVE  HInv' /\ Spared
<1>1. /\ \A k \in Conns : conn'[k] = Older(conn[k])
      /\ \A k \in Conns : conn[k].beat = "on" => conn[k].tick < Interval
      /\ \A k \in Conns : Pending(conn[k]) => conn[k].slack < Delay
      /\ client.at = "run" => client.tick < Interval
      /\ client' = CASE client.at = "down" -> [client EXCEPT !.at = "ready"]
                     [] client.at = "run" -> [client EXCEPT !.tick = @ + 1]
                     [] OTHER -> client
  BY DEF Tick
<1>2. /\ client \in ClientType
      /\ client.at \in {"down", "ready", "stopped"} => client.conn = None
  BY DEF HInv, IInv, Typed
<1>3. /\ client.at = "down" => client'.at = "ready" /\ client'.conn = None
      /\ client.at = "run" => /\ client'.at = "run" /\ client'.conn = client.conn
                              /\ client'.tick = client.tick + 1
      /\ client.at \notin {"down", "run"} => client' = client
  BY <1>1, <1>2 DEF ClientType
<1>4. /\ client'.at \in {"down", "ready", "stopped"} => client'.conn = None
      /\ client'.conn = client.conn
  BY <1>2, <1>3
<1>5. ASSUME NEW k \in Conns
      PROVE  /\ Watched(conn'[k]) /\ Spares(k)
             /\ client'.conn = k => Belongs(client', conn'[k])
  <2> DEFINE c == conn[k]
             slack == IF Pending(c) THEN c.slack + 1 ELSE c.slack
             age == IF c.hand # "none" /\ c.closed = "open" THEN c.age + 1 ELSE c.age
             tick == IF c.beat = "on" THEN c.tick + 1 ELSE c.tick
             new == [c EXCEPT !.slack = slack, !.age = age, !.tick = tick]
  <2>1. /\ c \in ConnType /\ Watched(c)
        /\ client.conn = k => Belongs(client, c)
    BY Given
  <2>2. conn'[k] = new
    BY <1>1 DEF Older
  <2>3. /\ c.beat = "on" => c.tick < Interval
        /\ Pending(c) => c.slack < Delay
    BY <1>1
  <2>4. c.slack \in Nat /\ c.age \in Nat /\ c.tick \in Nat
    BY <2>1 DEF ConnType
  <2> HIDE DEF c
  <2>5. /\ slack \in Nat /\ age \in Nat /\ tick \in Nat
        /\ slack >= c.slack /\ age <= c.age + 1
        /\ Pending(c) => slack = c.slack + 1
        /\ c.hand = "none" \/ c.closed # "open" => age = c.age
        /\ c.beat = "on" => tick = c.tick + 1
    BY <2>4
  <2>6. slack <= Delay
    BY <2>1, <2>3, <2>4, Times DEF Watched
  <2> HIDE DEF slack, age, tick
  <2>7. /\ new.hand = c.hand /\ new.beat = c.beat /\ new.tick = tick /\ new.toCli = c.toCli
        /\ new.path = c.path /\ new.good = c.good /\ new.toSrv = c.toSrv
        /\ new.closed = c.closed /\ new.age = age /\ new.slack = slack /\ new.mine = c.mine
    BY <2>1 DEF ConnType
  <2> HIDE DEF new
  <2>8. Watched(new)
    <3>1. /\ c.closed # "open" => age = 0
          /\ c.hand \in {"none", "added"} => c.toCli = <<>> /\ c.mine = {}
      BY <2>1, <2>5 DEF Watched
    <3>2. c.hand = "added" => age <= slack
      <4>1. c.closed = "open" /\ c.hand = "added" => Pending(c)
        BY DEF Pending, AtWork
      <4> QED
        BY <2>1, <2>4, <2>5, <4>1, Times DEF Watched
    <3>3. c.beat = "on" /\ c.closed = "open" => tick <= Interval /\ age <= Timeout + tick
      <4>1. c.beat = "on" /\ c.closed = "open" => c.age <= Timeout + c.tick
        BY <2>1 DEF Watched
      <4> QED
        BY <2>3, <2>4, <2>5, <4>1, Times
    <3> QED
      BY <2>6, <2>7, <3>1, <3>2, <3>3 DEF Watched
  <2>9. ASSUME client.conn = k, c.path = "up", c.closed = "open" PROVE Punctual(client', new)
    <3>1. Punctual(client, c)
      BY <2>1, <2>9 DEF Belongs
    <3>2. CASE client.at \in {"auth", "register"}
      <4>1. /\ c.good /\ c.age <= c.slack
            /\ client.at = "auth" => Authenticating(c)
            /\ client.at = "register" => Registering(c)
        BY <3>1, <3>2 DEF Punctual
      <4>2. c.toCli \in Seq(Answers) /\ c.toSrv \in Seq(Messages)
        BY <2>1 DEF ConnType
      <4>3. Len(c.toCli) = 1 => c.toCli # <<>>
        BY <4>2, NotEmpty
      <4>4. Len(c.toSrv) = 1 => c.toSrv # <<>>
        BY <4>2, NotEmpty
      <4>5. Pending(c)
        BY <2>9, <3>2, <4>1, <4>3, <4>4 DEF Pending, AtWork, Authenticating, Registering
      <4>6. age <= slack
        BY <2>4, <2>5, <4>1, <4>5
      <4>7. client' = client
        BY <1>3, <3>2
      <4>8. /\ client.at = "auth" => Authenticating(new)
            /\ client.at = "register" => Registering(new)
        BY <2>7, <4>1 DEF Authenticating, Registering
      <4> QED
        BY <2>7, <3>2, <4>1, <4>6, <4>7, <4>8 DEF Punctual
    <3>3. CASE client.at = "run"
      <4>1. c.good /\ Beating(client, c)
        BY <3>1, <3>3 DEF Punctual
      <4>2. client'.tick = client.tick + 1 /\ client'.tick <= Interval /\ client.tick \in Nat
        <5>1. client.tick \in Nat /\ client.tick < Interval
          BY <1>1, <1>2, <3>3 DEF ClientType
        <5> QED
          BY <1>3, <3>3, <5>1, Times
      <4>3. c.toSrv # <<>> => Pending(c)
        BY <2>9, <4>1 DEF Beating, Pending, AtWork
      <4>4. c.toSrv = <<>> => age <= client'.tick + Delay
        <5>1. c.toSrv = <<>> => c.age <= client.tick + Delay
          BY <4>1 DEF Beating
        <5> QED
          BY <2>4, <2>5, <4>2, <5>1, Times
      <4>5. c.toSrv # <<>> => age <= Interval + Delay + slack
        <5>1. c.toSrv # <<>> => c.age <= Interval + Delay + c.slack
          BY <4>1 DEF Beating
        <5> QED
          BY <2>4, <2>5, <4>3, <5>1, Times
      <4>6. Beating(client', new)
        BY <2>7, <4>1, <4>2, <4>4, <4>5 DEF Beating
      <4> QED
        BY <1>3, <2>7, <3>3, <4>1, <4>6 DEF Punctual
    <3> QED
      BY <3>1, <3>2, <3>3 DEF Punctual
  <2>10. client.conn = k => Belongs(client', new)
    <3>1. ASSUME client.conn = k PROVE client'.at = client.at
      BY <1>2, <1>3, <3>1, NobodyAssumption
    <3> QED
      BY <2>1, <2>7, <2>9, <3>1 DEF Belongs
  <2>11. Spares(k)
    BY <2>2, <2>7 DEF Spares, c
  <2> QED
    BY <1>4, <2>2, <2>8, <2>10, <2>11
<1> QED
  BY <1>4, <1>5 DEF HInv, Spared

-----------------------------------------------------------------------------
LEMMA StepSpares ==
    ASSUME IInv, HInv, [Next]_vars
    PROVE  HInv' /\ Spared
<1>1. ASSUME NEW k \in Conns,
             \/ ClientReadFails(k) \/ Killed(k) \/ GivesUp(k)
             \/ PingFails(k) \/ Terminated(k)
      PROVE  HInv' /\ Spared
  BY <1>1, QuitSpares DEF ClientReadFails, Killed, GivesUp, PingFails, Terminated
<1>2. ASSUME NEW k \in Conns, ClientNext(k) \/ ClientPing(k) PROVE HInv' /\ Spared
  BY <1>1, <1>2, ConnectSpares, ClientReadsSpares, ClientPingSpares DEF ClientNext
<1>3. ASSUME NEW k \in Conns, HandleAuthPayload(k) PROVE HInv' /\ Spared
  BY <1>3, LetInSpares, TurnedAwaySpares DEF HandleAuthPayload
<1>4. ASSUME NEW k \in Conns, HandlerNext(k) \/ CutNoticed(k) PROVE HInv' /\ Spared
  BY <1>3, <1>4, AddClientSpares, HandlePingSpares, HandleNewProxySpares,
     ProxyStartedSpares, HandlerLeavesSpares DEF HandlerNext
<1>5. ASSUME NEW k \in Conns, Faults(k) PROVE HInv' /\ Spared
  BY <1>1, <1>5, StrangerSpares, CutSpares, RequestWorkConnSpares DEF Faults
<1>6. ASSUME UNCHANGED <<client, conn>> PROVE HInv' /\ Spared
  BY <1>6, Quiescent
<1>7. CASE (\E a \in Addrs : WebCloses(a)) \/ WebReturns \/ Shutdown \/ ShutdownEnds \/ Exited
  BY <1>6, <1>7 DEF WebCloses, WebReturns, Shutdown, ShutdownEnds, Exited, vars
<1>8. CASE UNCHANGED vars
  BY <1>6, <1>8 DEF vars
<1>9. ASSUME NEW k \in Conns, CloseNext(k) \/ Heartbeat(k) \/ HeartbeatEnds(k) \/ Recycle(k)
      PROVE  HInv' /\ Spared
  BY <1>9, CloseSpares, HeartbeatSpares, HeartbeatEndsSpares, RecycleSpares
<1>10. CASE Tick
  BY <1>10, TickSpares
<1> QED
  BY <1>1, <1>2, <1>4, <1>5, <1>7, <1>8, <1>9, <1>10 DEF Next

LEMMA Watching == Spec => [](IInv /\ HInv)
<1>1. Init => IInv /\ HInv
  BY InitIInv, InitHInv
<1>2. IInv /\ HInv /\ [Next]_vars => (IInv /\ HInv)'
  BY NextKeeps, StepSpares
<1> QED
  BY <1>1, <1>2, PTL DEF Spec

(* heartbeat (control.go) and heartbeat (client.go): a session whose       *)
(* client is there is never taken for dead, neither while the client       *)
(* registers its proxies, however many, nor when its Pings are late.       *)
THEOREM LivingSpared == Spec => LiveClientKept
<1> DEFINE Kept == \A k \in Conns : conn[k].beat = "on" /\ conn'[k].beat = "close"
                                      => ~(client.conn = k /\ conn[k].path = "up")
<1>1. ASSUME IInv, HInv, [Next]_vars PROVE Kept
  BY <1>1, StepSpares DEF Spared, Spares
<1>2. UNCHANGED vars => Kept
  BY DEF vars
<1> QED
  BY <1>1, <1>2, Watching, PTL DEF Spec, LiveClientKept

-----------------------------------------------------------------------------
(* Backlogs and times: what TypeOK bounds.                                 *)

(* A session is only old when its heartbeat has had time to see it. *)
Aged(c) ==
    /\ c.tick <= Interval
    /\ c.beat = "off" => c.hand \notin {"loop", "start"} /\ c.age <= Delay
    /\ c.beat = "close" => c.age <= Timeout + Interval
    /\ c.beat = "end" \/ c.hand = "done" => c.closed # "open"

(* A peer with the token is the client, for as long as it is connected.    *)
(* It has one answer to come at most, and while it runs a second Ping is   *)
(* only sent when the first has waited for an interval.                    *)
Queued(cl, k, c) ==
    /\ c.toSrv \in Seq(Requests) /\ Len(c.toSrv) <= 3 /\ Len(c.toCli) <= 3
    /\ c.good /\ c.path = "up" => cl.conn = k
    /\ cl.conn = k /\ c.path = "up" /\ c.closed = "open" =>
        /\ cl.at = "register" /\ (c.hand = "start" \/ c.toSrv # <<>>) => Len(c.toCli) <= 2
        /\ cl.at = "run" => /\ Len(c.toSrv) <= 2
                            /\ Len(c.toSrv) = 1 => cl.tick <= c.slack
                            /\ Len(c.toSrv) = 2 => cl.tick + Interval <= c.slack

Limits(cl) ==
    /\ cl.tick <= Interval
    /\ cl.reg <= Proxies /\ (cl.at # "run" => cl.reg < Proxies)

QInv ==
    /\ Limits(client)
    /\ \A k \in Conns : Aged(conn[k]) /\ Queued(client, k, conn[k])

OthersTyped ==
    /\ web \in Conns \cup {None}
    /\ shut \in {"no", "closing", "done"}
    /\ faults \in 0..MaxFaults

LEMMA Counts ==
    /\ Proxies \in Nat /\ Proxies > 0 /\ MaxFaults \in Nat /\ 1 \in Ports
    /\ Auth \in Requests /\ Ping \in Requests /\ \A p \in Ports : NewProxy(p) \in Requests
BY CountsAssumption DEF Ports, Requests

LEMMA Shorter ==
    ASSUME NEW S, NEW q \in Seq(S)
    PROVE  /\ Len(q) \in Nat /\ (q = <<>> <=> Len(q) = 0)
           /\ q # <<>> => Tail(q) \in Seq(S) /\ Len(Tail(q)) = Len(q) - 1
           /\ \A e \in S : Append(q, e) \in Seq(S) /\ Len(Append(q, e)) = Len(q) + 1
<1>1. q = <<>> <=> Len(q) = 0
  BY Empty
<1>2. Len(q) \in Nat
  OBVIOUS
<1>3. q # <<>> => Tail(q) \in Seq(S) /\ Len(Tail(q)) = Len(q) - 1
  OBVIOUS
<1>4. \A e \in S : Append(q, e) \in Seq(S) /\ Len(Append(q, e)) = Len(q) + 1
  OBVIOUS
<1> QED
  BY <1>1, <1>2, <1>3, <1>4

LEMMA Now ==
    ASSUME IInv, HInv, QInv, NEW k \in Conns
    PROVE  /\ conn[k] \in ConnType /\ client \in ClientType
           /\ Admitted(conn[k]) /\ Watched(conn[k]) /\ Aged(conn[k]) /\ Limits(client)
           /\ Queued(client, k, conn[k])
           /\ client.conn = k => Belongs(client, conn[k])
BY DEF IInv, Typed, HInv, QInv

(* A step of one connection and of the client, if the connection is its    *)
(* own, before or after.                                                   *)
LEMMA StepBounds ==
    ASSUME IInv, QInv, NEW k \in Conns, NEW new, NEW cl,
           conn' = [conn EXCEPT ![k] = new], client' = cl,
           Aged(new), Queued(cl, k, new), Limits(cl),
           \/ cl = client
           \/ client.conn \in {k, None} /\ cl.conn \in {k, None}
    PROVE  QInv'
<1>1. \A j \in Conns : conn'[j] = IF j = k THEN new ELSE conn[j]
  BY DEF IInv, Typed
<1>2. \A j \in Conns : Aged(conn'[j])
  BY <1>1 DEF QInv
<1>3. ASSUME NEW j \in Conns PROVE Queued(cl, j, conn'[j])
  <2>1. CASE j = k
    BY <1>1, <2>1
  <2>2. CASE j # k /\ cl = client
    BY <1>1, <2>2 DEF QInv
  <2>3. CASE j # k /\ cl # client
    <3>1. client.conn # j /\ cl.conn # j /\ conn'[j] = conn[j]
      BY <1>1, <2>3, NobodyAssumption
    <3>2. Queued(client, j, conn[j])
      BY DEF QInv
    <3> QED
      BY <3>1, <3>2 DEF Queued
  <2> QED
    BY <2>1, <2>2, <2>3
<1> QED
  BY <1>2, <1>3 DEF QInv, Limits

LEMMA SessionStepBounds ==
    ASSUME IInv, QInv, NEW k \in Conns, NEW new,
           conn' = [conn EXCEPT ![k] = new], client' = client,
           Aged(new), Queued(client, k, new)
    PROVE  QInv'
<1>1. Limits(client)
  BY DEF QInv
<1> QED
  BY <1>1, StepBounds

LEMMA AgedKept ==
    ASSUME NEW c, NEW new, Aged(c), new.tick = c.tick, new.beat = c.beat,
           new.age = c.age \/ new.age = 0,
           new.closed = c.closed \/ new.closed # "open",
           \/ new.hand = c.hand
           \/ new.hand \notin {"loop", "start", "done"}
           \/ new.hand \in {"loop", "start"} /\ c.hand \in {"loop", "start"}
           \/ new.hand = "done" /\ c.closed # "open"
    PROVE  Aged(new)
BY Times DEF Aged

(* Nothing is sent: at most a message is taken, or all of them are lost. *)
Part(p, q) == p = q \/ p = <<>> \/ (q # <<>> /\ p = Tail(q))

LEMMA PartIs ==
    ASSUME NEW S, NEW q \in Seq(S), NEW p, Part(p, q)
    PROVE  /\ p \in Seq(S) /\ Len(p) \in Nat /\ Len(q) \in Nat /\ Len(p) <= Len(q)
           /\ p # <<>> => q # <<>>
           /\ p = q \/ Len(p) = 0 \/ Len(q) = Len(p) + 1
<1>1. <<>> \in Seq(S) /\ Len(<<>>) = 0
  OBVIOUS
<1>2. /\ Len(q) \in Nat /\ (q = <<>> <=> Len(q) = 0)
      /\ q # <<>> => Tail(q) \in Seq(S) /\ Len(Tail(q)) = Len(q) - 1
  BY Shorter
<1>3. CASE p = q
  BY <1>2, <1>3
<1>4. CASE p = <<>>
  BY <1>1, <1>2, <1>4
<1>5. CASE q # <<>> /\ p = Tail(q)
  BY <1>2, <1>5
<1> QED
  BY <1>3, <1>4, <1>5 DEF Part

LEMMA PingsLeft ==
    ASSUME NEW m \in Nat, NEW n \in Nat, NEW t \in Nat, NEW s \in Nat,
           m <= 2, m = 1 => t <= s, m = 2 => t + Interval <= s,
           n = m \/ n = 0 \/ m = n + 1
    PROVE  n <= 2 /\ (n = 1 => t <= s) /\ (n = 2 => t + Interval <= s)
BY Times

LEMMA Shrinks ==
    ASSUME NEW k, NEW cl, NEW was, NEW c \in ConnType, Queued(was, k, c), NEW new,
           was.tick \in Nat,
           new.good = c.good, Part(new.toSrv, c.toSrv), Part(new.toCli, c.toCli),
           new.path # "up" \/ (new.path = c.path /\ cl = was),
           \/ new.path # "up" \/ new.closed # "open"
           \/ new.closed = c.closed /\ (new.slack = c.slack \/ new.toSrv = <<>>),
           new.hand = "start" => c.hand = "start" \/ c.toSrv # <<>>
    PROVE  Queued(cl, k, new)
<1>1. /\ c.toSrv \in Seq(Requests) /\ c.toCli \in Seq(Answers) /\ c.slack \in Nat
      /\ Len(c.toSrv) <= 3 /\ Len(c.toCli) <= 3
  BY DEF Queued, ConnType
<1>2. /\ new.toSrv \in Seq(Requests) /\ Len(new.toSrv) \in Nat /\ Len(c.toSrv) \in Nat
      /\ Len(new.toSrv) <= Len(c.toSrv)
      /\ new.toSrv # <<>> => c.toSrv # <<>>
      /\ new.toSrv = c.toSrv \/ Len(new.toSrv) = 0 \/ Len(c.toSrv) = Len(new.toSrv) + 1
  BY <1>1, PartIs
<1>3. /\ Len(new.toCli) \in Nat /\ Len(c.toCli) \in Nat /\ Len(new.toCli) <= Len(c.toCli)
  BY <1>1, PartIs
<1>4. new.good /\ new.path = "up" => cl.conn = k
  BY DEF Queued
<1>5. ASSUME cl.conn = k, new.path = "up", new.closed = "open"
      PROVE  /\ cl.at = "register" /\ (new.hand = "start" \/ new.toSrv # <<>>)
                  => Len(new.toCli) <= 2
             /\ cl.at = "run" => /\ Len(new.toSrv) <= 2
                                 /\ Len(new.toSrv) = 1 => cl.tick <= new.slack
                                 /\ Len(new.toSrv) = 2 => cl.tick + Interval <= new.slack
  <2>1. cl = was /\ (new.slack = c.slack \/ new.toSrv = <<>>) /\ c.path = "up" /\ c.closed = "open"
    BY <1>5
  <2>2. cl.at = "register" /\ (new.hand = "start" \/ new.toSrv # <<>>) => Len(new.toCli) <= 2
    <3>1. cl.at = "register" /\ (c.hand = "start" \/ c.toSrv # <<>>) => Len(c.toCli) <= 2
      BY <1>5, <2>1 DEF Queued
    <3> QED
      BY <1>2, <1>3, <3>1
  <2>3. ASSUME cl.at = "run"
        PROVE  /\ Len(new.toSrv) <= 2
               /\ Len(new.toSrv) = 1 => cl.tick <= new.slack
               /\ Len(new.toSrv) = 2 => cl.tick + Interval <= new.slack
    <3>1. /\ Len(c.toSrv) <= 2
          /\ Len(c.toSrv) = 1 => cl.tick <= c.slack
          /\ Len(c.toSrv) = 2 => cl.tick + Interval <= c.slack
      BY <1>5, <2>1, <2>3 DEF Queued
    <3>2. cl.tick \in Nat
      BY <2>1
    <3>3. c.slack \in Nat /\ Len(c.toSrv) \in Nat /\ Len(new.toSrv) \in Nat
      BY <1>1, <1>2
    <3>4. Len(new.toSrv) = Len(c.toSrv) \/ Len(new.toSrv) = 0 \/ Len(c.toSrv) = Len(new.toSrv) + 1
      BY <1>2
    <3> DEFINE m == Len(c.toSrv)
               n == Len(new.toSrv)
    <3>5. n <= 2 /\ (n = 1 => cl.tick <= c.slack) /\ (n = 2 => cl.tick + Interval <= c.slack)
      <4>1. m \in Nat /\ n \in Nat /\ (n = m \/ n = 0 \/ m = n + 1)
        BY <3>3, <3>4
      <4>2. m <= 2 /\ (m = 1 => cl.tick <= c.slack) /\ (m = 2 => cl.tick + Interval <= c.slack)
        BY <3>1
      <4> HIDE DEF m, n
      <4> QED
        BY <3>2, <3>3, <4>1, <4>2, PingsLeft
    <3>6. CASE new.slack = c.slack
      BY <3>5, <3>6
    <3>7. CASE new.toSrv = <<>>
      <4>1. Len(new.toSrv) = 0
        BY <1>2, <3>7, Shorter
      <4> QED
        BY <4>1
    <3> QED
      BY <2>1, <3>6, <3>7
  <2> QED
    BY <2>2, <2>3
<1> QED
  BY <1>1, <1>2, <1>3, <1>4, <1>5 DEF Queued

(* An answer is sent. *)
LEMMA Grows ==
    ASSUME NEW k, NEW cl, NEW c \in ConnType, Queued(cl, k, c), NEW new, NEW a \in Answers,
           cl.tick \in Nat,
           new.good = c.good, new.path = c.path, new.closed = c.closed, new.slack = c.slack,
           Part(new.toSrv, c.toSrv),
           new.toCli = IF c.path = "up" /\ c.closed = "open" THEN Append(c.toCli, a) ELSE c.toCli,
           c.path = "up" /\ c.closed = "open" => Len(c.toCli) <= 2,
           /\ cl.conn = k /\ c.path = "up" /\ c.closed = "open" /\ cl.at = "register"
           /\ new.hand = "start" \/ new.toSrv # <<>>
           => Len(c.toCli) <= 1
    PROVE  Queued(cl, k, new)
<1> DEFINE d == [good |-> c.good, path |-> c.path, closed |-> c.closed, slack |-> c.slack,
                 toSrv |-> new.toSrv, toCli |-> <<>>, hand |-> "none"]
<1>1. Queued(cl, k, d)
  <2>1. Part(<<>>, c.toCli)
    BY DEF Part
  <2> QED
    BY <2>1, Shrinks
<1>2. c.toCli \in Seq(Answers) /\ Len(c.toCli) <= 3
  BY DEF ConnType, Queued
<1>3. Len(c.toCli) \in Nat /\ Len(Append(c.toCli, a)) = Len(c.toCli) + 1
  BY <1>2, Shorter
<1>4. /\ Len(new.toCli) <= 3
      /\ c.path = "up" /\ c.closed = "open" => Len(new.toCli) = Len(c.toCli) + 1
  BY <1>2, <1>3
<1> QED
  BY <1>1, <1>3, <1>4 DEF Queued

-----------------------------------------------------------------------------
(* The handler. *)

(* A message is taken, and the wait is over if it was the last one. *)
LEMMA TakesBounded ==
    ASSUME IInv, HInv, QInv, NEW k \in Conns, NEW new, conn[k].toSrv # <<>>,
           conn' = [conn EXCEPT ![k] = new], client' = client,
           new.hand = "added" \/ new.hand = conn[k].hand,
           new.age = 0, new.toSrv = Tail(conn[k].toSrv), new.toCli = conn[k].toCli,
           new.path = conn[k].path, new.good = conn[k].good, new.closed = conn[k].closed,
           new.beat = conn[k].beat, new.tick = conn[k].tick,
           new.slack = conn[k].slack \/ new.toSrv = <<>>
    PROVE  QInv'
<1>1. /\ conn[k] \in ConnType /\ client \in ClientType
      /\ Aged(conn[k]) /\ Queued(client, k, conn[k])
  BY Now
<1>2. Aged(new)
  BY <1>1, AgedKept
<1>3. /\ Part(new.toSrv, conn[k].toSrv) /\ Part(new.toCli, conn[k].toCli)
      /\ client.tick \in Nat
  BY <1>1 DEF Part, ClientType
<1>4. Queued(client, k, new)
  BY <1>1, <1>3, Shrinks
<1> QED
  BY <1>2, <1>4, SessionStepBounds

LEMMA AddClientBounded ==
    ASSUME IInv, HInv, QInv, NEW k \in Conns, AddClient(k)
    PROVE  QInv'
<1> DEFINE new == [conn[k] EXCEPT !.hand = "added", !.age = 0, !.toSrv = Tail(@)]
<1>1. /\ conn[k] \in ConnType /\ conn[k].toSrv # <<>>
      /\ client' = client /\ conn' = [conn EXCEPT ![k] = new]
  BY Now DEF AddClient
<1>2. /\ new.hand = "added" /\ new.age = 0 /\ new.toSrv = Tail(conn[k].toSrv)
      /\ new.path = conn[k].path /\ new.good = conn[k].good /\ new.toCli = conn[k].toCli
      /\ new.closed = conn[k].closed /\ new.beat = conn[k].beat /\ new.tick = conn[k].tick
      /\ new.slack = conn[k].slack
  BY <1>1 DEF ConnType
<1> HIDE DEF new
<1> QED
  BY <1>1, <1>2, TakesBounded

LEMMA HandlePingBounded ==
    ASSUME IInv, HInv, QInv, NEW k \in Conns, HandlePing(k)
    PROVE  QInv'
<1> DEFINE slack == IF Len(conn[k].toSrv) = 1 THEN 0 ELSE conn[k].slack
           new == [conn[k] EXCEPT !.age = 0, !.toSrv = Tail(@), !.slack = slack]
<1>1. /\ conn[k] \in ConnType /\ conn[k].toSrv # <<>>
      /\ client' = client /\ conn' = [conn EXCEPT ![k] = new]
  BY Now DEF HandlePing, Receives
<1>2. slack = conn[k].slack \/ Tail(conn[k].toSrv) = <<>>
  <2>1. conn[k].toSrv \in Seq(Messages)
    BY <1>1 DEF ConnType
  <2> QED
    BY <1>1, <2>1, Taken
<1> HIDE DEF slack
<1>3. /\ new.hand = conn[k].hand /\ new.age = 0 /\ new.toSrv = Tail(conn[k].toSrv)
      /\ new.path = conn[k].path /\ new.good = conn[k].good /\ new.toCli = conn[k].toCli
      /\ new.closed = conn[k].closed /\ new.beat = conn[k].beat /\ new.tick = conn[k].tick
      /\ new.slack = slack
  BY <1>1 DEF ConnType
<1> HIDE DEF new
<1> QED
  BY <1>1, <1>2, <1>3, TakesBounded

LEMMA HandBounded ==
    ASSUME IInv, HInv, QInv, NEW k \in Conns, NEW to \in {"exit", "close", "done"},
           conn' = [conn EXCEPT ![k].hand = to], client' = client,
           to = "done" => conn[k].closed # "open"
    PROVE  QInv'
<1> DEFINE c == conn[k]
           new == [c EXCEPT !.hand = to]
<1>1. c \in ConnType /\ client \in ClientType /\ Aged(c) /\ Queued(client, k, c)
  BY Now
<1>2. conn' = [conn EXCEPT ![k] = new] /\ (to = "done" => c.closed # "open")
  BY DEF IInv, Typed
<1> HIDE DEF c
<1>3. /\ new.hand = to /\ new.age = c.age /\ new.toSrv = c.toSrv
      /\ new.path = c.path /\ new.good = c.good /\ new.toCli = c.toCli /\ new.closed = c.closed
      /\ new.beat = c.beat /\ new.tick = c.tick /\ new.slack = c.slack
  BY <1>1 DEF ConnType
<1> HIDE DEF new
<1>4. Aged(new)
  BY <1>1, <1>2, <1>3, AgedKept
<1>5. Part(new.toSrv, c.toSrv) /\ Part(new.toCli, c.toCli) /\ client.tick \in Nat
  BY <1>1, <1>3 DEF Part, ClientType
<1>6. Queued(client, k, new)
  BY <1>1, <1>3, <1>5, Shrinks
<1> QED
  BY <1>2, <1>4, <1>6, SessionStepBounds

LEMMA HandlerLeavesBounded ==
    ASSUME IInv, HInv, QInv, NEW k \in Conns,
           LoopEnds(k) \/ CutNoticed(k) \/ RemoveClient(k) \/ HandlerEnds(k)
    PROVE  QInv'
<1>1. CASE LoopEnds(k) \/ CutNoticed(k)
  BY <1>1, HandBounded DEF LoopEnds, CutNoticed, LoopFails
<1>2. CASE RemoveClient(k)
  BY <1>2, HandBounded DEF RemoveClient
<1>3. CASE HandlerEnds(k)
  BY <1>3, HandBounded DEF HandlerEnds
<1> QED
  BY <1>1, <1>2, <1>3

(* The answer to a login is the first message of the connection. *)
LEMMA LoginBounded ==
    ASSUME IInv, HInv, QInv, NEW k \in Conns, HandleAuthPayload(k)
    PROVE  QInv'
<1> DEFINE c == conn[k]
           in == LetIn(k)
           a == IF in THEN "AuthOK" ELSE "AuthBad"
           q == IF c.path = "up" /\ c.closed = "open" THEN Append(c.toCli, a) ELSE c.toCli
           told == [c EXCEPT !.toCli = q]
           let == [told EXCEPT !.hand = "loop", !.beat = "on", !.tick = 0]
           away == [told EXCEPT !.hand = "exit"]
           new == IF in THEN let ELSE away
<1>1. /\ c \in ConnType /\ client \in ClientType /\ Aged(c) /\ Queued(client, k, c)
      /\ Watched(c) /\ (client.conn = k => Belongs(client, c))
  BY Now
<1>2. a \in Answers
  BY DEF Answers
<1>3. q \in Seq(Answers) /\ ToClient(c, a) = told
  BY <1>1, <1>2, ToClientIs
<1>4. c.hand = "added" /\ client' = client /\ conn' = [conn EXCEPT ![k] = new]
      /\ (in => c.closed = "open")
  BY <1>3 DEF HandleAuthPayload, LetIn, TurnedAway
<1>5. c.toCli = <<>> /\ c.toCli \in Seq(Answers)
  BY <1>1, <1>4 DEF Watched, ConnType
<1> HIDE DEF c, in, a
<1>6. /\ \A e \in {let, away} :
            /\ e.path = c.path /\ e.good = c.good /\ e.toSrv = c.toSrv /\ e.toCli = q
            /\ e.closed = c.closed /\ e.slack = c.slack /\ e.age = c.age
      /\ let.hand = "loop" /\ let.beat = "on" /\ let.tick = 0
      /\ away.hand = "exit" /\ away.beat = c.beat /\ away.tick = c.tick
  BY <1>1 DEF ConnType
<1>7. q = IF c.path = "up" /\ c.closed = "open" THEN Append(c.toCli, a) ELSE c.toCli
  OBVIOUS
<1>8. (new = let /\ c.closed = "open") \/ new = away
  BY <1>4
<1> HIDE DEF q, told, let, away, new
<1>9. Aged(new)
  <2>1. c.closed = "open" => Aged(let)
    BY <1>6, Times DEF Aged
  <2>2. Aged(away)
    BY <1>1, <1>6, AgedKept
  <2> QED
    BY <1>8, <2>1, <2>2
<1>10. /\ new.path = c.path /\ new.good = c.good /\ new.toSrv = c.toSrv /\ new.toCli = q
       /\ new.closed = c.closed /\ new.slack = c.slack
  BY <1>6, <1>8
<1>11. Len(c.toCli) <= 1
  BY <1>5, Shorter
<1>12. Part(new.toSrv, c.toSrv) /\ client.tick \in Nat /\ Len(c.toCli) <= 2
  BY <1>1, <1>10, <1>11, <1>5, Shorter DEF Part, ClientType
<1>13. Queued(client, k, new)
  BY <1>1, <1>2, <1>7, <1>10, <1>11, <1>12, Grows
<1> QED
  BY <1>4, <1>9, <1>13, SessionStepBounds

(* While a request is under way, or its proxy starts, the client waits for *)
(* one answer.                                                             *)
LEMMA OneRequest ==
    ASSUME IInv, HInv, QInv, NEW k \in Conns,
           \/ conn[k].hand = "start"
           \/ /\ conn[k].hand = "loop" /\ conn[k].toSrv # <<>> /\ Head(conn[k].toSrv) # Ping
    PROVE  /\ conn[k].path = "up" /\ conn[k].closed = "open" => Len(conn[k].toCli) <= 2
           /\ client.conn = k /\ conn[k].path = "up" /\ conn[k].closed = "open" =>
                \/ conn[k].toSrv = <<>>
                \/ conn[k].toSrv # <<>> /\ Tail(conn[k].toSrv) = <<>>
<1> DEFINE c == conn[k]
<1>1. /\ c \in ConnType /\ Admitted(c) /\ Queued(client, k, c)
      /\ client.conn = k => Belongs(client, c)
  BY Now
<1>2. c.hand = "start" \/ (c.hand = "loop" /\ c.toSrv # <<>> /\ Head(c.toSrv) # Ping)
  OBVIOUS
<1> HIDE DEF c
<1>3. c.toSrv \in Seq(Messages)
  BY <1>1 DEF ConnType
<1>4. c.toSrv # <<>> /\ Head(c.toSrv) # Ping => ~AllPings(c.toSrv)
  BY <1>3, Taken
<1>5. ASSUME c.path = "up", c.closed = "open"
      PROVE  /\ Len(c.toCli) <= 2
             /\ c.toSrv = <<>> \/ (c.toSrv # <<>> /\ Tail(c.toSrv) = <<>>)
  <2>1. client.conn = k
    BY <1>1, <1>2, <1>5 DEF Admitted, Queued
  <2>2. Punctual(client, c)
    BY <1>1, <1>5, <2>1 DEF Belongs
  <2>3. client.at = "register" /\ Registering(c)
    BY <1>2, <1>4, <2>2 DEF Punctual, Authenticating, Beating
  <2>4. Len(c.toCli) <= 2
    BY <1>1, <1>2, <1>5, <2>1, <2>3 DEF Queued
  <2>5. c.toSrv = <<>> \/ Len(c.toSrv) = 1
    BY <2>3 DEF Registering
  <2>6. Len(c.toSrv) = 1 => c.toSrv # <<>> /\ Tail(c.toSrv) = <<>>
    BY <1>3, NotEmpty, Taken
  <2> QED
    BY <2>4, <2>5, <2>6
<1> QED
  BY <1>5 DEF c

LEMMA HandleNewProxyBounded ==
    ASSUME IInv, HInv, QInv, NEW k \in Conns, NEW p \in Ports, HandleNewProxy(k, p)
    PROVE  QInv'
<1> DEFINE c == conn[k]
           d == [c EXCEPT !.toSrv = Tail(@)]
           q == IF d.path = "up" /\ d.closed = "open" THEN Append(d.toCli, "ProxyBad") ELSE d.toCli
           started == [d EXCEPT !.hand = "start"]
           refused == [d EXCEPT !.toCli = q]
<1>1. c \in ConnType /\ client \in ClientType /\ Aged(c) /\ Queued(client, k, c)
  BY Now
<1>2. /\ c.hand = "loop" /\ c.toSrv # <<>> /\ Head(c.toSrv) = NewProxy(p)
      /\ client' = client
  BY DEF HandleNewProxy, Receives
<1>3. d \in ConnType
  BY TakenTyped DEF HandleNewProxy
<1>4. "ProxyBad" \in Answers /\ NewProxy(p) # Ping
  BY DEF Answers, NewProxy, Ping
<1>5. q \in Seq(Answers) /\ ToClient(d, "ProxyBad") = refused
  BY <1>3, <1>4, ToClientIs
<1>6. conn' = [conn EXCEPT ![k] = started] \/ conn' = [conn EXCEPT ![k] = refused]
  BY <1>5 DEF HandleNewProxy
<1>7. /\ c.path = "up" /\ c.closed = "open" => Len(c.toCli) <= 2
      /\ client.conn = k /\ c.path = "up" /\ c.closed = "open" => Tail(c.toSrv) = <<>>
  BY <1>2, <1>4, OneRequest
<1> HIDE DEF c
<1>8. /\ d.toSrv = Tail(c.toSrv) /\ d.hand = c.hand /\ d.toCli = c.toCli
      /\ d.path = c.path /\ d.good = c.good /\ d.closed = c.closed /\ d.age = c.age
      /\ d.beat = c.beat /\ d.tick = c.tick /\ d.slack = c.slack
  BY <1>1 DEF ConnType
<1>9. q = IF c.path = "up" /\ c.closed = "open" THEN Append(c.toCli, "ProxyBad") ELSE c.toCli
  BY <1>8
<1> HIDE DEF d, q
<1>10. /\ started.hand = "start" /\ started.toCli = c.toCli
       /\ refused.hand = "loop" /\ refused.toCli = q
       /\ \A e \in {started, refused} :
            /\ e.path = c.path /\ e.good = c.good /\ e.closed = c.closed /\ e.age = c.age
            /\ e.beat = c.beat /\ e.tick = c.tick /\ e.slack = c.slack
            /\ e.toSrv = Tail(c.toSrv)
  BY <1>2, <1>3, <1>8 DEF ConnType
<1> HIDE DEF started, refused
<1>11. Aged(started) /\ Aged(refused)
  BY <1>1, <1>2, <1>10, AgedKept
<1>12. /\ Part(started.toSrv, c.toSrv) /\ Part(refused.toSrv, c.toSrv)
       /\ Part(started.toCli, c.toCli) /\ client.tick \in Nat
  BY <1>1, <1>2, <1>10 DEF Part, ClientType
<1>13. Queued(client, k, started)
  BY <1>1, <1>2, <1>10, <1>12, Shrinks
<1>14. Queued(client, k, refused)
  <2>1. /\ client.conn = k /\ c.path = "up" /\ c.closed = "open"
        => refused.hand # "start" /\ refused.toSrv = <<>>
    BY <1>7, <1>10
  <2> QED
    BY <1>1, <1>4, <1>7, <1>9, <1>10, <1>12, <2>1, Grows
<1> QED
  BY <1>2, <1>6, <1>11, <1>13, <1>14, SessionStepBounds

LEMMA ProxyStartedBounded ==
    ASSUME IInv, HInv, QInv, NEW k \in Conns, ProxyStarted(k)
    PROVE  QInv'
<1> DEFINE c == conn[k]
           p == CHOOSE r \in Ports : owner[r] = k /\ r \notin conn[k].mine
           q == IF c.path = "up" /\ c.closed = "open" THEN Append(c.toCli, "ProxyOK") ELSE c.toCli
           told == [c EXCEPT !.toCli = q]
           new == [told EXCEPT !.hand = "loop", !.mine = @ \cup {p}]
<1>1. /\ c \in ConnType /\ client \in ClientType /\ Aged(c) /\ Queued(client, k, c)
      /\ client.conn = k => Belongs(client, c)
  BY Now
<1>2. "ProxyOK" \in Answers
  BY DEF Answers
<1>3. q \in Seq(Answers) /\ ToClient(c, "ProxyOK") = told
  BY <1>1, <1>2, ToClientIs
<1>4. c.hand = "start" /\ client' = client /\ conn' = [conn EXCEPT ![k] = new]
  BY <1>3 DEF ProxyStarted
<1>5. c.path = "up" /\ c.closed = "open" => Len(c.toCli) <= 2
  BY <1>4, OneRequest
<1> HIDE DEF c, p
<1>6. /\ new.hand = "loop" /\ new.beat = c.beat /\ new.tick = c.tick /\ new.toCli = q
      /\ new.path = c.path /\ new.good = c.good /\ new.toSrv = c.toSrv /\ new.closed = c.closed
      /\ new.age = c.age /\ new.slack = c.slack
  BY <1>1 DEF ConnType
<1>7. q = IF c.path = "up" /\ c.closed = "open" THEN Append(c.toCli, "ProxyOK") ELSE c.toCli
  OBVIOUS
<1> HIDE DEF told, new, q
<1>8. Aged(new)
  BY <1>1, <1>4, <1>6, AgedKept
<1>9. client.conn = k /\ c.path = "up" /\ c.closed = "open" => c.toSrv = <<>>
  BY <1>1, <1>4 DEF Belongs, Punctual, Authenticating, Registering, Beating
<1>10. Part(new.toSrv, c.toSrv) /\ client.tick \in Nat
  BY <1>1, <1>6 DEF Part, ClientType
<1>11. Queued(client, k, new)
  BY <1>1, <1>2, <1>5, <1>6, <1>7, <1>9, <1>10, Grows
<1> QED
  BY <1>4, <1>8, <1>11, SessionStepBounds

LEMMA RequestWorkConnBounded ==
    ASSUME IInv, HInv, QInv, NEW k \in Conns, RequestWorkConn(k)
    PROVE  QInv'
<1> DEFINE c == conn[k]
           q == IF c.path = "up" /\ c.closed = "open" THEN Append(c.toCli, "WorkConn") ELSE c.toCli
           new == [c EXCEPT !.toCli = q]
<1>1. c \in ConnType /\ client \in ClientType /\ Aged(c) /\ Queued(client, k, c)
  BY Now
<1>2. "WorkConn" \in Answers
  BY DEF Answers
<1>3. q \in Seq(Answers) /\ ToClient(c, "WorkConn") = new
  BY <1>1, <1>2, ToClientIs
<1>4. client' = client /\ conn' = [conn EXCEPT ![k] = new] /\ Len(c.toCli) < 2
  BY <1>3 DEF RequestWorkConn
<1> HIDE DEF c
<1>5. q = IF c.path = "up" /\ c.closed = "open" THEN Append(c.toCli, "WorkConn") ELSE c.toCli
  OBVIOUS
<1>6. c.toCli \in Seq(Answers) /\ Len(c.toCli) \in Nat
  BY <1>1 DEF ConnType
<1> HIDE DEF q
<1>7. /\ new.hand = c.hand /\ new.beat = c.beat /\ new.tick = c.tick /\ new.toCli = q
      /\ new.path = c.path /\ new.good = c.good /\ new.toSrv = c.toSrv /\ new.closed = c.closed
      /\ new.age = c.age /\ new.slack = c.slack
  BY <1>1 DEF ConnType
<1> HIDE DEF new
<1>8. Aged(new)
  BY <1>1, <1>7, AgedKept
<1>9. Part(new.toSrv, c.toSrv) /\ client.tick \in Nat /\ Len(c.toCli) <= 1 /\ Len(c.toCli) <= 2
  BY <1>1, <1>4, <1>6, <1>7 DEF Part, ClientType
<1>10. Queued(client, k, new)
  BY <1>1, <1>2, <1>5, <1>7, <1>9, Grows
<1> QED
  BY <1>4, <1>8, <1>10, SessionStepBounds

-----------------------------------------------------------------------------
(* Close and the heartbeat. *)

LEMMA CloseBounded ==
    ASSUME IInv, HInv, QInv, NEW k \in Conns, CloseNext(k)
    PROVE  QInv'
<1> DEFINE c == conn[k]
           shutting == [c EXCEPT !.closed = "conn", !.toSrv = <<>>, !.age = 0, !.slack = 0]
           closed == [c EXCEPT !.closed = "done", !.mine = {}]
<1>1. c \in ConnType /\ client \in ClientType /\ Aged(c) /\ Queued(client, k, c)
  BY Now
<1>2. /\ conn' = [conn EXCEPT ![k] = shutting] \/ conn' = [conn EXCEPT ![k] = closed]
      /\ client' = client
  BY DEF CloseNext, CloseConn, CloseProxies, IInv, Typed
<1> HIDE DEF c
<1>3. /\ shutting.closed = "conn" /\ shutting.age = 0 /\ shutting.toSrv = <<>>
      /\ closed.closed = "done" /\ closed.age = c.age /\ closed.toSrv = c.toSrv
      /\ \A e \in {shutting, closed} :
            /\ e.hand = c.hand /\ e.beat = c.beat /\ e.tick = c.tick
            /\ e.path = c.path /\ e.good = c.good /\ e.toCli = c.toCli
  BY <1>1 DEF ConnType
<1> HIDE DEF shutting, closed
<1>4. Aged(shutting) /\ Aged(closed)
  BY <1>1, <1>3, AgedKept
<1>5. /\ Part(shutting.toSrv, c.toSrv) /\ Part(shutting.toCli, c.toCli)
      /\ Part(closed.toSrv, c.toSrv) /\ Part(closed.toCli, c.toCli)
      /\ client.tick \in Nat
  BY <1>1, <1>3 DEF Part, ClientType
<1>6. Queued(client, k, shutting) /\ Queued(client, k, closed)
  BY <1>1, <1>3, <1>5, Shrinks
<1> QED
  BY <1>2, <1>4, <1>6, SessionStepBounds

LEMMA FreshBounded ==
    ASSUME NEW k, NEW cl, cl.conn # k, Fresh.good => Fresh.path # "up"
    PROVE  Aged(Fresh) /\ Queued(cl, k, Fresh)
<1>1. Aged(Fresh)
  BY Times DEF Aged, Fresh
<1>2. /\ Fresh.toSrv = <<>> /\ Fresh.toCli = <<>> /\ <<>> \in Seq(Requests) /\ Len(<<>>) = 0
  BY DEF Fresh
<1> QED
  BY <1>1, <1>2 DEF Queued

LEMMA RecycleBounded ==
    ASSUME IInv, HInv, QInv, NEW k \in Conns, Recycle(k)
    PROVE  QInv'
<1>1. client.conn # k /\ conn' = [conn EXCEPT ![k] = Fresh] /\ client' = client
  BY DEF Recycle, Over
<1>2. Fresh.path # "up"
  BY DEF Fresh
<1> QED
  BY <1>1, <1>2, FreshBounded, SessionStepBounds

LEMMA HeartbeatBounded ==
    ASSUME IInv, HInv, QInv, NEW k \in Conns, Heartbeat(k) \/ HeartbeatEnds(k)
    PROVE  QInv'
<1> DEFINE c == conn[k]
           after == IF c.age > Timeout THEN "close" ELSE c.beat
           beaten == [c EXCEPT !.tick = 0, !.beat = after]
           ended == [c EXCEPT !.beat = "end", !.tick = 0]
<1>1. /\ c \in ConnType /\ client \in ClientType /\ Aged(c) /\ Queued(client, k, c)
      /\ Watched(c)
  BY Now
<1>2. /\ client' = client
      /\ \/ conn' = [conn EXCEPT ![k] = beaten] /\ c.beat = "on"
         \/ /\ conn' = [conn EXCEPT ![k] = ended]
            /\ c.closed # "open"
  BY DEF Heartbeat, HeartbeatEnds, IInv, Typed
<1> HIDE DEF c
<1>3. c.age \in Nat /\ c.tick \in Nat
  BY <1>1 DEF ConnType
<1>4. after \in {"close", c.beat}
  OBVIOUS
<1> HIDE DEF after
<1>5. /\ beaten.beat = after /\ beaten.tick = 0
      /\ ended.beat = "end" /\ ended.tick = 0
      /\ \A e \in {beaten, ended} :
            /\ e.hand = c.hand /\ e.age = c.age /\ e.closed = c.closed /\ e.slack = c.slack
            /\ e.path = c.path /\ e.good = c.good /\ e.toCli = c.toCli /\ e.toSrv = c.toSrv
  BY <1>1 DEF ConnType
<1> HIDE DEF beaten, ended
<1>6. c.beat = "on" => Aged(beaten)
  <2>1. c.beat = "on" => c.age <= Timeout + Interval
    <3>1. CASE c.closed = "open"
      BY <1>1, <1>3, <3>1, Times DEF Watched
    <3>2. CASE c.closed # "open"
      BY <1>1, <3>2, Times DEF Watched
    <3> QED
      BY <3>1, <3>2
  <2> QED
    BY <1>1, <1>4, <1>5, <2>1, Times DEF Aged
<1>7. c.closed # "open" => Aged(ended)
  BY <1>1, <1>5, Times DEF Aged
<1>8. /\ Part(beaten.toSrv, c.toSrv) /\ Part(beaten.toCli, c.toCli)
      /\ Part(ended.toSrv, c.toSrv) /\ Part(ended.toCli, c.toCli)
      /\ client.tick \in Nat
  BY <1>1, <1>5 DEF Part, ClientType
<1>9. Queued(client, k, beaten) /\ Queued(client, k, ended)
  BY <1>1, <1>5, <1>8, Shrinks
<1> QED
  BY <1>2, <1>6, <1>7, <1>9, SessionStepBounds

-----------------------------------------------------------------------------
(* The client. *)

LEMMA QuitBounded ==
    ASSUME IInv, HInv, QInv, NEW k \in Conns, client.conn = k,
           NEW where \in {"down", "stopped"}, Quit(k, where)
    PROVE  QInv'
<1> DEFINE c == conn[k]
           to == IF c.path = "up" THEN "eof" ELSE c.path
           slack == IF AtWork(c) THEN c.slack ELSE 0
           new == [c EXCEPT !.path = to, !.toCli = <<>>, !.slack = slack]
           cl == [Down EXCEPT !.at = where]
<1>1. c \in ConnType /\ client \in ClientType /\ Aged(c) /\ Queued(client, k, c)
  BY Now
<1>2. client' = cl /\ conn' = [conn EXCEPT ![k] = new]
  BY DEF Quit, IInv, Typed
<1>3. to # "up"
  OBVIOUS
<1> HIDE DEF c, to, slack
<1>4. /\ new.hand = c.hand /\ new.beat = c.beat /\ new.tick = c.tick /\ new.toCli = <<>>
      /\ new.path = to /\ new.good = c.good /\ new.toSrv = c.toSrv
      /\ new.closed = c.closed /\ new.age = c.age /\ new.slack = slack
  BY <1>1 DEF ConnType
<1> HIDE DEF new
<1>5. Aged(new)
  BY <1>1, <1>4, AgedKept
<1>6. Part(new.toSrv, c.toSrv) /\ Part(new.toCli, c.toCli) /\ client.tick \in Nat
  BY <1>1, <1>4 DEF Part, ClientType
<1>7. Queued(cl, k, new)
  BY <1>1, <1>3, <1>4, <1>6, Shrinks
<1>8. Limits(cl) /\ cl.conn = None
  BY Times, Counts DEF Limits, Down
<1> HIDE DEF cl
<1> QED
  BY <1>2, <1>5, <1>7, <1>8, StepBounds

LEMMA CutBounded ==
    ASSUME IInv, HInv, QInv, NEW k \in Conns, Cut(k)
    PROVE  QInv'
<1> DEFINE c == conn[k]
           slack == IF AtWork(c) THEN c.slack ELSE 0
           new == [c EXCEPT !.path = "cut", !.toCli = <<>>, !.slack = slack]
<1>1. c \in ConnType /\ client \in ClientType /\ Aged(c) /\ Queued(client, k, c)
  BY Now
<1>2. client' = client /\ conn' = [conn EXCEPT ![k] = new]
  BY DEF Cut, IInv, Typed
<1> HIDE DEF c, slack
<1>3. /\ new.hand = c.hand /\ new.beat = c.beat /\ new.tick = c.tick /\ new.toCli = <<>>
      /\ new.path = "cut" /\ new.good = c.good /\ new.toSrv = c.toSrv
      /\ new.closed = c.closed /\ new.age = c.age /\ new.slack = slack
  BY <1>1 DEF ConnType
<1> HIDE DEF new
<1>4. Aged(new)
  BY <1>1, <1>3, AgedKept
<1>5. Part(new.toSrv, c.toSrv) /\ Part(new.toCli, c.toCli) /\ client.tick \in Nat
  BY <1>1, <1>3 DEF Part, ClientType
<1>6. Queued(client, k, new)
  BY <1>1, <1>3, <1>5, Shrinks
<1> QED
  BY <1>2, <1>4, <1>6, SessionStepBounds

LEMMA ConnectBounded ==
    ASSUME IInv, HInv, QInv, NEW k \in Conns, NEW a \in Addrs, Connect(k, a)
    PROVE  QInv'
<1> DEFINE new == [Fresh EXCEPT !.path = "up", !.addr = a, !.toSrv = <<Auth>>]
           cl == [client EXCEPT !.at = "auth", !.conn = k]
<1>1. client' = cl /\ conn' = [conn EXCEPT ![k] = new] /\ client.at = "ready"
  BY DEF Connect
<1>2. client \in ClientType /\ client.conn = None /\ Limits(client)
  BY <1>1, Now DEF HInv
<1>3. cl.at = "auth" /\ cl.conn = k /\ Limits(cl)
  BY <1>1, <1>2 DEF ClientType, Limits
<1>4. /\ new.hand = "none" /\ new.age = 0 /\ new.tick = 0 /\ new.beat = "off"
      /\ new.toCli = <<>> /\ new.toSrv = <<Auth>>
  BY DEF Fresh
<1>5. <<Auth>> \in Seq(Requests) /\ Len(<<Auth>>) = 1 /\ Len(<<>>) = 0
  BY Counts
<1> HIDE DEF new, cl
<1>6. Aged(new)
  BY <1>4, Times DEF Aged
<1>7. Queued(cl, k, new)
  BY <1>3, <1>4, <1>5 DEF Queued
<1> QED
  BY <1>1, <1>2, <1>3, <1>6, <1>7, StepBounds

LEMMA StrangerBounded ==
    ASSUME IInv, HInv, QInv, NEW k \in Conns, NEW a \in Addrs, Stranger(k, a)
    PROVE  QInv'
<1> DEFINE q == <<Auth, NewProxy(1), Ping>>
           new == [Fresh EXCEPT !.path = "up", !.good = FALSE, !.addr = a, !.toSrv = q]
<1>1. client' = client /\ conn' = [conn EXCEPT ![k] = new] /\ conn[k].path = "free"
  BY DEF Stranger, Unused
<1>2. client.conn # k
  BY <1>1, Now DEF Belongs
<1>3. NewProxy(1) \in Requests
  BY Counts
<1>4. q \in Seq(Requests) /\ Len(q) = 3 /\ Len(<<>>) = 0
  BY <1>3, Counts
<1> HIDE DEF q
<1>5. Aged(new) /\ ~new.good /\ new.toSrv = q /\ new.toCli = <<>>
  BY Times DEF Fresh, Aged
<1> HIDE DEF new
<1>6. Queued(client, k, new)
  <2>1. Len(q) <= 3 /\ Len(<<>>) <= 3
    BY <1>4
  <2>2. Len(new.toSrv) <= 3 /\ Len(new.toCli) <= 3
    BY <1>5, <2>1, Zenon
  <2> QED
    BY <1>2, <1>4, <1>5, <2>2 DEF Queued
<1> QED
  BY <1>1, <1>5, <1>6, SessionStepBounds

LEMMA NextRequestBounded ==
    ASSUME IInv, HInv, QInv, NEW k \in Conns, client.conn = k, NEW cl, NEW p \in Ports,
           conn[k].path = "up", conn[k].toCli # <<>>,
           client.at = "auth" \/ (client.at = "register" /\ Head(conn[k].toCli) = "ProxyOK"),
           cl.at = "register", cl.conn = k, Limits(cl), client' = cl,
           Proceed(k, ToServer(conn[k], NewProxy(p)))
    PROVE  QInv'
<1> DEFINE c == conn[k]
           q == IF c.path = "up" /\ c.closed = "open" THEN Append(c.toSrv, NewProxy(p)) ELSE c.toSrv
           d == [c EXCEPT !.toSrv = q]
           new == [d EXCEPT !.toCli = Tail(@)]
<1>1. /\ c \in ConnType /\ Watched(c) /\ Aged(c) /\ Queued(client, k, c) /\ Belongs(client, c)
  BY Now
<1>2. NewProxy(p) \in Messages /\ NewProxy(p) \in Requests
  BY Counts DEF NewProxy, Messages, Ports
<1>3. q \in Seq(Messages) /\ ToServer(c, NewProxy(p)) = d
  BY <1>1, <1>2, ToServerIs
<1>4. conn' = [conn EXCEPT ![k] = new] /\ c.path = "up" /\ c.toCli # <<>>
  BY <1>3 DEF Proceed
<1>5. client.at = "auth" \/ (client.at = "register" /\ Head(c.toCli) = "ProxyOK")
  OBVIOUS
<1> HIDE DEF c
<1>6. /\ c.toCli \in Seq(Answers) /\ c.toSrv \in Seq(Requests)
      /\ Len(c.toSrv) <= 3 /\ Len(c.toCli) <= 3
  BY <1>1 DEF ConnType, Queued
<1>7. c.closed = "open" => c.toSrv = <<>>
  <2>1. /\ NoAnswer(c.toCli) => Head(c.toCli) # "ProxyOK"
    BY <1>4, <1>6, Read
  <2>2. c.hand \notin {"none", "added"}
    BY <1>1, <1>4 DEF Watched
  <2> QED
    BY <1>1, <1>4, <1>5, <2>1, <2>2 DEF Belongs, Punctual, Authenticating, Registering
<1>8. q \in Seq(Requests) /\ Len(q) <= 3
  <2>1. Len(c.toSrv) \in Nat /\ (c.toSrv = <<>> => Len(c.toSrv) = 0)
        /\ Append(c.toSrv, NewProxy(p)) \in Seq(Requests)
        /\ Len(Append(c.toSrv, NewProxy(p))) = Len(c.toSrv) + 1
    BY <1>2, <1>6, Shorter
  <2>2. CASE c.closed = "open"
    BY <1>4, <1>7, <2>1, <2>2
  <2>3. CASE c.closed # "open"
    BY <1>6, <2>3
  <2> QED
    BY <2>2, <2>3
<1>9. Len(Tail(c.toCli)) <= 2
  BY <1>4, <1>6, Shorter
<1> HIDE DEF q
<1>10. /\ new.hand = c.hand /\ new.beat = c.beat /\ new.tick = c.tick /\ new.toCli = Tail(c.toCli)
       /\ new.path = c.path /\ new.good = c.good /\ new.toSrv = q /\ new.closed = c.closed
       /\ new.age = c.age /\ new.slack = c.slack
  BY <1>1 DEF ConnType
<1> HIDE DEF d, new
<1>11. Aged(new)
  BY <1>1, <1>10, AgedKept
<1>12. Queued(cl, k, new)
  <2>1. Len(new.toCli) <= 3
    BY <1>4, <1>6, <1>9, <1>10, Shorter
  <2> QED
    BY <1>8, <1>9, <1>10, <2>1 DEF Queued
<1> QED
  BY <1>4, <1>11, <1>12, StepBounds

LEMMA GoesOnBounded ==
    ASSUME IInv, HInv, QInv, NEW k \in Conns, client.conn = k, NEW cl,
           conn[k].path = "up", conn[k].toCli # <<>>, NEW slack \in {0, conn[k].slack},
           \/ client.at = "register" /\ Head(conn[k].toCli) = "ProxyOK"
           \/ client.at = "run" /\ cl = client /\ slack = conn[k].slack,
           cl.at = "run", cl.conn = k, Limits(cl), client' = cl,
           Proceed(k, [conn[k] EXCEPT !.slack = slack])
    PROVE  QInv'
<1> DEFINE c == conn[k]
           d == [c EXCEPT !.slack = slack]
           new == [d EXCEPT !.toCli = Tail(@)]
<1>1. /\ c \in ConnType /\ client \in ClientType /\ Aged(c) /\ Queued(client, k, c)
      /\ Belongs(client, c)
  BY Now
<1>2. conn' = [conn EXCEPT ![k] = new] /\ c.path = "up" /\ c.toCli # <<>>
  BY DEF Proceed
<1>3. \/ client.at = "register" /\ Head(c.toCli) = "ProxyOK"
      \/ client.at = "run" /\ cl = client /\ slack = c.slack
  OBVIOUS
<1> HIDE DEF c
<1>4. c.toCli \in Seq(Answers) /\ c.toSrv \in Seq(Messages)
  BY <1>1 DEF ConnType
<1>5. /\ new.hand = c.hand /\ new.beat = c.beat /\ new.tick = c.tick
      /\ new.path = c.path /\ new.good = c.good /\ new.toSrv = c.toSrv /\ new.closed = c.closed
      /\ new.age = c.age /\ new.slack = slack /\ new.toCli = Tail(c.toCli)
  BY <1>1 DEF ConnType
<1> HIDE DEF d, new
<1>6. Aged(new)
  BY <1>1, <1>5, AgedKept
<1>7. Part(new.toSrv, c.toSrv) /\ Part(new.toCli, c.toCli) /\ client.tick \in Nat
  BY <1>1, <1>2, <1>5 DEF Part, ClientType
<1>8. Queued(client, k, new)
  <2>1. NoAnswer(c.toCli) => Head(c.toCli) # "ProxyOK"
    BY <1>2, <1>4, Read
  <2>2. client.at = "register" /\ Head(c.toCli) = "ProxyOK" /\ c.closed = "open"
        => c.toSrv = <<>>
    BY <1>1, <1>2, <2>1 DEF Belongs, Punctual, Registering
  <2>3. new.closed # "open" \/ new.slack = c.slack \/ new.toSrv = <<>>
    BY <1>3, <1>5, <2>2
  <2> QED
    BY <1>1, <1>5, <1>7, <2>3, Shrinks
<1>9. CASE client.at = "run" /\ cl = client
  BY <1>2, <1>6, <1>8, <1>9, SessionStepBounds
<1>10. CASE client.at = "register" /\ Head(c.toCli) = "ProxyOK"
  <2>1. NoAnswer(c.toCli) => Head(c.toCli) # "ProxyOK"
    BY <1>2, <1>4, Read
  <2>2. c.closed = "open" => c.toSrv = <<>>
    BY <1>1, <1>2, <1>10, <2>1 DEF Belongs, Punctual, Registering
  <2>3. c.toSrv = <<>> => /\ Len(new.toSrv) <= 2 /\ Len(new.toSrv) # 1
                           /\ Len(new.toSrv) # 2
    <3>1. c.toSrv = <<>> => Len(new.toSrv) = 0
      BY <1>4, <1>5, Shorter
    <3>2. 0 <= 2 /\ 0 # 1 /\ 0 # 2
      OBVIOUS
    <3> HIDE DEF new
    <3> QED
      BY <3>1, <3>2, Zenon
  <2>4. new.toSrv \in Seq(Requests) /\ Len(new.toSrv) <= 3 /\ Len(new.toCli) <= 3
    BY <1>8 DEF Queued
  <2>5. Queued(cl, k, new)
    BY <1>5, <2>2, <2>3, <2>4 DEF Queued
  <2> QED
    BY <1>2, <1>6, <2>5, StepBounds
<1> QED
  BY <1>3, <1>9, <1>10

LEMMA ClientReadsBounded ==
    ASSUME IInv, HInv, QInv, NEW k \in Conns, ClientReads(k)
    PROVE  QInv'
<1>1. /\ client \in ClientType /\ client.conn = k /\ Limits(client)
      /\ conn[k].path = "up" /\ conn[k].toCli # <<>>
  BY Now DEF ClientReads
<1> DEFINE asked == [client EXCEPT !.at = "register"]
           onward == [client EXCEPT !.reg = @ + 1]
           runs == [client EXCEPT !.reg = @ + 1, !.at = "run", !.tick = 0]
<1>2. client.reg \in Nat /\ client.tick \in Nat
  BY <1>1 DEF ClientType
<1>3. /\ asked.conn = k /\ asked.at = "register" /\ onward.conn = k /\ onward.at = client.at
      /\ asked.reg = client.reg /\ asked.tick = client.tick
      /\ onward.reg = client.reg + 1 /\ onward.tick = client.tick
      /\ runs.conn = k /\ runs.at = "run" /\ runs.tick = 0 /\ runs.reg = client.reg + 1
  BY <1>1 DEF ClientType
<1>4. \/ /\ client.at = "auth" /\ client' = asked
         /\ Proceed(k, ToServer(conn[k], NewProxy(1)))
      \/ /\ client.at = "register" /\ Head(conn[k].toCli) = "ProxyOK" /\ client' = onward
         /\ client.reg + 1 # Proxies
         /\ Proceed(k, ToServer(conn[k], NewProxy(client.reg + 2)))
      \/ /\ client.at = "register" /\ Head(conn[k].toCli) = "ProxyOK" /\ client' = runs
         /\ client.reg + 1 = Proxies
         /\ Proceed(k, [conn[k] EXCEPT !.slack = 0])
      \/ Quit(k, "down")
      \/ client.at = "run" /\ client' = client /\ Proceed(k, conn[k])
  BY DEF ClientReads, AllRegistered
<1> HIDE DEF asked, onward, runs
<1>5. CASE client.at = "auth" /\ client' = asked /\ Proceed(k, ToServer(conn[k], NewProxy(1)))
  <2>1. Limits(asked)
    BY <1>1, <1>3, <1>5 DEF Limits
  <2> QED
    BY <1>1, <1>3, <1>5, <2>1, Counts, NextRequestBounded
<1>6. CASE /\ client.at = "register" /\ Head(conn[k].toCli) = "ProxyOK" /\ client' = onward
           /\ client.reg + 1 # Proxies
           /\ Proceed(k, ToServer(conn[k], NewProxy(client.reg + 2)))
  <2>1. client.reg + 1 < Proxies
    BY <1>1, <1>2, <1>6, Counts DEF Limits
  <2>2. Limits(onward) /\ client.reg + 2 \in Ports
    BY <1>1, <1>2, <1>3, <2>1, Counts DEF Limits, Ports
  <2> QED
    BY <1>1, <1>3, <1>6, <2>1, <2>2, NextRequestBounded
<1>7. CASE /\ client.at = "register" /\ Head(conn[k].toCli) = "ProxyOK" /\ client' = runs
           /\ client.reg + 1 = Proxies
           /\ Proceed(k, [conn[k] EXCEPT !.slack = 0])
  <2>1. Limits(runs)
    BY <1>2, <1>3, <1>7, Counts, Times DEF Limits
  <2> QED
    BY <1>1, <1>3, <1>7, <2>1, GoesOnBounded
<1>8. CASE client.at = "run" /\ client' = client /\ Proceed(k, conn[k])
  <2>1. [conn[k] EXCEPT !.slack = conn[k].slack] = conn[k]
    BY Now DEF ConnType
  <2> QED
    BY <1>1, <1>8, <2>1, GoesOnBounded
<1> QED
  BY <1>1, <1>4, <1>5, <1>6, <1>7, <1>8, QuitBounded

LEMMA NoThirdPing ==
    ASSUME NEW n \in Nat, NEW t \in Nat, t <= Delay, n <= 2, n = 2 => Interval + Interval <= t
    PROVE  n = 0 \/ n = 1
BY Times

(* A second Ping is sent only after the first has waited for an interval,  *)
(* and there is no third, since a message waits for one delay at most.     *)
LEMMA ClientPingBounded ==
    ASSUME IInv, HInv, QInv, NEW k \in Conns, ClientPing(k)
    PROVE  QInv'
<1> DEFINE c == conn[k]
           waited == IF c.toSrv = <<>> THEN 0 ELSE c.slack
           aired == [c EXCEPT !.slack = waited]
           q == IF aired.path = "up" /\ aired.closed = "open"
                THEN Append(aired.toSrv, Ping) ELSE aired.toSrv
           new == [aired EXCEPT !.toSrv = q]
           cl == [client EXCEPT !.tick = 0]
<1>1. /\ c \in ConnType /\ Watched(c) /\ Aged(c) /\ Queued(client, k, c)
      /\ client \in ClientType /\ Limits(client)
  BY Now
<1>2. /\ client.conn = k /\ client.at = "run" /\ client.tick = Interval /\ client' = cl
      /\ conn' = [conn EXCEPT ![k] = ToServer(aired, Ping)]
  BY DEF ClientPing
<1> HIDE DEF c
<1>3. /\ c.toSrv \in Seq(Requests) /\ c.slack \in Nat /\ c.slack <= Delay
      /\ Len(c.toSrv) <= 3 /\ Len(c.toCli) <= 3
  BY <1>1 DEF ConnType, Watched, Queued
<1>4. /\ waited \in Nat
      /\ c.toSrv # <<>> => waited = c.slack
      /\ c.toSrv = <<>> => waited = 0
  BY <1>3
<1> HIDE DEF waited
<1>5. /\ aired \in ConnType /\ aired.slack = waited
      /\ aired.hand = c.hand /\ aired.beat = c.beat /\ aired.tick = c.tick
      /\ aired.path = c.path /\ aired.good = c.good /\ aired.closed = c.closed
      /\ aired.age = c.age
      /\ aired.toSrv = c.toSrv /\ aired.toCli = c.toCli
  BY <1>1, <1>4 DEF ConnType
<1> HIDE DEF aired
<1>6. Ping \in Messages /\ Ping \in Requests
  BY Counts DEF Ping, Messages
<1>7. conn' = [conn EXCEPT ![k] = new]
  BY <1>2, <1>5, <1>6, ToServerIs
<1>8. q = IF c.path = "up" /\ c.closed = "open" THEN Append(c.toSrv, Ping) ELSE c.toSrv
  BY <1>5
<1> HIDE DEF q
<1>9. /\ new.hand = c.hand /\ new.beat = c.beat /\ new.tick = c.tick /\ new.toCli = c.toCli
      /\ new.path = c.path /\ new.good = c.good /\ new.toSrv = q /\ new.closed = c.closed
      /\ new.age = c.age /\ new.slack = waited
  BY <1>5 DEF ConnType
<1> HIDE DEF new
<1>10. cl.at = "run" /\ cl.conn = k /\ cl.tick = 0 /\ cl.reg = client.reg
  BY <1>1, <1>2 DEF ClientType
<1> HIDE DEF cl
<1>11. Aged(new)
  BY <1>1, <1>9, AgedKept
<1>12. /\ Len(c.toSrv) \in Nat /\ (c.toSrv = <<>> <=> Len(c.toSrv) = 0)
       /\ Append(c.toSrv, Ping) \in Seq(Requests)
       /\ Len(Append(c.toSrv, Ping)) = Len(c.toSrv) + 1
  BY <1>3, <1>6, Shorter
<1>13. Queued(cl, k, new)
  <2>1. CASE c.path = "up" /\ c.closed = "open"
    <3>1. /\ Len(c.toSrv) <= 2
          /\ Len(c.toSrv) = 1 => Interval <= c.slack
          /\ Len(c.toSrv) = 2 => Interval + Interval <= c.slack
      BY <1>1, <1>2, <2>1 DEF Queued
    <3>2. Len(c.toSrv) = 0 \/ Len(c.toSrv) = 1
      BY <1>3, <1>12, <3>1, NoThirdPing
    <3>3. /\ q \in Seq(Requests) /\ Len(q) <= 2
          /\ Len(q) = 1 => waited = 0
          /\ Len(q) = 2 => Interval <= waited
      BY <1>4, <1>8, <1>12, <2>1, <3>1, <3>2
    <3>4. Len(q) <= 3 /\ (Len(q) = 1 => 0 <= waited) /\ (Len(q) = 2 => 0 + Interval <= waited)
      <4>1. q \in Seq(Requests)
        BY <3>3
      <4>2. Len(q) \in Nat
        BY <4>1, Shorter
      <4> QED
        BY <3>3, <4>2, Times
    <3> QED
      BY <1>3, <1>9, <1>10, <3>3, <3>4 DEF Queued
  <2>2. CASE ~(c.path = "up" /\ c.closed = "open")
    <3>1. q = c.toSrv
      BY <1>8, <2>2
    <3> QED
      BY <1>3, <1>9, <1>10, <2>2, <3>1 DEF Queued
  <2> QED
    BY <2>1, <2>2
<1>14. Limits(cl)
  BY <1>1, <1>10, Times DEF Limits
<1> QED
  BY <1>2, <1>7, <1>10, <1>11, <1>13, <1>14, StepBounds

-----------------------------------------------------------------------------
(* Time. *)

LEMMA TickBounded ==
    ASSUME IInv, HInv, QInv, Tick
    PROVE  QInv'
<1>1. /\ \A k \in Conns : conn'[k] = Older(conn[k])
      /\ \A k \in Conns : /\ conn[k].beat = "on" => conn[k].tick < Interval
                          /\ ~(conn[k].closed = "open" /\ WantsClose(k))
                          /\ conn[k].hand # "exit"
      /\ client.at = "run" => client.tick < Interval
      /\ client' = CASE client.at = "down" -> [client EXCEPT !.at = "ready"]
                     [] client.at = "run" -> [client EXCEPT !.tick = @ + 1]
                     [] OTHER -> client
  BY DEF Tick
<1>2. client \in ClientType /\ Limits(client) /\ client.tick \in Nat
  BY DEF QInv, IInv, Typed, ClientType
<1>3. /\ client.at = "down" => client'.at = "ready" /\ client'.tick = client.tick
      /\ client.at = "run" => client'.at = "run" /\ client'.tick = client.tick + 1
      /\ client.at \notin {"down", "run"} => client' = client
      /\ client'.conn = client.conn /\ client'.reg = client.reg
  BY <1>1, <1>2 DEF ClientType
<1>4. Limits(client')
  <2>1. client'.tick <= Interval
    <3>1. client.at = "run" => client.tick + 1 <= Interval
      BY <1>1, <1>2, Times
    <3>2. client.tick <= Interval
      BY <1>2 DEF Limits
    <3>3. client.at # "run" => client'.tick = client.tick
      BY <1>3
    <3> QED
      BY <1>3, <3>1, <3>2, <3>3
  <2> QED
    BY <1>2, <1>3, <2>1 DEF Limits
<1>5. HInv'
  BY TickSpares
<1>6. ASSUME NEW k \in Conns PROVE Aged(conn'[k]) /\ Queued(client', k, conn'[k])
  <2> DEFINE c == conn[k]
             slack == IF Pending(c) THEN c.slack + 1 ELSE c.slack
             age == IF c.hand # "none" /\ c.closed = "open" THEN c.age + 1 ELSE c.age
             tick == IF c.beat = "on" THEN c.tick + 1 ELSE c.tick
             new == [c EXCEPT !.slack = slack, !.age = age, !.tick = tick]
  <2>1. /\ c \in ConnType /\ Aged(c) /\ Queued(client, k, c)
        /\ client.conn = k => Belongs(client, c)
    BY Now
  <2>2. conn'[k] = new
    BY <1>1 DEF Older
  <2>3. Watched(new)
    BY <1>5, <2>2 DEF HInv
  <2>4. /\ c.beat = "on" => c.tick < Interval
        /\ c.closed = "open" => c.hand # "close" /\ c.beat # "close"
        /\ c.hand # "exit"
    BY <1>1 DEF WantsClose
  <2>5. c.slack \in Nat /\ c.age \in Nat /\ c.tick \in Nat
    BY <2>1 DEF ConnType
  <2>6. c.hand \in {"none", "added", "loop", "start", "exit", "close", "done"}
    BY <2>1 DEF ConnType
  <2>7. conn'[k] = new /\ Admitted(c)
    BY <2>2, Now
  <2> HIDE DEF c
  <2>8. /\ Pending(c) => slack = c.slack + 1
        /\ slack >= c.slack /\ slack \in Nat
        /\ c.hand = "none" \/ c.closed # "open" => age = c.age
        /\ c.beat = "on" => tick = c.tick + 1
        /\ c.beat # "on" => tick = c.tick
    BY <2>5
  <2> HIDE DEF slack, age, tick
  <2>9. /\ new.hand = c.hand /\ new.beat = c.beat /\ new.tick = tick /\ new.toCli = c.toCli
        /\ new.path = c.path /\ new.good = c.good /\ new.toSrv = c.toSrv
        /\ new.closed = c.closed /\ new.age = age /\ new.slack = slack
    BY <2>1 DEF ConnType
  <2> HIDE DEF new
  <2>10. Aged(new)
    <3>1. tick <= Interval
      <4>1. c.beat = "on" => c.tick + 1 <= Interval
        BY <2>4, <2>5, Times
      <4>2. c.tick <= Interval
        BY <2>1 DEF Aged
      <4> QED
        BY <2>8, <4>1, <4>2
    <3>2. c.beat = "close" => age <= Timeout + Interval
      BY <2>1, <2>4, <2>8 DEF Aged
    <3>3. ASSUME c.beat = "off" PROVE c.hand \notin {"loop", "start"} /\ age <= Delay
      <4>1. c.hand \notin {"loop", "start"} /\ c.age <= Delay
        BY <2>1, <3>3 DEF Aged
      <4>2. CASE c.hand = "added"
        <5>1. age <= slack /\ slack <= Delay /\ age \in Nat
          BY <2>3, <2>5, <2>9, <4>2 DEF Watched, age
        <5> QED
          BY <2>8, <4>2, <5>1, Times
      <4>3. CASE c.hand # "added"
        <5>1. c.hand = "none" \/ c.closed # "open"
          BY <2>1, <2>4, <2>6, <4>1, <4>3 DEF Aged
        <5> QED
          BY <2>8, <4>1, <5>1
      <4> QED
        BY <4>1, <4>2, <4>3
    <3>4. c.beat = "end" \/ c.hand = "done" => c.closed # "open"
      BY <2>1 DEF Aged
    <3> QED
      BY <2>9, <3>1, <3>2, <3>3, <3>4 DEF Aged
  <2>11. Queued(client', k, new)
    <3>1. /\ c.toSrv \in Seq(Requests) /\ Len(c.toSrv) <= 3 /\ Len(c.toCli) <= 3
          /\ c.good /\ c.path = "up" => client.conn = k
      BY <2>1 DEF Queued
    <3>2. ASSUME client.conn = k, c.path = "up", c.closed = "open"
          PROVE  /\ client'.at = "register" /\ (c.hand = "start" \/ c.toSrv # <<>>)
                      => Len(c.toCli) <= 2
                 /\ client'.at = "run" =>
                      /\ Len(c.toSrv) <= 2
                      /\ Len(c.toSrv) = 1 => client'.tick <= slack
                      /\ Len(c.toSrv) = 2 => client'.tick + Interval <= slack
      <4>1. client'.at \in {"register", "run"} => client'.at = client.at
        BY <1>3
      <4>2. client.at = "register" /\ (c.hand = "start" \/ c.toSrv # <<>>) => Len(c.toCli) <= 2
        BY <2>1, <3>2 DEF Queued
      <4>3. ASSUME client.at = "run"
            PROVE  /\ Len(c.toSrv) <= 2
                   /\ Len(c.toSrv) = 1 => client'.tick <= slack
                   /\ Len(c.toSrv) = 2 => client'.tick + Interval <= slack
        <5>1. /\ Len(c.toSrv) <= 2
              /\ Len(c.toSrv) = 1 => client.tick <= c.slack
              /\ Len(c.toSrv) = 2 => client.tick + Interval <= c.slack
          BY <2>1, <3>2, <4>3 DEF Queued
        <5>2. c.hand = "loop"
          BY <2>1, <3>2, <4>3 DEF Belongs, Punctual, Beating
        <5>3. Len(c.toSrv) = 1 \/ Len(c.toSrv) = 2 => c.toSrv # <<>>
          <6>1. c.toSrv = <<>> => Len(c.toSrv) = 0
            BY <3>1, Shorter
          <6> QED
            BY <6>1
        <5>4. Len(c.toSrv) = 1 \/ Len(c.toSrv) = 2 => slack = c.slack + 1
          BY <2>8, <3>2, <5>2, <5>3 DEF Pending, AtWork
        <5>5. client'.tick = client.tick + 1
          BY <1>3, <4>3
        <5>6. client.tick <= c.slack => client.tick + 1 <= c.slack + 1
          BY <1>2, <2>5
        <5>7. client.tick + Interval <= c.slack => client.tick + 1 + Interval <= c.slack + 1
          BY <1>2, <2>5, Times
        <5> QED
          BY <5>1, <5>4, <5>5, <5>6, <5>7
      <4> QED
        BY <4>1, <4>2, <4>3
    <3> QED
      BY <1>3, <2>9, <3>1, <3>2 DEF Queued
  <2> QED
    BY <2>7, <2>10, <2>11
<1> QED
  BY <1>4, <1>6 DEF QInv

-----------------------------------------------------------------------------
LEMMA StepBounded ==
    ASSUME IInv, HInv, QInv, [Next]_vars
    PROVE  QInv'
<1>1. ASSUME NEW k \in Conns,
             \/ ClientReadFails(k) \/ Killed(k) \/ GivesUp(k)
             \/ PingFails(k) \/ Terminated(k)
      PROVE  QInv'
  BY <1>1, QuitBounded DEF ClientReadFails, Killed, GivesUp, PingFails, Terminated
<1>2. ASSUME NEW k \in Conns, ClientNext(k) \/ ClientPing(k) PROVE QInv'
  BY <1>1, <1>2, ConnectBounded, ClientReadsBounded, ClientPingBounded DEF ClientNext
<1>3. ASSUME NEW k \in Conns, HandlerNext(k) \/ CutNoticed(k) PROVE QInv'
  BY <1>3, AddClientBounded, HandlePingBounded, LoginBounded, HandleNewProxyBounded, ProxyStartedBounded,
     HandlerLeavesBounded DEF HandlerNext
<1>4. ASSUME NEW k \in Conns, Faults(k) PROVE QInv'
  BY <1>1, <1>4, StrangerBounded, CutBounded, RequestWorkConnBounded DEF Faults
<1>5. ASSUME UNCHANGED <<client, conn>> PROVE QInv'
  BY <1>5 DEF QInv
<1>6. CASE (\E a \in Addrs : WebCloses(a)) \/ WebReturns \/ Shutdown \/ ShutdownEnds \/ Exited
  BY <1>5, <1>6 DEF WebCloses, WebReturns, Shutdown, ShutdownEnds, Exited, vars
<1>7. CASE UNCHANGED vars
  BY <1>5, <1>7 DEF vars
<1>8. ASSUME NEW k \in Conns, CloseNext(k) \/ Heartbeat(k) \/ HeartbeatEnds(k) \/ Recycle(k)
      PROVE  QInv'
  BY <1>8, CloseBounded, HeartbeatBounded, RecycleBounded
<1>9. CASE Tick
  BY <1>9, TickBounded
<1> QED
  BY <1>1, <1>2, <1>3, <1>4, <1>6, <1>7, <1>8, <1>9 DEF Next

LEMMA InitBounded == Init => QInv /\ OthersTyped
<1> SUFFICES ASSUME Init PROVE QInv /\ OthersTyped
  OBVIOUS
<1>1. Limits(Down) /\ Down.conn = None
  BY Times, Counts DEF Limits, Down
<1>2. ASSUME NEW k \in Conns PROVE Aged(Fresh) /\ Queued(Down, k, Fresh)
  <2>1. Down.conn # k /\ Fresh.path # "up"
    BY <1>1, NobodyAssumption DEF Fresh
  <2> QED
    BY <2>1, FreshBounded
<1>3. client = Down /\ \A k \in Conns : conn[k] = Fresh
  BY DEF Init
<1>4. QInv
  BY <1>1, <1>2, <1>3 DEF QInv
<1>5. OthersTyped
  BY Counts DEF Init, OthersTyped
<1> QED
  BY <1>4, <1>5

LEMMA OthersStep ==
    ASSUME Typed, OthersTyped, [Next]_vars
    PROVE  OthersTyped'
<1>1. ASSUME Mishap PROVE faults' \in 0..MaxFaults
  BY <1>1, Counts DEF Mishap, OthersTyped
<1>2. ASSUME UNCHANGED <<web, shut>>, faults' = faults \/ Mishap PROVE OthersTyped'
  BY <1>1, <1>2 DEF OthersTyped
<1>3. ASSUME NEW k \in Conns, ClientNext(k) \/ ClientPing(k) \/ GivesUp(k) \/ Recycle(k)
      PROVE  OthersTyped'
  BY <1>2, <1>3 DEF ClientNext, Connect, ClientReads, ClientReadFails, ClientPing, GivesUp,
                    Recycle
<1>4. ASSUME NEW k \in Conns, HandlerNext(k) \/ CutNoticed(k) PROVE OthersTyped'
  BY <1>2, <1>4 DEF HandlerNext, AddClient, HandleAuthPayload, HandlePing, HandleNewProxy,
                    ProxyStarted, LoopEnds, CutNoticed, LoopFails, RemoveClient, HandlerEnds
<1>5. ASSUME NEW k \in Conns, CloseNext(k) \/ Heartbeat(k) \/ HeartbeatEnds(k)
      PROVE  OthersTyped'
  BY <1>2, <1>5 DEF CloseNext, CloseConn, CloseProxies, Heartbeat, HeartbeatEnds
<1>6. ASSUME NEW k \in Conns, Faults(k) PROVE OthersTyped'
  BY <1>2, <1>6 DEF Faults, Stranger, Killed, Terminated, Cut, PingFails,
                    RequestWorkConn
<1>7. ASSUME NEW a \in Addrs, WebCloses(a) PROVE OthersTyped'
  <2>1. web' \in Conns \cup {None} /\ shut' = shut /\ Mishap
    BY <1>7 DEF WebCloses, Typed
  <2> QED
    BY <1>1, <2>1 DEF OthersTyped
<1>8. CASE WebReturns \/ Shutdown \/ ShutdownEnds
  BY <1>8 DEF WebReturns, Shutdown, ShutdownEnds, OthersTyped
<1>9. CASE Tick \/ Exited \/ UNCHANGED vars
  BY <1>2, <1>9 DEF Tick, Exited, vars
<1> QED
  BY <1>3, <1>4, <1>5, <1>6, <1>7, <1>8, <1>9 DEF Next

LEMMA Bounding == Spec => [](IInv /\ HInv /\ QInv /\ OthersTyped)
<1>1. Init => IInv /\ HInv /\ QInv /\ OthersTyped
  BY InitIInv, InitHInv, InitBounded
<1>2. IInv /\ HInv /\ QInv /\ OthersTyped /\ [Next]_vars
        => (IInv /\ HInv /\ QInv /\ OthersTyped)'
  BY NextKeeps, StepSpares, StepBounded, OthersStep DEF IInv
<1> QED
  BY <1>1, <1>2, PTL DEF Spec

(* Run, HandleNewProxy and heartbeat (client.go, control.go): every        *)
(* variable has its type for any number of connections, proxies and        *)
(* faults, and a connection never carries more than three messages each    *)
(* way.                                                                    *)
THEOREM TypeCorrect == Spec => []TypeOK
<1>1. ASSUME IInv, HInv, QInv, OthersTyped PROVE TypeOK
  <2>1. /\ client \in ClientType /\ Limits(client) /\ DOMAIN conn = Conns
        /\ table \in [Addrs -> Conns \cup {None}]
        /\ owner \in [Ports -> Conns \cup {None, Leaked}]
    BY <1>1 DEF IInv, Typed, QInv
  <2>2. client \in [at : {"down", "ready", "auth", "register", "run", "stopped"},
                    conn : Conns \cup {None}, reg : 0..Proxies, tick : 0..Interval]
    BY <2>1, Times, Counts DEF ClientType, Limits
  <2>3. ASSUME NEW k \in Conns
        PROVE  LET c == conn[k] IN
               /\ c.path \in {"free", "up", "cut", "eof"} /\ c.good \in BOOLEAN
               /\ c.addr \in Addrs \cup {None}
               /\ Len(c.toSrv) <= 3 /\ Range(c.toSrv) \subseteq Requests
               /\ Len(c.toCli) <= 3 /\ Range(c.toCli) \subseteq Answers
               /\ c.hand \in {"none", "added", "loop", "start", "exit", "close", "done"}
               /\ c.closed \in {"open", "conn", "done"}
               /\ c.beat \in {"off", "on", "close", "end"} /\ c.tick \in 0..Interval
               /\ c.age \in Nat /\ c.slack \in 0..Delay
               /\ c.mine \subseteq Ports
    <3> DEFINE c == conn[k]
    <3>1. c \in ConnType /\ Watched(c) /\ Aged(c) /\ Queued(client, k, c)
      BY <1>1, Now
    <3> HIDE DEF c
    <3>2. c.tick \in Nat /\ c.age \in Nat /\ c.slack \in Nat
      BY <3>1 DEF ConnType
    <3>3. c.tick <= Interval /\ c.slack <= Delay
      BY <3>1 DEF Watched, Aged
    <3>4. Range(c.toSrv) \subseteq Requests /\ Range(c.toCli) \subseteq Answers
      <4>1. c.toSrv \in Seq(Requests) /\ c.toCli \in Seq(Answers)
        BY <3>1 DEF ConnType, Queued
      <4> QED
        BY <4>1 DEF Range
    <3>5. Len(c.toSrv) <= 3 /\ Len(c.toCli) <= 3
      BY <3>1 DEF Queued
    <3>6. c.tick \in 0..Interval /\ c.slack \in 0..Delay
      BY <3>2, <3>3, Times
    <3>7. /\ c.path \in {"free", "up", "cut", "eof"} /\ c.good \in BOOLEAN
          /\ c.addr \in Addrs \cup {None}
          /\ c.hand \in {"none", "added", "loop", "start", "exit", "close", "done"}
          /\ c.closed \in {"open", "conn", "done"}
          /\ c.beat \in {"off", "on", "close", "end"} /\ c.mine \subseteq Ports
      BY <3>1 DEF ConnType
    <3> QED
      BY <3>2, <3>4, <3>5, <3>6, <3>7 DEF c
  <2> QED
    BY <1>1, <2>1, <2>2, <2>3 DEF TypeOK, OthersTyped
<1> QED
  BY <1>1, Bounding, PTL

(* heartbeat (control.go) closes a session that sends no Ping within       *)
(* the timeout and one interval, whatever was sent before, although the    *)
(* time is counted from before the heartbeat starts; and no session that   *)
(* holds a port is without a heartbeat.                                    *)
THEOREM SilenceEnds == Spec => []SilenceBounded
<1>1. ASSUME IInv, HInv, QInv, NEW k \in Conns PROVE conn[k].age <= Timeout + Interval
  <2> DEFINE c == conn[k]
  <2> SUFFICES c.age <= Timeout + Interval
    OBVIOUS
  <2>1. c \in ConnType /\ Watched(c) /\ Aged(c)
    BY <1>1, Now
  <2> HIDE DEF c
  <2>2. c.tick \in Nat /\ c.age \in Nat
    BY <2>1 DEF ConnType
  <2>3. CASE c.beat = "off"
    BY <2>1, <2>2, <2>3, Times DEF Aged
  <2>4. CASE c.beat = "close"
    BY <2>1, <2>4 DEF Aged
  <2>5. CASE c.beat = "on" /\ c.closed = "open"
    BY <2>1, <2>2, <2>5, Times DEF Watched
  <2>6. CASE c.closed # "open"
    BY <2>1, <2>6, Times DEF Watched
  <2>7. c.beat \in {"off", "on", "close", "end"} /\ (c.beat = "end" => c.closed # "open")
    BY <2>1 DEF ConnType, Aged
  <2> QED
    BY <2>3, <2>4, <2>5, <2>6, <2>7
<1>2. IInv /\ HInv /\ QInv => SilenceBounded
  BY <1>1 DEF SilenceBounded
<1> QED
  BY <1>2, Bounding, PTL
=============================================================================
