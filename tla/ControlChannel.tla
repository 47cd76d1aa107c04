--------------------------- MODULE ControlChannel ---------------------------
(***************************************************************************)
(* The control connection from its first message to its end: the client    *)
(* (client/client.go), the session at the server (server/control.go,       *)
(* server/workconn.go, server/server.go) and the dashboard's button        *)
(* (server/web.go).                                                        *)
(*                                                                         *)
(* A session has two goroutines, the handler with its message loop and     *)
(* the heartbeat; the dashboard and Shutdown close it as well.  The client *)
(* does not reconnect: it exits, and its supervisor starts it again if it  *)
(* exited with an error, but not if it was told to stop or thinks it was.  *)
(*                                                                         *)
(* Time passes in units.  A message, and the whole set-up of a connection, *)
(* takes at most Delay of them as long as the network is there.            *)
(***************************************************************************)
EXTENDS Naturals, Sequences, FiniteSetsExt, Functions

CONSTANTS
    Conns,      \* control connections; one that is over is used again
    Addrs,      \* the remote addresses they come from, the keys of the table
    Proxies,    \* how many proxies the client is configured with, one at least
    Interval,   \* HeartbeatInterval, of the client and of the server
    Timeout,    \* HeartbeatTimeout
    Delay,      \* the longest a message waits
    MaxFaults,  \* bound: things that go wrong or that a person does
    None, Leaked

ASSUME TimesAssumption ==
    /\ Interval \in Nat \ {0} /\ Timeout \in Nat /\ Delay \in Nat
    /\ Delay <= Interval
    /\ Delay + Interval + Delay <= Timeout
ASSUME CountsAssumption == Proxies \in Nat \ {0} /\ MaxFaults \in Nat
ASSUME NobodyAssumption == {None, Leaked} \cap Conns = {} /\ None \notin Addrs

Ports == 1..Proxies

VARIABLES
    client,  \* the process: where it is, its connection, proxies registered, its ticker
    conn,    \* the connections with the session at the server's end
    table,   \* Server.clients
    owner,   \* Server.proxies: the session that holds a remote port
    web,     \* the session CloseClientByAddr found
    shut,    \* Shutdown: not called, closing what is left, or done
    faults   \* how many so far

vars == <<client, conn, table, owner, web, shut, faults>>

(* path    up, cut without a sign, or closed by the client (eof)           *)
(* good    whether the peer has the token                                  *)
(* addr    its remote address                                              *)
(* toSrv, toCli   messages under way                                       *)
(* hand    the handler: none; added (to the table); loop; start (of a      *)
(*         proxy, between RegisterProxy and c.proxies); exit; close; done  *)
(* closed  ClientSession.Close: open, conn (it is closed), done            *)
(* beat, tick  the heartbeat goroutine and its ticker                      *)
(* age     time since lastPing                                             *)
(* slack   time the client's messages have waited                          *)
(* mine    ClientSession.proxies                                           *)
Fresh == [path |-> "free", good |-> TRUE, addr |-> None, toSrv |-> <<>>, toCli |-> <<>>,
          hand |-> "none", closed |-> "open", beat |-> "off", tick |-> 0,
          age |-> 0, slack |-> 0, mine |-> {}]
Down == [at |-> "down", conn |-> None, reg |-> 0, tick |-> 0]

(* Requests: which, and for NewProxy the remote port. *)
Auth == <<"Auth", 0>>
NewProxy(p) == <<"NewProxy", p>>
Ping == <<"Ping", 0>>

Requests == {Auth, Ping} \cup {NewProxy(p) : p \in Ports}
Answers == {"AuthOK", "AuthBad", "ProxyOK", "ProxyBad", "WorkConn"}

TypeOK ==
    /\ client \in [at : {"down", "ready", "auth", "register", "run", "stopped"},
                   conn : Conns \cup {None}, reg : 0..Proxies, tick : 0..Interval]
    /\ DOMAIN conn = Conns
    /\ \A k \in Conns :
        LET c == conn[k] IN
        /\ c.path \in {"free", "up", "cut", "eof"} /\ c.good \in BOOLEAN
        /\ c.addr \in Addrs \cup {None}
        /\ Len(c.toSrv) <= 3 /\ Range(c.toSrv) \subseteq Requests
        /\ Len(c.toCli) <= 3 /\ Range(c.toCli) \subseteq Answers
        /\ c.hand \in {"none", "added", "loop", "start", "exit", "close", "done"}
        /\ c.closed \in {"open", "conn", "done"}
        /\ c.beat \in {"off", "on", "close", "end"} /\ c.tick \in 0..Interval
        /\ c.age \in Nat /\ c.slack \in 0..Delay
        /\ c.mine \subseteq Ports
    /\ table \in [Addrs -> Conns \cup {None}]
    /\ owner \in [Ports -> Conns \cup {None, Leaked}]
    /\ web \in Conns \cup {None}
    /\ shut \in {"no", "closing", "done"}
    /\ faults \in 0..MaxFaults

Init ==
    /\ client = Down
    /\ conn = [k \in Conns |-> Fresh]
    /\ table = [a \in Addrs |-> None]
    /\ owner = [p \in Ports |-> None]
    /\ web = None
    /\ shut = "no"
    /\ faults = 0

(* What is sent into a connection that is cut or closed is lost. *)
ToServer(c, m) ==
    IF c.path = "up" /\ c.closed = "open" THEN [c EXCEPT !.toSrv = Append(@, m)] ELSE c
ToClient(c, m) ==
    IF c.path = "up" /\ c.closed = "open" THEN [c EXCEPT !.toCli = Append(@, m)] ELSE c

(* The handler has a message in its hands. *)
AtWork(c) == c.hand \in {"added", "start"}

Mishap == faults < MaxFaults /\ faults' = faults + 1

-----------------------------------------------------------------------------
(* The client: Run. *)

(* Any connection that is not in use will do. *)
Unused(k) ==
    /\ conn[k].path = "free"
    /\ k = CHOOSE j \in Conns : conn[j].path = "free"

(* Any address that nobody has will do as well, or one comes again as soon *)
(* as its last connection is gone at the peer's end, although the server   *)
(* may not be through with that one.                                       *)
Holders(a) == {j \in Conns : conn[j].addr = a}
Usable(a) ==
    IF Holders(a) = {} THEN a = CHOOSE b \in Addrs : Holders(b) = {}
    ELSE \A j \in Holders(a) : conn[j].path # "up"

(* connectControl and the request of auth. *)
Connect(k, a) ==
    /\ client.at = "ready"
    /\ shut = "no"
    /\ Unused(k) /\ Usable(a)
    /\ client' = [client EXCEPT !.at = "auth", !.conn = k]
    /\ conn' = [conn EXCEPT ![k] = [Fresh EXCEPT !.path = "up", !.addr = a,
                                                 !.toSrv = <<Auth>>]]
    /\ UNCHANGED <<table, owner, web, shut, faults>>

(* Somebody without the token who does not wait for answers. *)
Stranger(k, a) ==
    /\ shut = "no"
    /\ Unused(k) /\ Usable(a)
    /\ conn' = [conn EXCEPT ![k] = [Fresh EXCEPT !.path = "up", !.good = FALSE, !.addr = a,
                                                 !.toSrv = <<Auth, NewProxy(1), Ping>>]]
    /\ Mishap
    /\ UNCHANGED <<client, table, owner, web, shut>>

(* The process ends and its connection with it: down is an exit with an    *)
(* error, or a crash, stopped is exit status 0.                            *)
Quit(k, where) ==
    /\ client' = [Down EXCEPT !.at = where]
    /\ conn' = [conn EXCEPT ![k].path = IF @ = "up" THEN "eof" ELSE @,
                            ![k].toCli = <<>>, ![k].slack = IF AtWork(conn[k]) THEN @ ELSE 0]

Proceed(k, c) ==
    conn' = [conn EXCEPT ![k] = [c EXCEPT !.toCli = Tail(@)]]

(* Mutant: the loop over the configured proxies goes one too far. *)
AllRegisteredLate(n) == n > Proxies

AllRegistered(n) == n = Proxies

(* auth, registerProxies and runLoop read one message.  The first two take *)
(* only the answer they wait for.                                          *)
ClientReads(k) ==
    /\ client.conn = k
    /\ conn[k].path = "up"
    /\ conn[k].toCli # <<>>
    /\ LET m == Head(conn[k].toCli) IN
        \/ /\ client.at = "auth" /\ m = "AuthOK"
           /\ client' = [client EXCEPT !.at = "register"]
           /\ Proceed(k, ToServer(conn[k], NewProxy(1)))
        \/ /\ client.at = "register" /\ m = "ProxyOK" /\ ~AllRegistered(client.reg + 1)
           /\ client' = [client EXCEPT !.reg = @ + 1]
           /\ Proceed(k, ToServer(conn[k], NewProxy(client.reg + 2)))
        \/ /\ client.at = "register" /\ m = "ProxyOK" /\ AllRegistered(client.reg + 1)
           /\ client' = [client EXCEPT !.reg = @ + 1, !.at = "run", !.tick = 0]
           /\ Proceed(k, [conn[k] EXCEPT !.slack = 0])
        \/ /\ client.at = "register" /\ m # "ProxyOK"
           /\ Quit(k, "down")
        \/ /\ client.at = "run"
           /\ client' = client
           /\ Proceed(k, conn[k])
    /\ UNCHANGED <<table, owner, web, shut, faults>>

(* The server has closed the connection: a read fails, which is an error.  *)
ClientReadFails(k) ==
    /\ client.conn = k
    /\ conn[k].path = "up" /\ conn[k].closed # "open" /\ conn[k].toCli = <<>>
    /\ Quit(k, "down")
    /\ UNCHANGED <<table, owner, web, shut, faults>>

(* heartbeat *)
ClientPing(k) ==
    /\ client.conn = k /\ client.at = "run" /\ client.tick = Interval
    /\ client' = [client EXCEPT !.tick = 0]
    /\ LET waited == IF conn[k].toSrv = <<>> THEN 0 ELSE conn[k].slack
       IN  conn' = [conn EXCEPT ![k] = ToServer([conn[k] EXCEPT !.slack = waited], Ping)]
    /\ UNCHANGED <<table, owner, web, shut, faults>>

(* The Ping cannot be written, as the server has closed the connection or  *)
(* the client's kernel has given up on it, and runLoop has not failed to   *)
(* read yet: heartbeat calls Close, and Run returns without an error.      *)
PingFails(k) ==
    /\ client.conn = k /\ client.at = "run" /\ client.tick = Interval
    /\ conn[k].path = "cut" \/ conn[k].closed # "open"
    /\ Quit(k, "stopped")
    /\ UNCHANGED <<table, owner, web, shut, faults>>

(* SIGINT or SIGTERM: Close, and runLoop returns without an error.  Before *)
(* runLoop, a read of Run fails, as if the process were killed.            *)
Terminated(k) ==
    /\ client.conn = k /\ client.at = "run"
    /\ Quit(k, "stopped")
    /\ Mishap
    /\ UNCHANGED <<table, owner, web, shut>>

(* The process is killed, or the network between the two is gone, which    *)
(* nobody is told; the client's kernel gives up on it in the end.          *)
Killed(k) ==
    /\ client.conn = k
    /\ Quit(k, "down")
    /\ Mishap
    /\ UNCHANGED <<table, owner, web, shut>>

Cut(k) ==
    /\ conn[k].path = "up"
    /\ conn' = [conn EXCEPT ![k].path = "cut", ![k].toCli = <<>>,
                            ![k].slack = IF AtWork(conn[k]) THEN @ ELSE 0]
    /\ Mishap
    /\ UNCHANGED <<client, table, owner, web, shut>>

GivesUp(k) ==
    /\ client.conn = k /\ conn[k].path = "cut"
    /\ Quit(k, "down")
    /\ UNCHANGED <<table, owner, web, shut, faults>>

-----------------------------------------------------------------------------
(* The server's handler: handleIncomingConn, handleControlConn, Run.       *)
(* clientsMu is held across steps only by Shutdown.                        *)
TableFree == shut # "closing"
Running == shut # "done"

(* The first message is there; NewClientSession, addClient. *)
AddClient(k) ==
    /\ Running /\ TableFree
    /\ conn[k].hand = "none" /\ conn[k].toSrv # <<>>
    /\ conn' = [conn EXCEPT ![k].hand = "added", ![k].age = 0, ![k].toSrv = Tail(@)]
    /\ table' = [table EXCEPT ![conn[k].addr] = k]
    /\ UNCHANGED <<client, owner, web, shut, faults>>

LetIn(k) ==
    /\ conn[k].good
    /\ conn[k].closed = "open"
    /\ conn' = [conn EXCEPT ![k] = [ToClient(conn[k], "AuthOK") EXCEPT
                                        !.hand = "loop", !.beat = "on", !.tick = 0]]

(* Without the token, or when the answer cannot be sent. *)
TurnedAway(k, next) ==
    /\ ~conn[k].good \/ conn[k].closed # "open" \/ conn[k].path # "up"
    /\ conn' = [conn EXCEPT ![k] = [ToClient(conn[k], "AuthBad") EXCEPT !.hand = next]]

(* Mutant: the error is logged and the session goes on. *)
HandleAuthPayloadGoesOn(k) ==
    /\ Running
    /\ conn[k].hand = "added"
    /\ LetIn(k) \/ TurnedAway(k, "loop")
    /\ UNCHANGED <<client, table, owner, web, shut, faults>>

(* HandleAuthPayload of the message that was read; then the heartbeat is   *)
(* started and the loop entered.                                           *)
HandleAuthPayload(k) ==
    /\ Running
    /\ conn[k].hand = "added"
    /\ LetIn(k) \/ TurnedAway(k, "exit")
    /\ UNCHANGED <<client, table, owner, web, shut, faults>>

Receives(k, m) ==
    /\ Running
    /\ conn[k].hand = "loop" /\ conn[k].closed = "open"
    /\ conn[k].toSrv # <<>> /\ Head(conn[k].toSrv) = m

(* The Pong is left out: the client ignores it, and only pings after its   *)
(* registration, when every other answer would make it fail.               *)
HandlePing(k) ==
    /\ Receives(k, Ping)
    /\ conn' = [conn EXCEPT ![k].age = 0, ![k].toSrv = Tail(@),
                            ![k].slack = IF Len(conn[k].toSrv) = 1 THEN 0 ELSE @]
    /\ UNCHANGED <<client, table, owner, web, shut, faults>>

(* handleNewProxy up to RegisterProxy and Start, and the rest of it. *)
HandleNewProxy(k, p) ==
    /\ Receives(k, NewProxy(p))
    /\ LET c == [conn[k] EXCEPT !.toSrv = Tail(@)]
       IN  \/ /\ owner[p] = None
              /\ owner' = [owner EXCEPT ![p] = k]
              /\ conn' = [conn EXCEPT ![k] = [c EXCEPT !.hand = "start"]]
           \/ /\ owner[p] # None
              /\ conn' = [conn EXCEPT ![k] = ToClient(c, "ProxyBad")]
              /\ UNCHANGED owner
    /\ UNCHANGED <<client, table, web, shut, faults>>

ProxyStarted(k) ==
    /\ Running
    /\ conn[k].hand = "start"
    /\ LET new == CHOOSE p \in Ports : owner[p] = k /\ p \notin conn[k].mine
       IN  conn' = [conn EXCEPT ![k] = [ToClient(conn[k], "ProxyOK") EXCEPT
                                           !.hand = "loop", !.mine = @ \cup {new}]]
    /\ UNCHANGED <<client, table, owner, web, shut, faults>>

(* An external connection to a proxy that listens: NewWorkConn.  Only what *)
(* comes while the client still registers matters here, where it makes the *)
(* client fail.                                                            *)
RequestWorkConn(k) ==
    /\ Running
    /\ \E p \in Ports : owner[p] = k
    /\ conn[k].closed = "open" /\ conn[k].path = "up" /\ Len(conn[k].toCli) < 2
    /\ client.at = "register"
    /\ conn' = [conn EXCEPT ![k] = ToClient(conn[k], "WorkConn")]
    /\ Mishap
    /\ UNCHANGED <<client, table, owner, web, shut>>

(* A read fails: the connection is closed at one end, or the kernel has    *)
(* found that it is cut.                                                   *)
LoopFails(k, why) ==
    /\ Running
    /\ conn[k].hand = "loop"
    /\ why
    /\ conn' = [conn EXCEPT ![k].hand = "exit"]
    /\ UNCHANGED <<client, table, owner, web, shut, faults>>

LoopEnds(k) ==
    LoopFails(k, conn[k].closed # "open" \/ (conn[k].path = "eof" /\ conn[k].toSrv = <<>>))
CutNoticed(k) == LoopFails(k, conn[k].path = "cut")

(* Mutant: only a session that was let in is taken out. *)
RemoveClientLetIn(k) ==
    /\ Running /\ TableFree
    /\ conn[k].hand = "exit"
    /\ table' = IF conn[k].beat = "off" THEN table ELSE [table EXCEPT ![conn[k].addr] = None]
    /\ conn' = [conn EXCEPT ![k].hand = "close"]
    /\ UNCHANGED <<client, owner, web, shut, faults>>

(* The deferred removeClient, which takes out whoever is listed under that *)
(* address by now, and Close.                                              *)
RemoveClient(k) ==
    /\ Running /\ TableFree
    /\ conn[k].hand = "exit"
    /\ table' = [table EXCEPT ![conn[k].addr] = None]
    /\ conn' = [conn EXCEPT ![k].hand = "close"]
    /\ UNCHANGED <<client, owner, web, shut, faults>>

HandlerEnds(k) ==
    /\ Running
    /\ conn[k].hand = "close" /\ conn[k].closed = "done"
    /\ conn' = [conn EXCEPT ![k].hand = "done"]
    /\ UNCHANGED <<client, table, owner, web, shut, faults>>

-----------------------------------------------------------------------------
(* Close, for whoever calls it first.  The others wait for it to end.      *)
InShutdown(k) == shut = "closing" /\ \E a \in Addrs : table[a] = k
WantsClose(k) ==
    conn[k].hand = "close" \/ conn[k].beat = "close" \/ web = k \/ InShutdown(k)

CloseConn(k) ==
    /\ Running /\ WantsClose(k)
    /\ conn[k].closed = "open"
    /\ conn' = [conn EXCEPT ![k].closed = "conn", ![k].toSrv = <<>>,
                            ![k].age = 0, ![k].slack = 0]
    /\ UNCHANGED <<client, table, owner, web, shut, faults>>

(* Mutant: Close takes the session out of the table too, under clientsMu. *)
CloseProxiesLocked(k) ==
    /\ Running /\ TableFree
    /\ conn[k].closed = "conn"
    /\ owner' = [p \in Ports |-> IF p \in conn[k].mine THEN None ELSE owner[p]]
    /\ conn' = [conn EXCEPT ![k].closed = "done", ![k].mine = {}]
    /\ UNCHANGED <<client, table, web, shut, faults>>

(* Mutant: the proxies are forgotten without being unregistered. *)
CloseProxiesKept(k) ==
    /\ Running
    /\ conn[k].closed = "conn"
    /\ conn' = [conn EXCEPT ![k].closed = "done", ![k].mine = {}]
    /\ UNCHANGED <<client, table, owner, web, shut, faults>>

CloseProxies(k) ==
    /\ Running
    /\ conn[k].closed = "conn"
    /\ owner' = [p \in Ports |-> IF p \in conn[k].mine THEN None ELSE owner[p]]
    /\ conn' = [conn EXCEPT ![k].closed = "done", ![k].mine = {}]
    /\ UNCHANGED <<client, table, web, shut, faults>>

-----------------------------------------------------------------------------
(* The heartbeat goroutine. *)

(* Mutant: a session that has reached the limit is closed. *)
HeartbeatAtLimit(k) ==
    /\ Running
    /\ conn[k].beat = "on" /\ conn[k].tick = Interval
    /\ conn' = [conn EXCEPT ![k].tick = 0,
                            ![k].beat = IF conn[k].age >= Timeout THEN "close" ELSE @]
    /\ UNCHANGED <<client, table, owner, web, shut, faults>>

(* Mutant: the limit is counted in ticks that were missed. *)
HeartbeatLate(k) ==
    /\ Running
    /\ conn[k].beat = "on" /\ conn[k].tick = Interval
    /\ conn' = [conn EXCEPT ![k].tick = 0,
                            ![k].beat = IF conn[k].age > Timeout + Interval THEN "close" ELSE @]
    /\ UNCHANGED <<client, table, owner, web, shut, faults>>

Heartbeat(k) ==
    /\ Running
    /\ conn[k].beat = "on" /\ conn[k].tick = Interval
    /\ conn' = [conn EXCEPT ![k].tick = 0,
                            ![k].beat = IF conn[k].age > Timeout THEN "close" ELSE @]
    /\ UNCHANGED <<client, table, owner, web, shut, faults>>

HeartbeatEnds(k) ==
    /\ Running
    /\ \/ conn[k].beat = "on" /\ conn[k].closed # "open"
       \/ conn[k].beat = "close" /\ conn[k].closed = "done"
    /\ conn' = [conn EXCEPT ![k].beat = "end", ![k].tick = 0]
    /\ UNCHANGED <<client, table, owner, web, shut, faults>>

-----------------------------------------------------------------------------
(* CloseClientByAddr *)
WebCloses(a) ==
    /\ Running /\ TableFree
    /\ web = None /\ table[a] # None
    /\ web' = table[a]
    /\ Mishap
    /\ UNCHANGED <<client, conn, table, owner, shut>>

WebReturns ==
    /\ web # None /\ conn[web].closed = "done"
    /\ web' = None
    /\ UNCHANGED <<client, conn, table, owner, shut, faults>>

(* Shutdown: no more connections; with clientsMu every session is closed. *)
Shutdown ==
    /\ shut = "no"
    /\ shut' = "closing"
    /\ UNCHANGED <<client, conn, table, owner, web, faults>>

ShutdownEnds ==
    /\ shut = "closing"
    /\ \A k \in Conns : InShutdown(k) => conn[k].closed = "done"
    /\ shut' = "done"
    /\ UNCHANGED <<client, conn, table, owner, web, faults>>

-----------------------------------------------------------------------------
(* Time.  A ticker that is due fires first, and no message waits longer    *)
(* than Delay.  The supervisor starts the client again.                    *)
Pending(c) ==
    /\ c.closed = "open"
    /\ \/ AtWork(c)
       \/ /\ c.path = "up" /\ c.hand \in {"none", "loop"}
          /\ c.toSrv # <<>> \/ c.toCli # <<>>

Older(c) ==
    [c EXCEPT !.slack = IF Pending(c) THEN @ + 1 ELSE @,
              !.age = IF c.hand # "none" /\ c.closed = "open" THEN @ + 1 ELSE @,
              !.tick = IF c.beat = "on" THEN @ + 1 ELSE @]

Tick ==
    /\ Running
    /\ client.at = "run" => client.tick < Interval
    /\ \A k \in Conns : /\ conn[k].beat = "on" => conn[k].tick < Interval
                        /\ Pending(conn[k]) => conn[k].slack < Delay
                        /\ ~(conn[k].closed = "open" /\ WantsClose(k))
                        /\ conn[k].hand # "exit"
    /\ conn' = [k \in Conns |-> Older(conn[k])]
    /\ client' = CASE client.at = "down" -> [client EXCEPT !.at = "ready"]
                   [] client.at = "run" -> [client EXCEPT !.tick = @ + 1]
                   [] OTHER -> client
    /\ UNCHANGED <<table, owner, web, shut, faults>>

(* A connection that is over at both ends is used again.  A port that it   *)
(* got after Close was through stays taken.                                *)
Over(k) ==
    /\ client.conn # k /\ web # k
    /\ conn[k].path \in {"cut", "eof"} \/ ~conn[k].good
    /\ conn[k].hand = "done" \/ (conn[k].hand = "none" /\ conn[k].toSrv = <<>>)
    /\ conn[k].beat \in {"off", "end"}

Recycle(k) ==
    /\ Over(k)
    /\ conn' = [conn EXCEPT ![k] = Fresh]
    /\ owner' = [p \in Ports |-> IF p \in conn[k].mine THEN Leaked ELSE owner[p]]
    /\ UNCHANGED <<client, table, web, shut, faults>>

-----------------------------------------------------------------------------
ClientNext(k) ==
    \/ \E a \in Addrs : Connect(k, a)
    \/ ClientReads(k) \/ ClientReadFails(k)
HandlerNext(k) ==
    \/ AddClient(k) \/ HandleAuthPayload(k) \/ HandlePing(k)
    \/ (\E p \in Ports : HandleNewProxy(k, p))
    \/ ProxyStarted(k) \/ LoopEnds(k) \/ RemoveClient(k) \/ HandlerEnds(k)
CloseNext(k) == CloseConn(k) \/ CloseProxies(k)

Faults(k) ==
    \/ \E a \in Addrs : Stranger(k, a)
    \/ Killed(k) \/ Terminated(k) \/ Cut(k) \/ PingFails(k) \/ RequestWorkConn(k)

(* The process has exited. *)
Exited == shut = "done" /\ UNCHANGED vars

Next ==
    \/ \E k \in Conns :
        \/ ClientNext(k) \/ ClientPing(k) \/ HandlerNext(k) \/ CloseNext(k) \/ Heartbeat(k)
        \/ HeartbeatEnds(k) \/ GivesUp(k) \/ CutNoticed(k) \/ Recycle(k) \/ Faults(k)
    \/ \E a \in Addrs : WebCloses(a)
    \/ WebReturns \/ Shutdown \/ ShutdownEnds \/ Tick \/ Exited

(* Every goroutine and the client run, time passes, and the client's       *)
(* kernel gives up on a connection that is cut.  The server's need not:    *)
(* the heartbeat is there for that.  What goes wrong need not happen, and  *)
(* nobody has to press a button.                                           *)
Fairness ==
    /\ \A k \in Conns : /\ WF_vars(ClientNext(k)) /\ WF_vars(ClientPing(k))
                        /\ WF_vars(HandlerNext(k) \/ CloseNext(k) \/ HeartbeatEnds(k))
                        /\ WF_vars(Heartbeat(k))
                        /\ WF_vars(GivesUp(k) \/ Recycle(k))
    /\ WF_vars(WebReturns \/ ShutdownEnds) /\ WF_vars(Tick)

Spec == Init /\ [][Next]_vars
FairSpec == Spec /\ Fairness

-----------------------------------------------------------------------------
(* Properties. *)

(* Who is found in the table, to be shown, to be closed by the dashboard   *)
(* or to be closed by Shutdown, is a session of that address whose handler *)
(* has not taken leave of it, also when the address comes again while the  *)
(* handler of its last session still runs.  The converse does not hold:    *)
(* that handler then takes the new session out.                            *)
ListedAreLive ==
    \A a \in Addrs : table[a] # None =>
        /\ conn[table[a]].addr = a
        /\ conn[table[a]].hand \in {"added", "loop", "start", "exit"}

(* A remote port is only ever held for a peer that knew the token, however *)
(* early it sends its requests (handleControlConn).                        *)
OnlyAuthenticated == \A p \in Ports : owner[p] \in Conns => conn[owner[p]].good

(* README, heartbeat: a session without a Ping for the timeout is closed.  *)
(* With the ticker it is at most one interval late, and no port is held by *)
(* an open session that has been silent for longer.                        *)
SilenceBounded ==
    \A k \in Conns :
        conn[k].closed = "open" /\ (conn[k].beat # "off" \/ \E p \in Ports : owner[p] = k)
            => conn[k].age <= Timeout + Interval

(* The heartbeat never ends a session whose client is there and reachable: *)
(* neither a slow set-up nor a late Ping, within Delay, is taken for death.*)
LiveClientKept ==
    [][\A k \in Conns : conn[k].beat = "on" /\ conn'[k].beat = "close"
                            => ~(client.conn = k /\ conn[k].path = "up")]_vars

(* README: the supervisor brings the client back.  However it was lost,    *)
(* once nothing more goes wrong it serves all its proxies again in the     *)
(* end, though a new session finds its ports taken until the old one is    *)
(* reclaimed; unless the client has exited with status 0, after which the  *)
(* supervisor (Restart=on-failure) leaves it alone, or a port was lost for *)
(* good when a session closed while it started a proxy (registry_leak).    *)
Serving == client.at = "run" /\ \A p \in Ports : owner[p] = client.conn
ServedAgain ==
    <>[](\/ Serving \/ shut # "no" \/ client.at = "stopped"
         \/ \E p \in Ports : owner[p] = Leaked)

(* Shutdown ends, although it closes the sessions with clientsMu held and  *)
(* their handlers wait for it.                                             *)
ShutdownCompletes == shut = "closing" ~> shut = "done"
=============================================================================
