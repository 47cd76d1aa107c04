------------------------------ MODULE WorkConn ------------------------------
(***************************************************************************)
(* How an external TCP connection gets its work connection: the queue and  *)
(* the handlers of a TCP proxy (server/proxy.go), the work connection      *)
(* manager (server/workconn.go) and the client's answer (client/proxy.go). *)
(*                                                                         *)
(* A handler asks over the control connection and only then queues up as a *)
(* waiter.  Waiters are kept by proxy name for the whole server, they are  *)
(* served in order, and a waiter waits without a limit: neither the end of *)
(* its session nor that of its external connection takes it off the queue. *)
(* Each session is given one TCP proxy; a client that reconnects is a new  *)
(* session with the same name.  A work connection only says which proxy it *)
(* is for, so one may also come from a peer that nobody has asked.         *)
(***************************************************************************)
EXTENDS Integers, Sequences, FiniteSets, Functions

CONSTANTS
    Sessions,   \* control sessions, each with one TCP proxy
    Names,      \* proxy names
    NameOf,     \* the name of a session's proxy
    Exts,       \* bound: external connections at a time
    Works,      \* bound: work connections at a time
    QueueCap,   \* 16: capacity of pendingConns
    Faults,     \* what may go wrong: "dial", "stop", "close", "uninvited"
    MaxStray,   \* bound: uninvited work connections taken for a name
    NamesUnique, \* clients keep to names of their own, as the README asks
    None

ASSUME NameAssumption == NameOf \in [Sessions -> Names]
ASSUME QueueAssumption == QueueCap \in Nat \ {0}
ASSUME FaultAssumption ==
    Faults \subseteq {"dial", "stop", "close", "uninvited"} /\ NamesUnique \in BOOLEAN
ASSUME NobodyAssumption == None \notin Sessions \cup Works
ASSUME FiniteAssumption == IsFiniteSet(Sessions) /\ IsFiniteSet(Exts) /\ IsFiniteSet(Works)

VARIABLES
    phase,      \* a session and its proxy
    taking,     \* handlePendingConns still runs
    pending,    \* pendingConns
    asks,       \* NewWorkConn messages on their way to the client
    ext,        \* external connections
    work,       \* work connections
    waiters,    \* workConnManager.waiters, by proxy name
    stray       \* history: uninvited work connections taken, by proxy name

vars == <<phase, taking, pending, asks, ext, work, waiters, stray>>

(* An external connection is out (not connected, or closed), sniffed       *)
(* (accepted, TLS being looked for), pending, with a handler that will     *)
(* ask, register or wait for a work connection, or joined to one.          *)
Outside == [st |-> "out", via |-> None, work |-> None]
NoWork == [st |-> "none", from |-> None, name |-> None]
ExtStates == {"out", "sniffed", "pending", "ask", "register", "wait", "joined"}

TypeOK ==
    /\ phase \in [Sessions -> {"off", "up", "stopped", "closing", "closed"}]
    /\ taking \in [Sessions -> BOOLEAN]
    /\ pending \in [Sessions -> Seq(Exts)]
    /\ \A s \in Sessions : Len(pending[s]) <= QueueCap
    /\ asks \in [Sessions -> Nat]
    /\ ext \in [Exts -> [st : ExtStates, via : Sessions \cup {None},
                         work : Works \cup {None}]]
    /\ work \in [Works -> [st : {"none", "dial", "sent", "given"},
                           from : Sessions \cup {None}, name : Names \cup {None}]]
    /\ waiters \in [Names -> Seq(Exts)]
    /\ stray \in [Names -> Nat]

Init ==
    /\ phase = [s \in Sessions |-> "off"]
    /\ taking = [s \in Sessions |-> TRUE]
    /\ pending = [s \in Sessions |-> <<>>]
    /\ asks = [s \in Sessions |-> 0]
    /\ ext = [e \in Exts |-> Outside]
    /\ work = [w \in Works |-> NoWork]
    /\ waiters = [n \in Names |-> <<>>]
    /\ stray = [n \in Names |-> 0]

Listening(s) == phase[s] \in {"up", "closing"}
Connected(s) == phase[s] \in {"up", "stopped"}

-----------------------------------------------------------------------------
(* A client connects and registers its proxy.  With one client per name,   *)
(* it is the same client that connects anew after its session is closed.   *)
Connect(s) ==
    /\ phase[s] = "off"
    /\ NamesUnique => \A t \in Sessions \ {s} :
                        NameOf[t] = NameOf[s] => phase[t] \in {"off", "closed"}
    /\ phase' = [phase EXCEPT ![s] = "up"]
    /\ UNCHANGED <<taking, pending, asks, ext, work, waiters, stray>>

(* The proxy: accept, sniff, queue. *)

Accept(e, s) ==
    /\ Listening(s)
    /\ ext[e].st = "out"
    /\ ext' = [ext EXCEPT ![e] = [st |-> "sniffed", via |-> s, work |-> None]]
    /\ UNCHANGED <<phase, taking, pending, asks, work, waiters, stray>>

(* Mutant: the queue takes one connection more than it has room for. *)
EnqueueOver(e) ==
    LET s == ext[e].via
    IN  /\ ext[e].st = "sniffed"
        /\ Len(pending[s]) <= QueueCap
        /\ pending' = [pending EXCEPT ![s] = Append(@, e)]
        /\ ext' = [ext EXCEPT ![e].st = "pending"]
        /\ UNCHANGED <<phase, taking, asks, work, waiters, stray>>

(* A goroutine that has accepted goes on although the proxy stops. *)
Enqueue(e) ==
    LET s == ext[e].via
    IN  /\ ext[e].st = "sniffed"
        /\ Len(pending[s]) < QueueCap
        /\ pending' = [pending EXCEPT ![s] = Append(@, e)]
        /\ ext' = [ext EXCEPT ![e].st = "pending"]
        /\ UNCHANGED <<phase, taking, asks, work, waiters, stray>>

(* The queue is full, or the sniffing failed. *)
Drop(e) ==
    /\ ext[e].st = "sniffed"
    /\ ext' = [ext EXCEPT ![e] = Outside]
    /\ UNCHANGED <<phase, taking, pending, asks, work, waiters, stray>>

(* select takes from the queue, or notices that the proxy is stopped, in   *)
(* either order when both are possible.                                    *)
TakePending(s) ==
    /\ taking[s]
    /\ pending[s] # <<>>
    /\ pending' = [pending EXCEPT ![s] = Tail(@)]
    /\ ext' = [ext EXCEPT ![Head(pending[s])].st = "ask"]
    /\ UNCHANGED <<phase, taking, asks, work, waiters, stray>>

EndTaking(s) ==
    /\ taking[s]
    /\ phase[s] \in {"stopped", "closed"}
    /\ taking' = [taking EXCEPT ![s] = FALSE]
    /\ UNCHANGED <<phase, pending, asks, ext, work, waiters, stray>>

-----------------------------------------------------------------------------
(* handleTCPConn. *)

RequestWorkConn(e) ==
    LET s == ext[e].via
    IN  /\ ext[e].st = "ask"
        /\ IF Connected(s)
           THEN /\ asks' = [asks EXCEPT ![s] = @ + 1]
                /\ ext' = [ext EXCEPT ![e].st = "register"]
           ELSE /\ ext' = [ext EXCEPT ![e] = Outside]
                /\ UNCHANGED asks
        /\ UNCHANGED <<phase, taking, pending, work, waiters, stray>>

WaitWorkConn(e) ==
    LET n == NameOf[ext[e].via]
    IN  /\ ext[e].st = "register"
        /\ waiters' = [waiters EXCEPT ![n] = Append(@, e)]
        /\ ext' = [ext EXCEPT ![e].st = "wait"]
        /\ UNCHANGED <<phase, taking, pending, asks, work, stray>>

(* The connection is in the waiter's channel: the bridge starts. *)
StartJoin(e) ==
    /\ ext[e].st = "wait"
    /\ ext[e].work # None
    /\ ext' = [ext EXCEPT ![e].st = "joined"]
    /\ UNCHANGED <<phase, taking, pending, asks, work, waiters, stray>>

(* Both sides are closed when the bridge ends. *)
EndJoin(e) ==
    /\ ext[e].st = "joined"
    /\ work' = [work EXCEPT ![ext[e].work] = NoWork]
    /\ ext' = [ext EXCEPT ![e] = Outside]
    /\ UNCHANGED <<phase, taking, pending, asks, waiters, stray>>

-----------------------------------------------------------------------------
(* The client: handleNewWorkConn starts a goroutine per request. *)

Asking(s) == [st |-> "dial", from |-> s, name |-> NameOf[s]]

(* Mutant: the client opens two connections for one request. *)
NewWorkConnTwice(s) ==
    /\ asks[s] > 0
    /\ \E v, w \in Works :
        /\ v # w
        /\ work[v].st = "none"
        /\ work[w].st = "none"
        /\ work' = [work EXCEPT ![v] = Asking(s), ![w] = Asking(s)]
    /\ asks' = [asks EXCEPT ![s] = @ - 1]
    /\ UNCHANGED <<phase, taking, pending, ext, waiters, stray>>

NewWorkConn(s) ==
    /\ asks[s] > 0
    /\ \E w \in Works :
        /\ work[w].st = "none"
        /\ work' = [work EXCEPT ![w] = Asking(s)]
    /\ asks' = [asks EXCEPT ![s] = @ - 1]
    /\ UNCHANGED <<phase, taking, pending, ext, waiters, stray>>

StartWorkConn(w) ==
    /\ work[w].st = "dial"
    /\ work' = [work EXCEPT ![w].st = "sent"]
    /\ UNCHANGED <<phase, taking, pending, asks, ext, waiters, stray>>

(* handleIncomingConn takes a connection whose first message is a          *)
(* StartWorkConn for a work connection of the proxy it names, whoever      *)
(* opened it: an earlier client of that name, or nobody's.                 *)
Uninvited(w, n) ==
    /\ "uninvited" \in Faults
    /\ stray[n] < MaxStray
    /\ work[w].st = "none"
    /\ work' = [work EXCEPT ![w] = [st |-> "sent", from |-> None, name |-> n]]
    /\ UNCHANGED <<phase, taking, pending, asks, ext, waiters, stray>>

(* The local service or the server cannot be reached, or the client goes:  *)
(* nobody is told.                                                         *)
DialFails(w) ==
    /\ "dial" \in Faults
    /\ work[w].st \in {"dial", "sent"}
    /\ work' = [work EXCEPT ![w] = NoWork]
    /\ UNCHANGED <<phase, taking, pending, asks, ext, waiters, stray>>

Uncalled(w) == IF work[w].from = None THEN 1 ELSE 0

(* Mutant: the waiter that is served stays in the queue. *)
DeliverKeeping(w) ==
    LET n == work[w].name
    IN  /\ work[w].st = "sent"
        /\ waiters[n] # <<>>
        /\ work' = [work EXCEPT ![w].st = "given"]
        /\ ext' = [ext EXCEPT ![Head(waiters[n])].work = w]
        /\ stray' = [stray EXCEPT ![n] = @ + Uncalled(w)]
        /\ UNCHANGED <<phase, taking, pending, asks, waiters>>

(* deliverWorkConn, under the manager's lock: the first waiter of that     *)
(* name gets the connection, whichever session it belongs to.              *)
Deliver(w) ==
    LET n == work[w].name
    IN  /\ work[w].st = "sent"
        /\ waiters[n] # <<>>
        /\ work' = [work EXCEPT ![w].st = "given"]
        /\ ext' = [ext EXCEPT ![Head(waiters[n])].work = w]
        /\ waiters' = [waiters EXCEPT ![n] = Tail(@)]
        /\ stray' = [stray EXCEPT ![n] = @ + Uncalled(w)]
        /\ UNCHANGED <<phase, taking, pending, asks>>

(* Nobody waits: the connection is closed. *)
NoWaiter(w) ==
    /\ work[w].st = "sent"
    /\ waiters[work[w].name] = <<>>
    /\ work' = [work EXCEPT ![w] = NoWork]
    /\ UNCHANGED <<phase, taking, pending, asks, ext, waiters, stray>>

-----------------------------------------------------------------------------
(* ProxyInfo.Stop from the dashboard or the client; ClientSession.Close.   *)
(* Bridges and handlers of a stopped proxy go on.                          *)

StopProxy(s) ==
    /\ \/ /\ "stop" \in Faults
          /\ phase[s] = "up"
          /\ phase' = [phase EXCEPT ![s] = "stopped"]
       \/ /\ phase[s] = "closing"
          /\ phase' = [phase EXCEPT ![s] = "closed"]
    /\ UNCHANGED <<taking, pending, asks, ext, work, waiters, stray>>

CloseConn(s) ==
    /\ "close" \in Faults
    /\ Connected(s)
    /\ phase' = [phase EXCEPT ![s] = IF @ = "up" THEN "closing" ELSE "closed"]
    /\ asks' = [asks EXCEPT ![s] = 0]
    /\ UNCHANGED <<taking, pending, ext, work, waiters, stray>>

-----------------------------------------------------------------------------
ExtNext(e) ==
    \/ \E s \in Sessions : Accept(e, s)
    \/ Enqueue(e) \/ Drop(e)
    \/ RequestWorkConn(e) \/ WaitWorkConn(e) \/ StartJoin(e) \/ EndJoin(e)

WorkNext(w) == StartWorkConn(w) \/ DialFails(w) \/ Deliver(w) \/ NoWaiter(w)

AnyoneNext == \E w \in Works, n \in Names : Uninvited(w, n)

SessionNext(s) ==
    \/ Connect(s) \/ TakePending(s) \/ EndTaking(s) \/ NewWorkConn(s)
    \/ StopProxy(s) \/ CloseConn(s)

Next ==
    \/ \E e \in Exts : ExtNext(e)
    \/ \E w \in Works : WorkNext(w)
    \/ \E s \in Sessions : SessionNext(s)
    \/ AnyoneNext

Spec == Init /\ [][Next]_vars

(* Goroutines run on and connections reach the other side; who connects,   *)
(* who hangs up and what fails is up to the world.                         *)
Fairness ==
    /\ \A e \in Exts : WF_vars(Enqueue(e) \/ Drop(e))
                       /\ WF_vars(RequestWorkConn(e) \/ WaitWorkConn(e)
                                  \/ StartJoin(e))
    /\ \A w \in Works : WF_vars(WorkNext(w))
    /\ \A s \in Sessions : WF_vars(TakePending(s)) /\ WF_vars(NewWorkConn(s))

FairSpec == Spec /\ Fairness

-----------------------------------------------------------------------------
(* Properties. *)

(* A work connection is handed to one external connection only, and nobody *)
(* in the queue has one already, so the send into the waiter's channel     *)
(* never blocks the manager, whose lock is held meanwhile.                 *)
PairedOnce ==
    /\ \A e, f \in Exts : e # f /\ ext[e].work # None => ext[e].work # ext[f].work
    /\ \A e \in Exts : ext[e].work # None => work[ext[e].work].st = "given"
    /\ \A n \in Names : \A i, j \in DOMAIN waiters[n] :
         /\ ext[waiters[n][i]].st = "wait"
         /\ ext[waiters[n][i]].work = None
         /\ i # j => waiters[n][i] # waiters[n][j]

(* The requests for a name and the work connections its clients answer     *)
(* them with never outnumber the handlers of that name that have asked and *)
(* got nothing, whatever was refused, lost or stopped, except by those     *)
(* that a connection nobody asked for has served in their place.           *)
Asked(n) == {e \in Exts : /\ ext[e].st \in {"register", "wait"}
                          /\ ext[e].work = None
                          /\ NameOf[ext[e].via] = n}
Coming(n) == {w \in Works : /\ work[w].st \in {"dial", "sent"}
                            /\ work[w].from # None
                            /\ work[w].name = n}
Requested(n) ==
    SumFunctionOnSet(asks, {s \in Sessions : NameOf[s] = n})
NoMoreThanAsked ==
    \A n \in Names :
        Requested(n) + Cardinality(Coming(n)) <= Cardinality(Asked(n)) + stray[n]

(* README, step 4 of the work flow: the client that is asked connects its  *)
(* local service with that external connection.                            *)
JoinedToItsClient ==
    \A e \in Exts : ext[e].st = "joined" => work[ext[e].work].from = ext[e].via

(* The same step: an external connection the client was asked for is       *)
(* bridged in the end, at least when nothing at all fails.                 *)
ExternalIsServed ==
    \A e \in Exts : ext[e].st = "register" ~> ext[e].st = "joined"
=============================================================================
