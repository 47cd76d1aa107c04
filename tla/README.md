# VoxTun in TLA+

VoxTun is a tunnel for telephony: `voxcli`, inside a private network, keeps a
control connection to `voxsrv`, which listens on public ports for it and
carries SIP, IAX, TCP and RTP through. This directory holds TLA+ models of its
control channel, proxies, relays, media path, statistics and IP filter, what TLC
checks of them on small instances, and what the TLA+ proof system proves of them
for every instance. Paths below are relative to the repository; `server/`,
`client/`, `common/` and `protocol/` stand for the directories of
`internal/app/`.

## 1. The system

| Component | State | Operations | Meets |
| --- | --- | --- | --- |
| RTP relays and port pool (`server/rtp_relay.go`, end of `server/control.go`) | `rtpPortPool.used`; per session `rtpRelays`, by `Call-ID#index`; per relay socket, peer, `lastActive`, `closeOnce` | `Alloc`, `Free`, `Start`, `Stop`, `idleWatch`, `readLoop`, `SendToPeer`; `getOrCreateRTPRelays`, `releaseRTPRelays`, `handleNewRTPRelayResp` | SIP path (callers), control connection (`NewRTPRelay`, `CloseRTPRelay`), `Close` |
| Proxies (`server/server.go`, `server/control.go`, `server/proxy.go`) | `Server.proxies` by transport and port; `ClientSession.proxies` by name; listeners | `handleNewProxy`, `handleProxyClosed`, `closeProxy`, `RegisterProxy`, `UnregisterProxy`, `Start`, `Stop` | dashboard, `Close` |
| Work connections (`server/workconn.go`, `server/proxy.go`, `client/proxy.go`) | `pendingConns` of a proxy; `waiters` by proxy name | accept, sniff, queue, `handleTCPConn`, `waitWorkConn`, `deliverWorkConn`, `startWorkConn` | control connection (`NewWorkConn`), a connection of their own (`StartWorkConn`) |
| Control channel (`server/control.go`, `server/workconn.go`, `client/client.go`) | `authed`, `lastPing`, `closed`; `Server.clients` by address | authentication, registration, message loops, heartbeats, `Close`, `Shutdown` | everything above |
| SIP/UDP data path (`server/proxy.go`) | `udpPeers` | `handleUDPPacket`, `SendUDPPacketToPeer`, `pipeSIP`, rewriting | relays, statistics |
| Extension statistics (`server/extension.go`) | `exts`, `peers`, `calls` | `observeSIP`, `observeIAX`, `markRegister`, `pendCall`, `answerCall`, `endCall`, pruning, byte counts | SIP path, dashboard |
| IP filter (`common/ipfilter`, `server/web.go`, `common/config`) | filter, configuration in memory, section of the file | `Allow`, `Check`, `Reload`, `mutateIPFilter`, `SaveIPFilter` | every listener, dashboard |
| SIP/SDP (`protocol/sip`) | none | media entries, rewriting of SDP and routing headers, framing | SIP path |
| IAX (`protocol/iax`) | none | parse | statistics |
| Client UDP sessions (`client/proxy.go`) | `udpSessions` of a runner; runners of relays | `forwardUDPToLocal`, `readLocalUDP`, `handleNewRTPRelay`, `handleCloseRTPRelay` | control connection |
| Dashboard (`server/web.go`), certificates (`server/tls.go`) | login sessions; cached certificate | login, expiry; reload | HTTP, TLS |

What is hard here is concurrency. Every session has a control loop and a
heartbeat; every UDP proxy a reader; every bridged SIP/TCP connection two
pipes; every relay a reader and an idle watcher; the dashboard has a goroutine
per request. They share maps under several mutexes that are often dropped
between a look and the act that depends on it, and some send on the control
connection, which blocks when the client does not read, while they hold a
mutex. There are no tests in the repository. `PROJECT.json` lists the hazards
line by line.

What makes each component correct, in short:

* relays: a port belongs to one relay at a time and none is lost; a call's
  relay is released at BYE, when idle and with the session, whoever comes first;
* proxies: a key is registered exactly while a proxy lives under it; the end of
  a session takes its proxies along;
* work connections: an external connection is joined to one work connection, of
  the client that was asked for it, in the end;
* control channel: no port before authentication; a client that pings stays, one
  that does not is closed; who is listed is live; a client that is restarted is
  served again;
* statistics: a call that was answered is counted, once while the tracker knows
  it; its time ends with it; the tables stay bounded;
* IP filter: file, memory and filter agree, also after an error or a crash; the
  dashboard's verdict is the listener's;
* media: the port of a relay is written at the entry it was made for, and what
  arrives there reaches the socket of the client it is meant for.

## 2. The modules

| Module | What it is | Extends |
| --- | --- | --- |
| `PortLease` | abstract: what the port pool promises (exclusive leases) | |
| `RTPRelay` | pool, relays, relay tables, the goroutines that use them, `Close`, the client's answers | instance of `PortLease` as refinement |
| `ProxyRegistry` | registry, proxy maps, listeners and the ways a proxy ends | |
| `WorkConn` | external connections, queue, waiters, work connections | |
| `ControlChannel` | client process, connections, authentication, registration, heartbeats, table of clients, `Shutdown`, with time | |
| `SDP` | media entries and rewriting, as operators on bodies of lines | |
| `MediaPath` | a SIP call from phone to local service: relays, runners and sockets at the client | `SDP` |
| `ExtTracker` | statistics of extensions | |
| `IPLists` | verdicts of the filter | |
| `ConfigFile` | the lines of the configuration file, how the section is found and rewritten | |
| `IPFilter` | the dashboard's changes, the file, failing steps, crashes, listeners | `IPLists`, `ConfigFile` |
| `...Proofs` | theorems about `RTPRelay` (and `PortLease`), `ProxyRegistry`, `WorkConn`, `ControlChannel`, `MediaPath`, `ExtTracker`, `IPFilter` (and `IPLists`) | their module |
| `SumTheorems` | lemmas about sums over finite sets, for `WorkConnProofs` and `ExtTrackerProofs` | |
| `MC...` | constants for TLC | their module |

`RTPRelay`, `ProxyRegistry` and `ControlChannel` each contain the part of
`ClientSession.Close` that concerns them; in the code the connection is closed
first, then the proxies, then the relays, under different mutexes, so the parts
do not influence each other. Definitions marked "Mutant" are plausible mistakes;
nothing uses them but the comparison `PROJECT.json` describes.

### RTPRelay

One step is what the code does between two points where another goroutine can
be noticed: a critical section of `rtpRelaysMu` that is dropped at once is one
step (`Lookup`, `Insert`), one that is held over blocking calls takes the
variable `mu` at its start and returns it at its end (`ReleaseBegin` ...
`ReleaseEnd`, `SweepBegin` ... `SweepEnd`). `Alloc` and `Free` are atomic under
the pool's own mutex.

| TLA+ | Code |
| --- | --- |
| `used` | `rtpPortPool.used` |
| `relay[r]` | an `RTPRelay`: `st` is how far `Start` and `Stop` have come, `tell` the argument of the `Stop` under way |
| `table[s][k]` | `ClientSession.rtpRelays` |
| `mu[s]`, `phase[s]` | holder of `rtpRelaysMu`; progress of `Close` |
| `worker[w]` | a goroutine that handles SIP: where it is in `getOrCreateRTPRelays` or `releaseRTPRelays` |
| `wire[s]`, `refused[s]` | messages on the control connection, both ways |
| `Offer`, `Lookup`, `Alloc`, `Exhausted`, `StartOk`, `StartFails`, `Insert`, `Notify` | `rewriteSIPForExternal` and `getOrCreateRTPRelays` |
| `ReleaseBegin`, `RefusalBegin`, `ReleasePick`, `ReleaseStop`, `ReleaseDelete`, `ReleaseEnd` | `releaseRTPRelays`; `handleNewRTPRelayResp` with `OK` false |
| `StopBegin`, `StopFree`, `StopTell` | the body of `closeOnce` in `Stop`: socket, port, message |
| `IdleStop` | `idleWatch` decides: 60 s without a packet may have passed at any time |
| `CloseConn`, `SweepBegin`, `SweepStop`, `SweepEnd` | `ClientSession.Close` |

Data left out: addresses, the contents of messages, media. A SIP message is its
Call-ID and its number of media entries. `wire` carries only the relay messages
and its capacity stands for the socket buffer. `voxcli` never refuses a relay;
the server handles a refusal, so the run lets the client refuse too. Relay
objects are named by small numbers and a name is used again once nothing refers
to the object (`Garbage`), so `Relays` bounds the objects alive, not the length
of a behaviour.

### ProxyRegistry

`registry`, `proxies`, `mu`, `phase` and `loop` are the server's map, the
session's map, its mutex, the progress of `Close` and of the control loop.
`tasks` holds the pairs `Stop(); UnregisterProxy()` under way, for whichever of
the three callers runs them, and with the caller what it still has to do after
them. A session slot stands for one control connection after another of the
same client (`Connect`), so reconnection is covered.

### WorkConn

`ext[e]` follows an external connection through `acceptTCP`, `handlePendingConns`
and `handleTCPConn`; `work[w]` a work connection from the client's goroutine to
`deliverWorkConn`, with the name in its `StartWorkConn`; `asks` counts
`NewWorkConn` messages on the way; `waiters` is `workConnManager.waiters`.
`handleIncomingConn` takes a `StartWorkConn` as a first message from any peer,
without a token and for any name: such a connection is `Uninvited` (fault
`"uninvited"`), and it is delivered like the others. The history variable `stray`
counts those that a waiter was given, so that `NoMoreThanAsked` can say what the
balance is worth: with no uninvited connection, none is under way that no handler
asked for. A session has one TCP proxy. A client that reconnects is another
session with the same name. Whether two sessions may use one name at a time is the
constant `NamesUnique`: the README asks for unique names (line 178), the server
does not enforce it between sessions. Faults are switched on by `Faults`. A buffer
for `NewWorkConn` is not bounded: a handler that blocks in `sendMsg` holds nothing
others need but the right to send.

### ControlChannel

`client` is the one `voxcli` process: `Run` dials, authenticates, registers its
proxies one after the other and then reads messages. It does not reconnect: it
exits. Run's errors end the process with status 1, and its supervisor starts it
again (`"down"`, then `Connect`). The other exits have status 0 (`"stopped"`):
after SIGINT or SIGTERM (`Terminated`), and when a Ping cannot be written before
`runLoop` has seen that the connection is gone (`PingFails`: `heartbeat` calls
`Close`, and `runLoop` takes this for an order). The unit the README shows has
`Restart=on-failure`, so nobody starts the client after these.

`conn[k]` is a connection with both of its ends: what travels on it, where the
server's handler is (`hand`), how far `Close` is (`closed`), the heartbeat
goroutine (`beat`, `tick`) and the time since `lastPing` (`age`). `table` is
`Server.clients`, which goes by remote address. A connection comes from any
address that no other connection has at the peer's end (`Usable`), also one under
which an older session is still in the table; `RemoveClient` deletes by address,
as the code does. `owner` is `Server.proxies`. A second peer that does not know
the token (`Stranger`) sends requests without waiting for an answer. A connection
may be cut without a sign, the client killed, a work connection asked for at any
moment (`Faults`), and the dashboard and `Shutdown` close sessions.

Time is discrete. One unit is 30 s, the heartbeat interval, so the instance has
`Interval = 1` and `Timeout = 3`. A `Tick` happens only when nothing that is due
is outstanding: no ticker has fired and not been answered, no message has waited
longer than `Delay`. The ordering of the constants that this needs is
`TimesAssumption`: a ping, its delay and the set-up fit in the timeout. `Pong` is
left out, since the client does nothing with it.

### SDP and MediaPath

A body is a sequence of lines `o`, `c`, `m` and `x`. `ExtractMediaEntries` and
`RewriteSDPWithRelays` are translated line by line as folds, with the state the
code keeps between lines; what each says of a medium is the property's affair.
`MediaPath` lets the local service send such a body to a phone outside; the
control loop makes a relay for each entry, tells the client and writes the message
with the ports it got. Packets that arrive at a relay go to the client as
`UDPPacket`, which has or makes a socket for that phone. The two sides meet in the
order of the control connection (`toCli`, `toSrv`), which is what the races
between `NewRTPRelay`, `CloseRTPRelay` and packets are about: a BYE may come from
either side, the idle watcher may stop a relay, and the reader of a client's
socket may give up while the loop uses it (`ReadTimeout`, then `Unlist`). `Unlist`
deletes by phone, whoever is listed, as `client/proxy.go:213` does; since a socket
stays listed until its own reader unlists it, that is the same socket in every
reachable state. The rewriting of SIP headers and of the host in SDP is kept in
the operators because the code does it in the same pass, but no property depends
on it. The session stays up and a call's relays are released in one step;
`RTPRelay` has the locks and the end of sessions.

### ExtTracker

`exts`, `peers`, `calls` are the tracker's maps; `order` is the order of
`extCall.seen`. `SIPMeanings` and `IAXMeanings` say which operations a message
becomes: a 200 to INVITE is `pendCall` and then `answerCall`, and a NEW is
`endCall` and then `pendCall`, each under a lock of its own, so another message
may come in between (`rest`). Any message may come at any time, which covers
reordering and repetition. Only what the statistics count is kept: the last
address, times of registration and display names are left out. The code reads the
clock right before it takes the lock; the models read it in the same step. The
history variable `over` counts, for each extension, the answered calls that left
the table (ended, or evicted by a newer one); with it `AnsweredIsCounted` states
the counter exactly.

### IPLists, ConfigFile, IPFilter

`IPLists` has the verdicts: `Allow`, which listeners use, and `Check`, which the
dashboard shows with the list and rule that decide. An entry is the set of
addresses it covers (`Net`). `ConfigFile` has the lines of the file as the writer
sees them: a kind, what it carries and the comment that follows on it. It finds
the `ipFilter` section (a file without one is an error, and the request fails),
writes its keys again with the comments in their lines, adds keys that are missing,
and leaves its other lines and the other sections alone. Lines of entries are
written anew: what stood in them goes, comments included, and so do the entries of
a key that is not the filter's. `IPFilter` is `mutateIPFilter` step by
step (`Begin`, `Write`, `Rename`, `Reload`, `Commit`, the failures), with `ipMu`
held throughout, and `AllowAddr` as the two looks it is (`Enabled`, `Judge`).
`Crash` may come between any two steps and loses everything but the two files;
`Restart` loads what is there. The history variable in `call[l].since` collects
the verdicts that held during a call.

## 3. What TLC checks

| Run | Instance | Checks |
| --- | --- | --- |
| `rtp_relays` | 1 session, control loop and a second goroutine that both create and release, 1 medium, 2 objects, 2 ports from three configured ranges, buffer of 1, client may refuse; fair | `TypeOK`, `PortOwnership`, `LeaseRefinement`, `IdleReclaimed`, `CloseCompletes` |
| `rtp_stale_port` | 2 sessions with a goroutine each | `TablePortsDistinct` is violated |
| `registry` | 2 clients, 3 requests (two names for one UDP key, its TCP twin), 2 objects; fair | `TypeOK`, `RegistryExact`, `NamesNeverReplaced`, `CloseReleasesKeys` |
| `registry_leak` | 1 client, 3 objects | `ClosedSessionOwnsNothing` is violated |
| `work_conns` | 2 sessions of one name at a time, 3 external and 2 work connections, queue of 1, every fault, 1 uninvited connection taken | `TypeOK`, `PairedOnce`, `NoMoreThanAsked` |
| `work_crossed` | 2 sessions of one client one after the other | `JoinedToItsClient` is violated |
| `work_lost` | 1 session, nothing fails; fair | `ExternalIsServed` is violated |
| `control` | 2 connections from 2 addresses in any combination, 1 proxy, interval 1, timeout 3, delay 1, 1 fault; fair | `TypeOK`, `ListedAreLive`, `OnlyAuthenticated`, `SilenceBounded`, `LiveClientKept`, `ServedAgain`, `ShutdownCompletes` |
| `media_path` | 1 call with 2 media, 1 phone, 2 ports, 2 relays, 2 sockets, wire of 1 | `TypeOK`, `AnnouncedIsMine`, `RunnerServesItsRelay`, `OneSocketPerPhone`, `AnswersFindTheirPhone` |
| `media_sdp` | the same with bodies that give an address per medium or a port with a count | `AnnouncedIsMine` is violated |
| `ext_tracker` | 2 numbers, 2 addresses, 2 calls, tables of 1 entry, 1 second, answers until an extension has 2, 1 packet | `TypeOK`, `OnlyRegistered`, `TimeCountedOnce`, `BytesCountedOnce`, `TablesBounded`, `AnsweredIsCounted` |
| `ip_filter` | 2 requests, 1 listener, a host and the network it is in, lists of up to 2, five layouts of the file | `TypeOK`, `Agreement`, `VerdictInForce`, `CheckAgrees`, `OneChangeAtATime`, `OthersKept` |

What the less obvious ones rule out: `IdleReclaimed`, a relay whose traffic has
ended keeps its port, also one stored in a session that was swept;
`RegistryExact`, a key is taken without a proxy or a proxy listens without its
key; `NoMoreThanAsked`, a client opens, or the server keeps, more work connections
than handlers asked for, beyond those strangers sent; `ListedAreLive`, the
dashboard shows, or `Shutdown` closes, a session that is gone or another one's
address; `SilenceBounded`, a silent session keeps a port; `LiveClientKept`, the
heartbeat ends a session whose client is there; `ServedAgain`, a client that
failed and was restarted stays refused because of its own old session;
`RunnerServesItsRelay`, a `CloseRTPRelay` of an earlier relay takes away the
runner of the later one; `OneSocketPerPhone`, the local service sees one phone as
two; `TimeCountedOnce`, a second of talk counts twice for a call;
`AnsweredIsCounted`, a call in the table is counted twice, or by one of its
parties only, or one that left the table is not accounted for; `Agreement` and
`OneChangeAtATime`, a failed step or a crash leaves file, filter and configuration
different, or loses a change; `VerdictInForce`, a listener's two looks give a
verdict that no list in force ever gave.

Why the bounds are enough to be interesting:

* two ports and two objects let the pool run out, a port pass from a stopped
  relay to a new one while the old object is still in the table, and both
  goroutines make a relay for one key; a buffer of one makes every second
  `sendMsg` wait;
* two clients and three ways to end a proxy meet on one key;
* three external connections and a queue of one fill the queue while two handlers
  wait; two work connections are enough to give a waiter another's, and one may be
  a stranger's while the other is asked for;
* two connections let the restarted client meet its own old session, or the
  stranger; with one interval of delay and three of timeout a ping may be as late
  as the code has to bear; one fault is enough to lose a session, and a connection
  that is over is used again, so the client may be restarted, refused and restarted
  until the old session is reclaimed; two addresses let the new session have the
  old one's or its own;
* two media and two relays let a port move from one medium to the other; a wire
  of one holds the loop between two sends;
* tables of one entry make every second call push out another; two answers count a
  call that left the table and came again; an address
  registers for two numbers; one goroutine is enough since a 200 whose second half
  waits is told apart from none by nothing but the messages in between, which may
  be sent as messages of their own;
* a host and its network make the order of the lists matter; the five layouts
  have the lists as items and in their lines, keys missing, comments on lines of
  their own, in the line of a key and in that of an entry, a list that is not the
  filter's, the section at the end of the file, and no section.

Sizes: `media_path` has 3.5 million states and takes two minutes, `ext_tracker`
1.5 million and takes a little less, `control` 550,000 and takes three and a half for
its liveness properties; the others take less. Symmetry is used for connections,
sockets, numbers, addresses and requests, in runs without liveness properties only.

Deadlock is checked in every run but those of `WorkConn`, which may stop: when
every session has ended, connections that still wait do so forever.
`ControlChannel` ends with the process and says so (`Exited`).

### What the violated ones say

* `TablePortsDistinct` (`rtp_relay.go:158`): `idleWatch` stops a relay without
  deleting it from the table. Later SDP of the call (a re-INVITE after a hold of
  a minute) is answered with the dead relay's port, which may be another call's.
* `ClosedSessionOwnsNothing` (`control.go:177`): a proxy is stored in a map that
  is already swept; nothing ever stops it and its port stays taken.
* `JoinedToItsClient` (`workconn.go:46`): a waiter of a closed session takes the
  work connection that the reconnected client opened for another connection.
* `ExternalIsServed` (`proxy.go:194`): the client's answer may come before the
  handler is in the queue; it is thrown away and the handler waits forever.
* `AnnouncedIsMine` in `media_sdp` (`sip.go:312`): a medium whose port is not a
  plain number is skipped when entries are extracted and counted when they are
  written, so the ports of relays are written at the wrong media.

A relay, too, may be stored in a session that is already swept
(`control.go:373`). It is not listed: its idle watcher reclaims it, which is what
`IdleReclaimed` shows. `ControlChannel` lets the first of these leaks happen
(`Leaked`), and `ServedAgain` makes an exception for it.

### Where code and documents differ, without a run

The models follow the code in these points too, and the properties say what the
code does:

* `config.go:199-200` drops the line of every entry of the section with the comment
  in it, such as the one README.md:234 shows, although `config.go:153` has the
  section's comments kept. `OthersKept` is about the lines and comments that are
  kept: other sections, comments on lines of their own, unknown keys, and comments
  in the lines of the filter's keys.
* `extension.go:117-118` has a re-INVITE or a repetition never reset a call. In the
  table it does not. A failed re-INVITE ends an answered call (`extension.go:325`), and
  a 200 after that, or after a BYE, registers the same Call-ID anew and counts it
  again (`extension.go:323-324`). `AnsweredIsCounted` counts both.
* README.md:345 and README.md:501 rely on the supervisor (`Restart=on-failure`) to
  bring the client back. A client whose Ping fails before its `runLoop` does exits
  with status 0 and is not restarted (`client.go:138-141`, `client.go:170-173`).
  `ServedAgain` excepts it (`"stopped"`).
* `removeClient` deletes by address (`server.go:130`). When a new session has the
  address of one whose handler has not left, that handler takes the new session out
  of the table: the dashboard does not list it and `Shutdown` does not close it.
  `ListedAreLive` is the direction that holds.
* `StartWorkConn` is taken from any peer (`workconn.go:80-86`), while README.md:44 has
  the client open work connections when told to. `NoMoreThanAsked` sets those of
  others apart.
* README.md:328 has both indexes of the statistics lose entries by age. The index of
  addresses is emptied when it is full (`extension.go:93-96`); `Learn` does that.
* A comment in the first column inside the section (section 5).

### Fairness

The specifications assume that goroutines that can take a step take one in the
end (the Go scheduler) and that a `sync.Mutex` is not withheld forever from a
goroutine waiting for it (its starvation mode): weak fairness for ordinary
steps, strong fairness for those that take a mutex others take again and again.
Nothing is assumed of the environment: not that clients read, callers call,
packets stop, or anyone disconnects. `IdleReclaimed` assumes in its own
statement that a relay's traffic ends. In `WorkConn` connections are also
assumed to arrive, which the violated property may rely on since it claims that
the code loses them even so.

`ControlChannel` assumes more, because `ServedAgain` speaks of the client: that
its process runs and its supervisor restarts it after an exit with an error, as
`Restart=on-failure` does (README of the repository), that time passes, and that
the client's kernel gives up on a connection that is cut. The server's need not
notice; the heartbeat is there for that. Faults, the dashboard and `Shutdown` need
not happen. Faults are finite (`MaxFaults`): what comes again and again is not
covered. An external connection that arrives at every restart while the client
still registers makes it fail every time (`client.go:110`), so by the code it need
never be served; no run shows this.

## 4. What is proved

`tlapm` checks every proof; no step is taken on trust. The assumptions are
those the modules name, and TLC evaluates them in every run: `SessionOf` is a
function into sessions, limits and intervals are positive, the client has a
proxy at least, sets that are counted are finite, `None` and its like are
distinct from what they are told apart from. The theorems hold for every number
of sessions, goroutines, connections, calls, ports, proxies, listeners, faults
and times. Every invariant and action property of the passing runs is proved,
but for one (see the end of this section).

| Theorem | Says |
| --- | --- |
| `TypeCorrect` of each `...Proofs` | `[]TypeOK`, which for several modules bounds queues and tables |
| `RTPRelayProofs!PortsOwned` | `[]PortOwnership` |
| `RTPRelayProofs!ImplementsLease` | `Spec => LeaseRefinement`, under the mapping that gives a relay the port it holds |
| `RTPRelayProofs!LeasesExclusive` | `LeaseSpec => []LeaseInv`: leases are exclusive |
| `ProxyRegistryProofs!RegistryIsExact`, `MapsAreExact` | `[]RegistryExact`, and of the maps that no proxy is in two places |
| `ProxyRegistryProofs!NeverReplaced` | the action property `NamesNeverReplaced` |
| `WorkConnProofs!HandedOutOnce`, `Awaits` | `[]PairedOnce`, `[]NoMoreThanAsked` |
| `ControlChannelProofs!OnlyWithTheToken` | `[]OnlyAuthenticated` |
| `ControlChannelProofs!ListedOnesLive` | `[]ListedAreLive`, whatever addresses come again |
| `ControlChannelProofs!SilenceEnds`, `LivingSpared` | `[]SilenceBounded`, and the action property `LiveClientKept`, for every interval, timeout and delay with `Delay <= Interval` and `Interval + 2 * Delay <= Timeout` |
| `MediaPathProofs!RunnerServes`, `OneSocket`, `AnswersFind` | `[]RunnerServesItsRelay`, `[]OneSocketPerPhone`, `[]AnswersFindTheirPhone` |
| `MediaPathProofs!Announced` | `[]AnnouncedIsMine`, if the parser reads the offers as they are meant and no call moves a medium |
| `ExtTrackerProofs!RegisteredOnly`, `Bounded`, `BytesOnce`, `AnsweredFirst`, `TimeOnce` | `[]OnlyRegistered`, `[]TablesBounded`, `[]BytesCountedOnce`, `[]AnsweredIsCounted`, `[]TimeCountedOnce` |
| `IPFilterProofs!VerdictWasInForce` | `[]VerdictInForce` |
| `IPFilterProofs!Agrees`, `DashboardAgrees`, `NoChangeLost` | `[]Agreement`, `[]CheckAgrees`, and the action property `OneChangeAtATime`, on files that keep what is written |
| `IPFilterProofs!CheckIsAllow` | for every filter and address `Check` explains `Allow` |

Each specification has an inductive invariant, which is kept by one lemma
per action; frame lemmas cover what an action does not touch.

* `RTPRelay`. Ownership is not inductive: when `Start` fails, its port is given
  back by number, which is right only if the goroutine's object still holds it
  and nobody else is about to start the same object (`StartOwns`). `CursorOK` (a
  goroutine in the loop over media entries is at an entry of its message) and
  `AtHome` (a live relay has a session and a key) are what types need. The
  refinement has one case per action that changes a relay.
* `ProxyRegistry`. `UnregisterProxy` goes by key, so a late call could remove
  somebody else's entry. What prevents it is that a proxy is retired by one task
  at a time and has come as far as the task says (`TasksExact`), that the proxy a
  control loop has registered is known to nobody until it is stored
  (`LoopsPrivate`), that whoever retires an entry in place holds the lock
  (`LocksHeld`), and that a proxy is in one map under one name (`MapsExact`).
  `NeverReplaced` follows from `LoopsPrivate`: between the look and the store only
  the same loop adds names.
* `WorkConn`. A queue holds nothing twice and only who is in the state that goes
  with it (`PendingSound`, `WaitersSound`), a connection that has a work
  connection is not waiting and shares it with nobody (`ExtSound`). Lemmas about
  queues say what `Head`, `Tail` and `Append` do to "holds" and "no repeat".
  `Awaits` is a balance: what a name's sessions have asked for and what is coming,
  against the handlers that asked and have nothing yet, with the uninvited
  connections that were taken on their side: one that a waiter takes leaves the
  connection that was meant for it without a taker, and `stray` makes up for that.
  `Balanced` lists the six ways a step may move it, each action is one of them, and
  `SumTheorems` says how the sum of the requests moves when one session's does.
* `ControlChannel`. Authentication is a matter of where the handler is
  (`Admitted`): it enters the loop only after a good token. A port that is held by
  a connection is in the session's map, or is the one the handler is starting
  (`OwnersSound`). `ListedAreLive` is inductive with these: what a step of a session
  may do to the table is one of three things (`TableStep`), and taking out whoever is
  listed under its address never leaves somebody in. The lemmas `QuietKeeps` and
  `PortsLeave` do the work for all actions that neither take a port nor change the
  table, and for those that give ports back.
* Heartbeats. Neither property is inductive, because the age of a session counts
  from its login, when neither heartbeat runs. `HInv` bounds it at every stage.
  The server's side (`Watched`): before its heartbeat starts a session is no older
  than its messages have waited (`slack`), afterwards `age <= Timeout + tick`. The
  client's side (`Punctual`): while it waits for an answer, its request or the
  answer is under way, so that `age <= slack`; while it runs, a Ping is under way
  or the session is no older than the client's own tick and one delay. `Young`
  draws the conclusion: with a client that is there, `age <= Timeout`, which is
  the case in which the heartbeat does not close.
* `SilenceBounded`, and the bounds in `TypeOK` of `ControlChannel`, need a third
  invariant, `QInv`. `Aged`: a session's age passes `Timeout` only once its heartbeat
  could have seen it, so it stops at one interval more; without a heartbeat it is
  no older than its messages have waited. `Queued`: a client that registers has one
  answer to come at most, beside what the dashboard makes the server send; a
  running one sends a second Ping only when the first has waited an interval, and
  no third, because `Delay <= Interval`.
* `MediaPath`. `RunnersSound` looks past the queue: when the client has read all
  orders under way (`Promises`), it has for every running relay a runner to that
  relay's target, since the last order that concerns the key is the relay's own.
  `SocketsSound` (one entry per phone and name) is what survives a reader that
  gives up alone, `PhonesSound` follows a phone from the first packet through
  client and back. `Announced` adds `Announces`: the target of a relay in the
  table is that of the medium its key names. It has two hypotheses on the offers,
  `ReadRight` and `Unmoved`, because without them the property is false: that is
  what `media_sdp` shows, and the re-INVITE of section 5. TLC evaluates them for
  the offers of `media_path` (`PlainAssumption`), and that `media_sdp` lacks the
  first (`OtherAssumption`).
* `ExtTracker`. `TInv` has the types, the list of calls by age in step with the
  table (`OrderSound`), and of each call that its parties are one or two different
  numbers that have registered, answered not later than now (`CallSound`); with
  that one packet counts once for an extension. `CInv` counts for each
  extension: the calls it has counted are its running calls and those that are over,
  nobody without a record has calls that are over (`OverSound`), and its finished
  time with the time of those running is at most the time passed, once
  for each call key of its protocol. The clock moves all running calls at once
  (`SumLater`), the end of a call moves its time from the one to the other
  (`SumWithout`).
* `IPFilter`. While a listener is between its looks, the verdict of the lists in
  force is among those noted (`Noted`). For the rest, `Held`: whoever is not free
  has the lock, and where it stands tells which of file, configuration and filter
  have its lists (`InStep`); a server that is down has nobody. What the text of a
  file does is the hypothesis `RoundTrips(good)`: on the files of the set `good`
  writing lists and reading them gives these lists, and another file of the set.
  TLC evaluates it for every layout of `ip_filter` and all that the server can
  make of it (`RoundTripAssumption`).
* `IPLists`. `Match` finds the first rule that covers the address (`FirstHit`).
* `SumTheorems`. The community module's sum takes the elements in an order of its
  own choice; that this order does not matter is proved by induction over the
  number of elements, for a set of numbers in place of a predicate (`Induction`).

Only model-checked: the liveness properties (`ENABLED` and fairness are out of
the prover's reach); `OthersKept` and the hypothesis `RoundTrips`, since
`ConfigFile` finds lines with `SelectSeq` and the folds, which take operators
the provers cannot expand; for the same reason `ReadRight` and `Unmoved`, which
speak of what `ExtractMediaEntries` makes of a body.

## 5. Not modelled

* Text (SIP, JSON, YAML), the codec's framing, logs, the dashboard's rendering.
  IAX frames: what they mean is in `ExtTracker`, their bytes are not decoded
  (`iax.go:77` says of itself how it reads the full-frame bit).
* Dashboard logins and their expiry; certificate reload (two cached values, read
  again at every handshake).
* `Join` and the byte pipes once two connections are joined. `peekedConn` and the
  TLS wrapper have no `CloseWrite`, so a half-close is not passed on
  (`proxy.go:230`).
* IP filtering at the listeners other than as a verdict: a rejected connection is
  one that never came. The log's throttle of refused addresses is left out.
* `SendToPeer`: media from the local service back to the phone goes to the first
  sender a relay saw (`rtp_relay.go:128`); the model has media inwards and
  signalling both ways.
* A first message without a deadline (`workconn.go:74`): the models let a
  connection wait forever, the resources this takes are not counted.
* `ConfigFile`: no `fsync`, so the machine itself is assumed not to fail; an edit
  by hand between the reading and the renaming of the file is lost; a comment in
  the first column within the section ends it for the writer but not for YAML.
* `ControlChannel`: a client that is configured without proxies, which has nothing
  to do.
* `MediaPath`: the runs have one offer per call. A re-INVITE that moves a medium keeps its
  relay, which still leads to the old address (`control.go:343`).
* Real time outside `ControlChannel` is reduced to "may have passed". Memory
  models: `lastActive` is read and written without a lock; the models treat the
  decision based on it as free, so what they show of relays holds whatever is read,
  and the race itself is not exhibited.

## 6. Plan

What would be worth adding, in this order:

1. proofs about the text: `RewriteSDPWithRelays` and the search for a section as
   recursive functions over positions, with which `ReadRight` and `RoundTrips`
   would follow from the shape of a body or a file instead of being checked for
   some;
2. a module for the bridges: two pipes, buffered bytes, half-close, and the SIP
   framing of `pipeSIP`;
3. offers that change during a call, and the way of media back (`SendToPeer`);
4. login sessions of the dashboard, certificate reload.
