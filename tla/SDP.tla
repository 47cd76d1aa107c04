-------------------------------- MODULE SDP --------------------------------
(***************************************************************************)
(* The SIP message as the server reads and rewrites it (protocol/sip): who *)
(* sends what of which call, the hosts of its routing headers and the SDP  *)
(* body, a sequence of lines:                                              *)
(*   o    the origin, with an address                                      *)
(*   c    c=IN IP4 and an address                                          *)
(*   m    a medium: its port, and whether that is a plain number (it may   *)
(*        be written 49170/2)                                              *)
(*   x    any other line                                                   *)
(***************************************************************************)
EXTENDS Naturals, SequencesExt

CONSTANTS
    Public,    \* the address the server announces
    Private,   \* hosts with an address of a private network
    NoAddr     \* the empty string

O(a) == [k |-> "o", addr |-> a]
C(a) == [k |-> "c", addr |-> a]
M(p) == [k |-> "m", port |-> p, plain |-> TRUE]
Mx(p) == [k |-> "m", port |-> p, plain |-> FALSE]
IsLine(l) == /\ l.k \in {"o", "c"} => l = [k |-> l.k, addr |-> l.addr]
             /\ l.k = "m" => l = [k |-> "m", port |-> l.port, plain |-> l.plain]

Message(method, call, hosts, sdp, body) ==
    [method |-> method, call |-> call, hosts |-> hosts, sdp |-> sdp, body |-> body]

(* ExtractMediaEntries: line by line, the c= line last seen belongs to the *)
(* next m= line, which uses it up; otherwise the one at the top does.  The *)
(* Content-Type is not looked at.                                          *)
ScanLine(s, l) ==
    CASE l.k = "c" -> [s EXCEPT !.top = IF s.entries = <<>> THEN l.addr ELSE @, !.last = l.addr]
      [] l.k = "m" /\ l.plain ->
            [s EXCEPT !.entries = Append(@, [addr |-> IF s.last = NoAddr THEN s.top ELSE s.last,
                                             port |-> l.port]),
                      !.last = NoAddr]
      [] OTHER -> s
ExtractMediaEntries(body) ==
    FoldLeft(ScanLine, [entries |-> <<>>, top |-> NoAddr, last |-> NoAddr], body).entries

MediaOf(body) == ToSet(ExtractMediaEntries(body))

(* The media of a body, by position among its m= lines, from 0. *)
MediaLines(body) == SelectSeq(body, LAMBDA l : l.k = "m")
IndexOf(body, i) == Len(MediaLines(SubSeq(body, 1, i))) - 1

(* Mutant: a medium is counted after it is written. *)
RewriteSDPWithRelaysLate(body, ports) ==
    [i \in DOMAIN body |->
        LET l == body[i] IN
        CASE l.k \in {"o", "c"} -> [l EXCEPT !.addr = Public]
          [] l.k = "m" /\ IndexOf(body, i) - 1 \in DOMAIN ports ->
                [l EXCEPT !.port = ports[IndexOf(body, i) - 1], !.plain = TRUE]
          [] OTHER -> l]

(* RewriteSDPWithRelays counts every m= line. *)
RewriteSDPWithRelays(body, ports) ==
    [i \in DOMAIN body |->
        LET l == body[i] IN
        CASE l.k \in {"o", "c"} -> [l EXCEPT !.addr = Public]
          [] l.k = "m" /\ IndexOf(body, i) \in DOMAIN ports ->
                [l EXCEPT !.port = ports[IndexOf(body, i)], !.plain = TRUE]
          [] OTHER -> l]

(* RewriteSDP with no port: the addresses only. *)
RewriteSDP(body) ==
    [i \in DOMAIN body |->
        IF body[i].k \in {"o", "c"} THEN [body[i] EXCEPT !.addr = Public] ELSE body[i]]

(* RewriteRoutingHeaders: Contact and Record-Route. *)
RewriteRoutingHeaders(hosts) == {IF h \in Private THEN Public ELSE h : h \in hosts}

(* What rewriteSIPForExternal makes of a message once its relays have      *)
(* their ports.  A body of another type stays as it is.                    *)
RewriteForExternal(msg, ports) ==
    [msg EXCEPT !.body = IF ~msg.sdp THEN @
                         ELSE IF ports # <<>> THEN RewriteSDPWithRelays(@, ports)
                         ELSE RewriteSDP(@),
                !.hosts = RewriteRoutingHeaders(@)]

-----------------------------------------------------------------------------
(* What a body means (RFC 4566, and README: an m= line and the c= address  *)
(* that goes with it): the c= line of the medium itself, which follows its *)
(* m= line, or else that of the session, which precedes all media.         *)
Position(body, n) ==
    CHOOSE i \in DOMAIN body : body[i].k = "m" /\ IndexOf(body, i) = n
Meant(body, n) ==
    LET m == Position(body, n)
        own == SelectInSubSeq(body, m + 1, Len(body), LAMBDA l : l.k \in {"c", "m"})
        session == SelectInSeq(body, LAMBDA l : l.k \in {"c", "m"})
        c == IF own # 0 /\ body[own].k = "c" THEN own ELSE session
    IN  [addr |-> body[c].addr, port |-> body[m].port]
=============================================================================
