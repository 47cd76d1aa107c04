-------------------------- MODULE MCProxyRegistry --------------------------
(* Small instances of ProxyRegistry for TLC. *)
EXTENDS ProxyRegistry

Req(n, t, p) == [name |-> n, type |-> t, port |-> p]

(* Two names for one UDP key, and one of them over TCP too. *)
SomeRequests == {Req("phone", "sip", 5060), Req("other", "udp", 5060),
                 Req("phone", "sip-tls", 5060)}
=============================================================================
