----------------------------- MODULE PortLease -----------------------------
(***************************************************************************)
(* What the RTP port pool promises to its users, without saying how: a     *)
(* port is leased to at most one holder at a time, a holder has at most    *)
(* one port, and a lease ends only when its own holder gives it back.      *)
(* RTPRelay is shown to implement this specification.                      *)
(***************************************************************************)
CONSTANTS
    Holders,     \* who may hold a port
    LeasePorts,  \* the ports of the pool
    NoPort       \* the lease of a holder that has none

VARIABLE lease   \* lease[h] is the port h holds, or NoPort

Leased == {lease[h] : h \in Holders} \ {NoPort}

LeaseInit == lease = [h \in Holders |-> NoPort]

Acquire(h, p) ==
    /\ lease[h] = NoPort
    /\ p \notin Leased
    /\ lease' = [lease EXCEPT ![h] = p]

GiveBack(h) ==
    /\ lease[h] # NoPort
    /\ lease' = [lease EXCEPT ![h] = NoPort]

LeaseNext ==
    \E h \in Holders :
        \/ \E p \in LeasePorts : Acquire(h, p)
        \/ GiveBack(h)

LeaseSpec == LeaseInit /\ [][LeaseNext]_lease

LeaseTypeOK == lease \in [Holders -> LeasePorts \cup {NoPort}]

(* Two holders never share a port. *)
Exclusive ==
    \A g, h \in Holders : g # h /\ lease[g] # NoPort => lease[g] # lease[h]

LeaseInv == LeaseTypeOK /\ Exclusive
=============================================================================
