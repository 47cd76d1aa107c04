----------------------------- MODULE MCRTPRelay -----------------------------
(* Small instances of RTPRelay for TLC. *)
EXTENDS RTPRelay

CONSTANTS s1, s2, loop, pipe

(* One configured range below the base, one across it and one that has a   *)
(* single port: the pool is the ports 10 and 11.                           *)
ConfiguredPorts == <<[start |-> 5, end |-> 6], [start |-> 8, end |-> 10],
                     [start |-> 11, end |-> 11]>>
BothOfS1 == [w \in Workers |-> s1]
OneEach == (loop :> s1) @@ (pipe :> s2)
=============================================================================
