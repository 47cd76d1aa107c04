--------------------------- MODULE MCExtTracker ---------------------------
(* Small instances of ExtTracker for TLC. *)
EXTENDS ExtTracker

CONSTANTS g1, n1, n2, a1, a2, c1, c2

(* One goroutine shows what several do: a 200 to INVITE whose second half  *)
(* waits while another message is handled does what INVITE, that message   *)
(* and ACK do, and the next message may be any.                            *)

(* Numbers are alike, and so are addresses and calls. *)
Alike == Permutations(Numbers) \cup Permutations(Addrs) \cup Permutations(CallIDs)
=============================================================================
