---------------------------- MODULE MCWorkConn ----------------------------
(* Small instances of WorkConn for TLC. *)
EXTENDS WorkConn, TLC

CONSTANTS s1, s2, n1, e1, e2, e3, w1, w2, w3

(* Two sessions with one name: two clients, or one before and after it     *)
(* reconnects.                                                             *)
SameName == [s \in Sessions |-> n1]

(* External connections are alike, and so are work connections and, as all *)
(* have one name, sessions.                                                *)
Alike == Permutations(Exts) \cup Permutations(Works) \cup Permutations(Sessions)
=============================================================================
