---------------------------- MODULE MCMediaPath ----------------------------
(* Small instances of MediaPath for TLC. *)
EXTENDS MediaPath

CONSTANTS c1, h1, h2, x1, s1, s2

(* Bodies whose media all lie behind the address at the top, in numbers.   *)
Plain == {<<c1, <<O(h1), C(h1), M(1), M(2)>>>>}

(* What else a local service may send: an address per medium, and a port   *)
(* with a count.                                                           *)
Other == {<<c1, <<O(h1), C(h1), M(1), C(h2), M(2)>>>>, <<c1, <<O(h1), C(h1), Mx(1), M(2)>>>>}

(* What MediaPathProofs asks of the offers holds of the first, and of none *)
(* of the others.                                                          *)
ASSUME PlainAssumption == \A o, p \in Plain : ReadRight(o) /\ Unmoved(o, p)
ASSUME OtherAssumption == \A o \in Other : ~ReadRight(o)

Alike == Permutations(Sockets)
=============================================================================
