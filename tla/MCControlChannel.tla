-------------------------- MODULE MCControlChannel --------------------------
(* Small instances of ControlChannel for TLC. *)
EXTENDS ControlChannel, TLC

CONSTANTS k1, k2, a1, a2
=============================================================================
