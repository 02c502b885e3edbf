-------------------------- MODULE MCScrcpySessions --------------------------
(* Instances of ScrcpySessions for TLC. *)
EXTENDS ScrcpySessions

CONSTANTS s1, s2
=============================================================================
