-------------------------- MODULE MCProgressOutbox --------------------------
(* Instances of ProgressOutbox for TLC. *)
EXTENDS ProgressOutbox, TLC

CONSTANTS k1, k2

Symmetry == Permutations(Keywords)
=============================================================================
