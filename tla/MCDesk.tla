-------------------------------- MODULE MCDesk -------------------------------
(* Instances of Desk for TLC. *)
EXTENDS Desk, TLC

Symmetry == Permutations(Young) \cup Permutations(Photos)
=============================================================================
