------------------------------ MODULE MCAccount ------------------------------
(* Instances of Account for TLC. *)
EXTENDS Account, TLC

Symmetry == Permutations(Passwords) \cup Permutations(Slots)
=============================================================================
