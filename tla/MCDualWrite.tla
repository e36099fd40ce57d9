----------------------------- MODULE MCDualWrite -----------------------------
(* Small instances of DualWrite. *)
EXTENDS DualWrite, TLC

Symmetry == Permutations(Runs) \cup Permutations(Writers) \cup Permutations(Contents)
=============================================================================
