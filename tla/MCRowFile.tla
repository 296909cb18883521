----------------------------- MODULE MCRowFile ------------------------------
(* RowFile for TLC: goroutines and contents are model values. *)
EXTENDS RowFile, TLC

CONSTANTS a1, a2, u1, u2, r1, r2

Symmetry == Permutations(Updaters)
=============================================================================
