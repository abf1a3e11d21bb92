------------------------------ MODULE MCPages -------------------------------
(* Pages for TLC: rows are interchangeable. *)
EXTENDS Pages, TLC

Symmetry == Permutations(Rows)
=============================================================================
