--------------------------- MODULE MCViewCounter ---------------------------
(* ViewCounter for TLC: tasks and posts are interchangeable. *)
EXTENDS ViewCounter, TLC

Symmetry == Permutations(Tasks) \cup Permutations(Posts)
=============================================================================
