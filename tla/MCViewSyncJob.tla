--------------------------- MODULE MCViewSyncJob ---------------------------
(* ViewSyncJob for TLC. *)
EXTENDS ViewSyncJob, TLC

Symmetry == Permutations(Tasks) \cup Permutations(Posts)
=============================================================================
