-------------------------- MODULE MCRefreshTokens --------------------------
(* RefreshTokens for TLC: requests and users are interchangeable. *)
EXTENDS RefreshTokens, TLC

Symmetry == Permutations(Requests) \cup Permutations(Users)
=============================================================================
