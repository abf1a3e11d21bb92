----------------------------- MODULE MCComments -----------------------------
(* Comments for TLC: requests, users and posts are interchangeable. *)
EXTENDS Comments, TLC

Symmetry == Permutations(Requests) \cup Permutations(Users) \cup Permutations(Posts)
=============================================================================
