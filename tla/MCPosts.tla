------------------------------- MODULE MCPosts -------------------------------
(* Posts for TLC: requests, users and fields are interchangeable. *)
EXTENDS Posts, TLC

Symmetry == Permutations(Requests) \cup Permutations(Users) \cup Permutations(Fields)
=============================================================================
