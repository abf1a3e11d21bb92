----------------------------- MODULE MCBookmarks -----------------------------
(* Bookmarks for TLC: requests, users and posts are interchangeable. *)
EXTENDS Bookmarks, TLC

Symmetry == Permutations(Requests) \cup Permutations(Users) \cup Permutations(Posts)
=============================================================================
