--------------------------- MODULE MCRegistration ---------------------------
(* Registration for TLC: requests, emails and nicknames are                *)
(* interchangeable. *)
EXTENDS Registration, TLC

Symmetry == Permutations(Requests) \cup Permutations(Emails) \cup Permutations(Nicknames)
=============================================================================
