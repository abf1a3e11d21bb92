---------------------------- MODULE MCPostDetail ----------------------------
(* PostDetail for TLC. *)
EXTENDS PostDetail, TLC
=============================================================================
