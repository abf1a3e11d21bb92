------------------------------- MODULE MCApi --------------------------------
(* Api for TLC: one endpoint of each kind. *)
EXTENDS Api
=============================================================================
