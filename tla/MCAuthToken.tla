---------------------------- MODULE MCAuthToken ----------------------------
(* Instances of AuthToken for TLC. *)
EXTENDS AuthToken
=============================================================================
