---------------------------- MODULE MCModelLookup ----------------------------
(* Small instances of ModelLookup for TLC. *)
EXTENDS ModelLookup
=============================================================================
