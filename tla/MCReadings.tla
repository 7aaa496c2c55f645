----------------------------- MODULE MCReadings -----------------------------
(* Small instances of Readings for TLC. *)
EXTENDS Readings
=============================================================================
