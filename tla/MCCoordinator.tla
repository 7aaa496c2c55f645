---------------------------- MODULE MCCoordinator ----------------------------
(* Small instances of Coordinator for TLC.                                 *)
EXTENDS Coordinator, TLC

MCReadings == {[activity |-> "cleaning", online |-> FALSE],
               [activity |-> "idle", online |-> FALSE]}

\* Refresh tasks are interchangeable; used by the runs without liveness only.
PollSymmetry == Permutations(Polls)
=============================================================================
