---------------------------- MODULE Availability ----------------------------
(***************************************************************************)
(* What the entities of one robot promise their user: they render the last *)
(* update that went through, say when it is stale, and turn unavailable    *)
(* only when no update has gone through for longer than the threshold.     *)
(* Coordinator implements this.                                            *)
(***************************************************************************)
EXTENDS Naturals

CONSTANTS
  Threshold,   \* LONG_OUTAGE_THRESHOLD_SECONDS, in clock ticks
  Updates,     \* what an update can bring
  Nothing,     \* rendered before the first update
  Placeholder  \* rendered when the first update fails

VARIABLES
  mode,    \* what the entities say of what they render
  quiet,   \* real time since the last update that went through
  display  \* what they render

vars == <<mode, quiet, display>>

Init == mode = "fresh" /\ quiet = 0 /\ display = Nothing

\* An update goes through, at any time, and ends the outage.
Succeed ==
  /\ mode' = "fresh" /\ quiet' = 0
  /\ display' \in Updates

\* An update fails: what was rendered stays, and is stale from now on.
Miss ==
  /\ mode' = IF mode = "fresh" THEN "stale" ELSE mode
  /\ display' = IF display = Nothing THEN Placeholder ELSE display
  /\ UNCHANGED quiet

\* Time passes; a stale display may become unavailable when it is old enough.
Elapse ==
  /\ quiet' = quiet + 1
  /\ \/ mode' = mode
     \/ mode = "stale" /\ quiet' > Threshold /\ mode' = "unavailable"
  /\ UNCHANGED display

\* A wall clock that steps back makes the outage look shorter again.
LooksShorter ==
  /\ mode = "unavailable" /\ mode' = "stale"
  /\ UNCHANGED <<quiet, display>>

Next == Succeed \/ Miss \/ Elapse \/ LooksShorter

Spec == Init /\ [][Next]_vars
=============================================================================
