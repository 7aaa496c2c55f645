--------------------------- MODULE RealtimeClaims ---------------------------
(***************************************************************************)
(* What the documentation says of the realtime path and the code does not  *)
(* do.                                                                     *)
(***************************************************************************)
EXTENDS MCRealtime

\* README.md:199: the listener "receives state changes pushed by the cloud and
\* applies them immediately, without waiting for the next poll".  For that it must
\* outlive the polls: only the end of its connection may end it.
ListenerOutlivesPolls ==
  [][listener = "receiving" /\ ~ConnectionDrops => listener' # "ended"]_vars
=============================================================================
