-------------------------- MODULE CoordinatorClaims --------------------------
(***************************************************************************)
(* A statement of the repository about its coordinator that the code does  *)
(* not keep, with the history it needs.  The behaviours are exactly those  *)
(* of Coordinator: the history variables only watch.                       *)
(***************************************************************************)
EXTENDS MCCoordinator

VARIABLES
  contactLost,   \* uptime of the first refresh since which none reached the robot
  lastMiss       \* uptime of the last refresh that did not reach the robot

claimVars == <<contactLost, lastMiss>>

Reached == \/ PushArrives
           \/ \E p \in Polls : PollReply(p) \/ PollUnusable(p) \/ QuickSetup(p)

NotReached == \E p \in Polls : PollDegraded(p) \/ PollError(p)

ClaimsInit == Init /\ contactLost = NoTime /\ lastMiss = NoTime

ClaimsNext ==
  /\ Next
  /\ contactLost' = IF Reached THEN NoTime
                    ELSE IF NotReached /\ contactLost = NoTime THEN Uptime'
                    ELSE contactLost
  /\ lastMiss' = IF NotReached THEN Uptime' ELSE lastMiss

ClaimsSpec == ClaimsInit /\ [][ClaimsNext]_<<vars, claimVars>>

-----------------------------------------------------------------------------

\* "Only after roughly 30 minutes of continuous failure do they flip to
\* unavailable": when refreshes kept missing the robot over more than that, with
\* no contact in between, the outage is a long one.  A websocket read that fails
\* returns a degraded result, which counts as a success.
OutageIsNoticed ==
  contactLost # NoTime /\ lastMiss - contactLost > LongOutage => IsLongOutage
=============================================================================
