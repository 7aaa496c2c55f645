----------------------------- MODULE Coordinator -----------------------------
(***************************************************************************)
(* The update coordinator of one robot: AqualinkDataUpdateCoordinator in   *)
(* coordinator.py, with the parts of AqualinkClient it drives on every     *)
(* update (the pending stop reset, the start, stop and clear-desired-state *)
(* commands of client.py).                                                 *)
(*                                                                         *)
(* Refreshes and the realtime push are asyncio tasks: they interleave only *)
(* where the code awaits, so each action below is the code between two     *)
(* awaits.  A refresh awaits the cloud, and then, when it sees a cleaning  *)
(* cycle end, the clear-desired-state command; a push awaits only the      *)
(* latter.  Home Assistant serialises scheduled and requested refreshes,   *)
(* but async_refresh, which the vacuum's stop calls, runs beside them:     *)
(* that is why Polls may hold two tasks.                                   *)
(*                                                                         *)
(* The transport that produces a reply is abstracted to its outcomes: a    *)
(* reading, an unusable reply, a degraded result, an error.                *)
(***************************************************************************)
EXTENDS Integers

CONSTANTS
  Polls,            \* refresh tasks that can be in flight together
  Readings,         \* the activity and "online" status a robot can report
  LongOutage,       \* LONG_OUTAGE_THRESHOLD_SECONDS, in clock ticks
  StopResetMaxAge,  \* PENDING_STOP_RESET_MAX_AGE_SECONDS
  CommandWindow,    \* the 30 s of recent_command
  MaxTime,          \* bound: the run ends at this uptime
  MaxSkew,          \* bound: how often the wall clock may step back
  MaxFailures       \* bound: where the failure counter stops counting

Activities == {"cleaning", "returning", "idle", "error"}

ASSUME CoordinatorAssumption ==
  /\ "push" \notin Polls
  /\ Readings \subseteq [activity : Activities, online : BOOLEAN]
  /\ {LongOutage, StopResetMaxAge, CommandWindow, MaxTime, MaxSkew} \subseteq Nat
  /\ MaxFailures \in Nat \ {0}

VARIABLES
  clock,             \* wall clock, as dt_util.utcnow() and time.time() read it
  skew,              \* how far the wall clock was set back so far
  cloud,             \* what the cloud answers at the moment
  family,            \* client.device_type
  pendingStopAt,     \* client._pending_stop_reset_at; NoTime when no reset is pending
  setupComplete,     \* _setup_complete
  lastData,          \* _last_data
  failures,          \* _consecutive_failures
  firstFailureAt,    \* _first_failure_at
  longOutageLogged,  \* _long_outage_logged
  lastActivityTime,  \* _last_activity_time
  interval,          \* update_interval
  shown,             \* coordinator.data, what the entities render
  updateStatus,      \* outcome of the last refresh as Home Assistant sees it
  pc,                \* where each task is suspended
  held,              \* the data a suspended task will publish
  lastGood,          \* history: uptime of the last successful update
  tracebacks         \* history: long-outage tracebacks logged since lastGood

env  == <<clock, skew, cloud, family>>
outageVars == <<failures, firstFailureAt, longOutageLogged>>
pollingVars == <<lastActivityTime, interval>>
haVars == <<shown, updateStatus>>
history == <<lastGood, tracebacks>>
coordVars == <<setupComplete, lastData, outageVars, pollingVars, haVars, history>>
tasks == <<pc, held>>
vars == <<env, pendingStopAt, coordVars, tasks>>

-----------------------------------------------------------------------------
NoTime == -1
Push   == "push"
Tasks  == Polls \cup {Push}
Families == {"vr", "shadow", "i2d"}
Active == {"cleaning", "returning"}
\* "up": answers; "flaky": answers, sometimes with a reply that cannot be used;
\* "wsdown": REST works, the websocket does not; "down": neither; "rejecting":
\* the credentials are refused.
CloudStates == {"up", "flaky", "wsdown", "down", "rejecting"}

\* A status dict: its activity ("absent" when the key is missing), whether its
\* status is "online", and whether the stop reset overwrote its cycle times.
Data == [activity : Activities \cup {"unknown", "absent", "none"},
         online : BOOLEAN, reset : BOOLEAN]
Dict(a, o) == [activity |-> a, online |-> o, reset |-> FALSE]
NoData == Dict("none", FALSE)          \* the empty _last_data
QuickSetupData == Dict("unknown", FALSE)
\* Mutant: the offline status ends up in the activity.
MinimalOfflineDataWrongKey == Dict("offline", FALSE)
MinimalOfflineData == Dict("unknown", FALSE)
\* The status of a reply without a reading is the last known one.
KeptStatuses == {r.online : r \in Readings} \cup {FALSE}

Uptime == clock + skew
Shadow == family # "i2d"
\* The transport of this family gets through; i2d uses REST only.
Reachable == cloud \in {"up", "flaky"} \/ (cloud = "wsdown" /\ ~Shadow)
EntitiesExist == shown # NoData

-----------------------------------------------------------------------------
(* Computed properties of the coordinator.                                 *)

OutageAge ==
  IF firstFailureAt = NoTime THEN 0
  ELSE IF clock > firstFailureAt THEN clock - firstFailureAt ELSE 0

\* Mutant: an outage is long one tick too soon.
IsLongOutageAtOnce == firstFailureAt # NoTime /\ OutageAge >= LongOutage

IsLongOutage == firstFailureAt # NoTime /\ OutageAge > LongOutage

-----------------------------------------------------------------------------
Init ==
  /\ clock = 0 /\ skew = 0 /\ cloud = "up"
  /\ family \in Families
  /\ pendingStopAt = NoTime
  /\ setupComplete = FALSE
  /\ lastData = NoData
  /\ failures = 0 /\ firstFailureAt = NoTime /\ longOutageLogged = FALSE
  /\ lastActivityTime = -CommandWindow
  /\ interval = "base"
  /\ shown = NoData /\ updateStatus = "ok"
  /\ pc = [t \in Tasks |-> "idle"] /\ held = [t \in Tasks |-> NoData]
  /\ lastGood = 0 /\ tracebacks = 0

-----------------------------------------------------------------------------
(* Steps shared by the polled and the pushed path.                         *)

\* _apply_pending_stop_reset: one-shot, applied only to a fresh idle reading.
WithStopReset(d) ==
  IF /\ pendingStopAt # NoTime
     /\ clock - pendingStopAt <= StopResetMaxAge
     /\ d.activity = "idle"
  THEN [d EXCEPT !.reset = TRUE]
  ELSE d

\* The natural-completion test reads has_pending_stop_reset after the reset was
\* consumed: pendingStopAt is primed.
SeesCompletion(d) ==
  /\ lastData.activity = "cleaning"
  /\ d.activity = "idle"
  /\ pendingStopAt' = NoTime

\* Mutants: a success that forgets the log latch, or the stamp of the outage.
ResetOutageKeepsLatch ==
  /\ failures' = 0 /\ firstFailureAt' = NoTime
  /\ tracebacks' = 0 /\ UNCHANGED longOutageLogged
ResetOutageKeepsStamp ==
  /\ failures' = 0 /\ longOutageLogged' = FALSE
  /\ tracebacks' = 0 /\ UNCHANGED firstFailureAt

ResetOutage ==
  /\ failures' = 0
  /\ firstFailureAt' = NoTime
  /\ longOutageLogged' = FALSE
  /\ tracebacks' = 0

\* Mutant: the previous reading decides instead of the new one.
UpdatePollingIntervalLate(d) ==
  LET busy == lastData.activity \in Active \/ clock - lastActivityTime < CommandWindow
  IN  /\ interval' = IF busy THEN "fast" ELSE "slow"
      /\ lastActivityTime' = IF busy THEN clock ELSE lastActivityTime

\* _update_polling_interval.  A recent command keeps the fast interval, and
\* stamps the activity time again.
UpdatePollingInterval(d) ==
  LET busy == d.activity \in Active \/ d.online \/ clock - lastActivityTime < CommandWindow
  IN  /\ interval' = IF busy THEN "fast" ELSE "slow"
      /\ lastActivityTime' = IF busy THEN clock ELSE lastActivityTime

Publish(d) == shown' = d /\ updateStatus' = "ok"

\* The tail of both update paths, once d is final.
FinishUpdate(d) ==
  /\ ResetOutage
  /\ UpdatePollingInterval(d)
  /\ lastData' = d
  /\ Publish(d)
  /\ lastGood' = Uptime

\* Everything after the reading d is in: consume the stop reset, then either
\* suspend in clear_desired_state (only vr sends it) or finish the update.
ApplyReading(t, d) ==
  LET r == WithStopReset(d) IN
  /\ pendingStopAt' = NoTime
  /\ IF SeesCompletion(r) /\ family = "vr"
     THEN /\ pc' = [pc EXCEPT ![t] = "clearing"]
          /\ held' = [held EXCEPT ![t] = r]
          /\ UNCHANGED coordVars
     ELSE /\ FinishUpdate(r)
          /\ pc' = [pc EXCEPT ![t] = "idle"]
          /\ held' = [held EXCEPT ![t] = NoData]
          /\ UNCHANGED setupComplete
  /\ UNCHANGED env

-----------------------------------------------------------------------------
(* A refresh: _async_update_data.                                          *)

\* Mutant: a failed refresh does not schedule the next one.
PollStartOnlyAfterSuccess(p) ==
  /\ pc[p] = "idle" /\ updateStatus = "ok"
  /\ EntitiesExist \/ \A q \in Polls : pc[q] = "idle"
  /\ pc' = [pc EXCEPT ![p] = "fetching"]
  /\ UNCHANGED <<env, pendingStopAt, coordVars, held>>

\* The first refresh runs alone, and only its success makes entities; with them
\* come the stop command and the second refresh task.
PollStart(p) ==
  /\ pc[p] = "idle"
  /\ EntitiesExist \/ (updateStatus = "ok" /\ \A q \in Polls : pc[q] = "idle")
  /\ pc' = [pc EXCEPT ![p] = "fetching"]
  /\ UNCHANGED <<env, pendingStopAt, coordVars, held>>

\* The first successful call: authenticate and discover only, which needs no
\* request when the setup of the entry has already done both.
QuickSetup(p) ==
  /\ pc[p] = "fetching" /\ ~setupComplete
  /\ setupComplete' = TRUE
  /\ FinishUpdate(QuickSetupData)
  /\ pc' = [pc EXCEPT ![p] = "idle"]
  /\ UNCHANGED <<env, pendingStopAt, held>>

\* The cloud reads the robot's state for this refresh; the reply is on its way.
CloudAnswers(p) ==
  /\ pc[p] = "fetching" /\ setupComplete
  /\ Reachable
  /\ pc' = [pc EXCEPT ![p] = "answered"]
  /\ \E r \in Readings : held' = [held EXCEPT ![p] = Dict(r.activity, r.online)]
  /\ UNCHANGED <<env, pendingStopAt, coordVars>>

PollReply(p) ==
  /\ pc[p] = "answered"
  /\ ApplyReading(p, held[p])

\* A reply without a payload on the websocket, or an i2d frame that does not
\* parse: the cloud answered, the activity did not come.
PollUnusable(p) ==
  /\ pc[p] = "fetching" /\ setupComplete
  /\ cloud = "flaky"
  /\ \E o \in KeptStatuses :
       ApplyReading(p, IF Shadow THEN Dict("unknown", o) ELSE Dict("absent", FALSE))

\* A websocket read that failed for good does not raise: it returns a degraded
\* dict, also when the failure was an AuthFailedError.
PollDegraded(p) ==
  /\ pc[p] = "fetching" /\ setupComplete
  /\ Shadow /\ cloud # "up"
  /\ \E o \in KeptStatuses : ApplyReading(p, Dict("absent", o))

ReturnFromPoll(p) ==
  /\ pc' = [pc EXCEPT ![p] = "idle"]
  /\ held' = [held EXCEPT ![p] = NoData]

NextFailureCount == IF failures < MaxFailures THEN failures + 1 ELSE failures
FirstFailureStamp == IF firstFailureAt = NoTime THEN clock ELSE firstFailureAt
LongOutageNow == clock - FirstFailureStamp > LongOutage

\* Mutant: the latch is never set.
LogLongOutageAlways == tracebacks' = tracebacks + 1 /\ UNCHANGED longOutageLogged

\* The traceback of a long outage is logged on its first failed refresh only.
LogLongOutage ==
  /\ longOutageLogged' = TRUE
  /\ tracebacks' = IF longOutageLogged THEN tracebacks ELSE tracebacks + 1

\* Mutant: the last good data is not kept.
FailureDataMinimal == MinimalOfflineData
FailureData == IF lastData # NoData THEN lastData ELSE MinimalOfflineData

\* The broad except of a refresh.  Short outage: the last good data, or the
\* minimal offline data, is returned as if it were fresh.  Long outage:
\* UpdateFailed.
FailUpdate ==
  /\ failures' = NextFailureCount
  /\ firstFailureAt' = FirstFailureStamp
  /\ IF LongOutageNow
     THEN LogLongOutage /\ updateStatus' = "failed" /\ UNCHANGED shown
     ELSE Publish(FailureData) /\ UNCHANGED <<longOutageLogged, tracebacks>>

PollError(p) ==
  /\ pc[p] = "fetching"
  /\ cloud \in {"flaky", "down"}
  /\ FailUpdate
  /\ ReturnFromPoll(p)
  /\ UNCHANGED <<env, pendingStopAt, setupComplete, lastData, pollingVars, lastGood>>

\* Mutant of PollAuthFailed: the broad except catches the auth failure.
PollAuthFailedAsOutage(p) ==
  /\ pc[p] = "fetching" /\ cloud = "rejecting"
  /\ FailUpdate
  /\ ReturnFromPoll(p)
  /\ UNCHANGED <<env, pendingStopAt, setupComplete, lastData, pollingVars, lastGood>>

\* AuthFailedError out of fetch_status: ConfigEntryAuthFailed, ladder untouched.
PollAuthFailed(p) ==
  /\ pc[p] = "fetching"
  /\ cloud = "rejecting"
  /\ updateStatus' = "auth"
  /\ ReturnFromPoll(p)
  /\ UNCHANGED <<env, pendingStopAt, setupComplete, lastData, outageVars, pollingVars,
                 shown, history>>

-----------------------------------------------------------------------------
(* The realtime push: _apply_realtime_envelope, run by the listener task.  *)

PushArrives ==
  /\ pc[Push] = "idle" /\ setupComplete
  /\ Shadow /\ Reachable
  /\ \E r \in Readings : ApplyReading(Push, Dict(r.activity, r.online))

-----------------------------------------------------------------------------
(* clear_desired_state, awaited by a refresh or by a push, ends: its        *)
(* failures are swallowed, so the update finishes in any case.             *)

ClearDone(t) ==
  /\ pc[t] = "clearing"
  /\ FinishUpdate(held[t])
  /\ pc' = [pc EXCEPT ![t] = "idle"]
  /\ held' = [held EXCEPT ![t] = NoData]
  /\ UNCHANGED <<env, pendingStopAt, setupComplete>>

-----------------------------------------------------------------------------
(* What the user's commands leave in the coordinator's state.              *)

\* start_cleaning marks the activity once the websocket send has returned.
StartSent ==
  /\ EntitiesExist /\ Shadow
  /\ lastActivityTime' = clock
  /\ UNCHANGED <<env, pendingStopAt, setupComplete, lastData, outageVars, interval, haVars,
                 history, tasks>>

\* stop_cleaning queues the reset, before a websocket send and after an i2d POST.
StopQueued ==
  /\ EntitiesExist
  /\ pendingStopAt' = clock
  /\ UNCHANGED <<env, coordVars, tasks>>

-----------------------------------------------------------------------------
(* The environment.                                                        *)

Tick ==
  /\ Uptime < MaxTime
  /\ clock' = clock + 1
  /\ UNCHANGED <<skew, cloud, family, pendingStopAt, coordVars, tasks>>

\* NTP or the user sets the wall clock back.
ClockStepsBack ==
  /\ skew < MaxSkew /\ clock > 0
  /\ clock' = clock - 1 /\ skew' = skew + 1
  /\ UNCHANGED <<cloud, family, pendingStopAt, coordVars, tasks>>

CloudChanges ==
  /\ cloud' \in CloudStates \ {cloud}
  /\ UNCHANGED <<clock, skew, family, pendingStopAt, coordVars, tasks>>

-----------------------------------------------------------------------------
PollStep(p) ==
  \/ PollStart(p) \/ QuickSetup(p) \/ CloudAnswers(p) \/ PollReply(p)
  \/ PollUnusable(p) \/ PollDegraded(p) \/ PollError(p) \/ PollAuthFailed(p)

Environment == Tick \/ ClockStepsBack \/ CloudChanges

Next ==
  \/ \E p \in Polls : PollStep(p)
  \/ PushArrives
  \/ \E t \in Tasks : ClearDone(t)
  \/ StartSent \/ StopQueued
  \/ Environment

Spec == Init /\ [][Next]_vars

\* Home Assistant schedules the next refresh unless the last one was refused its
\* credentials, every await of a refresh is bounded by a timeout, and time
\* passes.  Nothing is assumed of the cloud, the pushes or the user.
Scheduled(p) == PollStep(p) /\ (pc[p] # "idle" \/ updateStatus # "auth")

Fairness ==
  /\ \A p \in Polls : WF_vars(Scheduled(p))
  /\ \A t \in Tasks : WF_vars(ClearDone(t))
  /\ WF_vars(Tick)

FairSpec == Spec /\ Fairness

-----------------------------------------------------------------------------
(* Correctness.                                                            *)

TypeOK ==
  /\ clock \in Nat /\ skew \in Nat
  /\ cloud \in CloudStates /\ family \in Families
  /\ pendingStopAt \in Nat \cup {NoTime}
  /\ setupComplete \in BOOLEAN
  /\ lastData \in Data /\ shown \in Data
  /\ failures \in 0..MaxFailures
  /\ firstFailureAt \in Nat \cup {NoTime}
  /\ longOutageLogged \in BOOLEAN
  /\ lastActivityTime \in Int
  /\ interval \in {"base", "fast", "slow"}
  /\ updateStatus \in {"ok", "failed", "auth"}
  /\ pc \in [Tasks -> {"idle", "fetching", "answered", "clearing"}]
  /\ held \in [Tasks -> Data]
  /\ lastGood \in Nat
  /\ tracebacks \in Nat

\* The two outage fields are set and cleared together whatever the interleaving
\* of refreshes and pushes, and the log latch is only up during an outage.
OutageFieldsAgree ==
  /\ (failures = 0) <=> (firstFailureAt = NoTime)
  /\ longOutageLogged => firstFailureAt # NoTime

\* Entities are made unavailable (UpdateFailed) only when no refresh and no push
\* succeeded for longer than the threshold, even if the wall clock was set back.
UnavailableOnlyAfterThreshold ==
  updateStatus = "failed" => Uptime - lastGood > LongOutage

\* The long-outage traceback is logged exactly once per outage that is reported.
OneTracebackPerOutage ==
  /\ tracebacks <= 1
  /\ updateStatus = "failed" => tracebacks = 1

\* Once real data was shown, a failing cloud never replaces it: what entities
\* render is always the data of the last successful refresh or push.
ShowsLastGoodData == setupComplete => shown = lastData

\* While an active robot is on display, by a refresh or by a push, the next
\* refresh is due at the fast interval.
FastWhileActive == shown.activity \in Active => interval = "fast"

\* An outage is forgotten only by a step that publishes a fresh result: neither
\* a refused refresh nor a command ends it.
OutageEndsOnlyBySuccess ==
  [][firstFailureAt # NoTime /\ firstFailureAt' # firstFailureAt
       => lastGood' = Uptime' /\ updateStatus' = "ok" /\ shown' = lastData']_vars

\* Once the cloud stays up, updates succeed again and the outage is forgotten,
\* unless polling stopped to wait for new credentials.
RecoversFromOutage ==
  <>[](cloud = "up") /\ []<>(updateStatus # "auth")
    => <>[](updateStatus = "ok" /\ failures = 0)

\* Credentials refused for good are reported to Home Assistant, which asks the
\* user for new ones.
RestReauthIsRequested ==
  <>[](cloud = "rejecting" /\ family = "i2d") => <>[](updateStatus = "auth")

-----------------------------------------------------------------------------
(* The refinement.                                                         *)

\* What "available" and "restored" of the entities say, the latter after the first
\* update.
Mode == IF failures = 0 THEN "fresh" ELSE IF IsLongOutage THEN "unavailable" ELSE "stale"

Entities == INSTANCE Availability WITH
  Threshold <- LongOutage, Updates <- Data \ {NoData},
  Nothing <- NoData, Placeholder <- MinimalOfflineData,
  mode <- Mode, quiet <- Uptime - lastGood, display <- shown

\* Whatever refreshes, pushes, commands and the clock do, in any interleaving, the
\* entities render, mark as stale and withdraw data as Availability promises: a
\* failure never replaces data, nothing is withdrawn early, and only an update
\* that went through brings it back.
KeepsAvailabilityPromise == Entities!Spec
=============================================================================
