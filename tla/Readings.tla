------------------------------- MODULE Readings -------------------------------
(***************************************************************************)
(* What becomes of an answer of the cloud: the status stabiliser of        *)
(* AqualinkClient, the fallbacks of _update_other_robots, the result of a  *)
(* poll and of a push, and what the vacuum entity and the status sensor    *)
(* show of it.  Families of the shadow stream only; i2d has its own,       *)
(* unstabilised path.                                                      *)
(*                                                                         *)
(* Time passes in ticks of SCAN_INTERVAL (3 s); at most one message is     *)
(* read per tick.  How the answer was obtained is in module Connection,    *)
(* when refreshes and pushes overlap in module Coordinator.                *)
(***************************************************************************)
EXTENDS Naturals, FiniteSets

CONSTANTS
  Reported,    \* the values of aws.status
  Duration,    \* _minimum_status_duration, in ticks
  Window,      \* _status_stabilization_window, in ticks
  MaxFaults    \* bound: answers without a usable reading

\* What the fallbacks report in the place of a status; "absent": no such key.
Fallbacks == {"unknown", "offline"}
None == "none"

ASSUME ReadingsAssumption ==
  /\ Reported # {} /\ Reported \cap (Fallbacks \cup {None, "absent"}) = {}
  /\ Duration \in Nat \ {0} /\ Window \in Nat /\ Duration <= Window /\ MaxFaults \in Nat

VARIABLES
  family,       \* client.device_type
  robot,        \* aws.status of the robot
  stabilizer,   \* _status_history, _stable_status, _last_status_change_time
  lastKnown,    \* _last_known_status
  vacuum,       \* the vacuum entity: _status and _activity
  sensor,       \* _last_value of the status sensor
  faults,       \* answers without a usable reading so far
  told          \* history: the activity the robot reported last

entities == <<vacuum, sensor, told>>
vars == <<family, robot, stabilizer, lastKnown, faults, entities>>

-----------------------------------------------------------------------------
Families == {"plain", "cyclobat"}
Activities == {"cleaning", "idle"}
Statuses == Reported \cup Fallbacks

\* "thin": the activity is missing; "bare": the robot is; "empty": the message has
\* no payload or no status; "silent": there is no answer.
Readable == {"full", "thin", "bare"}
Answers == Readable \cup {"empty", "silent"}

\* A status dict.  degraded: its error_state is one of the four that
\* _apply_degraded_state and native_value test.
Dict(s, a, d) == [status |-> s, activity |-> a, degraded |-> d]

\* The history is a set: what matters of an entry is its age, and which of one tick
\* it is.
Younger(h, age) == {e \in h : e.age < age}
Entry(h, s) == [status |-> s, age |-> 0, nth |-> Cardinality(Younger(h, 1))]
Count(h, s) == Cardinality({e \in h : e.status = s})
Read == \E e \in stabilizer.history : e.age = 0

Init ==
  /\ family \in Families
  /\ robot \in Reported
  /\ stabilizer = [history |-> {}, stable |-> None, since |-> 0]
  /\ lastKnown = None /\ faults = 0
  /\ vacuum = [status |-> None, activity |-> "idle"]
  /\ sensor = None
  /\ told = "idle"

-----------------------------------------------------------------------------
\* Mutant: the reading in hand is not among the readings that are counted.
AcceptsBlindly(b, s) ==
  LET recent == Younger(b.history, Duration) \ Younger(b.history, 1)
  IN  b.since >= Duration /\ recent # {} /\ 10 * Count(recent, s) >= 7 * Cardinality(recent)

\* A change is accepted when the last one is old enough and 70% of the recent
\* readings agree.
Accepts(b, s) ==
  LET recent == Younger(b.history, Duration)
  IN  b.since >= Duration /\ 10 * Count(recent, s) >= 7 * Cardinality(recent)

\* Mutant: a change that is rejected starts the wait anew.
StabilizedRestarting(b, s) ==
  LET read == [b EXCEPT !.history = Younger(@ \cup {Entry(@, s)}, Window)]
  IN  IF b.stable = None \/ (s # b.stable /\ Accepts(read, s))
      THEN [read EXCEPT !.stable = s, !.since = 0]
      ELSE IF s # b.stable THEN [read EXCEPT !.since = 0] ELSE read

\* _stabilize_status: the first status is taken at once.
Stabilized(b, s) ==
  LET read == [b EXCEPT !.history = Younger(@ \cup {Entry(@, s)}, Window)]
  IN  IF b.stable = None \/ (s # b.stable /\ Accepts(read, s))
      THEN [read EXCEPT !.stable = s, !.since = 0]
      ELSE read

\* The cyclobat parser stabilises the status once more, unless it found no robot.
Parsed(b, s, answer) ==
  IF family = "cyclobat" /\ answer # "bare" THEN Stabilized(b, s) ELSE b

\* _get_resilient_status; givenUp: the connection failed too often (Connection).
Resilient(givenUp) ==
  IF givenUp THEN "offline" ELSE IF lastKnown # None THEN lastKnown ELSE "unknown"

\* What a parser makes of an answer, with a status that is there already.
Parse(status, answer, activity) ==
  Dict(status, IF answer = "full" THEN activity ELSE "unknown", answer = "bare")

-----------------------------------------------------------------------------
(* The entities.                                                           *)

\* Mutant: an activity that is not known is idle.
ActivityOrIdle(d) == IF d.activity = "unknown" THEN "idle" ELSE d.activity

\* _apply_activity.
Activity(d) == IF d.activity = "unknown" THEN vacuum.activity ELSE d.activity

\* _handle_coordinator_update of the vacuum: of a degraded update it takes the
\* status only, and that only if there is one.
Vacuum(d) ==
  IF d.degraded
  THEN IF d.status = "absent" THEN vacuum ELSE [vacuum EXCEPT !.status = d.status]
  ELSE [status |-> IF d.status = "absent" THEN None ELSE d.status, activity |-> Activity(d)]

\* Mutant: a degraded update is like any other.
SensorOfAll(d) == IF d.status \in {"absent", "unknown"} THEN sensor ELSE d.status

\* native_value shows what is cached when there is no news; before the first value
\* it shows what there is.
Sensor(d) ==
  IF d.status \in {"absent", "unknown"} \/ (d.degraded /\ sensor # None) THEN sensor ELSE d.status

Publish(d) ==
  /\ vacuum' = Vacuum(d) /\ sensor' = Sensor(d)
  /\ told' = IF d.activity \in Activities THEN d.activity ELSE told

-----------------------------------------------------------------------------
(* One fetch_status: what the client keeps of the answer, and the result.   *)

FetchReading(answer) ==
  /\ answer \in Readable
  /\ stabilizer' = Parsed(Stabilized(stabilizer, robot), robot, answer)
  /\ lastKnown' = robot

\* The message has no payload, or no status and neither has the second one.
FetchEmpty(givenUp) ==
  /\ stabilizer' = Stabilized(stabilizer, Resilient(givenUp))
  /\ UNCHANGED lastKnown

\* _degraded_result: the fallback is not stabilised.
FetchSilent == UNCHANGED <<stabilizer, lastKnown>>

Fetch(answer, givenUp) ==
  /\ ~Read
  /\ answer # "full" => faults < MaxFaults
  /\ faults' = IF answer = "full" THEN faults ELSE faults + 1
  /\ \/ FetchReading(answer)
     \/ answer = "empty" /\ FetchEmpty(givenUp)
     \/ answer = "silent" /\ FetchSilent

Result(answer, givenUp, activity) ==
  CASE answer \in Readable -> Parse(stabilizer'.stable, answer, activity)
    [] answer = "empty"    -> Dict(stabilizer'.stable, "unknown", TRUE)
    [] answer = "silent"   -> Dict(Resilient(givenUp), "unknown", TRUE)

Poll ==
  \E answer \in Answers, givenUp \in BOOLEAN, activity \in Activities :
    /\ Fetch(answer, givenUp)
    /\ Publish(Result(answer, givenUp, activity))
    /\ UNCHANGED <<family, robot>>

\* _adjust_stepper reads the stepper by a fetch_status of its own.
Peek ==
  /\ \E answer \in Answers, givenUp \in BOOLEAN : Fetch(answer, givenUp)
  /\ UNCHANGED <<family, robot, entities>>

\* _apply_realtime_envelope: the delta on the baseline, with the status of either.
\* Only the cyclobat parser reads the status.
Push ==
  /\ ~Read /\ lastKnown # None
  /\ \E answer \in Readable, s \in {lastKnown, robot}, activity \in Activities :
       LET parsed == Parsed(stabilizer, s, answer) IN
       /\ answer # "full" => faults < MaxFaults
       /\ faults' = IF answer = "full" THEN faults ELSE faults + 1
       /\ stabilizer' = parsed
       /\ Publish(Parse(IF parsed = stabilizer THEN "absent" ELSE parsed.stable,
                        answer, activity))
  /\ UNCHANGED <<family, robot, lastKnown>>

\* The robot loses its connection and finds it again.
Change ==
  /\ robot' \in Reported \ {robot}
  /\ UNCHANGED <<family, stabilizer, lastKnown, faults, entities>>

Older(n, bound) == IF n < bound THEN n + 1 ELSE bound

Tick ==
  /\ stabilizer' = [stabilizer EXCEPT
       !.history = {[e EXCEPT !.age = Older(@, Window)] : e \in @},
       !.since = Older(@, Duration)]
  /\ UNCHANGED <<family, robot, lastKnown, faults, entities>>

Next == Poll \/ Peek \/ Push \/ Change \/ Tick

Spec == Init /\ [][Next]_vars

\* Home Assistant polls on its interval, whatever else is read: that a poll has to
\* wait for the next tick when something was read in this one is a bound of the
\* model, hence strong fairness.  Time passes.  Nothing is assumed of the robot,
\* the pushes and the timing commands.
FairSpec == Spec /\ SF_vars(Poll) /\ WF_vars(Tick)

-----------------------------------------------------------------------------
TypeOK ==
  /\ family \in Families /\ faults \in 0..MaxFaults
  /\ robot \in Reported
  /\ stabilizer \in [history : SUBSET [status : Statuses, age : 0..Window, nth : 0..1],
                     stable : Statuses \cup {None}, since : 0..Duration]
  /\ lastKnown \in Reported \cup {None}
  /\ vacuum \in [status : Statuses \cup {None}, activity : Activities]
  /\ sensor \in (Statuses \ {"unknown"}) \cup {None}
  /\ told \in Activities

\* When every reading of the last 15 s says the same, the stabiliser says it too:
\* a status that lasts is shown after 15 s, however often it was looked at and
\* whatever came before (_stabilize_status, two comparisons of times).
AgreedStatusIsStable ==
  Read => LET recent == Younger(stabilizer.history, Duration) IN
          \A s \in Statuses : (\A e \in recent : e.status = s) => stabilizer.stable = s

\* Once the status sensor has shown a status it changes to statuses that the
\* stabiliser has accepted, never to the fallback of a degraded update, which
\* _degraded_result does not stabilise (native_value, _degraded_result).
SensorIsDebounced ==
  [][sensor # None /\ sensor' # sensor => sensor' = stabilizer'.stable]_vars

\* The vacuum shows the last activity the robot has reported, through degraded
\* updates and answers without one (_apply_degraded_state, _apply_activity).
VacuumKeepsActivity == vacuum.activity = told

\* A status that lasts is shown for good by the sensor, and by the vacuum again
\* and again: pushes may take it away from the vacuum until the next poll
\* (_stabilize_status, _handle_coordinator_update).
StatusConverges ==
  \A s \in Reported :
    <>[](robot = s) => <>[](sensor = s) /\ []<>(vacuum.status = s)

=============================================================================
