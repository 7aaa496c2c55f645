-------------------------- MODULE CoordinatorProofs --------------------------
(***************************************************************************)
(* Proofs about Coordinator, for any number of refresh tasks, any set of   *)
(* readings and any value of the thresholds and bounds.                    *)
(*                                                                         *)
(* The invariant has three parts.  OutageInv relates the stamp of the      *)
(* outage to the last success: the outage never looks older than it is.    *)
(* ReportInv relates what Home Assistant was told to the log latch.        *)
(* DataInv says where the data on display comes from.                      *)
(***************************************************************************)
EXTENDS Coordinator, TLAPS

OutageInv ==
  /\ OutageFieldsAgree
  /\ lastGood <= Uptime
  /\ firstFailureAt # NoTime => lastGood <= firstFailureAt + skew

ReportInv ==
  /\ updateStatus = "failed" => longOutageLogged /\ Uptime - lastGood > LongOutage
  /\ tracebacks = IF longOutageLogged THEN 1 ELSE 0

\* Tasks past their fetch carry a reading, and only run once setup is complete.
Carries(t) == pc[t] \in {"answered", "clearing"} => setupComplete /\ held[t].activity # "none"

DataInv ==
  /\ \A t \in Tasks : Carries(t)
  /\ setupComplete <=> lastData # NoData
  /\ ShowsLastGoodData
  /\ FastWhileActive

Inv == TypeOK /\ OutageInv /\ ReportInv /\ DataInv

USE DEF NoTime

\* What the coordinator's own variables satisfy after an update went through.
UpdatedInv ==
  /\ failures \in 0..MaxFailures /\ firstFailureAt \in Nat \cup {NoTime}
  /\ longOutageLogged \in BOOLEAN /\ tracebacks \in Nat
  /\ lastData \in Data /\ shown \in Data
  /\ lastActivityTime \in Int /\ interval \in {"base", "fast", "slow"}
  /\ updateStatus \in {"ok", "failed", "auth"} /\ lastGood \in Nat
  /\ OutageInv /\ ReportInv
  /\ lastData # NoData /\ shown = lastData /\ FastWhileActive

-----------------------------------------------------------------------------

\* The stop reset changes no activity and keeps a status dict a status dict.
LEMMA StopResetKeepsActivity ==
  ASSUME NEW d \in Data
  PROVE  WithStopReset(d) \in Data /\ WithStopReset(d).activity = d.activity
  BY DEF WithStopReset, Data

\* The tail of both update paths establishes everything the invariant says of
\* the coordinator's variables.
LEMMA FinishUpdateEstablishes ==
  ASSUME TypeOK, NEW d \in Data, d.activity # "none", FinishUpdate(d), UNCHANGED env
  PROVE  UpdatedInv'
  <1>1. /\ failures' = 0 /\ firstFailureAt' = -1 /\ longOutageLogged' = FALSE
        /\ tracebacks' = 0 /\ updateStatus' = "ok" /\ lastGood' = Uptime
        /\ lastData' = d /\ shown' = d /\ clock' = clock /\ skew' = skew
    BY DEF FinishUpdate, ResetOutage, Publish, env
  <1>2. MaxFailures \in Nat
    BY CoordinatorAssumption
  <1>3. OutageInv' /\ ReportInv'
    BY <1>1 DEF OutageInv, ReportInv, OutageFieldsAgree, Uptime, TypeOK
  <1>4. /\ lastActivityTime' \in Int /\ interval' \in {"base", "fast", "slow"}
        /\ d.activity \in Active => interval' = "fast"
    BY DEF FinishUpdate, UpdatePollingInterval, TypeOK
  <1>5. d # NoData
    BY DEF NoData, Dict
  <1>6. FastWhileActive'
    BY <1>1, <1>4 DEF FastWhileActive
  <1>7. lastGood' \in Nat
    BY <1>1 DEF Uptime, TypeOK
  <1>8. lastData' # NoData
    BY <1>1, <1>5 DEF NoData, Dict
  <1>9. /\ failures' \in 0..MaxFailures /\ firstFailureAt' \in Nat \cup {-1}
        /\ tracebacks' \in Nat /\ updateStatus' \in {"ok", "failed", "auth"}
    BY <1>1, <1>2
  <1>11. longOutageLogged' \in BOOLEAN
    BY <1>1, Zenon
  <1>10. lastData' \in Data /\ shown' \in Data /\ shown' = lastData'
    BY <1>1
  <1> QED
    BY <1>3, <1>4, <1>6, <1>7, <1>8, <1>9, <1>10, <1>11 DEF UpdatedInv

\* The invariant holds initially.
LEMMA InitInv == Init => Inv
  <1> SUFFICES ASSUME Init PROVE Inv
    OBVIOUS
  <1>1. CommandWindow \in Nat /\ MaxFailures \in Nat
    BY CoordinatorAssumption
  <1>2. NoData \in Data
    BY DEF NoData, Dict, Data
  <1>3. TypeOK
    <2>1. held \in [Tasks -> Data] /\ pc \in [Tasks -> {"idle", "fetching", "answered", "clearing"}]
      BY <1>2 DEF Init
    <2>2. /\ lastData \in Data /\ shown \in Data
      BY <1>2 DEF Init
    <2>3. lastActivityTime \in Int /\ failures \in 0..MaxFailures
      BY <1>1 DEF Init
    <2> QED
      BY <2>1, <2>2, <2>3 DEF Init, TypeOK, CloudStates
  <1>4. OutageInv /\ ReportInv
    BY DEF Init, OutageInv, ReportInv, OutageFieldsAgree, Uptime
  <1>5. DataInv
    BY DEF Init, DataInv, Carries, ShowsLastGoodData, FastWhileActive, NoData, Dict, Active
  <1> QED
    BY <1>3, <1>4, <1>5 DEF Inv

-----------------------------------------------------------------------------

\* What the tasks, the pending stop reset and the environment must satisfy after
\* any step.
TasksOK ==
  /\ clock \in Nat /\ skew \in Nat /\ cloud \in CloudStates /\ family \in Families
  /\ pendingStopAt \in Nat \cup {NoTime}
  /\ setupComplete \in BOOLEAN
  /\ pc \in [Tasks -> {"idle", "fetching", "answered", "clearing"}]
  /\ held \in [Tasks -> Data]
  /\ \A t \in Tasks : Carries(t)

\* The invariant contains what the tasks need.
LEMMA InvGivesTasksOK == Inv => TasksOK
  BY DEF Inv, DataInv, TypeOK, TasksOK

\* A step that published an update of a set-up coordinator.
LEMMA UpdatedStep ==
  ASSUME TasksOK', UpdatedInv', setupComplete'
  PROVE  Inv'
  <1>1. TypeOK'
    BY DEF TasksOK, UpdatedInv, TypeOK
  <1>2. DataInv'
    BY DEF TasksOK, UpdatedInv, DataInv, ShowsLastGoodData
  <1> QED
    BY <1>1, <1>2 DEF Inv, UpdatedInv

\* A step that leaves the coordinator's own variables and the clock alone.
LEMMA QuietStep ==
  ASSUME Inv, TasksOK', UNCHANGED <<clock, skew, coordVars>>
  PROVE  Inv'
  <1> USE DEF coordVars, outageVars, pollingVars, haVars, history
  <1>1. TypeOK'
    BY DEF Inv, TasksOK, TypeOK
  <1>2. OutageInv' /\ ReportInv'
    BY DEF Inv, OutageInv, ReportInv, OutageFieldsAgree, Uptime
  <1>3. DataInv'
    BY DEF Inv, DataInv, TasksOK, ShowsLastGoodData, FastWhileActive
  <1> QED
    BY <1>1, <1>2, <1>3 DEF Inv

-----------------------------------------------------------------------------

\* A reading, polled or pushed, preserves the invariant: it suspends the task
\* with a reading in hand, or it publishes.
LEMMA ApplyReadingPreserves ==
  ASSUME Inv, setupComplete, NEW t \in Tasks, NEW d \in Data, d.activity # "none",
         ApplyReading(t, d)
  PROVE  Inv'
  <1> DEFINE r == WithStopReset(d)
  <1>1. r \in Data /\ r.activity # "none"
    BY StopResetKeepsActivity
  <1>2. pendingStopAt' = -1 /\ UNCHANGED env
    BY DEF ApplyReading
  <1> HIDE DEF r
  <1>3. CASE /\ pc' = [pc EXCEPT ![t] = "clearing"]
             /\ held' = [held EXCEPT ![t] = r]
             /\ UNCHANGED coordVars
    <2>1. TasksOK'
      BY <1>1, <1>2, <1>3, InvGivesTasksOK DEF TasksOK, Carries, env, coordVars
    <2> QED
      BY <1>2, <1>3, <2>1, QuietStep DEF env
  <1>4. CASE /\ FinishUpdate(r)
             /\ pc' = [pc EXCEPT ![t] = "idle"]
             /\ held' = [held EXCEPT ![t] = NoData]
             /\ UNCHANGED setupComplete
    <2>1. NoData \in Data
      BY DEF NoData, Dict, Data
    <2>2. TasksOK'
      BY <1>2, <1>4, <2>1, InvGivesTasksOK DEF TasksOK, Carries, env
    <2>3. UpdatedInv'
      BY <1>1, <1>2, <1>4, FinishUpdateEstablishes DEF Inv
    <2> QED
      BY <1>4, <2>2, <2>3, UpdatedStep
  <1> QED
    BY <1>3, <1>4 DEF ApplyReading, r

\* A failed refresh.  The new stamp, if there is one, is not older than the last
\* success; a long outage is reported only on a stamp that is old enough.
LEMMA FailUpdatePreserves ==
  ASSUME Inv, NEW p \in Polls, PollError(p)
  PROVE  Inv'
  <1> USE DEF PollError, ReturnFromPoll
  <1> p \in Tasks
    BY DEF Tasks
  <1>0. MaxFailures \in Nat \ {0} /\ LongOutage \in Nat
    BY CoordinatorAssumption
  <1>1. NoData \in Data /\ MinimalOfflineData \in Data
    BY DEF NoData, MinimalOfflineData, Dict, Data
  <1>2. TasksOK'
    BY <1>1, InvGivesTasksOK DEF TasksOK, Carries, env
  <1>3. /\ failures' \in 0..MaxFailures /\ failures' # 0
        /\ firstFailureAt' = FirstFailureStamp /\ firstFailureAt' \in Nat
        /\ clock' = clock /\ skew' = skew /\ lastGood' = lastGood
    BY <1>0 DEF Inv, TypeOK, FailUpdate, NextFailureCount, FirstFailureStamp, env
  <1>4. OutageInv'
    BY <1>3 DEF Inv, TypeOK, OutageInv, OutageFieldsAgree, FirstFailureStamp, Uptime
  <1>5. FailureData \in Data /\ (setupComplete => FailureData = lastData)
        /\ (~setupComplete => FailureData = MinimalOfflineData)
    BY <1>1 DEF FailureData, Inv, TypeOK, DataInv
  <1>6. CASE LongOutageNow
    <2>1. /\ longOutageLogged' = TRUE /\ updateStatus' = "failed" /\ shown' = shown
          /\ tracebacks' = IF longOutageLogged THEN tracebacks ELSE tracebacks + 1
      BY <1>6 DEF FailUpdate, LogLongOutage
    <2>2. tracebacks' = 1
      BY <2>1 DEF Inv, ReportInv
    <2>3. Uptime - lastGood > LongOutage
      BY <1>0, <1>3, <1>4, <1>6 DEF LongOutageNow, OutageInv, Uptime, Inv, TypeOK
    <2>4. ReportInv'
      BY <1>3, <2>1, <2>2, <2>3 DEF ReportInv, Uptime
    <2>5. TypeOK'
      BY <1>2, <1>3, <2>1, <2>2 DEF Inv, TypeOK, TasksOK, pollingVars
    <2>6. DataInv'
      BY <1>2, <2>1 DEF Inv, DataInv, TasksOK, ShowsLastGoodData, FastWhileActive, pollingVars
    <2> QED
      BY <1>4, <2>4, <2>5, <2>6 DEF Inv
  <1>7. CASE ~LongOutageNow
    <2>1. /\ UNCHANGED <<longOutageLogged, tracebacks>>
          /\ updateStatus' = "ok" /\ shown' = FailureData
      BY <1>7 DEF FailUpdate, Publish
    <2>4. ReportInv'
      BY <2>1 DEF Inv, ReportInv
    <2>5. TypeOK'
      BY <1>2, <1>3, <1>5, <2>1 DEF Inv, TypeOK, TasksOK, pollingVars
    <2>6. shown'.activity \in Active => interval = "fast"
      BY <1>5, <2>1 DEF Inv, DataInv, ShowsLastGoodData, FastWhileActive,
                        MinimalOfflineData, Dict, Active
    <2>7. DataInv'
      BY <1>2, <1>5, <2>1, <2>6 DEF Inv, DataInv, TasksOK, ShowsLastGoodData,
                                    FastWhileActive, pollingVars
    <2> QED
      BY <1>4, <2>4, <2>5, <2>7 DEF Inv
  <1> QED
    BY <1>6, <1>7

\* Every step of a refresh preserves the invariant.
LEMMA PollStepPreserves ==
  ASSUME Inv, NEW p \in Polls, PollStep(p)
  PROVE  Inv'
  <1> p \in Tasks
    BY DEF Tasks
  <1>0. NoData \in Data
    BY DEF NoData, Dict, Data
  <1>1. CASE PollStart(p)
    <2>1. TasksOK'
      BY <1>1, InvGivesTasksOK DEF PollStart, TasksOK, Carries, env, coordVars
    <2> QED
      BY <1>1, <2>1, QuietStep DEF PollStart, env
  <1>2. CASE QuickSetup(p)
    <2>1. QuickSetupData \in Data /\ QuickSetupData.activity # "none"
      BY DEF QuickSetupData, Dict, Data
    <2>2. setupComplete'
      BY <1>2 DEF QuickSetup
    <2>3. TasksOK'
      BY <1>2, <2>2, InvGivesTasksOK DEF QuickSetup, TasksOK, Carries, env
    <2>4. UpdatedInv'
      BY <1>2, <2>1, FinishUpdateEstablishes DEF QuickSetup, Inv
    <2> QED
      BY <2>2, <2>3, <2>4, UpdatedStep
  <1>3. CASE CloudAnswers(p)
    <2>1. PICK r \in Readings : held' = [held EXCEPT ![p] = Dict(r.activity, r.online)]
      BY <1>3 DEF CloudAnswers
    <2>2. Dict(r.activity, r.online) \in Data /\ Dict(r.activity, r.online).activity # "none"
      BY CoordinatorAssumption DEF Dict, Data, Activities
    <2>3. TasksOK'
      BY <1>3, <2>1, <2>2, InvGivesTasksOK DEF CloudAnswers, TasksOK, Carries, env, coordVars
    <2> QED
      BY <1>3, <2>3, QuietStep DEF CloudAnswers, env
  <1>4. CASE PollReply(p)
    <2>1. setupComplete /\ held[p] \in Data /\ held[p].activity # "none"
      BY <1>4, InvGivesTasksOK DEF PollReply, TasksOK, Carries
    <2> QED
      BY <1>4, <2>1, ApplyReadingPreserves DEF PollReply
  <1>5. CASE PollUnusable(p)
    <2>1. PICK o \in KeptStatuses :
            ApplyReading(p, IF Shadow THEN Dict("unknown", o) ELSE Dict("absent", FALSE))
      BY <1>5 DEF PollUnusable
    <2>2. o \in BOOLEAN
      BY CoordinatorAssumption DEF KeptStatuses
    <2>3. /\ Dict("unknown", o) \in Data /\ Dict("unknown", o).activity # "none"
          /\ Dict("absent", FALSE) \in Data /\ Dict("absent", FALSE).activity # "none"
      BY <2>2 DEF Dict, Data
    <2> QED
      BY <1>5, <2>1, <2>3, ApplyReadingPreserves DEF PollUnusable
  <1>6. CASE PollDegraded(p)
    <2>1. PICK o \in KeptStatuses : ApplyReading(p, Dict("absent", o))
      BY <1>6 DEF PollDegraded
    <2>2. o \in BOOLEAN
      BY CoordinatorAssumption DEF KeptStatuses
    <2>3. Dict("absent", o) \in Data /\ Dict("absent", o).activity # "none"
      BY <2>2 DEF Dict, Data
    <2> QED
      BY <1>6, <2>1, <2>3, ApplyReadingPreserves DEF PollDegraded
  <1>7. CASE PollError(p)
    BY <1>7, FailUpdatePreserves DEF PollError
  <1>8. CASE PollAuthFailed(p)
    <2>1. TasksOK'
      BY <1>0, <1>8, InvGivesTasksOK DEF PollAuthFailed, ReturnFromPoll, TasksOK, Carries, env
    <2> USE <1>8 DEF PollAuthFailed, outageVars, history, pollingVars, env
    <2>2. TypeOK'
      BY <2>1 DEF Inv, TasksOK, TypeOK
    <2>3. OutageInv' /\ ReportInv'
      BY DEF Inv, OutageInv, ReportInv, OutageFieldsAgree, Uptime
    <2>4. DataInv'
      BY <2>1 DEF Inv, DataInv, TasksOK, ShowsLastGoodData, FastWhileActive
    <2> QED
      BY <2>2, <2>3, <2>4 DEF Inv
  <1> QED
    BY <1>1, <1>2, <1>3, <1>4, <1>5, <1>6, <1>7, <1>8 DEF PollStep

\* Widening a sum keeps it a bound.
LEMMA SumBound ==
  \A a, b, c, d \in Int : a <= b + c /\ d >= c => a <= b + d
  OBVIOUS

\* Every step of the system preserves the invariant.
LEMMA NextPreserves == Inv /\ [Next]_vars => Inv'
  <1> SUFFICES ASSUME Inv, [Next]_vars PROVE Inv'
    OBVIOUS
  <1>0. NoData \in Data
    BY DEF NoData, Dict, Data
  <1>1. CASE \E p \in Polls : PollStep(p)
    BY <1>1, PollStepPreserves
  <1>2. CASE PushArrives
    <2>1. PICK r \in Readings : ApplyReading(Push, Dict(r.activity, r.online))
      BY <1>2 DEF PushArrives
    <2>2. Dict(r.activity, r.online) \in Data /\ Dict(r.activity, r.online).activity # "none"
      BY CoordinatorAssumption DEF Dict, Data, Activities
    <2>3. Push \in Tasks
      BY DEF Tasks
    <2> QED
      BY <1>2, <2>1, <2>2, <2>3, ApplyReadingPreserves DEF PushArrives
  <1>3. ASSUME NEW t \in Tasks, ClearDone(t) PROVE Inv'
    <2>1. setupComplete /\ held[t] \in Data /\ held[t].activity # "none"
      BY <1>3, InvGivesTasksOK DEF ClearDone, TasksOK, Carries
    <2>2. TasksOK'
      BY <1>0, <1>3, InvGivesTasksOK DEF ClearDone, TasksOK, Carries, env
    <2>3. UpdatedInv'
      BY <1>3, <2>1, FinishUpdateEstablishes DEF ClearDone, Inv
    <2> QED
      BY <1>3, <2>1, <2>2, <2>3, UpdatedStep DEF ClearDone
  <1>4. CASE StartSent
    <2> USE <1>4 DEF StartSent, env, tasks, outageVars, haVars, history
    <2>1. TasksOK'
      BY InvGivesTasksOK DEF TasksOK, Carries
    <2>2. TypeOK'
      BY <2>1 DEF Inv, TasksOK, TypeOK
    <2>3. OutageInv' /\ ReportInv'
      BY DEF Inv, OutageInv, ReportInv, OutageFieldsAgree, Uptime
    <2>4. DataInv'
      BY <2>1 DEF Inv, DataInv, TasksOK, ShowsLastGoodData, FastWhileActive
    <2> QED
      BY <2>2, <2>3, <2>4 DEF Inv
  <1>5. CASE StopQueued
    <2>1. TasksOK'
      BY <1>5, InvGivesTasksOK DEF StopQueued, TasksOK, Carries, env, coordVars, tasks
    <2> QED
      BY <1>5, <2>1, QuietStep DEF StopQueued, env
  <1>6. CASE Tick \/ ClockStepsBack
    <2> USE <1>6 DEF Tick, ClockStepsBack, coordVars, outageVars, pollingVars, haVars,
                     history, tasks
    <2>1. TasksOK'
      BY InvGivesTasksOK DEF TasksOK, Carries
    <2>2. Uptime' >= Uptime /\ Uptime \in Nat /\ LongOutage \in Nat
          /\ lastGood' = lastGood /\ skew' >= skew
          /\ Uptime' \in Nat /\ skew' \in Nat
      BY CoordinatorAssumption DEF Inv, TypeOK, Uptime
    <2>3. TypeOK'
      BY <2>1 DEF Inv, TasksOK, TypeOK
    <2>7. UNCHANGED <<failures, firstFailureAt, longOutageLogged>>
      OBVIOUS
    <2> HIDE <1>6 DEF Tick, ClockStepsBack, coordVars, outageVars, pollingVars, haVars,
                      history, tasks
    <2>4. OutageInv'
      <3>1. OutageFieldsAgree'
        BY <2>7 DEF Inv, OutageInv, OutageFieldsAgree
      <3>2. lastGood' <= Uptime'
        BY <2>2 DEF Inv, OutageInv, TypeOK
      <3>3. firstFailureAt' # NoTime => lastGood' <= firstFailureAt' + skew'
        <4>1. /\ firstFailureAt \in Int /\ skew \in Int /\ lastGood \in Int
              /\ firstFailureAt # NoTime => lastGood <= firstFailureAt + skew
          BY DEF Inv, OutageInv, TypeOK
        <4>2. skew' >= skew /\ skew' \in Int /\ lastGood' = lastGood
              /\ firstFailureAt' = firstFailureAt
          BY <2>2, <2>7
        <4> QED
          BY <4>1, <4>2, SumBound
      <3> QED
        BY <3>1, <3>2, <3>3 DEF OutageInv
    <2> USE <1>6 DEF Tick, ClockStepsBack, coordVars, outageVars, pollingVars, haVars,
                     history, tasks
    <2>5. ReportInv'
      BY <2>2 DEF Inv, ReportInv, OutageInv, TypeOK, Uptime
    <2>6. DataInv'
      BY <2>1 DEF Inv, DataInv, TasksOK, ShowsLastGoodData, FastWhileActive
    <2> QED
      BY <2>3, <2>4, <2>5, <2>6 DEF Inv
  <1>7. CASE CloudChanges
    <2>1. TasksOK'
      BY <1>7, InvGivesTasksOK DEF CloudChanges, TasksOK, Carries, coordVars, tasks
    <2> QED
      BY <1>7, <2>1, QuietStep DEF CloudChanges
  <1>8. CASE UNCHANGED vars
    <2>1. TasksOK'
      BY <1>8, InvGivesTasksOK DEF vars, TasksOK, Carries, env, coordVars, tasks
    <2> QED
      BY <1>8, <2>1, QuietStep DEF vars, env
  <1> QED
    BY <1>1, <1>2, <1>3, <1>4, <1>5, <1>6, <1>7, <1>8 DEF Next, Environment

\* The inductive invariant holds in every reachable state.
THEOREM Invariance == Spec => []Inv
  BY InitInv, NextPreserves, PTL DEF Spec

\* Type correctness of the coordinator's state.
THEOREM TypeCorrect == Spec => []TypeOK
  BY Invariance, PTL DEF Inv

\* The failure counter, the stamp and the log latch of an outage agree whatever
\* the interleaving of refreshes and pushes.
THEOREM OutageFieldsAlwaysAgree == Spec => []OutageFieldsAgree
  BY Invariance, PTL DEF Inv, OutageInv

\* Entities are never reported unavailable before the threshold has passed since
\* the last success, whatever the clock steps back by.
THEOREM NoEarlyUnavailability == Spec => []UnavailableOnlyAfterThreshold
  <1>1. Inv => UnavailableOnlyAfterThreshold
    BY DEF Inv, ReportInv, UnavailableOnlyAfterThreshold
  <1> QED
    BY <1>1, Invariance, PTL

\* A reported outage has logged its traceback exactly once.
THEOREM OneTraceback == Spec => []OneTracebackPerOutage
  <1>1. Inv => OneTracebackPerOutage
    BY DEF Inv, ReportInv, OneTracebackPerOutage
  <1> QED
    BY <1>1, Invariance, PTL

\* What entities render after setup is always the data of the last success.
THEOREM AlwaysLastGoodData == Spec => []ShowsLastGoodData
  BY Invariance, PTL DEF Inv, DataInv

\* An active robot on display is polled at the fast interval.
THEOREM AlwaysFastWhileActive == Spec => []FastWhileActive
  BY Invariance, PTL DEF Inv, DataInv

-----------------------------------------------------------------------------

\* The only steps that touch the stamp of an outage: an update that finishes, and
\* a failed refresh, which stamps it once.
LEMMA StampMoves ==
  ASSUME Inv, [Next]_vars
  PROVE  \/ UNCHANGED firstFailureAt
         \/ firstFailureAt = NoTime
         \/ lastGood' = Uptime' /\ updateStatus' = "ok" /\ shown' = lastData'
  <1> DEFINE Goal == \/ UNCHANGED firstFailureAt
                     \/ firstFailureAt = NoTime
                     \/ lastGood' = Uptime' /\ updateStatus' = "ok" /\ shown' = lastData'
  <1> USE DEF env, outageVars, history, coordVars, tasks
  <1>1. ASSUME NEW d, FinishUpdate(d), UNCHANGED env PROVE Goal
    BY <1>1 DEF FinishUpdate, Publish, Uptime
  <1>2. ASSUME NEW t, NEW d, ApplyReading(t, d) PROVE Goal
    <2>1. CASE UNCHANGED coordVars
      BY <2>1
    <2>2. CASE FinishUpdate(WithStopReset(d))
      <3>1. UNCHANGED env
        BY <1>2 DEF ApplyReading
      <3> QED
        BY <1>1, <2>2, <3>1
    <2> QED
      BY <1>2, <2>1, <2>2 DEF ApplyReading
  <1>3. ASSUME NEW p \in Polls, PollStep(p) PROVE Goal
    <2>1. CASE PollStart(p) \/ CloudAnswers(p) \/ PollAuthFailed(p)
      BY <2>1 DEF PollStart, CloudAnswers, PollAuthFailed
    <2>2. CASE QuickSetup(p)
      BY <1>1, <2>2 DEF QuickSetup
    <2>3. CASE PollReply(p) \/ PollUnusable(p) \/ PollDegraded(p)
      BY <1>2, <2>3 DEF PollReply, PollUnusable, PollDegraded
    <2>4. CASE PollError(p)
      BY <2>4 DEF PollError, FailUpdate, FirstFailureStamp
    <2> QED
      BY <1>3, <2>1, <2>2, <2>3, <2>4 DEF PollStep
  <1>4. CASE PushArrives
    BY <1>2, <1>4 DEF PushArrives
  <1>5. ASSUME NEW t \in Tasks, ClearDone(t) PROVE Goal
    BY <1>1, <1>5 DEF ClearDone
  <1>6. CASE StartSent \/ StopQueued \/ Environment
    BY <1>6 DEF StartSent, StopQueued, Environment, Tick, ClockStepsBack, CloudChanges
  <1>7. CASE UNCHANGED vars
    BY <1>7 DEF vars
  <1> QED
    BY <1>3, <1>4, <1>5, <1>6, <1>7 DEF Next

\* Neither a refused refresh nor a command ends an outage: only an update that
\* publishes its data does.
THEOREM OnlySuccessEndsOutage == Spec => OutageEndsOnlyBySuccess
  <1>1. Inv /\ [Next]_vars =>
          [firstFailureAt # NoTime /\ firstFailureAt' # firstFailureAt
             => lastGood' = Uptime' /\ updateStatus' = "ok" /\ shown' = lastData']_vars
    BY StampMoves
  <1> QED
    BY <1>1, Invariance, PTL DEF Spec, OutageEndsOnlyBySuccess

-----------------------------------------------------------------------------
(* Coordinator implements Availability.  Every update that finishes is a   *)
(* Succeed, every failed refresh a Miss, the clock's steps are Elapse and  *)
(* LooksShorter, and all else stutters.                                    *)


\* Before the first update only the placeholder can be on display, and a failure
\* has put it there.
DisplayInv ==
  /\ ~setupComplete => shown \in {NoData, MinimalOfflineData}
  /\ firstFailureAt # NoTime => shown # NoData

\* The variables that the mapping reads.
abstractVars == <<clock, skew, failures, firstFailureAt, lastGood, shown>>

-----------------------------------------------------------------------------

\* The placeholder is data, and some.
LEMMA PlaceholderIsData == MinimalOfflineData \in Data \ {NoData}
  BY DEF MinimalOfflineData, NoData, Dict, Data

\* An update that finishes is a Succeed of the entities.
LEMMA FinishIsSucceed ==
  ASSUME NEW d \in Data, d.activity # "none", TypeOK, FinishUpdate(d), UNCHANGED env
  PROVE  Entities!Succeed
  <1>1. /\ failures' = 0 /\ shown' = d /\ lastGood' = Uptime
        /\ clock' = clock /\ skew' = skew
    BY DEF FinishUpdate, ResetOutage, Publish, env
  <1>2. Uptime' - lastGood' = 0
    BY <1>1 DEF Uptime, TypeOK
  <1>3. d # NoData
    BY DEF NoData, Dict
  <1> QED
    BY <1>1, <1>2, <1>3 DEF Entities!Succeed, Mode

\* A step that leaves alone what the mapping reads is a stutter of the entities.
LEMMA QuietIsStutter ==
  ASSUME UNCHANGED abstractVars
  PROVE  UNCHANGED Entities!vars
  BY DEF abstractVars, Entities!vars, Mode, IsLongOutage, OutageAge, Uptime

\* A reading finishes an update or suspends its task.
LEMMA ReadingSucceedsOrStutters ==
  ASSUME TypeOK, NEW t \in Tasks, NEW d \in Data, d.activity # "none", ApplyReading(t, d)
  PROVE  Entities!Succeed \/ UNCHANGED Entities!vars
  <1>1. CASE UNCHANGED coordVars
    <2>1. UNCHANGED abstractVars
      BY <1>1 DEF ApplyReading, env, coordVars, outageVars, haVars, history, abstractVars
    <2> QED
      BY <2>1, QuietIsStutter
  <1>2. CASE FinishUpdate(WithStopReset(d))
    <2>1. WithStopReset(d) \in Data /\ WithStopReset(d).activity # "none" /\ UNCHANGED env
      BY StopResetKeepsActivity DEF ApplyReading
    <2> QED
      BY <1>2, <2>1, FinishIsSucceed
  <1> QED
    BY <1>1, <1>2 DEF ApplyReading

\* A failed refresh is a Miss.
LEMMA ErrorIsMiss ==
  ASSUME Inv, DisplayInv, NEW p \in Polls, PollError(p)
  PROVE  Entities!Miss
  <1>0. MaxFailures \in Nat \ {0} /\ LongOutage \in Nat
    BY CoordinatorAssumption
  <1>1. /\ failures' # 0 /\ firstFailureAt' = FirstFailureStamp
        /\ clock' = clock /\ skew' = skew /\ lastGood' = lastGood
        /\ lastData' = lastData
    BY <1>0 DEF PollError, FailUpdate, NextFailureCount, env, Inv, TypeOK
  <1>2. Mode' = IF Mode = "fresh" THEN "stale" ELSE Mode
    <2>1. CASE failures = 0
      <3>1. firstFailureAt' = clock
        BY <1>1, <2>1 DEF FirstFailureStamp, Inv, OutageInv, OutageFieldsAgree
      <3>2. ~IsLongOutage'
        BY <1>0, <1>1, <3>1 DEF IsLongOutage, OutageAge, Inv, TypeOK
      <3> QED
        BY <1>1, <2>1, <3>2 DEF Mode
    <2>2. CASE failures # 0
      <3>1. firstFailureAt' = firstFailureAt
        BY <1>1, <2>2 DEF FirstFailureStamp, Inv, OutageInv, OutageFieldsAgree
      <3>2. IsLongOutage' = IsLongOutage
        BY <1>1, <3>1 DEF IsLongOutage, OutageAge
      <3> QED
        BY <1>1, <2>2, <3>2 DEF Mode
    <2> QED
      BY <2>1, <2>2
  <1>3. shown' = IF shown = NoData THEN MinimalOfflineData ELSE shown
    <2>1. CASE LongOutageNow
      <3>1. firstFailureAt # NoTime
        BY <1>0, <2>1 DEF LongOutageNow, FirstFailureStamp, Inv, TypeOK
      <3> QED
        BY <2>1, <3>1 DEF PollError, FailUpdate, DisplayInv
    <2>2. CASE ~LongOutageNow
      <3>1. shown' = FailureData
        BY <2>2 DEF PollError, FailUpdate, Publish
      <3>2. CASE setupComplete
        BY <3>1, <3>2 DEF FailureData, Inv, DataInv, ShowsLastGoodData
      <3>3. CASE ~setupComplete
        BY <3>1, <3>3, PlaceholderIsData DEF FailureData, Inv, DataInv, DisplayInv
      <3> QED
        BY <3>2, <3>3 DEF Inv, TypeOK
    <2> QED
      BY <2>1, <2>2
  <1>4. UNCHANGED (Uptime - lastGood)
    BY <1>1 DEF Uptime
  <1> QED
    BY <1>2, <1>3, <1>4 DEF Entities!Miss

\* Elapsed time ages a stale display; the outage never looks older than the time
\* since the last update.
LEMMA TickIsElapse ==
  ASSUME Inv, Tick
  PROVE  Entities!Elapse
  <1> USE DEF coordVars, outageVars, haVars, history
  <1>1. /\ clock' = clock + 1 /\ skew' = skew /\ UNCHANGED <<failures, firstFailureAt, lastGood, shown>>
    BY DEF Tick
  <1>2. /\ clock \in Nat /\ skew \in Nat /\ lastGood \in Nat /\ LongOutage \in Nat
        /\ firstFailureAt \in Nat \cup {-1}
    BY CoordinatorAssumption DEF Inv, TypeOK
  <1>3. Uptime' - lastGood' = (Uptime - lastGood) + 1
    BY <1>1, <1>2 DEF Uptime
  <1>4. IsLongOutage => IsLongOutage'
    BY <1>1, <1>2 DEF IsLongOutage, OutageAge
  <1>5. IsLongOutage' => Uptime' - lastGood' > LongOutage
    BY <1>1, <1>2 DEF IsLongOutage, OutageAge, Uptime, Inv, OutageInv
  <1>6. Mode' = Mode \/ (Mode = "stale" /\ Uptime' - lastGood' > LongOutage /\ Mode' = "unavailable")
    BY <1>1, <1>4, <1>5 DEF Mode
  <1> QED
    BY <1>1, <1>3, <1>6 DEF Entities!Elapse

\* A clock set back can only make an outage look shorter.
LEMMA StepBackLooksShorter ==
  ASSUME Inv, ClockStepsBack
  PROVE  Entities!LooksShorter \/ UNCHANGED Entities!vars
  <1> USE DEF coordVars, outageVars, haVars, history
  <1>1. /\ clock' = clock - 1 /\ skew' = skew + 1 /\ UNCHANGED <<failures, firstFailureAt, lastGood, shown>>
    BY DEF ClockStepsBack
  <1>2. /\ clock \in Nat /\ skew \in Nat /\ LongOutage \in Nat /\ lastGood \in Nat
        /\ firstFailureAt \in Nat \cup {-1}
    BY CoordinatorAssumption DEF Inv, TypeOK
  <1>3. Uptime' - lastGood' = Uptime - lastGood
    BY <1>1, <1>2 DEF Uptime
  <1>4. IsLongOutage' => IsLongOutage
    BY <1>1, <1>2 DEF IsLongOutage, OutageAge
  <1>5. Mode' = Mode \/ (Mode = "unavailable" /\ Mode' = "stale")
    BY <1>1, <1>4 DEF Mode
  <1> QED
    BY <1>1, <1>3, <1>5 DEF Entities!LooksShorter, Entities!vars

-----------------------------------------------------------------------------

\* The refinement's own invariant is inductive.
LEMMA DisplayPreserved ==
  ASSUME Inv, DisplayInv, [Next]_vars
  PROVE  DisplayInv'
  <1> USE DEF env, outageVars, history, haVars, coordVars, tasks
  <1>0. MinimalOfflineData # NoData
    BY PlaceholderIsData
  <1>1. ASSUME NEW d \in Data, d.activity # "none", FinishUpdate(d) PROVE shown' # NoData
    BY <1>1 DEF FinishUpdate, Publish, NoData, Dict
  <1>2. ASSUME NEW d \in Data, d.activity # "none", setupComplete, NEW t, ApplyReading(t, d)
        PROVE  DisplayInv'
    <2>1. WithStopReset(d) \in Data /\ WithStopReset(d).activity # "none"
      BY StopResetKeepsActivity, <1>2
    <2>2. CASE UNCHANGED coordVars
      BY <2>2 DEF DisplayInv, MinimalOfflineData, NoData, Dict
    <2>3. CASE FinishUpdate(WithStopReset(d)) /\ UNCHANGED setupComplete
      BY <1>1, <1>2, <2>1, <2>3 DEF DisplayInv
    <2> QED
      BY <1>2, <2>2, <2>3 DEF ApplyReading
  <1>3. ASSUME NEW p \in Polls, PollStep(p) PROVE DisplayInv'
    <2>0. p \in Tasks
      BY DEF Tasks
    <2>1. CASE PollStart(p) \/ CloudAnswers(p) \/ PollAuthFailed(p)
      BY <2>1 DEF PollStart, CloudAnswers, PollAuthFailed, DisplayInv, MinimalOfflineData, NoData, Dict
    <2>2. CASE QuickSetup(p)
      <3>1. QuickSetupData \in Data /\ QuickSetupData.activity # "none"
        BY DEF QuickSetupData, Dict, Data
      <3> QED
        BY <1>1, <2>2, <3>1 DEF QuickSetup, DisplayInv
    <2>3. CASE PollReply(p)
      <3>1. setupComplete /\ held[p] \in Data /\ held[p].activity # "none"
        BY <2>0, <2>3, InvGivesTasksOK DEF PollReply, TasksOK, Carries
      <3> QED
        BY <1>2, <2>3, <3>1 DEF PollReply
    <2>4. CASE PollUnusable(p) \/ PollDegraded(p)
      <3>1. PICK o \in KeptStatuses :
              \/ ApplyReading(p, IF Shadow THEN Dict("unknown", o) ELSE Dict("absent", FALSE))
              \/ ApplyReading(p, Dict("absent", o))
        BY <2>4 DEF PollUnusable, PollDegraded
      <3>2. o \in BOOLEAN
        BY CoordinatorAssumption DEF KeptStatuses
      <3>3. \A a \in {"unknown", "absent"}, b \in BOOLEAN : Dict(a, b) \in Data /\ Dict(a, b).activity # "none"
        BY DEF Dict, Data
      <3> QED
        BY <1>2, <2>4, <3>1, <3>2, <3>3 DEF PollUnusable, PollDegraded
    <2>5. CASE PollError(p)
      <3>1. shown' = IF shown = NoData THEN MinimalOfflineData ELSE shown
        BY <2>5, ErrorIsMiss DEF Entities!Miss
      <3>2. UNCHANGED setupComplete
        BY <2>5 DEF PollError
      <3>3. shown' # NoData /\ (~setupComplete' => shown' \in {NoData, MinimalOfflineData})
        BY <1>0, <3>1, <3>2 DEF DisplayInv
      <3>4. NoData' = NoData /\ MinimalOfflineData' = MinimalOfflineData
        BY DEF NoData, MinimalOfflineData, Dict
      <3> QED
        BY <3>3, <3>4 DEF DisplayInv
    <2> QED
      BY <1>3, <2>1, <2>2, <2>3, <2>4, <2>5 DEF PollStep
  <1>4. CASE PushArrives
    <2>1. PICK r \in Readings : ApplyReading(Push, Dict(r.activity, r.online))
      BY <1>4 DEF PushArrives
    <2>2. Dict(r.activity, r.online) \in Data /\ Dict(r.activity, r.online).activity # "none"
      BY CoordinatorAssumption DEF Dict, Data, Activities
    <2> QED
      BY <1>2, <1>4, <2>1, <2>2 DEF PushArrives
  <1>5. ASSUME NEW t \in Tasks, ClearDone(t) PROVE DisplayInv'
    <2>1. setupComplete /\ held[t] \in Data /\ held[t].activity # "none"
      BY <1>5, InvGivesTasksOK DEF ClearDone, TasksOK, Carries
    <2> QED
      BY <1>1, <1>5, <2>1 DEF ClearDone, DisplayInv
  <1>6. CASE StartSent \/ StopQueued \/ Environment \/ UNCHANGED vars
    BY <1>6 DEF StartSent, StopQueued, Environment, Tick, ClockStepsBack, CloudChanges, vars,
                DisplayInv, MinimalOfflineData, NoData, Dict
  <1> QED
    BY <1>3, <1>4, <1>5, <1>6 DEF Next

\* Every step of the coordinator is a step or a stutter of the entities.
LEMMA StepRefines ==
  ASSUME Inv, DisplayInv, [Next]_vars
  PROVE  [Entities!Next]_Entities!vars
  <1> USE DEF Entities!Next
  <1>0. TypeOK
    BY DEF Inv
  <1>1. ASSUME NEW p \in Polls, PollStep(p) PROVE [Entities!Next]_Entities!vars
    <2>0. p \in Tasks
      BY DEF Tasks
    <2>1. CASE PollStart(p) \/ CloudAnswers(p) \/ PollAuthFailed(p)
      <3>1. UNCHANGED abstractVars
        BY <2>1 DEF PollStart, CloudAnswers, PollAuthFailed, env, outageVars, history, haVars,
                    coordVars, abstractVars
      <3> QED
        BY <3>1, QuietIsStutter
    <2>2. CASE QuickSetup(p)
      <3>1. QuickSetupData \in Data /\ QuickSetupData.activity # "none"
        BY DEF QuickSetupData, Dict, Data
      <3> QED
        BY <1>0, <2>2, <3>1, FinishIsSucceed DEF QuickSetup
    <2>3. CASE PollReply(p)
      <3>1. held[p] \in Data /\ held[p].activity # "none"
        BY <2>0, <2>3, InvGivesTasksOK DEF PollReply, TasksOK, Carries
      <3> QED
        BY <1>0, <2>0, <2>3, <3>1, ReadingSucceedsOrStutters DEF PollReply
    <2>4. CASE PollUnusable(p) \/ PollDegraded(p)
      <3>1. PICK o \in KeptStatuses :
              \/ ApplyReading(p, IF Shadow THEN Dict("unknown", o) ELSE Dict("absent", FALSE))
              \/ ApplyReading(p, Dict("absent", o))
        BY <2>4 DEF PollUnusable, PollDegraded
      <3>2. o \in BOOLEAN
        BY CoordinatorAssumption DEF KeptStatuses
      <3>3. \A a \in {"unknown", "absent"}, b \in BOOLEAN : Dict(a, b) \in Data /\ Dict(a, b).activity # "none"
        BY DEF Dict, Data
      <3> QED
        BY <1>0, <2>0, <3>1, <3>2, <3>3, ReadingSucceedsOrStutters
    <2>5. CASE PollError(p)
      BY <2>5, ErrorIsMiss
    <2> QED
      BY <1>1, <2>1, <2>2, <2>3, <2>4, <2>5 DEF PollStep
  <1>2. CASE PushArrives
    <2>1. PICK r \in Readings : ApplyReading(Push, Dict(r.activity, r.online))
      BY <1>2 DEF PushArrives
    <2>2. Dict(r.activity, r.online) \in Data /\ Dict(r.activity, r.online).activity # "none"
      BY CoordinatorAssumption DEF Dict, Data, Activities
    <2>3. Push \in Tasks
      BY DEF Tasks
    <2> QED
      BY <1>0, <2>1, <2>2, <2>3, ReadingSucceedsOrStutters
  <1>3. ASSUME NEW t \in Tasks, ClearDone(t) PROVE [Entities!Next]_Entities!vars
    <2>1. held[t] \in Data /\ held[t].activity # "none"
      BY <1>3, InvGivesTasksOK DEF ClearDone, TasksOK, Carries
    <2> QED
      BY <1>0, <1>3, <2>1, FinishIsSucceed DEF ClearDone
  <1>4. CASE StartSent \/ StopQueued \/ CloudChanges \/ UNCHANGED vars
    <2>1. UNCHANGED abstractVars
      BY <1>4 DEF StartSent, StopQueued, CloudChanges, vars, env, outageVars, history, haVars,
                  coordVars, abstractVars
    <2> QED
      BY <2>1, QuietIsStutter
  <1>5. CASE Tick
    BY <1>5, TickIsElapse
  <1>6. CASE ClockStepsBack
    BY <1>6, StepBackLooksShorter
  <1> QED
    BY <1>1, <1>2, <1>3, <1>4, <1>5, <1>6 DEF Next, Environment

\* The coordinator implements what the entities promise: whatever the interleaving,
\* the failures and the clock, data is replaced only by an update that went
\* through, and withdrawn only when none did for longer than the threshold.
THEOREM ImplementsAvailability == Spec => KeepsAvailabilityPromise
  <1>1. Init => DisplayInv
    BY DEF Init, DisplayInv
  <1>2. Init => Entities!Init
    BY DEF Init, Entities!Init, Mode, Uptime
  <1>3. Inv /\ DisplayInv /\ [Next]_vars => DisplayInv'
    BY DisplayPreserved
  <1>4. Inv /\ DisplayInv /\ [Next]_vars => [Entities!Next]_Entities!vars
    BY StepRefines
  <1> QED
    BY <1>1, <1>2, <1>3, <1>4, Invariance, PTL DEF Spec, Entities!Spec, KeepsAvailabilityPromise
=============================================================================
