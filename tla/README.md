# Formal models of `iaqualink_robots`

TLA+ models of the Home Assistant integration for iAqualink pool robots in
`src/custom_components/iaqualink_robots/`, the TLC configurations that check them on
small instances, and TLAPS proofs that hold for every instance: of the types and of every
safety property that the runs check, and that the coordinator implements what its
entities promise.
File names and line numbers below refer to that directory unless they say otherwise.

## 1. The system

The integration mirrors one robot per config entry.  Everything runs on one asyncio
event loop, so two pieces of code interleave only where one of them awaits; all
concurrency below is of that kind.  A robot belongs to a family: `vr`, `vortrax`,
`cyclobat` and `cyclonext` report over a websocket "shadow" stream, `i2d` answers REST
requests.

| component (file) | state it keeps | operations | what makes it correct |
|---|---|---|---|
| **coordinator** (`coordinator.py`) | last good data, failure count, time of the first failure, log latch, activity time, polling interval | refresh (`_async_update_data`), push (`_apply_realtime_envelope`), request of a refresh, timing and remote commands, cleanup | outages are counted from the first failure to the next success in every interleaving; entities keep the last good data and go unavailable neither early nor never; the interval follows the robot's activity; a manual stop is not a natural completion |
| **realtime listener and shared connection** (`client.py` 869-1229, 1396-1409, 2001-2162) | websocket and its session, baseline envelope, dedup signature, websocket failure counter | listener loop, subscribe for a poll, send a command, open with 3 attempts, close | a running listener misses no change; the dedup drops only repeats; baseline and signature belong to the connection that is open; polls end and converge |
| **authentication and session** (`client.py` 140-208, 529-540, 607-619, 714-779, 1892-2103) | two tokens, expiry, `_auth_lock` | login with double check, 401 retries of each request | one login per need; a retry carries a newer token; no request is left waiting for the lock; refused credentials lead to a reauth request |
| **client commands** (`client.py` 2164-2827) | pending stop reset, remote control flag, time of the last timing command | start, stop, pause, return, remote drive, +/-15 minutes, fan speed | a command leaves the flags in the mode the robot is in; a retry does no harm; two adjustments do not lose one another |
| **status helpers** (`client.py` 344-476, 1411-1658, 1685-1738) | last known status, stabilizer history, model and its fetch attempts | degraded results, stabilizer, model lookup with backoff | status changes only when readings agree for long enough; the model is fetched neither for ever nor never again |
| **device protocols** (`protocols/`) | none (families' side effects on the client apart) | payloads of commands, parsing of replies | parser and payload of a family agree on modes and on minutes |
| **envelope classifier** (`ws_envelope.py`) | drift warnings already logged | `parse_ws_message`, field validation | only state messages reach the merge |
| **vacuum, sensor, select, button entities** | render of coordinator data, few caches | Home Assistant services | availability follows the coordinator's outage ladder |
| **entry lifecycle** (`__init__.py`) | config entry, version, registries | setup, migrations, unload, options reload | a migration that failed half-way can be repeated; what runs is what is stored; only a robot that is gone fails a setup for good |
| **config flow, repairs, diagnostics, device, parsing, const, types** | flow step state | user, reauth, reconfigure and options steps; issue dismissal; dumps; parsing of durations | no flow gives a robot a second entry (entries from before unique ids apart), whatever flows run at once; credentials are stored only for an account that owns the robot |
| **capture tool** (`src/tools/`) | - | stand-alone recorder | - |

How they interact:

* Home Assistant calls the coordinator's refresh on a timer and on request
  (`async_request_refresh`, debounced); the vacuum's stop calls `async_refresh`, which
  is not serialised with the scheduled one.  The refresh calls `fetch_status` of the
  client, which authenticates, discovers, and reads the robot by websocket or REST.
* The first refresh starts the listener task.  The listener merges deltas into the
  baseline that polls cache, and awaits the coordinator's push callback; without a
  baseline it asks the coordinator for a refresh instead, and waits for it.
* Polls, commands and the listener share one websocket.  Replies are not correlated
  with requests: whoever calls `receive()` gets the next message.
* All requests share one session; a 401 logs in again under the lock.
* Home Assistant sets an entry up, retries, unloads and reloads it, one at a time per
  entry.  Flows run beside that: each awaits the cloud once, stores its result in the
  entry, and asks for a reload.  A refusal of credentials opens a reauth flow.

What is hard here: the awaits between a reading and the writes it leads to; three
readers of one connection; attempts nested in timeouts nested in attempts; broad
`except` clauses over typed failures; a wall clock that may step back.  The full list,
each at its line, is under `hazards` in `PROJECT.json`.

## 2. The modules

| module | models | about |
|---|---|---|
| `Coordinator` | `coordinator.py` refresh, push, outage ladder, interval, natural completion; the pending stop reset and degraded results of `client.py` | one action per stretch of code between two awaits |
| `MCCoordinator`, `CoordinatorClaims` | - | instances; history variables and the statements of the docs that the code does not keep |
| `CoordinatorProofs` | - | the proofs about `Coordinator`, and that it implements `Availability` |
| `Realtime` | listener, merge and dedup, polls and commands on the shared connection | messages, connection, and the three readers |
| `MCRealtime`, `RealtimeClaims` | - | instances; refuted statements |
| `AuthToken` | tokens, expiry, login under the lock, gates, 401 retries | requests of every kind by several tasks |
| `MCAuthToken` | - | instances |
| `Entry` | `__init__.py` migration, setup, unload; `config_flow.py`, all flows | entries and the flows that create and change them |
| `MCEntry` | - | old entries and owners for the instance |
| `Availability` | what vacuum, sensors and buttons promise: `available`, `restored` and the data on display | an abstract specification of three modes; `Coordinator` implements it |
| `Connection` | `_ensure_websocket_connection`, `_close_websocket`, `get_device_status`, `set_cleaner_state`, `cleanup`, the failure counter and `_get_resilient_status` | every await of a poll, a command and the unload |
| `Commands` | state commands, remote control, +/-15 minutes, fan speed; `vacuum.async_set_fan_speed`, the debounces | calls that overlap, and the robot |
| `Readings` | `_stabilize_status`, `_update_other_robots`, `_handle_coordinator_update`, the status sensor | polls, pushes and timing commands that feed the stabiliser |
| `ModelLookup` | `_get_device_model` and its helpers, `_narrow_fan_speeds_to_features` | two fetches at once, attempts and backoff |
| `Protocols` | payloads and parsers of the five families, `parsing.py`, the tables of the entities | the families, a robot, and what is read of it |
| `MCConnection`, `MCCommands`, `MCReadings`, `MCModelLookup`, `MCProtocols` | - | instances |
| `RealtimeProofs`, `AuthTokenProofs`, `EntryProofs`, `ConnectionProofs`, `CommandsProofs`, `ReadingsProofs` | - | the proofs about the module of that name |
| `ProtocolsProofs` | - | the proofs about `Protocols` and `ModelLookup`, and about both together |

### Coordinator

A refresh task `p` is at `pc[p]`: `idle`; `fetching`, awaiting the cloud; `answered`,
when the cloud has read the robot's state for it and the reply is on its way;
`clearing`, suspended in `clear_desired_state`, which it awaits between its reading
and its writes.  The push is one more task, suspended only in `clearing`.  `held` is
the data a suspended task will publish.  Two refresh tasks stand for the serialised
refresh of Home Assistant and the unserialised `async_refresh` of the vacuum's stop.

The transport is abstracted to what the coordinator can tell apart (`CloudStates`): a
reading, a reply that cannot be used, a degraded result, an error, an authentication
failure.  A degraded result (`PollDegraded`) is *returned* by `_degraded_result`; only
an error, which on a shadow family comes from the gate's login or the parsing after a
reply, reaches the broad `except` (`PollError`).  Data is reduced to the activity, the
"online" status and whether the stop reset was applied to it.

The wall clock (`clock`) ticks and may step back; `skew` remembers by how much, so
`Uptime == clock + skew` is real time.  Forward jumps are not modelled: they make
`UnavailableOnlyAfterThreshold` false by design, as the code measures on the wall
clock and says so (`coordinator.py` 156-161).  Home Assistant is external: it schedules
the next refresh after every outcome except `ConfigEntryAuthFailed` (`Scheduled`), and
creates the entities after the first successful refresh (`EntitiesExist`).

### Realtime

`conn` is the shared connection, `inbox` the messages that came on it and were not yet
taken, `truth` the document in the cloud.  aiohttp is external: one task may wait in
`receive()`, a second one gets a `RuntimeError` (`Receiving`).  A poll is a record with
its step, the read it is at (a reply that is no document makes `_update_other_robots`
subscribe once more) and the attempt of `get_device_status`.  A document has two
fields: `state` stands for what `_state_signature` reads, `extra` for what it leaves
out.  The family `cyclonext` differs in where its signature is read from.

Opening and closing are single steps, with one poll and one command in flight; the
interleavings *inside* `_ensure_websocket_connection` are in `Connection`.

### AuthToken

A token is the number of the login that yielded it, `good` the set of those the cloud
accepts.  Each task makes one request at a time: it passes the gates that its kind has
(`fetch_status` asks for `_auth_token`, `_ensure_websocket_connection` for
`_id_token`), waits for `_auth_lock` in order of arrival, checks again, logs in, sends,
and on a 401 logs in by force and sends again, as often as its kind allows.  `outcome`
records where an `AuthFailedError` ends: as a reauth request, or swallowed.

### Entry

`entry` holds the stored entries, `state` what Home Assistant makes of each, `client`
what the running or starting `AqualinkClient` was built from.  A setup is three or more
steps: `SetupBegins` (migration, then everything before the first await, with the
credentials and the option read there) and one action per outcome; `reload` holds the
entries for which a reload waits for the lock.  A flow is at its form, in
`discover_devices`, at the selection of a robot, or (reauth) awaits the reload; the step
that follows the discovery is one action with the check, the write to the entry and the
request to reload, as there is no await between them.  The buttons of an entry are a
sequence of unique ids, each a prefix (a former title or `serial`) and a command.

Home Assistant is external here: it locks setup against reload, opens a reauth flow
unless a flow of the entry is open, may refuse a reconfigure while another flow of the
robot is open (`ReconfigureAborts`, allowed and not required), and opens no reload after
a failed migration or unload.  A wrong password typed into a form is the same as a
discovery that fails.  Deletion of an entry is not modelled, nor is the stray `api_key`
that migration and setup drop, as nothing reads it.

### Availability

`fresh`, `stale` and `unavailable` are what the entities say of the data they render:
`restored` is false, `restored` is true, and `available` is false.  An update that goes
through makes them fresh; one that fails changes no data and makes them stale; time may
make them unavailable, but not before the threshold; a clock that steps back may make
an outage look shorter again.  `Coordinator` implements this under the mapping `Mode`,
with the uptime since the last success as `quiet` and what is shown as the display:
`KeepsAvailabilityPromise == Entities!Spec`.  A refresh that is refused its credentials
is none of these steps and a stutter: the ladder is untouched.

### Connection

A task is at one of `Locations`, those it can await at and those between two awaits;
`running` is the task that has not awaited, so no other interleaves there.  A session
and its one connection have one id.  `_close_websocket` reads `conn` and `sess`
afresh at each step, as the code does: what another task has put there is closed, and
what is forgotten may be another task's.  `crossed`, `shared` and `unclean` record
that tasks overlapped, and how; the properties say what holds without that and so
which overlap does harm.  The network refuses, keeps silent, drops, and
sends frames that are not text: `CutOff` has what a poll and a command do with those, on a
connection that was closed and on one that is still open.  An exchange or the
unload may run out of time (`Abandon`).  Login is a step that succeeds or fails; the
listener is in `Realtime`.

### Commands

Each call of Home Assistant walks through the requests of its command.  A request that
is under way may reach the robot once or twice (`Reach`), and `set_cleaner_state`
returns in the same way whether it did (`Returned`); only `wait_for` and a refused
login raise (`Raise`).  The robot is external: it is driven while paused, and any
change of state stops its wheels.  `vr` only; i2d's fan speed and `vortrax` differ in
what is sent, not in the order.  `tangled` records that two timing commands, or two
remote commands, were under way at once.

### Readings

Of an answer only the status, the activity and the kind (full, thin, without the
robot, empty, none) are kept.  The stabiliser is a set of readings, each with its age in ticks of 3 s and
its number among those of its age, the stable status and the time since it changed.  The window (30 s) is never
shorter than the duration (15 s) and is cut down to it, as what is older than the
duration is not counted.  A push parses a delta on the baseline, and only the cyclobat parser reads
the status again: its result has no status for the other families.

### ModelLookup

A fetch is idle, asking (`/features`) or resolving (the part number).  A poll and a
timing command both fetch.  `source` remembers what the last update of the vacuum was:
only a poll that followed an answer with features is required to be narrowed.

### Protocols

The robot is external and is kept as the mode code, state, extra time, start and error
that it reports, as the tables of the protocols and the captures quoted there give
them.  `Runs` is what a code makes the robot do and `Codes` what the payload says; that
the two agree is `SpeedsTakeEffect`.  Time is in units of 15 minutes.  A poll may find a
part of the report missing, which each parser treats in its own way.

A number in a report carries its form (`Number`): the firmware of any shadow family may
write strings (`text`), and `CoerceCloudInt` is applied where `cyclonext.py` applies it, to
`mode` and to `cycle`; what the other parsers compare or look up keeps its form
(`StateRead`, `CycleRead`, `ResolveCycleDuration`, `CyclobatDuration`).  i2d has all the states of
`STATE_MAP`, and one mode, 12, for the codes of `MODE_MAP` that no fan speed stands for.  Extra
time is changed by the buttons (`Adjust`, `vr` and `vortrax` only) and in the app
(`TimeChanges`, `cyclonext` as well).

## 3. The runs

| run | bounds | shows |
|---|---|---|
| `coordinator` | 2 refresh tasks and the push, readings cleaning/idle, threshold 1, 3 ticks, 1 step back; 5 M states | type invariant; the outage fields agree; no early unavailability; one traceback per outage; last good data shown; fast while active; `Availability` is implemented |
| `coordinator_live` | 1 refresh task, 2 ticks, windows 0 | recovery after an outage; refused REST credentials are reported |
| `realtime` | plain and cyclonext, 2 values, 2 changes, 1 command | a listener with a baseline keeps up; the dedup drops only repeats; polls and pushes converge |
| `auth` | 2 tasks, all 6 kinds of request, 2 requests, 1 expiry, any revocations | logins collapse; retries carry newer tokens; requests end |
| `entry` | 2 entries, 2 robots (one listed with white space), 2 accounts, 2 flows of the user and a reauth flow per entry, 1 change in the cloud, 1 restart, 3 kinds of old entry; 0.7 M states | no second entry for a robot, but for those from before unique ids; only a robot that moved fails for good; what runs is what is stored; migrations and their retries agree; right credentials come up |
| `connection` | 1 poll, 1 command, the unload, 3 exchanges begun, 2 faults, 2 tries (3 in the code), 2 attempts (2), threshold 3 (5); 9.0 M states | no session is orphaned, none left open after unload and nobody called offline without reason, unless tasks overlap; alone, a command is sent twice only after a connection was dropped or a frame came that is not text; every step takes a task nearer its end |
| `commands` | 2 calls at once, 3 presses, 2 modes, 1 fault; 0.9 M states | timing presses add up; driving is known; a remote stop holds; the mode on display converges |
| `readings` | 2 statuses, duration and window of 4 ticks (5 and 10 in the code), 1 answer without a reading; 0.26 M states | a status all readings agree on is stable; the vacuum keeps its activity; the sensor follows the stabiliser; statuses converge |
| `model_lookup` | 2 fetches, 2 names, 3 speeds of which 2 are gated, 5 attempts (as in the code) | refreshes offer what is advertised; a name found stays; the lookup settles |
| `protocols` | 5 families, distinct durations in 2 orders, extra time up to 2, 4 time units, numbers or strings for each shadow family; 1.3 M states | activity, mode and remaining time are read as the robot means them, in the forms that the family's parser knows; each mode offered takes effect |
| `claim_*` | smallest instance with the counterexample | see section 5 |

Why the bounds are enough.  The properties of the coordinator relate at most two tasks
that overlap, one outage and the success before it; three ticks let an outage cross a
threshold of one after a step back of the clock, and the theorems remove the bounds.
The real thresholds (1800 s, 30 s, 120 s) matter only by their order relative to the
clock.  In `realtime`, two changes between two values make a push and a delta that brings
back what the baseline said, a repeat of the state before last; one command is enough to take a message from
each of the other two readers.  In `auth`, two requests are enough for one of them to
meet a login of the other at each of its steps; a request alone logs in up to four
times.  In `entry`, two flows of the user and one reauth flow make every pair of flows
overlap, one restart retries a failed migration, and one change makes credentials wrong
or moves a robot during any await; two places for entries suffice to add a robot twice.
`MaxFailures`, `MaxTime`, `MaxSkew`, `MaxChanges`, `MaxCommands`, `MaxRequests`,
`MaxExpiries`, `MaxFlows` and `MaxRestarts` are bounds of the models, not of the code.

Conditions in the properties that a reader should know of.  `KeepsUp` is stated for a
session in which no command was sent: a command that waits for its response takes any
message, and a delta it takes is lost to the listener until the next change of the same
field or the next poll.  `KeepsUp` and `DedupIsSound` are about the fields in the
signature and about the plain families; for the pushes of a
`cyclonext` see section 5.
`PollingConverges` allows a degraded result on display.  `CHECK_DEADLOCK FALSE` is said
where requests are bounded: the clients of `AuthToken` really may stop asking, and
users start no flow for ever.  `SettledEntryIsCurrent` lets an option differ that was
saved while a setup was running: the listener is added at the end of the setup, so the
option waits for the next reload.  `FailsForGoodOnlyIfMoved` lets robots fail whose
serial number is listed with white space, which the flows strip and `_discover_device`
does not.

`OneEntryPerRobot` exempts two sorts of entry, and there the code does add a second one.  An entry
from before unique ids has its serial number but no unique id (`config_flow.py` 443-445), so
only the filter of the flow's account (119-125) can leave its robot out: a robot that has since moved to
another account, or is listed with white space, gets a second entry.  An entry without a
serial number follows the first robot of its account and is compared with nothing.  The
instance has both sorts among its old entries.

In `connection` two faults let an attempt fail and its repetition fail as well, three
exchanges let two overlap and a third find what they left.  Four of its properties are
disjunctions with an overlap or a fault, because in the overlaps the code does harm
(section 5).  They show how far the harm goes, and they would not notice if it grew there:
`NothingOrphaned` allows an orphan once one task began to close while another was opening or
closing, `UnloadCloses` a connection once `cleanup` met an exchange in flight, `OfflineIsReal` and
`SentOnce` any count once two tasks were under way at once.  `EveryStepAdvances` has no such condition.
Deadlock is not checked there: after the unload everything stops.  In `commands` a call
of each sort can overlap each other one, and a fault can hit any request.  `readings`
has windows short enough that a status is accepted, rejected for its age and rejected for
the share of readings; `Duration` and `Window` are equal there because nothing older is
ever counted.  In `protocols` durations are distinct, so a wrong key shows; the code of
the robot and of the parser meet in the two orders of the cloud's keys.  Its properties exempt
what the parsers do not read, and the models have it: the strings of `vr`, `vortrax` and
`cyclobat` (`Legible`), i2d's error states with an error byte of 0, modes without a name,
`vortrax`'s extra time, and the remaining time of `cyclobat`, which goes by its last cycle.
`PolledSpeedsAreAdvertised` is about refreshes that know the features; before that, and after
a push, whose result has none, all of a family's modes are offered.
`MaxBegins`, `MaxFaults`, `MaxPresses`, `MaxStepper` and `MaxClock` are bounds of the models,
and `MaxAttempts` is the code's.

The modules without a type invariant in their run have one as `TypeOK`; it holds on the
same instances, is proved for every instance (`TypeCorrect`, `LookupTypes`), and is not
listed with the runs, which spend their properties on more.

### Fairness

* `Coordinator`: weak fairness of each step of a scheduled or running refresh (every
  await in it is under a timeout: 30 s, 10 s and the attempts' sleeps), of the end of
  `clear_desired_state` (`wait_for`, 30 s) and of the clock.  None of the cloud, of
  pushes or of the user.  The next refresh is scheduled unless the last one was refused
  its credentials.
* `Realtime`: weak fairness of the listener, the poll and the command, whose every wait
  has a timeout or an answer, and of the start of the next poll.  None of the network
  and none of the robot; a `receive()` of the listener may wait for ever, and its
  action is then not enabled.
* `AuthToken`: weak fairness of each task: the event loop runs it, and each request and
  login ends by an answer, an error or a timer.  The lock is first come first served,
  as `asyncio.Lock` is.
* `Commands`: weak fairness of the return of each request, of its reaching the robot
  unless it is lost, and of the coordinator's polls: each request is under `wait_for` and
  polls run on a timer.  None of the user, and none of the network's faults, which are
  bounded.
* `Readings`: strong fairness of `Poll` and weak fairness of the tick.  At most one message
  is read per tick, so a push or a timing command may use up the tick a poll would
  have; the poll's timer fires in every interval and the poll goes through in some of
  them.  None of the robot or of the pushes.
* `ModelLookup`: weak fairness of the poll's fetch and of the end of a backoff.  None of the
  timing command, nor of what the cloud answers.
* `Entry`: weak fairness of the start of a setup, of its refusals and of a reload, which
  are Home Assistant's tasks; strong fairness of a setup's success: retried for ever
  while its credentials are right, it reaches the cloud at last.  None of the user.

## 4. What is proved

`CoordinatorProofs` proves, with TLAPS and without any bound on the number of refresh
tasks, readings, thresholds, time, clock steps or failures, that `Coordinator`'s
specification implies each of the safety properties the run `coordinator` checks.  The
only assumption is `CoordinatorAssumption`: `"push"` is not a refresh task, readings
are an activity and a Boolean, thresholds and bounds are naturals, and at least one
failure can be counted.

The properties are not inductive by themselves.  The invariant `Inv` adds:

* `OutageInv`: the stamp of an outage, corrected by `skew`, is not before the last
  success.  Since the clock only ever loses time to `skew`, an outage never looks older
  than it is; with the test at the moment of failure this gives
  `UnavailableOnlyAfterThreshold`.
* `ReportInv`: whenever Home Assistant holds a failed refresh, the latch is set, and the
  count of tracebacks is exactly the latch.  Every success clears both.
* `DataInv`: a task past its fetch carries a reading, and only after setup; data exists
  exactly after setup; what is displayed is the last good data, and the interval was
  set from it.

`FinishUpdateEstablishes` shows that the tail common to refresh and push establishes
all of this from any state with the right types, whatever happened while the task was
suspended; that is why the awaits between reading and writing do no harm to these
properties.  `FailUpdatePreserves` treats the outage ladder, `PollStepPreserves` and
`NextPreserves` go through the actions one by one.  `OnlySuccessEndsOutage` is an action
property, proved from the same invariant; it speaks of the concrete variables, and the
refinement below says the same of the abstract ones.

It proves as well that `Coordinator` implements `Availability` (`ImplementsAvailability`),
from `Inv` and one more invariant, `DisplayInv`: while no update has gone through, failed
ones show the placeholder.  The proof has a lemma per kind of step: the tail that refresh
and push share is `Succeed` or a stutter (`FinishIsSucceed`), an error is `Miss`
(`ErrorIsMiss`), a tick is `Elapse`, a step back is `LooksShorter` or a stutter, and all
else leaves the abstract variables alone (`QuietIsStutter`).  An error leaves the age of
an outage as it was, so it cannot make a display unavailable by itself: that happens only
when the clock moves.

The other modules follow one pattern: `IInv` (`LookupInv` for `ModelLookup`) is the
inductive invariant, there are lemmas for `Init` and for the actions, and each theorem
follows from the invariance of `IInv`.  What an invariant needs beyond the property and
the types:

* **`RealtimeProofs`** (`KeepsUp`, `DedupIsSound`).  `Waiting`: while the listener runs,
  nobody else waits in `receive()`.  `Queued`: the last message with news in the inbox, and
  each reply after it, tells the robot's present state; so a reader may take what
  it likes, and what is left still leads to the present.  `Polled`: what a poll in its
  second attempt or second read has left of the baseline.  `Signed`: a signature is only
  ever set by a push, and what that pushed is on display until the next one; this is why
  what the dedup drops is a repeat.  `Followed`: the baseline is on display.
* **`AuthTokenProofs`** (`LoginsCollapse`, `RetryUsesNewerToken`).  `Exclusive`: only the holder of the
  lock logs in.  `Owed`: as long as the session needs a login and none is on its way, one
  is due, so a login that nothing called for cannot be sent.  `Newer`: no task has used a
  token newer than the session's, a login on its way yields a newer one than the task used,
  and a retry that is ready to be sent has that.
* **`EntryProofs`** (`OneEntryPerRobot`, `FailsForGoodOnlyIfMoved`, `SettledEntryIsCurrent`,
  `MigrationsAgree`).  `AccountsOwn`: an entry, its client and a flow that offers robots name
  an account that has the robot, or the robot moved.  `SetupsAreCurrent`: from its
  start on a setup uses what is stored, but for an option it missed or a change that a
  reload is due for.  `ButtonsAreOwed`: however far a failed migration got, what the entry
  owes its buttons is what it always owed.  The last rests on `MigrationPaysWhatIsOwed`, about the loop
  that renames buttons one by one, which is proved by induction over the buttons.
  `MigrateFails` may stop that loop after any button, and the step to version 3 after it.
  `IdsAreSerials`: a unique id is the entry's serial number, so entries that share a serial number
  and have unique ids share those.  `OldAreLeftOut`: as long as its robot has not moved, the serial number of an
  entry from before unique ids is among those (`flow.known`) that each user flow of the account
  the robot is listed on leaves out.
* **`ConnectionProofs`** (`NothingOrphaned`, `UnloadCloses`, `SentOnce`, `OfflineIsReal`,
  `EveryStepAdvances`).  `Untouched`: unless two tasks overlapped in opening or closing, what is
  open is what `_ws_session` names.  `Alone`: an unload that found nothing under way has
  the connection for itself.  `Counted`: as long as tasks come one by one, the failure
  counter is at most the number of refused connects, and one more for the poll that ends.
  `Sending`: a request and its answer have the connection they began with, and a command
  that left once waits for its answer, unless the network dropped a connection or sent what is
  not text (`Disturbed`).  `EveryStepAdvances` is an action
  property: a step of a task goes down in attempts, or in tries, or on the way through one
  try, in that order (`Closer`), which `CloserIsLess` shows to be what `Distance`
  measures; it does so among any number of tasks that close each other's connections.  `Threshold` must be at
  least 3 (it is 5 in the code).
* **`CommandsProofs`** (`AdjustmentsAddUp`, `DrivingIsKnown`, `HaltHolds`).  `Asking`: what a call
  asks of the robot at each of its places.  `Grounded`: wheels turn in remote control only.
  `Alone`: calls that were never found to overlap do not.  `RemoteHolds` and
  `AdjustingHolds`: how far each remote command and each adjustment has got.  `DrivingIsKnown` is
  stronger than it was first written: the proof showed that its exception for a remote command
  under way was not needed.
* **`ReadingsProofs`** (`AgreedStatusIsStable`, `VacuumKeepsActivity`, `SensorIsDebounced`).
  `Steady`: a change accepted less than `Duration` ago is still among the readings, so
  when all of those agree, they agree with the change, or enough of them do for the
  70 % test to accept them.  `VacuumKeepsActivity` rests on what parsers and fallbacks can
  make of an answer (`Sound`): a degraded update has the activity `unknown`, and any other
  has a known activity or `unknown`.  `SensorIsDebounced` uses that a parser that reports a status,
  for a poll or a push, has just stabilised it.
* **`ProtocolsProofs`** (`ActivityIsRead`, `SpeedsTakeEffect`, `SpeedIsRead`, `RemainingIsRight`;
  `PolledSpeedsAreAdvertised`, `KnownModelStays`).  For `Protocols` the four properties
  are inductive with the types; the substance is in
  the lemmas about the tables: each mode offered has a code (`OfferedHaveCodes`), each code
  does what its name says (`CodesRun`), the parsers invert the reports (`ActivityIs`,
  `SpeedIs`), and the duration found by name or by position is that of the cycle
  (`CycleDurationIs`).  For `ModelLookup`: a name is known only while no attempt
  counts (`NamedMeansReset`: a fetch that fails next to one that succeeded is never the last
  attempt), what was heard of the features is what the robot advertises
  (`FeaturesAreHeard`), and speeds offered by an informed poll are narrowed to just that
  (`InformedIsNarrowed`).  `OfferedModesRun` joins the two: whatever the lookup narrows a
  family's modes to, each that is left has a code with which the robot runs in it.

Assumptions are those named in the modules, and TLC evaluates them on each instance:
bounds are naturals, thresholds and numbers of attempts positive, sets of tasks finite
where they are counted (`Connection`, `Commands`), and names distinct where the code
tells them apart (a poll is no command, a status no fallback, no model is called
"Unknown").  `OldEntriesAssumption` says what entries can be in storage before the first
start: those past version 1 have the buttons that their migration left.
`ProtocolsAssumption` says that an order of the durations lists each key once.  None of
them bounds a number of tasks, flows, calls, messages or steps.

Proving has changed the models in three places.  `CASE` with guards that overlap, in
`Realtime` and `Protocols`, leaves open in TLA+ which branch is taken, where TLC takes the
first: the guards are now disjoint.  `KeepsUp` says what the latest message with news, and
the replies after it, tell, instead of folding over a filtered inbox.  The readings of
`Readings` are a set and not a sequence.  In both cases the earlier form needs
induction over `SelectSeq` or a fold, which the provers cannot instantiate; the
behaviours are the same.

Only model-checked: the eight liveness properties (`RecoversFromOutage`,
`RestReauthIsRequested`, `PollingConverges`, `RequestsEnd`, `RightCredentialsComeUp`,
`ShownSpeedConverges`, `StatusConverges`, `LookupSettles`), as fairness and `ENABLED` are out
of the prover's reach.  Induction over data is possible only where it can be brought back
to numbers, as `EntryProofs` does (`Induction`, from the pigeonhole principle for finite
sets).

## 5. Where the code and its documentation disagree

Each run named `claim_*` checks one statement of the repository that TLC refutes on the
model; `findings` in `PROJECT.json` quotes the line.

* `claim_outage`: a websocket outage is never counted.  Degraded results are returned,
  so each refresh during it counts as a success and resets the ladder.
* `claim_listener`: a poll that finds the listener in `receive()` fails, closes the
  shared connection and thereby ends the listener, which nothing starts again.

Seen while modelling and not checked by a run: a poll reuses the connection and may
return a reply that was queued before it began, where a comment (`client.py` 1407) says
that each uses a fresh one; a reauth flow beside a reconfigure flow of the same entry
can store the password of one account with the username of the other; fields outside the signature are neither
pushed nor merged when a delta is deduplicated; a delta that a poll takes for its reply
becomes a baseline without the keys the merge writes to, and deltas are then dropped
until the next poll; `_authenticate`'s comment (732-736) says that `fetch_status` gates
on `_id_token`, and it gates on `_auth_token`; after a websocket 401 any failure of the
re-login, a network error too, becomes an `AuthFailedError`; the refusal of an i2d
command ends as an error of the service call and not as a reauth request.

Of the coordinator and the client: fast polling, once begun, continues, as each fast
refresh stamps the activity time again; a manual stop is taken for a natural completion, because the
pending reset is consumed before the test that reads it; every push of a `cyclonext`
after the first is dropped, as its signature is read from a key it does not have; an
`AuthFailedError` below a websocket poll becomes a degraded result; the result of a push
lacks status and features for `vr`, `vortrax` and `cyclonext` where the docstring
(`coordinator.py` 257-260) calls it identical to a poll's, so the vacuum's status is `None`
and it refuses commands until the next poll; the websocket failure counter is reset
after every refresh, degraded ones included, and never adds up over polls.

Of the connection: tasks that overlap without any network fault can orphan a session or
count failures; an exchange in flight at `cleanup` opens the connection again; a command whose answer is a
frame that is not text, on a connection that is still open, is sent again (`client.py` 2124-2136
name CLOSED alone), though it may have taken effect.

Of entries: the changelog (`CHANGELOG.md` 368) says that adding the same robot twice aborts, and
an entry without a unique id can get a second one beside it (section 3, `OneEntryPerRobot`).

Of commands and lookup: the buttons' docstring (`button.py` 130-134) says that a command
that does not reach the robot raises, and `set_cleaner_state` returns `None` instead; a
failed lookup stores the string "Unknown", which counts as a model and is never fetched
again, where `client.py` 1651 and 1656 speak of later attempts; every mode of the family is
offered before the features call has answered, after one that failed and, as its result has
no features, after a push; +/-15 minutes of `vortrax`
always start from 0, as its parser reports no extra time, where `client.py` 2822 names
both families.

Of the parsers: only `cyclonext`'s coerces numbers that come as strings.  With firmware that
writes strings, `vr`, `vortrax` and `cyclobat` would show a cleaning robot as idle (they compare `state`
with 1 and 3), `vr` every mode as "floor_only", and all three a remaining time of 0;
`cyclonext.py` 113-116 says that the cyclobat parser guards against this, which it does for
`mode` (`cyclobat.py` 171) and not for `state` and `endCycleType`.  i2d's error states
D and E are shown as idle while the error byte is 0, and a mode without a fan speed leaves the
last one on display, for 0x08 and 0x0C too, which `MODE_MAP` calls floor only and waterline only.

Of the parsers as well: `vortrax` and `cyclobat` never report a fan speed; a `vr` answer without
a cycle shows "floor_only"; timestamp sensors keep their old value when the new one is
`None`; an i2d answer that is no status frame shows idle; a `cyclobat`'s cycle duration
is that of its last cycle's type; `vr`'s custom cycle is resolved by position.

## 6. Not modelled, and the plan

Not modelled by choice: rendering of entities beyond activity, mode, status, availability
and remaining time; translations, diagnostics dumps and the capture tool (pure output);
the notification of `repairs.py`, one write and one read; the web scraper of model names
(only its outcome); the layout of payloads; the pattern select of `cyclobat`, one
request without state; the drift warnings of `ws_envelope.py`, which only log; `cleanup`'s
cancelling of the listener and of delayed refreshes.

A timing command also consumes a pending stop reset, into a result nobody
displays; `Coordinator` has the flag and `Readings` the fetch, and no module has both.

What would extend this most, in this order:

1. `TokenStore`: what `AuthToken` promises to requests, as a specification it implements,
   with the proof from `Exclusive` and `Newer`; likewise for the shared connection, what
   `Connection` promises to one exchange that meets no other.
2. The listener in `Connection`, and its restart.
3. `Coordinator` and `Readings` composed, for a stop reset that a timing command consumes.
