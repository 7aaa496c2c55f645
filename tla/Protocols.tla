------------------------------ MODULE Protocols ------------------------------
(***************************************************************************)
(* The five device families: what their payloads ask of a robot, and what  *)
(* their parsers make of its report: activity, cleaning mode and remaining *)
(* time.  The robot is external; its codes are those that the tables and   *)
(* captures in protocols/ give.                                            *)
(*                                                                         *)
(* Commands reach the robot at once and a poll reads all or a part of the  *)
(* report: losses, retries and interleavings are in Connection, Commands   *)
(* and Readings.  Time is counted in units of 15 minutes.                  *)
(***************************************************************************)
EXTENDS Integers, Sequences, SequencesExt

CONSTANTS
  Minutes,     \* the durations that the cloud lists, by key
  Learned,     \* smartTim after the first smart cycle
  Orders,      \* orders in which the cloud may list the keys of durations
  MaxStepper,  \* bound: extra time
  MaxClock     \* bound: time

Keys == DOMAIN Minutes
CycleKeys == {"waterTim", "quickTim", "smartTim", "deepTim", "firstSmartTim"}

ASSUME ProtocolsAssumption ==
  /\ Minutes \in [Keys -> Nat \ {0}] /\ CycleKeys \subseteq Keys
  /\ Learned \in Nat \ {0}
  /\ Orders \subseteq Seq(Keys) /\ \A o \in Orders : ToSet(o) = Keys /\ IsInjective(o)
  /\ MaxStepper \in Nat /\ MaxClock \in Nat \ {0}

VARIABLES
  family,   \* client.device_type
  robot,    \* the robot
  order,    \* the order of the keys of durations
  clock,    \* the time
  vacuum,   \* the entity's _activity and _fan_speed
  sensor,   \* the sensor of time_remaining
  read,     \* history: the parts of the report that the last poll found, while they hold
  asked     \* history: the cleaning mode the user asked for last, or None

vars == <<family, robot, order, clock, vacuum, sensor, read, asked>>

-----------------------------------------------------------------------------
Families == {"vr", "vortrax", "cyclobat", "cyclonext", "i2d"}
Commands == {"start", "stop", "pause", "dock"}
Speeds == {"wall_only", "walls_only", "floor_only", "smart_floor_and_walls", "floor_and_walls"}
Activities == {"cleaning", "returning", "error", "idle"}
Parts == {"robot", "state", "cycle", "start"}
None == "none"

\* _FAN_SPEEDS_BY_DEVICE_TYPE
Offered(f) ==
  CASE f \in {"vr", "cyclobat"} -> Speeds \ {"walls_only"}
    [] f \in {"vortrax", "cyclonext"} -> {"floor_only", "floor_and_walls"}
    [] f = "i2d" -> {"floor_only", "walls_only", "floor_and_walls"}

\* Mutant of Codes: every family but i2d counts as vr does.
CodesOfVr(f) ==
  IF f = "i2d" THEN [floor_only |-> 0, walls_only |-> 4, floor_and_walls |-> 3]
  ELSE [wall_only |-> 0, floor_only |-> 1, smart_floor_and_walls |-> 2, floor_and_walls |-> 3]

\* fan_speed_codes; of i2d the last digit of the request.
Codes(f) ==
  CASE f \in {"vr", "vortrax"} ->
         [wall_only |-> 0, floor_only |-> 1, smart_floor_and_walls |-> 2, floor_and_walls |-> 3]
    [] f = "cyclobat" ->
         [wall_only |-> 3, floor_only |-> 0, smart_floor_and_walls |-> 2, floor_and_walls |-> 1]
    [] f = "cyclonext" -> [floor_only |-> 1, floor_and_walls |-> 3]
    [] f = "i2d" -> [floor_only |-> 0, walls_only |-> 4, floor_and_walls |-> 3]

-----------------------------------------------------------------------------
(* The robot: what it does in, how long, and how it reports it.            *)

Runs(f, code) ==
  CASE f = "cyclobat" /\ code \in 0..3 ->
         <<"floor_only", "floor_and_walls", "smart_floor_and_walls", "wall_only">>[code + 1]
    [] f \in {"vr", "vortrax"} /\ code \in 0..3 ->
         <<"wall_only", "floor_only", "smart_floor_and_walls", "floor_and_walls">>[code + 1]
    [] f = "cyclonext" /\ code = 1 -> "floor_only"
    [] f = "cyclonext" /\ code = 3 -> "floor_and_walls"
    [] f = "i2d" /\ code \in {0, 3, 4} -> IF code = 0 THEN "floor_only"
                                          ELSE IF code = 3 THEN "floor_and_walls" ELSE "walls_only"
    [] OTHER -> "custom"

Duration(f, r) ==
  CASE Runs(f, r.cycle) = "floor_only" -> Minutes["quickTim"]
    [] Runs(f, r.cycle) = "floor_and_walls" -> Minutes["deepTim"]
    [] Runs(f, r.cycle) = "smart_floor_and_walls" ->
         IF r.learned THEN Learned ELSE Minutes["firstSmartTim"]
    [] OTHER -> Minutes["waterTim"]

Cleans(r) == r.doing \in {"starting", "cleaning"}
Busy(r) == Cleans(r) \/ r.doing = "returning"
Left(f, r) ==
  LET end == r.start + Duration(f, r) + r.stepper
  IN  IF Busy(r) /\ r.start > 0 /\ end > clock THEN end - clock ELSE 0

\* cyclonext and i2d do not return; i2d has states of its own.
Doings(f) ==
  {"cleaning", "idle", "paused"} \cup
  (CASE f = "i2d" -> {"starting", "finished", "errorD", "errorE"}
     [] f = "cyclonext" -> {}
     [] OTHER -> {"returning"})

\* Those of the modes that have a name, and one that has none: vr's custom cycle, and
\* 12 for the seven codes of i2d's MODE_MAP that no mode of the entity stands for.
Cycles(f) ==
  {Codes(f)[s] : s \in DOMAIN Codes(f)} \cup
  (CASE f = "vr" -> {4} [] f = "i2d" -> {12} [] OTHER -> {})

\* A number as the firmware writes it, and as a number.
Number(r, n) == IF r.text THEN <<"string", n>> ELSE <<"int", n>>
Whole(n) == <<"int", n>>

\* state or mode; of i2d the code of the state in its frame (STATE_MAP).
State(f, r) ==
  IF f = "i2d"
  THEN Whole(CASE r.doing = "idle" -> 1 [] r.doing = "starting" -> 2
               [] r.doing = "finished" -> 3 [] r.doing = "cleaning" -> 4
               [] r.doing = "paused" -> 12 [] r.doing = "errorD" -> 13
               [] r.doing = "errorE" -> 14)
  ELSE Number(r, CASE r.doing = "idle" -> 0 [] r.doing = "cleaning" -> 1
                   [] r.doing = "paused" -> 2 [] r.doing = "returning" -> 3)

\* The upper half of i2d's byte says that the canister is full.
ModeByte(r) == r.cycle + (IF r.full THEN 16 ELSE 0)

Listed(r) == [Minutes EXCEPT !["smartTim"] = IF r.learned THEN Learned ELSE 0]

Obey(r, payload) ==
  CASE payload = "start" -> [r EXCEPT !.doing = "cleaning", !.start = clock]
    [] payload = "stop" -> [r EXCEPT !.doing = "idle"]
    [] payload = "pause" -> [r EXCEPT !.doing = "paused"]
    [] payload = "dock" -> IF "returning" \in Doings(family)
                           THEN [r EXCEPT !.doing = "returning"] ELSE [r EXCEPT !.doing = "idle"]
    [] OTHER -> r

Faulty(r) == r.doing \in {"errorD", "errorE"}

\* What an entity should show.
Meaning(f, r) ==
  IF Cleans(r) THEN "cleaning"
  ELSE IF r.doing = "returning" THEN "returning"
  ELSE IF f = "i2d" /\ (r.error \/ Faulty(r)) THEN "error" ELSE "idle"

-----------------------------------------------------------------------------
(* The payloads.                                                           *)

\* i2d has no pause and stops instead; cyclonext cannot return.
Payload(f, command) ==
  CASE f = "i2d" /\ command = "pause" -> "stop"
    [] f = "cyclonext" /\ command = "dock" -> None
    [] OTHER -> command

\* _adjust_stepper reads the stepper from the status; that of vortrax has none.
NewStepper(f, r, d) ==
  LET current == IF f = "vr" THEN r.stepper ELSE 0
  IN  IF current + d < 0 THEN 0 ELSE current + d

-----------------------------------------------------------------------------
(* The parsers.                                                            *)

\* Mutant: a string is not a number.
CoerceCloudIntNever(v) == v

\* _coerce_cloud_int, of a number written as one or as a string.
CoerceCloudInt(v) == Whole(v[2])

\* state, or cyclonext's mode, as the parser compares it.
StateRead(f, r) == IF f = "cyclonext" THEN CoerceCloudInt(State(f, r)) ELSE State(f, r)

ActivityOfI2D(r) ==
  IF State("i2d", r)[2] \in {2, 4} THEN "cleaning" ELSE IF r.error THEN "error" ELSE "idle"

ActivityOf(f, r) ==
  CASE f = "i2d" -> ActivityOfI2D(r)
    [] f # "i2d" /\ StateRead(f, r) = Whole(1) -> "cleaning"
    [] f \notin {"i2d", "cyclonext"} /\ StateRead(f, r) = Whole(3) -> "returning"
    [] OTHER -> "idle"

Named(f, code) == {s \in DOMAIN Codes(f) : Whole(Codes(f)[s]) = code}

ModeCode(r) == ModeByte(r) % 16

\* prCyc, cycle or i2d's mode as the parser looks it up: only cyclonext's is coerced.
CycleRead(f, r) ==
  CASE f = "i2d" -> Whole(ModeCode(r))
    [] f = "cyclonext" -> CoerceCloudInt(Number(r, r.cycle))
    [] OTHER -> Number(r, r.cycle)

\* The fan_speed of the result, or None: the key is missing.  vortrax and cyclobat
\* never set it; vr falls back on floor_only, cyclonext for an unknown cycle only.
SpeedOf(f, r, parts) ==
  LET names == Named(f, CycleRead(f, r)) IN
     IF f \in {"vr", "cyclonext", "i2d"} /\ "cycle" \in parts /\ names # {}
     THEN CHOOSE s \in names : TRUE
     ELSE IF f = "vr" \/ (f = "cyclonext" /\ "cycle" \in parts) THEN "floor_only" ELSE None

\* duration_key_map
KeyMap(f) ==
  IF f = "cyclonext" THEN [i \in {1, 3} |-> IF i = 1 THEN "quickTim" ELSE "deepTim"]
  ELSE [i \in 0..3 |-> <<"waterTim", "quickTim", "smartTim", "deepTim">>[i + 1]]

\* resolve_smart_duration_key_map
SmartKeyMap(f, r) ==
  IF f # "cyclonext" /\ ~r.learned /\ Listed(r)["smartTim"] = 0
  THEN [KeyMap(f) EXCEPT ![2] = "firstSmartTim"] ELSE KeyMap(f)

\* resolve_cycle_duration: by name, else by position, else 0, as for what is no number.
ResolveCycleDuration(durations, cycle, keyMap) ==
  LET code == cycle[2]
      isInt == cycle = Whole(code)
  IN CASE isInt /\ code \in DOMAIN keyMap -> durations[keyMap[code]]
       [] isInt /\ code \notin DOMAIN keyMap /\ code < Len(order) -> durations[order[code + 1]]
       [] OTHER -> 0

\* cyclobat goes by the type of its last cycle, as it is written.
CyclobatDuration(r) ==
  LET type == Number(r, r.last) IN
  CASE type = Whole(0) -> Minutes["quickTim"] [] type = Whole(1) -> Minutes["deepTim"]
    [] type = Whole(2) -> Listed(r)["smartTim"] [] type = Whole(3) -> Minutes["waterTim"]
    [] OTHER -> 0

CycleDuration(f, r) ==
  IF f = "cyclobat" THEN CyclobatDuration(r)
  ELSE ResolveCycleDuration(Listed(r), CycleRead(f, r), SmartKeyMap(f, r))

\* calculate_times; vortrax and cyclobat leave the stepper out.
CalculateTimes(activity, start, duration, stepper) ==
  IF activity \in {"cleaning", "returning"} /\ clock < start + duration + stepper
  THEN start + duration + stepper - clock ELSE 0

\* Mutant of Stepper: cyclonext's is left out (issue #92).
StepperOfVr(f, r) == IF f = "vr" THEN r.stepper ELSE 0

Stepper(f, r) == IF f \in {"vr", "cyclonext"} THEN r.stepper ELSE 0

\* The time_remaining of the result.  i2d reports it; the others compute it, and
\* what is missing for that makes it 0, as does a robot that never cleaned.
TimeRemaining(f, r, parts) ==
  LET needs == {"start"} \cup (IF f = "cyclobat" THEN {} ELSE {"cycle"}) IN
  CASE f = "i2d" -> Left(f, r)
    [] f # "i2d" /\ needs \subseteq parts /\ r.start > 0 ->
         CalculateTimes(IF "state" \in parts THEN ActivityOf(f, r) ELSE "unknown",
                        r.start, CycleDuration(f, r), Stepper(f, r))
    [] OTHER -> 0

-----------------------------------------------------------------------------
Init ==
  /\ family \in Families
  /\ robot \in [doing : {"idle"}, cycle : Cycles(family), last : {0},
                stepper : {0}, start : {0}, error : {FALSE}, full : {FALSE},
                learned : BOOLEAN, text : IF family = "i2d" THEN {FALSE} ELSE BOOLEAN]
  /\ order \in Orders /\ clock = 1
  /\ vacuum = [activity |-> "idle", speed |-> "floor_only"]
  /\ sensor = 0 /\ read = {} /\ asked = None

\* start_cleaning, stop_cleaning, pause_cleaning, return_to_base.
Command ==
  /\ \E c \in Commands : robot' = Obey(robot, Payload(family, c))
  /\ read' = {}
  /\ UNCHANGED <<family, order, clock, vacuum, sensor, asked>>

\* set_fan_speed, of what the entity offers; a mode without a code is not sent.
SetSpeed ==
  \E s \in Offered(family) :
    /\ asked' = s
    /\ robot' = IF s \in DOMAIN Codes(family)
                THEN [robot EXCEPT !.cycle = Codes(family)[s]] ELSE robot
    /\ vacuum' = [vacuum EXCEPT !.speed = s]
    /\ read' = {}
    /\ UNCHANGED <<family, order, clock, sensor>>

\* _adjust_stepper refuses the other families.
Adjust ==
  /\ family \in {"vr", "vortrax"}
  /\ \E d \in {-1, 1} :
       /\ NewStepper(family, robot, d) <= MaxStepper
       /\ robot' = [robot EXCEPT !.stepper = NewStepper(family, robot, d)]
  /\ read' = {}
  /\ UNCHANGED <<family, order, clock, vacuum, sensor, asked>>

\* fetch_status, and the entities' updates.  Without the robot's part the update is
\* degraded, or, of i2d, it may be one that has no activity.
Poll ==
  \E parts \in {Parts} \cup {Parts \ {p} : p \in Parts \ {"robot"}} \cup {{}} :
    /\ parts \notin {{}, Parts} => family # "i2d"
    /\ vacuum' = CASE "robot" \notin parts -> vacuum
                   [] OTHER -> [activity |-> IF "state" \in parts THEN ActivityOf(family, robot)
                                             ELSE vacuum.activity,
                                speed |-> LET s == SpeedOf(family, robot, parts)
                                          IN  IF s = None THEN vacuum.speed ELSE s]
    /\ sensor' = IF "robot" \in parts THEN TimeRemaining(family, robot, parts) ELSE sensor
    /\ read' = parts
    /\ UNCHANGED <<family, robot, order, clock, asked>>

\* An answer to i2d's request that is none of a status: no activity is idle.
PollOther ==
  /\ family = "i2d"
  /\ vacuum' = [vacuum EXCEPT !.activity = "idle"]
  /\ read' = {}
  /\ UNCHANGED <<family, robot, order, clock, sensor, asked>>

\* The robot starts, ends its cycle or docks, fills its canister or fails.  A cycle
\* that ends is the last one, and the smart cycle is learned.
RobotChanges ==
  /\ \/ \E d \in Doings(family) :
          robot' = [robot EXCEPT !.doing = d,
                                 !.start = IF d \in {"starting", "cleaning"} /\ ~Busy(robot)
                                           THEN clock ELSE @,
                                 !.last = IF family = "cyclobat" /\ d = "idle" THEN robot.cycle ELSE @,
                                 !.learned = @ \/ (d = "idle" /\ Busy(robot))]
     \/ family = "i2d" /\ robot' = [robot EXCEPT !.full = ~@]
     \/ family = "i2d" /\ robot' = [robot EXCEPT !.error = ~@]
  /\ read' = {}
  /\ UNCHANGED <<family, order, clock, vacuum, sensor, asked>>

\* Another mode is chosen in the app.
ModeChanges ==
  /\ \E c \in Cycles(family) : robot' = [robot EXCEPT !.cycle = c]
  /\ asked' = None /\ read' = {}
  /\ UNCHANGED <<family, order, clock, vacuum, sensor>>

\* Extra time is chosen in the app; cyclobat and i2d have none.
TimeChanges ==
  /\ family \in {"vr", "vortrax", "cyclonext"}
  /\ \E n \in 0..MaxStepper : robot' = [robot EXCEPT !.stepper = n]
  /\ read' = {}
  /\ UNCHANGED <<family, order, clock, vacuum, sensor, asked>>

Elapse ==
  /\ clock < MaxClock /\ clock' = clock + 1
  /\ read' = read \ {"start"}
  /\ UNCHANGED <<family, robot, order, vacuum, sensor, asked>>

Next ==
  \/ Command \/ SetSpeed \/ Adjust \/ Poll \/ PollOther
  \/ RobotChanges \/ ModeChanges \/ TimeChanges \/ Elapse

Spec == Init /\ [][Next]_vars

-----------------------------------------------------------------------------
TypeOK ==
  /\ family \in Families /\ order \in Orders /\ clock \in 1..MaxClock
  /\ robot \in [doing : Doings(family), cycle : Cycles(family), last : 0..3,
                stepper : 0..MaxStepper, start : 0..MaxClock,
                error : BOOLEAN, full : BOOLEAN, learned : BOOLEAN, text : BOOLEAN]
  /\ vacuum \in [activity : Activities, speed : Speeds]
  /\ sensor \in Nat /\ read \subseteq Parts /\ asked \in Speeds \cup {None}

\* cyclonext's parser reads strings as well as numbers, the others numbers only.
Legible == robot.text => family = "cyclonext"

\* A poll that finds the state shows what the robot does: for cyclonext whether its
\* firmware writes mode as a number or as a string (issue #100), for the others if it
\* writes a number; for i2d in each of STATE_MAP's states, also when it cleans on with
\* an error.  Not so, and exempt: vr, vortrax and cyclobat show idle for a state written as a
\* string, and i2d does for the error states D and E while its error byte is 0.
ActivityIsRead ==
  "state" \in read /\ Legible /\ (Faulty(robot) => robot.error) =>
    vacuum.activity = Meaning(family, robot)

\* Each mode that the entity offers has a code, and the robot runs in that mode
\* until another one is chosen: the tables of the entity, of the payloads and of the
\* robot agree (issue #76).
SpeedsTakeEffect == asked # None => Runs(family, robot.cycle) = asked

\* A poll that finds the mode shows the one that the robot runs in, if the family
\* reads it and the mode has a name: also when cyclonext's cycle is written as a string
\* (issue #100) and when i2d's canister is full.  Exempt: a vr whose prCyc is a string
\* shows floor_only, and a mode of i2d without a name leaves the last one on display.
SpeedIsRead ==
  "cycle" \in read /\ Legible /\ family \in {"vr", "cyclonext", "i2d"} =>
    vacuum.speed = Runs(family, robot.cycle) \/ Runs(family, robot.cycle) = "custom"

\* The remaining time is that of the cycle that runs, with its extra time (that of
\* cyclonext is changed in the app, issue #92), in whatever order the cloud lists the
\* durations, before the smart cycle was learned, and when cyclonext's cycle is a
\* string; a robot that is not busy has none.  vortrax leaves the extra time out, and a vr
\* or vortrax that writes strings is exempt: its duration is 0 (resolve_cycle_duration,
\* resolve_smart_duration_key_map, calculate_times).
RemainingIsRight ==
  /\ read = Parts /\ Legible
  /\ family \in {"vr", "vortrax", "cyclonext"} /\ Runs(family, robot.cycle) # "custom"
  => sensor = Left(family, robot) \/ (family = "vortrax" /\ robot.stepper > 0)
=============================================================================
