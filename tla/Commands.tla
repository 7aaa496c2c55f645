------------------------------ MODULE Commands ------------------------------
(***************************************************************************)
(* The commands of a vr robot: what start, stop, pause, dock, the steering *)
(* and timing buttons and the fan speed send, in which order, and what the *)
(* client and the vacuum entity keep of it: the flag                       *)
(* _remote_control_active, the debounce of the timing commands, and the    *)
(* fan speed shown before the robot confirms it.                           *)
(*                                                                         *)
(* A command is one call of Home Assistant; several are under way at once  *)
(* and interleave at every await.  A request that is under way reaches the *)
(* robot once, twice (module Connection: a response that got lost) or not  *)
(* at all, and set_cleaner_state returns just the same; only wait_for and  *)
(* a refused login raise.  A request does not outlive its call.            *)
(***************************************************************************)
EXTENDS Integers, FiniteSets

CONSTANTS
  Calls,       \* calls under way at once
  Speeds,      \* cleaning modes
  MaxPresses,  \* bound: commands begun
  MaxFaults    \* bound: requests lost, doubled, raising, misread; restarts

ASSUME CommandsAssumption ==
  /\ Speeds # {} /\ IsFiniteSet(Calls)
  /\ {MaxPresses, MaxFaults} \subseteq Nat

VARIABLES
  robot,      \* the robot: its state, wheels, extra time and cleaning mode
  call,       \* what each call does
  remote,     \* _remote_control_active
  cooling,    \* less than 3 s since _last_timing_command
  shown,      \* the entity's _fan_speed
  poll,       \* the cleaning mode that a poll under way has read
  presses,    \* commands begun so far
  faults,     \* what went wrong so far
  expected,   \* history: the extra time the completed adjustments add up to
  tangled,    \* history: the sorts of commands of which two were under way at once
  halted      \* history: the last remote command to end is a stop, and none began since

history == <<expected, tangled, halted>>
vars == <<robot, call, remote, cooling, shown, poll, presses, faults, history>>

-----------------------------------------------------------------------------
\* Extra time, in units of 15 minutes: each press adds at most one.
Steppers == 0..MaxPresses
States == {"stopped", "cleaning", "paused", "returning"}
Wheels == {"still", "driving"}
Kinds == {"lost", "doubled", "raised", "misread", "restarted"}
NoPoll == "no poll"

\* A request, by the field of the robot that it sets; "nothing" clears what is desired.
Request(field, value) == [field |-> field, value |-> value]
Nothing == Request("nothing", "nothing")
Requests ==
  {Nothing} \cup {Request("state", s) : s \in States} \cup {Request("wheels", w) : w \in Wheels}
    \cup {Request("stepper", n) : n \in Steppers} \cup {Request("speed", s) : s \in Speeds}

Done == [at |-> "done", request |-> Nothing, delta |-> 0, reached |-> FALSE]
Places == {"done", "setting", "entering", "steering", "halting", "leaving", "reading",
           "adjusting", "clearing", "speeding"}
Adjusting == {"reading", "adjusting", "clearing"}
Remote == {"entering", "steering", "halting", "leaving"}

Under(places) == {c \in Calls : call[c].at \in places}

\* Remote control is the paused state; a change of state stops the wheels, and the
\* wheels answer in remote control only.
Obey(r, q) ==
  CASE q.field = "state" -> [r EXCEPT !.state = q.value, !.wheels = "still"]
    [] q.field = "wheels" /\ r.state = "paused" -> [r EXCEPT !.wheels = q.value]
    [] q.field = "stepper" -> [r EXCEPT !.stepper = q.value]
    [] q.field = "speed" -> [r EXCEPT !.speed = q.value]
    [] OTHER -> r

\* What an adjustment is meant to do.
Sum(d, n) == IF d < 0 /\ n = 0 THEN 0 ELSE n + d

Fault(kind) ==
  /\ faults["lost"] + faults["doubled"] + faults["raised"] + faults["misread"]
       + faults["restarted"] < MaxFaults
  /\ faults' = [faults EXCEPT ![kind] = @ + 1]

-----------------------------------------------------------------------------
Init ==
  /\ robot \in [state : {"stopped"}, wheels : {"still"}, stepper : {0}, speed : Speeds]
  /\ call = [c \in Calls |-> Done]
  /\ remote = FALSE /\ cooling = FALSE
  /\ shown \in Speeds /\ poll = NoPoll
  /\ presses = 0 /\ faults = [k \in Kinds |-> 0]
  /\ expected = 0 /\ tangled = {} /\ halted = FALSE

Tangles(places, sort) ==
  tangled' = IF Under(places) = {} THEN tangled ELSE tangled \cup {sort}

Press(c) == call[c].at = "done" /\ presses < MaxPresses /\ presses' = presses + 1

\* The request of a call that goes on did not get to the robot.
Missed(c) == ~call[c].reached /\ call[c].request # Nothing

Sends(c, at, q) ==
  call' = [call EXCEPT ![c] = [@ EXCEPT !.at = at, !.request = q, !.reached = FALSE]]
Begins(c, at, q) == call' = [call EXCEPT ![c] = [Done EXCEPT !.at = at, !.request = q]]

\* start_cleaning, stop_cleaning, pause_cleaning, return_to_base: none of them looks
\* at or changes the remote control flag.  (What a stop resets: module Coordinator.)
\* An entity whose status is not "connected" refuses before, and changes nothing.
SetState(c) ==
  /\ Press(c)
  /\ \E s \in States : Begins(c, "setting", Request("state", s))
  /\ UNCHANGED <<robot, remote, cooling, shown, poll, faults, history>>

\* remote_forward and its three siblings: enter remote control first, unless it is on.
Steer(c) ==
  /\ Press(c)
  /\ IF remote THEN Begins(c, "steering", Request("wheels", "driving"))
               ELSE Begins(c, "entering", Request("state", "paused"))
  /\ halted' = FALSE /\ Tangles(Remote, "remote")
  /\ UNCHANGED <<robot, remote, cooling, shown, poll, faults, expected>>

\* remote_stop.
Halt(c) ==
  /\ Press(c)
  /\ Begins(c, "halting", Request("wheels", "still"))
  /\ halted' = FALSE /\ Tangles(Remote, "remote")
  /\ UNCHANGED <<robot, remote, cooling, shown, poll, faults, expected>>

\* _async_adjust_stepper and _adjust_stepper: both stamps are set before the first
\* await; within 3 s of them a press is refused.
Adjust(c) ==
  /\ Press(c) /\ ~cooling
  /\ cooling' = TRUE
  /\ \E d \in {-1, 1} :
       call' = [call EXCEPT ![c] = [Done EXCEPT !.at = "reading", !.delta = d]]
  /\ Tangles(Adjusting, "adjusting")
  /\ UNCHANGED <<robot, remote, shown, poll, faults, expected, halted>>

\* Three failures of the websocket in a row: the press fails at once, and is stamped.
AdjustSuspended(c) ==
  /\ Press(c) /\ ~cooling
  /\ cooling' = TRUE
  /\ UNCHANGED <<robot, call, remote, shown, poll, faults, history>>

\* async_set_fan_speed: the entity shows the new mode at once.
SetSpeed(c) ==
  /\ Press(c)
  /\ \E s \in Speeds : shown' = s /\ Begins(c, "speeding", Request("speed", s))
  /\ UNCHANGED <<robot, remote, cooling, poll, faults, history>>

-----------------------------------------------------------------------------
\* A request reaches the robot; once more only when it is sent once more.
Reach(c) ==
  /\ call[c].request # Nothing
  /\ IF call[c].reached THEN Fault("doubled") ELSE UNCHANGED faults
  /\ robot' = Obey(robot, call[c].request)
  /\ call' = [call EXCEPT ![c].reached = TRUE]
  /\ UNCHANGED <<remote, cooling, shown, poll, presses, history>>

\* set_cleaner_state returned, with a response or without.
Returned(c, places) ==
  /\ call[c].at \in places
  /\ IF Missed(c) THEN Fault("lost") ELSE UNCHANGED faults

Ends(c) == call' = [call EXCEPT ![c] = Done]

StateIsSet(c) ==
  /\ Returned(c, {"setting", "steering"})
  /\ Ends(c)
  /\ UNCHANGED <<robot, remote, cooling, shown, poll, presses, expected, tangled, halted>>

\* Mutant of Entered: the flag is set by the command that comes next.
EnteredUnflagged(c) ==
  /\ Returned(c, {"entering"})
  /\ Sends(c, "steering", Request("wheels", "driving"))
  /\ UNCHANGED <<robot, remote, cooling, shown, poll, presses, history>>

Entered(c) ==
  /\ Returned(c, {"entering"})
  /\ remote' = TRUE
  /\ Sends(c, "steering", Request("wheels", "driving"))
  /\ UNCHANGED <<robot, cooling, shown, poll, presses, history>>

\* The wheels were stopped; leave remote control, if the flag is up by now.
Stopped(c) ==
  /\ Returned(c, {"halting"})
  /\ IF remote
     THEN Sends(c, "leaving", Request("state", "stopped")) /\ UNCHANGED halted
     ELSE Ends(c) /\ halted' = TRUE
  /\ UNCHANGED <<robot, remote, cooling, shown, poll, presses, expected, tangled>>

\* Mutant of Left: the flag stays up.
LeftFlagged(c) ==
  /\ Returned(c, {"leaving"})
  /\ Ends(c)
  /\ halted' = TRUE
  /\ UNCHANGED <<robot, remote, cooling, shown, poll, presses, expected, tangled>>

Left(c) ==
  /\ Returned(c, {"leaving"})
  /\ remote' = FALSE
  /\ Ends(c)
  /\ halted' = TRUE
  /\ UNCHANGED <<robot, cooling, shown, poll, presses, expected, tangled>>

\* max(0, current + delta)
NewStepper(d, n) == IF n + d < 0 THEN 0 ELSE n + d

\* fetch_status: the robot's stepper, or an older one, or 0 of a degraded status.
Read(c) ==
  /\ call[c].at = "reading"
  /\ \E n \in 0..(presses - 1) :
       /\ IF n = robot.stepper THEN UNCHANGED faults ELSE Fault("misread")
       /\ call' = [call EXCEPT ![c].at = "adjusting",
                               ![c].request = Request("stepper", NewStepper(call[c].delta, n))]
  /\ UNCHANGED <<robot, remote, cooling, shown, poll, presses, history>>

\* Mutant of Adjusted: what is desired is cleared to 0.
AdjustedThenZeroed(c) ==
  /\ Returned(c, {"adjusting"})
  /\ Sends(c, "clearing", Request("stepper", 0))
  /\ UNCHANGED <<robot, remote, cooling, shown, poll, presses, history>>

\* The desired stepper is cleared after it was set.
Adjusted(c) ==
  /\ Returned(c, {"adjusting"})
  /\ Sends(c, "clearing", Nothing)
  /\ UNCHANGED <<robot, remote, cooling, shown, poll, presses, history>>

Cleared(c) ==
  /\ Returned(c, {"clearing"})
  /\ Ends(c)
  /\ expected' = Sum(call[c].delta, expected)
  /\ UNCHANGED <<robot, remote, cooling, shown, poll, presses, tangled, halted>>

\* The response, if there is one, may name another mode: what the robot had then.
SpeedIsSet(c) ==
  /\ Returned(c, {"speeding"})
  /\ Ends(c)
  /\ shown' \in {shown, robot.speed}
  /\ UNCHANGED <<robot, remote, cooling, poll, presses, expected, tangled, halted>>

\* wait_for ran out, or the login was refused: the call raises and ends there.
Raise(c) ==
  /\ call[c].at # "done"
  /\ Fault("raised")
  /\ call' = [call EXCEPT ![c] = Done]
  /\ UNCHANGED <<robot, remote, cooling, shown, poll, presses, history>>

-----------------------------------------------------------------------------
CoolsDown ==
  /\ cooling /\ cooling' = FALSE
  /\ UNCHANGED <<robot, call, remote, shown, poll, presses, faults, history>>

\* Mutant of PollEnds: the entity keeps the mode it was asked for.
PollEndsUnseen ==
  /\ poll # NoPoll /\ poll' = NoPoll
  /\ UNCHANGED <<robot, call, remote, cooling, shown, presses, faults, history>>

\* A poll reads the robot, and the entity adopts it when the poll is over.
PollReads ==
  /\ poll = NoPoll /\ poll' = robot.speed
  /\ UNCHANGED <<robot, call, remote, cooling, shown, presses, faults, history>>

PollEnds ==
  /\ poll # NoPoll /\ poll' = NoPoll
  /\ shown' = poll
  /\ UNCHANGED <<robot, call, remote, cooling, presses, faults, history>>

\* Home Assistant, or the entry, is restarted: what the client knew is gone.
Restart ==
  /\ Fault("restarted")
  /\ call' = [c \in Calls |-> Done]
  /\ remote' = FALSE /\ cooling' = FALSE
  /\ shown' \in Speeds /\ poll' = NoPoll
  /\ UNCHANGED <<robot, presses, history>>

Begin(c) == SetState(c) \/ Steer(c) \/ Halt(c) \/ SetSpeed(c)
            \/ Adjust(c) \/ AdjustSuspended(c)

Return(c) ==
  \/ StateIsSet(c) \/ Entered(c) \/ Stopped(c) \/ Left(c)
  \/ Read(c) \/ Adjusted(c) \/ Cleared(c) \/ SpeedIsSet(c)

Next ==
  \/ \E c \in Calls : Begin(c) \/ Reach(c) \/ Return(c) \/ Raise(c)
  \/ CoolsDown \/ PollReads \/ PollEnds \/ Restart

Spec == Init /\ [][Next]_vars

\* Calls go on, each request gets to the robot or is lost, and the coordinator polls.
Fairness ==
  /\ \A c \in Calls : WF_vars(Reach(c) /\ ~call[c].reached) /\ WF_vars(Return(c))
  /\ WF_vars(PollReads) /\ WF_vars(PollEnds)
FairSpec == Spec /\ Fairness
-----------------------------------------------------------------------------
(* Types, and what the commands promise.                                   *)

TypeOK ==
  /\ robot \in [state : States, wheels : Wheels, stepper : Steppers, speed : Speeds]
  /\ call \in [Calls -> [at : Places, request : Requests, delta : -1..1, reached : BOOLEAN]]
  /\ {remote, cooling, halted} \subseteq BOOLEAN /\ tangled \subseteq {"adjusting", "remote"}
  /\ shown \in Speeds /\ poll \in Speeds \cup {NoPoll}
  /\ presses \in 0..MaxPresses /\ faults \in [Kinds -> 0..MaxFaults]
  /\ expected \in Steppers

\* Adjustments that do not overlap and read the robot's stepper add up, also when a
\* request is sent twice: what is sent is the new value, not the difference.
AdjustmentsAddUp ==
  Under(Adjusting) = {} /\ "adjusting" \notin tangled =>
    \/ robot.stepper = expected
    \/ faults["lost"] + faults["raised"] + faults["misread"] + faults["restarted"] > 0

\* Whoever drives the robot is known: while its wheels turn the flag is up, so that a
\* stop will end remote control, also when start, stop, pause or dock get in between.
\* Only remote commands that overlap, a restart and a lost exit break it.
DrivingIsKnown ==
  robot.wheels = "driving" =>
    \/ remote \/ "remote" \in tangled
    \/ faults["restarted"] + faults["lost"] > 0

\* After a remote stop the robot stands still and the flag is down, whatever start,
\* stop, pause or dock do meanwhile, unless remote commands overlapped or the stop
\* itself was lost.
HaltHolds ==
  halted /\ "remote" \notin tangled =>
    ~remote /\ (robot.wheels = "still" \/ faults["lost"] > 0)

\* The mode shown ahead of the robot's answer, the answer itself and polls that read
\* the robot before: once commands cease, the entity shows the mode the robot is in.
ShownSpeedConverges == <>[](shown = robot.speed)
=============================================================================
