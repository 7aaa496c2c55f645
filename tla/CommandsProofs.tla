--------------------------- MODULE CommandsProofs ---------------------------
(***************************************************************************)
(* Proofs about the commands of a vr robot, for any number of calls that   *)
(* interleave, any set of modes and any bounds: a remote stop holds,       *)
(* whoever drives the robot is known, and timing adjustments add up.       *)
(***************************************************************************)
EXTENDS Commands, FiniteSetTheorems, TLAPS

Works == [at : Places, request : Requests, delta : -1..1, reached : BOOLEAN]

-----------------------------------------------------------------------------
(* The inductive invariant.                                                *)

\* Every press adds at most one, when its call ends.
Counted ==
  /\ robot.stepper <= presses
  /\ \A c \in Calls : call[c].request.field = "stepper" => call[c].request.value <= presses
  /\ expected + Cardinality(Under(Adjusting)) <= presses

\* What a call asks of the robot at each of its places.
Asks(w) ==
  /\ w.at \in {"done", "reading", "clearing"} => w.request = Nothing
  /\ w.at = "setting" => w.request.field = "state"
  /\ w.at = "entering" => w.request = Request("state", "paused")
  /\ w.at = "steering" => w.request = Request("wheels", "driving")
  /\ w.at = "halting" => w.request = Request("wheels", "still")
  /\ w.at = "leaving" => w.request = Request("state", "stopped")
  /\ w.at = "adjusting" => w.request.field = "stepper"
  /\ w.at = "speeding" => w.request.field = "speed"
  /\ w.at \in Adjusting => w.delta \in {-1, 1}
  /\ w.request = Nothing => ~w.reached

Asking == \A c \in Calls : Asks(call[c])

\* The wheels turn in remote control only.
Grounded == robot.state # "paused" => robot.wheels = "still"

\* Calls of one sort that were never found to overlap do not.
Alone(places, sort) ==
  sort \notin tangled => \A c, d \in Under(places) : c = d

\* Remote control, as long as no two remote commands overlapped.
RemoteHolds ==
  "remote" \notin tangled =>
    /\ \A c \in Calls :
         /\ call[c].at = "steering" => remote
         /\ call[c].at \in {"halting", "leaving"} /\ call[c].reached => robot.wheels = "still"
    /\ halted => /\ Under(Remote) = {} /\ ~remote
                 /\ robot.wheels = "still" \/ faults["lost"] > 0
    /\ robot.wheels = "driving" => remote \/ faults["restarted"] + faults["lost"] > 0

Mishap == faults["lost"] + faults["raised"] + faults["misread"] + faults["restarted"] > 0

\* How far each adjustment has got, as long as none overlapped and nothing went wrong.
AdjustingHolds ==
  "adjusting" \notin tangled /\ ~Mishap =>
    /\ Under(Adjusting) = {} => robot.stepper = expected
    /\ \A c \in Calls :
         /\ call[c].at = "reading" => robot.stepper = expected
         /\ call[c].at = "adjusting" =>
              /\ call[c].request.value = Sum(call[c].delta, expected)
              /\ robot.stepper = IF call[c].reached THEN call[c].request.value ELSE expected
         /\ call[c].at = "clearing" => robot.stepper = Sum(call[c].delta, expected)

IInv ==
  /\ TypeOK /\ Counted /\ Asking /\ Grounded
  /\ Alone(Remote, "remote") /\ Alone(Adjusting, "adjusting")
  /\ RemoteHolds /\ AdjustingHolds

-----------------------------------------------------------------------------
(* Records and faults.                                                     *)

\* A call becomes w.
Moves(c, w) == w \in Works /\ call' = [call EXCEPT ![c] = w]

\* Nothing that went wrong is forgotten.
Worse ==
  /\ faults' \in [Kinds -> 0..MaxFaults]
  /\ \A k \in Kinds : faults[k] <= faults'[k]

\* Fault counts one more of a kind, and nothing less of another.
LEMMA FaultStep ==
  ASSUME NEW kind \in Kinds, TypeOK, Fault(kind)
  PROVE  Worse /\ faults'[kind] > 0
<1>1. faults \in [Kinds -> 0..MaxFaults] /\ MaxFaults \in Nat
  BY CommandsAssumption DEF TypeOK
<1>2. /\ faults["lost"] \in Nat /\ faults["doubled"] \in Nat /\ faults["raised"] \in Nat
      /\ faults["misread"] \in Nat /\ faults["restarted"] \in Nat
  BY <1>1 DEF Kinds
<1>3. \A k \in Kinds : faults[k] < MaxFaults /\ faults[k] \in Nat
  <2>1. faults["lost"] + faults["doubled"] + faults["raised"] + faults["misread"]
          + faults["restarted"] < MaxFaults
    BY DEF Fault
  <2>2. /\ faults["lost"] < MaxFaults /\ faults["doubled"] < MaxFaults
        /\ faults["raised"] < MaxFaults /\ faults["misread"] < MaxFaults
        /\ faults["restarted"] < MaxFaults
    BY <1>1, <1>2, <2>1
  <2> QED BY <1>2, <2>2 DEF Kinds
<1>4. faults' = [faults EXCEPT ![kind] = faults[kind] + 1]
  BY DEF Fault
<1>5. faults[kind] + 1 \in 0..MaxFaults
  BY <1>1, <1>3
<1>6. \A k \in Kinds : faults[k] <= faults'[k]
  BY <1>1, <1>3, <1>4
<1>7. faults'[kind] > 0
  BY <1>1, <1>3, <1>4
<1> QED BY <1>1, <1>4, <1>5, <1>6, <1>7 DEF Worse

\* A step without a fault, and one that may have one.
LEMMA FaultsKept ==
  ASSUME TypeOK, UNCHANGED faults
  PROVE  Worse
<1>1. faults \in [Kinds -> 0..MaxFaults] /\ MaxFaults \in Nat
  BY CommandsAssumption DEF TypeOK
<1>2. \A k \in Kinds : faults[k] <= faults[k]
  BY <1>1
<1> QED BY <1>1, <1>2 DEF Worse

LEMMA ReturnedStep ==
  ASSUME TypeOK, NEW c, NEW places, Returned(c, places)
  PROVE  Worse /\ (Missed(c) => faults'["lost"] > 0)
<1>0. "lost" \in Kinds
  BY DEF Kinds
<1>1. CASE Missed(c)
  BY <1>0, <1>1, FaultStep DEF Returned
<1>2. CASE ~Missed(c)
  BY <1>2, FaultsKept DEF Returned
<1> QED BY <1>1, <1>2

\* The fields of a call that goes on, begins or ends.
Goes(c, w, at, q) == Moves(c, w) /\ w.at = at /\ w.request = q /\ w.reached = FALSE
GoesOn(c, w, at, q) == Goes(c, w, at, q) /\ w.delta = call[c].delta

LEMMA SendsMoves ==
  ASSUME TypeOK, NEW c \in Calls, NEW at \in Places, NEW q \in Requests, Sends(c, at, q)
  PROVE  \E w : GoesOn(c, w, at, q)
<1> DEFINE w == [call[c] EXCEPT !.at = at, !.request = q, !.reached = FALSE]
<1>1. call[c] \in Works
  BY DEF TypeOK, Works
<1>2. w \in Works /\ w.at = at /\ w.request = q /\ w.reached = FALSE /\ w.delta = call[c].delta
  BY <1>1 DEF Works
<1>3. call' = [call EXCEPT ![c] = w]
  BY DEF Sends
<1> QED BY <1>2, <1>3 DEF Moves, Goes, GoesOn

LEMMA BeginsMoves ==
  ASSUME TypeOK, NEW c \in Calls, NEW at \in Places, NEW q \in Requests, Begins(c, at, q)
  PROVE  \E w : Goes(c, w, at, q)
<1> DEFINE w == [Done EXCEPT !.at = at, !.request = q]
<1>1. Done \in Works /\ Done.reached = FALSE
  BY DEF Works, Done, Places, Requests
<1>2. w \in Works /\ w.at = at /\ w.request = q /\ w.reached = FALSE
  BY <1>1 DEF Works
<1>3. call' = [call EXCEPT ![c] = w]
  BY DEF Begins
<1> QED BY <1>2, <1>3 DEF Moves, Goes

LEMMA DoneIsDone ==
  Done \in Works /\ Done.at = "done" /\ Done.request = Nothing /\ Done.reached = FALSE /\ Asks(Done)
<1>1. Done \in Works /\ Done.at = "done" /\ Done.request = Nothing /\ Done.reached = FALSE
  BY DEF Works, Done, Places, Requests
<1> QED BY <1>1 DEF Asks, Adjusting

LEMMA EndsMoves ==
  ASSUME NEW c, Ends(c)
  PROVE  Moves(c, Done)
BY DoneIsDone DEF Ends, Moves

\* What a move leaves of the calls.
LEMMA MovesTo ==
  ASSUME TypeOK, NEW c \in Calls, NEW w, Moves(c, w)
  PROVE  /\ call' \in [Calls -> Works] /\ call'[c] = w
         /\ \A d \in Calls \ {c} : call'[d] = call[d]
BY DEF TypeOK, Works, Moves

LEMMA RequestsAre ==
  /\ Nothing \in Requests
  /\ \A s \in States : Request("state", s) \in Requests
  /\ \A s \in Wheels : Request("wheels", s) \in Requests
  /\ \A n \in Steppers : Request("stepper", n) \in Requests
  /\ \A s \in Speeds : Request("speed", s) \in Requests
BY DEF Requests

\* What a request sets, and to what.
LEMMA RequestFields ==
  ASSUME NEW q \in Requests
  PROVE  /\ q.field \in {"nothing", "state", "wheels", "stepper", "speed"}
         /\ q.field = "nothing" => q = Nothing
         /\ q.field = "state" => q.value \in States
         /\ q.field = "wheels" => q.value \in Wheels
         /\ q.field = "stepper" => q.value \in Steppers
         /\ q.field = "speed" => q.value \in Speeds
<1>1. CASE q = Nothing
  BY <1>1 DEF Nothing, Request
<1>2. CASE \E s \in States : q = Request("state", s)
  BY <1>2 DEF Request
<1>3. CASE \E s \in Wheels : q = Request("wheels", s)
  BY <1>3 DEF Request
<1>4. CASE \E n \in Steppers : q = Request("stepper", n)
  BY <1>4 DEF Request
<1>5. CASE \E s \in Speeds : q = Request("speed", s)
  BY <1>5 DEF Request
<1> QED BY <1>1, <1>2, <1>3, <1>4, <1>5 DEF Requests

-----------------------------------------------------------------------------
(* The robot.                                                              *)

Robots == [state : States, wheels : Wheels, stepper : Steppers, speed : Speeds]

\* What a request changes of the robot: one field, and the wheels with the state.
LEMMA Obeys ==
  ASSUME NEW r \in Robots, NEW q \in Requests
  PROVE  /\ Obey(r, q) \in Robots
         /\ q.field = "state" =>
              Obey(r, q).state = q.value /\ Obey(r, q).wheels = "still"
         /\ q.field # "state" => Obey(r, q).state = r.state
         /\ q.field = "wheels" =>
              Obey(r, q).wheels = IF r.state = "paused" THEN q.value ELSE r.wheels
         /\ q.field \notin {"state", "wheels"} => Obey(r, q).wheels = r.wheels
         /\ Obey(r, q).stepper = IF q.field = "stepper" THEN q.value ELSE r.stepper
<1>0. "still" \in Wheels
  BY DEF Wheels
<1>1. CASE q.field = "state"
  BY <1>0, <1>1, RequestFields DEF Obey, Robots
<1>2. CASE q.field = "wheels"
  <2>1. CASE r.state = "paused"
    BY <1>2, <2>1, RequestFields DEF Obey, Robots
  <2>2. CASE r.state # "paused"
    BY <1>2, <2>2, RequestFields DEF Obey, Robots
  <2> QED BY <2>1, <2>2
<1>3. CASE q.field = "stepper"
  BY <1>3, RequestFields DEF Obey, Robots
<1>4. CASE q.field = "speed"
  BY <1>4, RequestFields DEF Obey, Robots
<1>5. CASE q.field = "nothing"
  BY <1>5, RequestFields DEF Obey, Robots
<1> QED BY <1>1, <1>2, <1>3, <1>4, <1>5, RequestFields

-----------------------------------------------------------------------------
(* The calls under way.                                                    *)

\* The calls at some places after one has moved.
LEMMA UnderMoves ==
  ASSUME TypeOK, NEW c \in Calls, NEW w, Moves(c, w), NEW places
  PROVE  Under(places)' = {d \in Calls : (IF d = c THEN w.at ELSE call[d].at) \in places}
BY MovesTo DEF Under

LEMMA UnderFinite ==
  ASSUME NEW places
  PROVE  /\ Under(places) \subseteq Calls /\ IsFiniteSet(Under(places))
         /\ Cardinality(Under(places)) \in Nat
BY CommandsAssumption, FS_Subset, FS_CardinalityType DEF Under

\* A call that is not at these places, and does not get there, changes nothing.
LEMMA UnderSame ==
  ASSUME TypeOK, NEW c \in Calls, NEW w, Moves(c, w), NEW places,
         call[c].at \in places <=> w.at \in places
  PROVE  Under(places)' = Under(places)
BY UnderMoves DEF Under

LEMMA UnderJoined ==
  ASSUME TypeOK, NEW c \in Calls, NEW w, Moves(c, w), NEW places,
         call[c].at \notin places, w.at \in places
  PROVE  /\ Under(places)' = Under(places) \cup {c}
         /\ Cardinality(Under(places)') = Cardinality(Under(places)) + 1
<1>1. Under(places)' = Under(places) \cup {c} /\ c \notin Under(places)
  BY UnderMoves DEF Under
<1> QED BY <1>1, UnderFinite, FS_AddElement

LEMMA UnderLeft ==
  ASSUME TypeOK, NEW c \in Calls, NEW w, Moves(c, w), NEW places,
         call[c].at \in places, w.at \notin places
  PROVE  /\ Under(places)' = Under(places) \ {c}
         /\ Cardinality(Under(places)') = Cardinality(Under(places)) - 1
<1>1. Under(places)' = Under(places) \ {c} /\ c \in Under(places)
  BY UnderMoves DEF Under
<1> QED BY <1>1, UnderFinite, FS_RemoveElement

\* Overlaps are noted when they begin.
LEMMA AloneJoined ==
  ASSUME TypeOK, NEW c \in Calls, NEW w, Moves(c, w), NEW places, NEW sort,
         Alone(places, sort), Tangles(places, sort)
  PROVE  Alone(places, sort)'
<1> SUFFICES ASSUME sort \notin tangled'
             PROVE  \A d, e \in Under(places)' : d = e
  BY DEF Alone
<1>1. Under(places) = {}
  BY DEF Tangles
<1> QED BY <1>1, UnderMoves DEF Under

LEMMA AloneKept ==
  ASSUME NEW places, NEW sort, Alone(places, sort), tangled \subseteq tangled',
         Under(places)' \subseteq Under(places)
  PROVE  Alone(places, sort)'
BY DEF Alone

-----------------------------------------------------------------------------
(* Parts of the invariant that a step leaves alone.                        *)

LEMMA AskingMoves ==
  ASSUME TypeOK, Asking, NEW c \in Calls, NEW w, Moves(c, w), Asks(w)
  PROVE  Asking'
BY MovesTo DEF Asking

\* A call that is no remote command moves on, or one ends where nothing hangs on it.
LEMMA RemoteKept ==
  ASSUME TypeOK, RemoteHolds, Worse, NEW c \in Calls, NEW w, Moves(c, w),
         w.at \notin Remote, UNCHANGED <<remote, halted>>,
         robot'.wheels = robot.wheels, tangled \subseteq tangled'
  PROVE  RemoteHolds'
<1> SUFFICES ASSUME "remote" \notin tangled' PROVE RemoteHolds'
  BY DEF RemoteHolds
<1>0. "remote" \notin tangled
  OBVIOUS
<1>1. Under(Remote)' \subseteq Under(Remote)
  BY UnderMoves DEF Under
<1>2. \A d \in Calls :
        /\ call'[d].at = "steering" => remote'
        /\ call'[d].at \in {"halting", "leaving"} /\ call'[d].reached => robot'.wheels = "still"
  <2> SUFFICES ASSUME NEW d \in Calls, call'[d].at \in Remote
               PROVE  /\ call'[d].at = "steering" => remote'
                      /\ call'[d].at \in {"halting", "leaving"} /\ call'[d].reached
                           => robot'.wheels = "still"
    BY DEF Remote
  <2>1. d # c
    BY MovesTo
  <2>2. call'[d] = call[d]
    BY <2>1, MovesTo
  <2> QED BY <1>0, <2>2 DEF RemoteHolds
<1>3. faults["lost"] \in Nat /\ faults["restarted"] \in Nat
      /\ faults'["lost"] \in Nat /\ faults'["restarted"] \in Nat
      /\ faults["lost"] <= faults'["lost"] /\ faults["restarted"] <= faults'["restarted"]
  BY CommandsAssumption DEF TypeOK, Worse, Kinds
<1>4. halted' => /\ Under(Remote)' = {} /\ ~remote'
                 /\ robot'.wheels = "still" \/ faults'["lost"] > 0
  BY <1>0, <1>1, <1>3 DEF RemoteHolds
<1>5. robot'.wheels = "driving" => remote' \/ faults'["restarted"] + faults'["lost"] > 0
  BY <1>0, <1>3 DEF RemoteHolds
<1> QED BY <1>2, <1>4, <1>5 DEF RemoteHolds

\* Mishaps are not forgotten.
LEMMA MishapKept ==
  ASSUME TypeOK, Worse, ~Mishap'
  PROVE  /\ ~Mishap /\ ~(faults'["lost"] > 0) /\ ~(faults'["raised"] > 0)
         /\ ~(faults'["misread"] > 0) /\ ~(faults'["restarted"] > 0)
<1>1. /\ faults["lost"] \in Nat /\ faults["raised"] \in Nat
      /\ faults["misread"] \in Nat /\ faults["restarted"] \in Nat
      /\ faults'["lost"] \in Nat /\ faults'["raised"] \in Nat
      /\ faults'["misread"] \in Nat /\ faults'["restarted"] \in Nat
      /\ faults["lost"] <= faults'["lost"] /\ faults["raised"] <= faults'["raised"]
      /\ faults["misread"] <= faults'["misread"]
      /\ faults["restarted"] <= faults'["restarted"]
  BY CommandsAssumption DEF TypeOK, Worse, Kinds
<1> QED BY <1>1 DEF Mishap

\* A call that is no adjustment moves on.
LEMMA AdjustingKept ==
  ASSUME TypeOK, AdjustingHolds, Worse, NEW c \in Calls, NEW w, Moves(c, w),
         call[c].at \notin Adjusting, w.at \notin Adjusting,
         UNCHANGED expected, robot'.stepper = robot.stepper, tangled \subseteq tangled'
  PROVE  AdjustingHolds'
<1> SUFFICES ASSUME "adjusting" \notin tangled', ~Mishap' PROVE AdjustingHolds'
  BY DEF AdjustingHolds
<1>0. "adjusting" \notin tangled /\ ~Mishap
  BY MishapKept
<1>1. Under(Adjusting)' = Under(Adjusting)
  BY UnderSame
<1>2. ASSUME NEW d \in Calls, call'[d].at \in Adjusting
      PROVE  call'[d] = call[d]
  BY <1>2, MovesTo
<1>3. Under(Adjusting)' = {} => robot'.stepper = expected'
  BY <1>0, <1>1 DEF AdjustingHolds
<1>4. ASSUME NEW d \in Calls
      PROVE  /\ call'[d].at = "reading" => robot'.stepper = expected'
             /\ call'[d].at = "adjusting" =>
                  /\ call'[d].request.value = Sum(call'[d].delta, expected')
                  /\ robot'.stepper = IF call'[d].reached THEN call'[d].request.value
                                      ELSE expected'
             /\ call'[d].at = "clearing" => robot'.stepper = Sum(call'[d].delta, expected')
  <2>1. CASE call'[d].at \in Adjusting
    <3>1. call'[d] = call[d]
      BY <1>2, <2>1
    <3> QED BY <1>0, <3>1 DEF AdjustingHolds, Sum
  <2>2. CASE call'[d].at \notin Adjusting
    BY <2>2 DEF Adjusting
  <2> QED BY <2>1, <2>2
<1> QED BY <1>3, <1>4 DEF AdjustingHolds, Sum

\* An adjustment that went wrong, or one beside others, is not counted on.
LEMMA AdjustingSpoilt ==
  ASSUME TypeOK, Worse, \/ "adjusting" \in tangled'
                        \/ faults'["raised"] > 0
                        \/ faults'["restarted"] > 0
  PROVE  AdjustingHolds'
BY MishapKept DEF AdjustingHolds

-----------------------------------------------------------------------------
(* Each step preserves the invariant.                                      *)

Plain == TypeOK /\ Counted /\ Asking /\ Grounded

\* What the types and counts ask of a step in which one call moves.
LEMMA PlainMoves ==
  ASSUME Plain, Worse, NEW c \in Calls, NEW w, Moves(c, w), Asks(w),
         robot' \in Robots, robot'.state # "paused" => robot'.wheels = "still",
         {remote', cooling', halted'} \subseteq BOOLEAN,
         tangled' \subseteq {"adjusting", "remote"},
         shown' \in Speeds, poll' \in Speeds \cup {NoPoll},
         presses' \in 0..MaxPresses, presses <= presses',
         robot'.stepper <= presses', expected' \in Nat,
         expected' + Cardinality(Under(Adjusting)') <= presses',
         w.request.field = "stepper" => w.request.value <= presses'
  PROVE  Plain'
<1>0. MaxPresses \in Nat /\ presses \in Nat /\ presses' \in Nat /\ presses' <= MaxPresses
  BY CommandsAssumption DEF Plain, TypeOK
<1>1. Cardinality(Under(Adjusting)') \in Nat
  BY CommandsAssumption, FS_Subset, FS_CardinalityType DEF Under
<1>2. expected' \in Steppers
  BY <1>0, <1>1 DEF Steppers
<1>3. call' \in [Calls -> Works]
  BY MovesTo DEF Plain
<1>4. TypeOK'
  BY <1>2, <1>3 DEF TypeOK, Worse, Robots, Works
<1>5. ASSUME NEW d \in Calls, call'[d].request.field = "stepper"
      PROVE  call'[d].request.value <= presses'
  <2>1. CASE d = c
    BY <1>5, <2>1, MovesTo DEF Plain
  <2>2. CASE d # c
    <3>1. call'[d] = call[d] /\ call[d].request \in Requests
      BY <2>2, MovesTo DEF Plain, TypeOK
    <3>2. call[d].request.value \in Steppers /\ call[d].request.value <= presses
      BY <1>5, <3>1, RequestFields DEF Plain, Counted
    <3>3. call[d].request.value \in Nat
      BY <1>0, <3>2 DEF Steppers
    <3> QED BY <1>0, <3>1, <3>2, <3>3
  <2> QED BY <2>1, <2>2
<1>6. Counted'
  BY <1>5 DEF Counted
<1>7. Asking'
  BY AskingMoves DEF Plain
<1>8. Grounded'
  BY DEF Grounded
<1> QED BY <1>4, <1>6, <1>7, <1>8 DEF Plain

\* The types that a step which leaves them alone keeps.
LEMMA Types ==
  ASSUME Plain
  PROVE  /\ robot \in Robots /\ (robot.state # "paused" => robot.wheels = "still")
         /\ {remote, cooling, halted} \subseteq BOOLEAN
         /\ tangled \subseteq {"adjusting", "remote"}
         /\ shown \in Speeds /\ poll \in Speeds \cup {NoPoll}
         /\ presses \in 0..MaxPresses /\ presses \in Nat /\ MaxPresses \in Nat
         /\ robot.stepper <= presses /\ robot.stepper \in Nat /\ expected \in Nat
         /\ expected + Cardinality(Under(Adjusting)) <= presses
         /\ Cardinality(Under(Adjusting)) \in Nat
         /\ call \in [Calls -> Works]
         /\ \A k \in Kinds : faults[k] \in Nat
<1>1. MaxPresses \in Nat /\ MaxFaults \in Nat
  BY CommandsAssumption
<1>2. TypeOK /\ Counted /\ Grounded
  BY DEF Plain
<1>3. robot \in Robots /\ call \in [Calls -> Works]
  BY <1>2 DEF TypeOK, Robots, Works
<1>4. presses \in Nat /\ robot.stepper \in Nat /\ expected \in Nat
      /\ \A k \in Kinds : faults[k] \in Nat
  BY <1>1, <1>2 DEF TypeOK, Steppers
<1> QED BY <1>1, <1>2, <1>3, <1>4, UnderFinite DEF TypeOK, Counted, Grounded

LEMMA PressStep ==
  ASSUME Plain, NEW c, Press(c)
  PROVE  presses' \in 0..MaxPresses /\ presses' = presses + 1 /\ call[c].at = "done"
<1>1. presses \in Nat /\ MaxPresses \in Nat
  BY Types
<1> QED BY <1>1 DEF Press

\* A call that is no adjustment begins, goes on or ends; the robot is as it was.
LEMMA PlainBeside ==
  ASSUME Plain, Worse, NEW c \in Calls, NEW w, Moves(c, w), Asks(w),
         call[c].at \notin Adjusting, w.at \notin Adjusting,
         UNCHANGED <<robot, poll, expected>>,
         {remote', cooling', halted'} \subseteq BOOLEAN, shown' \in Speeds,
         tangled' \subseteq {"adjusting", "remote"},
         presses' \in 0..MaxPresses, presses <= presses',
         w.request.field # "stepper"
  PROVE  Plain'
<1>1. Under(Adjusting)' = Under(Adjusting)
  BY UnderSame DEF Plain
<1>2. /\ presses' \in Nat /\ robot.stepper <= presses'
      /\ expected + Cardinality(Under(Adjusting)) <= presses'
  <2>1. presses' \in Nat
    BY Types
  <2> QED BY <2>1, Types
<1> QED BY <1>1, <1>2, PlainMoves, Types

\* start, stop, pause, dock and the fan speed.
LEMMA BesideKeeps ==
  ASSUME IInv, Worse, NEW c \in Calls, NEW w, Moves(c, w), Asks(w),
         call[c].at \notin Adjusting, w.at \notin Adjusting \cup Remote,
         UNCHANGED <<robot, remote, cooling, poll, history>>, shown' \in Speeds,
         presses' \in 0..MaxPresses, presses <= presses',
         w.request.field # "stepper"
  PROVE  IInv'
<1>0. Plain /\ TypeOK
  BY DEF IInv, Plain
<1>1. Plain'
  BY <1>0, PlainBeside, Types DEF history
<1>2. Alone(Remote, "remote")'
  <2>1. Under(Remote)' \subseteq Under(Remote)
    BY <1>0, UnderMoves DEF Under
  <2> QED BY <2>1, AloneKept DEF IInv, history
<1>3. Alone(Adjusting, "adjusting")'
  <2>1. Under(Adjusting)' \subseteq Under(Adjusting)
    BY <1>0, UnderMoves DEF Under
  <2> QED BY <2>1, AloneKept DEF IInv, history
<1>4. RemoteHolds'
  BY <1>0, RemoteKept DEF IInv, history
<1>5. AdjustingHolds'
  BY <1>0, AdjustingKept DEF IInv, history
<1> QED BY <1>1, <1>2, <1>3, <1>4, <1>5 DEF IInv, Plain

LEMMA SetStateKeeps ==
  ASSUME IInv, NEW c \in Calls, SetState(c)
  PROVE  IInv'
<1>0. Plain /\ TypeOK
  BY DEF IInv, Plain
<1>1. PICK s \in States : Begins(c, "setting", Request("state", s))
  BY DEF SetState
<1>2. Request("state", s) \in Requests /\ "setting" \in Places
  BY RequestsAre DEF Places
<1>3. PICK w : Goes(c, w, "setting", Request("state", s))
  BY <1>0, <1>1, <1>2, BeginsMoves
<1>4. Asks(w) /\ w.request.field # "stepper" /\ w.at \notin Adjusting \cup Remote
  BY <1>3 DEF Goes, Asks, Adjusting, Remote, Request
<1>5. Worse /\ call[c].at \notin Adjusting
  BY <1>0, FaultsKept DEF SetState, Press, Adjusting
<1>6. presses' \in 0..MaxPresses /\ presses <= presses'
  <2>1. presses \in Nat
    BY <1>0, Types
  <2> QED BY <1>0, <2>1, PressStep DEF SetState
<1> QED BY <1>0, <1>3, <1>4, <1>5, <1>6, BesideKeeps, Types DEF Goes, SetState

LEMMA SetSpeedKeeps ==
  ASSUME IInv, NEW c \in Calls, SetSpeed(c)
  PROVE  IInv'
<1>0. Plain /\ TypeOK
  BY DEF IInv, Plain
<1>1. PICK s \in Speeds : shown' = s /\ Begins(c, "speeding", Request("speed", s))
  BY DEF SetSpeed
<1>2. Request("speed", s) \in Requests /\ "speeding" \in Places
  BY RequestsAre DEF Places
<1>3. PICK w : Goes(c, w, "speeding", Request("speed", s))
  BY <1>0, <1>1, <1>2, BeginsMoves
<1>4. Asks(w) /\ w.request.field # "stepper" /\ w.at \notin Adjusting \cup Remote
  BY <1>3 DEF Goes, Asks, Adjusting, Remote, Request
<1>5. Worse /\ call[c].at \notin Adjusting
  BY <1>0, FaultsKept DEF SetSpeed, Press, Adjusting
<1>6. presses' \in 0..MaxPresses /\ presses <= presses'
  <2>1. presses \in Nat
    BY <1>0, Types
  <2> QED BY <1>0, <2>1, PressStep DEF SetSpeed
<1> QED BY <1>0, <1>1, <1>3, <1>4, <1>5, <1>6, BesideKeeps, Types DEF Goes, SetSpeed

LEMMA SpeedIsSetKeeps ==
  ASSUME IInv, NEW c \in Calls, SpeedIsSet(c)
  PROVE  IInv'
<1>0. Plain /\ TypeOK
  BY DEF IInv, Plain
<1>1. Moves(c, Done) /\ Done.at \notin Adjusting \cup Remote /\ Done.request.field # "stepper"
  BY EndsMoves, DoneIsDone DEF SpeedIsSet, Adjusting, Remote, Nothing, Request
<1>2. Worse /\ call[c].at \notin Adjusting
  BY <1>0, ReturnedStep DEF SpeedIsSet, Returned, Adjusting
<1>3. shown' \in Speeds
  BY <1>0, Types DEF SpeedIsSet, Robots
<1>4. presses' \in 0..MaxPresses /\ presses <= presses'
  <2>1. presses \in Nat /\ presses \in 0..MaxPresses /\ presses' = presses
    BY <1>0, Types DEF SpeedIsSet
  <2> QED BY <2>1
<1> QED BY <1>0, <1>1, <1>2, <1>3, <1>4, BesideKeeps, DoneIsDone DEF SpeedIsSet, history

\* start, stop, pause, dock and steering end.
LEMMA StateIsSetKeeps ==
  ASSUME IInv, NEW c \in Calls, StateIsSet(c)
  PROVE  IInv'
<1>0. Plain /\ TypeOK
  BY DEF IInv, Plain
<1>1. Moves(c, Done) /\ Done.at \notin Adjusting \cup Remote /\ Done.request.field # "stepper"
  BY EndsMoves, DoneIsDone DEF StateIsSet, Adjusting, Remote, Nothing, Request
<1>2. Worse /\ call[c].at \notin Adjusting
  BY <1>0, ReturnedStep DEF StateIsSet, Returned, Adjusting
<1>3. shown' \in Speeds
  BY <1>0, Types DEF StateIsSet
<1>4. presses' \in 0..MaxPresses /\ presses <= presses'
  <2>1. presses \in Nat /\ presses \in 0..MaxPresses /\ presses' = presses
    BY <1>0, Types DEF StateIsSet
  <2> QED BY <2>1
<1> QED BY <1>0, <1>1, <1>2, <1>3, <1>4, BesideKeeps, DoneIsDone DEF StateIsSet, history

-----------------------------------------------------------------------------
(* Remote control.                                                         *)

\* A remote command begins, goes on or ends.
LEMMA RemoteStep ==
  ASSUME IInv, Worse, NEW c \in Calls, NEW w, Moves(c, w), Asks(w),
         call[c].at \notin Adjusting, w.at \notin Adjusting,
         UNCHANGED <<robot, cooling, shown, poll, expected>>, {remote', halted'} \subseteq BOOLEAN,
         tangled \subseteq tangled', tangled' \subseteq {"adjusting", "remote"},
         presses' \in 0..MaxPresses, presses <= presses',
         w.request.field # "stepper",
         Alone(Remote, "remote")', RemoteHolds'
  PROVE  IInv'
<1>0. Plain /\ TypeOK
  BY DEF IInv, Plain
<1>1. Plain'
  <2>1. cooling' \in BOOLEAN /\ shown' \in Speeds
    BY <1>0, Types
  <2> QED BY <1>0, <2>1, PlainBeside
<1>2. Alone(Adjusting, "adjusting")'
  <2>1. Under(Adjusting)' \subseteq Under(Adjusting)
    BY <1>0, UnderMoves DEF Under
  <2> QED BY <2>1, AloneKept DEF IInv
<1>3. AdjustingHolds'
  BY <1>0, AdjustingKept DEF IInv
<1> QED BY <1>1, <1>2, <1>3 DEF IInv, Plain

LEMMA Tangling ==
  ASSUME NEW places, NEW sort \in {"adjusting", "remote"}, Plain, Tangles(places, sort)
  PROVE  /\ tangled \subseteq tangled' /\ tangled' \subseteq {"adjusting", "remote"}
         /\ sort \notin tangled' => Under(places) = {}
BY Types DEF Tangles

\* A remote command that begins while none is under way.
LEMMA RemoteBegins ==
  ASSUME TypeOK, RemoteHolds, Worse, NEW c \in Calls, NEW w, Moves(c, w),
         w.at = "steering" => remote, w.reached = FALSE, ~halted',
         "remote" \notin tangled' => Under(Remote) = {}, tangled \subseteq tangled',
         UNCHANGED <<remote, robot>>
  PROVE  RemoteHolds'
<1> SUFFICES ASSUME "remote" \notin tangled' PROVE RemoteHolds'
  BY DEF RemoteHolds
<1>0. "remote" \notin tangled
  OBVIOUS
<1>1. \A d \in Calls \ {c} : call'[d].at \notin Remote
  BY MovesTo DEF Under
<1>2. \A d \in Calls :
        /\ call'[d].at = "steering" => remote'
        /\ call'[d].at \in {"halting", "leaving"} /\ call'[d].reached => robot'.wheels = "still"
  BY <1>1, MovesTo DEF Remote
<1>3. faults["lost"] \in Nat /\ faults["restarted"] \in Nat
      /\ faults'["lost"] \in Nat /\ faults'["restarted"] \in Nat
      /\ faults["lost"] <= faults'["lost"] /\ faults["restarted"] <= faults'["restarted"]
  BY CommandsAssumption DEF TypeOK, Worse, Kinds
<1>4. robot'.wheels = "driving" => remote' \/ faults'["restarted"] + faults'["lost"] > 0
  BY <1>0, <1>3 DEF RemoteHolds
<1> QED BY <1>2, <1>4 DEF RemoteHolds

LEMMA SteerKeeps ==
  ASSUME IInv, NEW c \in Calls, Steer(c)
  PROVE  IInv'
<1>0. Plain /\ TypeOK
  BY DEF IInv, Plain
<1>1. PICK w : /\ Moves(c, w) /\ w.at \in {"steering", "entering"} /\ w.reached = FALSE
               /\ w.at = "steering" => remote
               /\ Asks(w) /\ w.request.field # "stepper"
  <2>1. CASE remote
    <3>1. Request("wheels", "driving") \in Requests /\ "steering" \in Places
      BY RequestsAre DEF Places, Wheels
    <3>2. PICK w : Goes(c, w, "steering", Request("wheels", "driving"))
      BY <1>0, <2>1, <3>1, BeginsMoves DEF Steer
    <3>3. Asks(w) /\ w.request.field # "stepper"
      BY <3>2 DEF Goes, Asks, Adjusting, Request
    <3> QED BY <2>1, <3>2, <3>3 DEF Goes
  <2>2. CASE ~remote
    <3>1. Request("state", "paused") \in Requests /\ "entering" \in Places
      BY RequestsAre DEF Places, States
    <3>2. PICK w : Goes(c, w, "entering", Request("state", "paused"))
      BY <1>0, <2>2, <3>1, BeginsMoves DEF Steer
    <3>3. Asks(w) /\ w.request.field # "stepper"
      BY <3>2 DEF Goes, Asks, Adjusting, Request
    <3> QED BY <2>2, <3>2, <3>3 DEF Goes
  <2> QED BY <2>1, <2>2
<1>2. /\ tangled \subseteq tangled' /\ tangled' \subseteq {"adjusting", "remote"}
      /\ "remote" \notin tangled' => Under(Remote) = {}
  BY <1>0, Tangling DEF Steer
<1>3. presses' \in 0..MaxPresses /\ presses <= presses' /\ call[c].at = "done"
  <2>1. presses \in Nat
    BY <1>0, Types
  <2> QED BY <1>0, <2>1, PressStep DEF Steer
<1>4. Worse
  BY <1>0, FaultsKept DEF Steer
<1>5. Alone(Remote, "remote")'
  BY <1>0, <1>1, AloneJoined DEF IInv, Steer
<1>6. RemoteHolds'
  BY <1>0, <1>1, <1>2, <1>4, RemoteBegins DEF IInv, Steer
<1>7. call[c].at \notin Adjusting /\ w.at \notin Adjusting
  BY <1>1, <1>3 DEF Adjusting
<1>8. {remote', halted'} \subseteq BOOLEAN
  BY <1>0, Types DEF Steer
<1> QED BY <1>1, <1>2, <1>3, <1>4, <1>5, <1>6, <1>7, <1>8, RemoteStep DEF Steer

LEMMA HaltKeeps ==
  ASSUME IInv, NEW c \in Calls, Halt(c)
  PROVE  IInv'
<1>0. Plain /\ TypeOK
  BY DEF IInv, Plain
<1>1. PICK w : Goes(c, w, "halting", Request("wheels", "still"))
  <2>1. Request("wheels", "still") \in Requests /\ "halting" \in Places
    BY RequestsAre DEF Places, Wheels
  <2> QED BY <1>0, <2>1, BeginsMoves DEF Halt
<1>2. /\ tangled \subseteq tangled' /\ tangled' \subseteq {"adjusting", "remote"}
      /\ "remote" \notin tangled' => Under(Remote) = {}
  BY <1>0, Tangling DEF Halt
<1>3. presses' \in 0..MaxPresses /\ presses <= presses' /\ call[c].at = "done"
  <2>1. presses \in Nat
    BY <1>0, Types
  <2> QED BY <1>0, <2>1, PressStep DEF Halt
<1>4. Worse
  BY <1>0, FaultsKept DEF Halt
<1>5. /\ Moves(c, w) /\ w.reached = FALSE /\ Asks(w) /\ w.request.field # "stepper"
      /\ w.at # "steering" /\ w.at \notin Adjusting /\ call[c].at \notin Adjusting
  BY <1>1, <1>3 DEF Goes, Asks, Adjusting, Request
<1>6. Alone(Remote, "remote")'
  BY <1>0, <1>5, AloneJoined DEF IInv, Halt
<1>7. RemoteHolds'
  BY <1>0, <1>5, <1>2, <1>4, RemoteBegins DEF IInv, Halt
<1>8. {remote', halted'} \subseteq BOOLEAN
  BY <1>0, Types DEF Halt
<1> QED BY <1>2, <1>3, <1>4, <1>5, <1>6, <1>7, <1>8, RemoteStep DEF Halt

\* A remote command is the only one, unless some overlapped, and no stop has ended.
LEMMA Sole ==
  ASSUME IInv, NEW c \in Calls, call[c].at \in Remote, "remote" \notin tangled
  PROVE  ~halted /\ \A d \in Calls \ {c} : call[d].at \notin Remote
BY DEF IInv, Alone, RemoteHolds, Under

\* A remote command that is under way goes on or ends.
LEMMA RemoteGoesOn ==
  ASSUME IInv, Worse, NEW c \in Calls, NEW w, Moves(c, w), Asks(w),
         call[c].at \in Remote, w.at \in {"steering", "leaving", "done"}, w.reached = FALSE,
         UNCHANGED <<robot, cooling, shown, poll, presses, expected, tangled>>,
         {remote', halted'} \subseteq BOOLEAN, w.at = "steering" => remote',
         "remote" \notin tangled =>
           /\ halted' => /\ halted \/ w.at = "done"
                         /\ halted \/ (~remote' /\ (robot.wheels = "still" \/ faults'["lost"] > 0))
           /\ remote /\ ~remote' /\ robot.wheels = "driving" => faults'["lost"] > 0
  PROVE  IInv'
<1>0. Plain /\ TypeOK
  BY DEF IInv, Plain
<1>1. w.request.field # "stepper" /\ w.at \notin Adjusting /\ call[c].at \notin Adjusting
  BY DEF Asks, Nothing, Request, Adjusting, Remote
<1>2. /\ presses' \in 0..MaxPresses /\ presses <= presses'
      /\ tangled' \subseteq {"adjusting", "remote"}
  <2>1. presses \in Nat /\ presses \in 0..MaxPresses /\ presses' = presses
    BY <1>0, Types
  <2> QED BY <1>0, <2>1, Types
<1>3. Alone(Remote, "remote")'
  <2>1. Under(Remote)' \subseteq Under(Remote)
    BY <1>0, UnderMoves DEF Under
  <2> QED BY <2>1, AloneKept DEF IInv
<1>4. RemoteHolds'
  <2> SUFFICES ASSUME "remote" \notin tangled' PROVE RemoteHolds'
    BY DEF RemoteHolds
  <2>0. "remote" \notin tangled
    OBVIOUS
  <2>1. ~halted /\ \A d \in Calls \ {c} : call'[d].at \notin Remote
    BY <1>0, <2>0, Sole, MovesTo
  <2>2. \A d \in Calls :
          /\ call'[d].at = "steering" => remote'
          /\ call'[d].at \in {"halting", "leaving"} /\ call'[d].reached
               => robot'.wheels = "still"
    BY <1>0, <2>1, MovesTo DEF Remote
  <2>3. faults["lost"] \in Nat /\ faults["restarted"] \in Nat
        /\ faults'["lost"] \in Nat /\ faults'["restarted"] \in Nat
        /\ faults["lost"] <= faults'["lost"] /\ faults["restarted"] <= faults'["restarted"]
    BY <1>0, CommandsAssumption DEF TypeOK, Worse, Kinds
  <2>4. halted' => /\ Under(Remote)' = {} /\ ~remote'
                   /\ robot'.wheels = "still" \/ faults'["lost"] > 0
    <3>1. w.at = "done" => Under(Remote)' = {}
      BY <1>0, <2>1, MovesTo DEF Under, Remote
    <3> QED BY <2>0, <2>1, <3>1
  <2>5. robot'.wheels = "driving" => remote' \/ faults'["restarted"] + faults'["lost"] > 0
    <3>1. robot.wheels = "driving" => remote \/ faults["restarted"] + faults["lost"] > 0
      BY <2>0 DEF IInv, RemoteHolds
    <3>2. remote' \in BOOLEAN
      OBVIOUS
    <3> QED BY <2>0, <2>3, <3>1, <3>2
  <2> QED BY <2>2, <2>4, <2>5 DEF RemoteHolds
<1> QED BY <1>0, <1>1, <1>2, <1>3, <1>4, RemoteStep

LEMMA EnteredKeeps ==
  ASSUME IInv, NEW c \in Calls, Entered(c)
  PROVE  IInv'
<1>0. Plain /\ TypeOK
  BY DEF IInv, Plain
<1>1. PICK w : GoesOn(c, w, "steering", Request("wheels", "driving"))
  <2>1. Request("wheels", "driving") \in Requests /\ "steering" \in Places
    BY RequestsAre DEF Places, Wheels
  <2> QED BY <1>0, <2>1, SendsMoves DEF Entered
<1>2. Moves(c, w) /\ w.at = "steering" /\ w.reached = FALSE /\ Asks(w)
  BY <1>1 DEF GoesOn, Goes, Asks, Adjusting
<1>3. Worse /\ call[c].at \in Remote
  BY <1>0, ReturnedStep DEF Entered, Returned, Remote
<1>4. {remote', halted'} \subseteq BOOLEAN
  BY <1>0, Types DEF Entered, history
<1>5. "remote" \notin tangled => ~halted'
  BY <1>3, Sole DEF Entered, history
<1> QED BY <1>2, <1>3, <1>4, <1>5, RemoteGoesOn DEF Entered, history

\* The robot obeyed a stop that returned, or the stop was lost.
LEMMA StoppedByNow ==
  ASSUME IInv, NEW c \in Calls, NEW at, call[c].at = at, at \in {"halting", "leaving"},
         Returned(c, {at}), "remote" \notin tangled
  PROVE  robot.wheels = "still" \/ faults'["lost"] > 0
<1>0. TypeOK
  BY DEF IInv
<1>1. call[c].request # Nothing
  BY DEF IInv, Asking, Asks, Nothing, Request
<1>2. CASE call[c].reached
  BY <1>2 DEF IInv, RemoteHolds
<1>3. CASE ~call[c].reached
  BY <1>0, <1>1, <1>3, ReturnedStep DEF Missed
<1> QED BY <1>2, <1>3

LEMMA StoppedKeeps ==
  ASSUME IInv, NEW c \in Calls, Stopped(c)
  PROVE  IInv'
<1>0. Plain /\ TypeOK
  BY DEF IInv, Plain
<1>1. Worse /\ call[c].at \in Remote /\ call[c].at = "halting"
  BY <1>0, ReturnedStep DEF Stopped, Returned, Remote
<1>2. CASE remote
  <2>1. PICK w : GoesOn(c, w, "leaving", Request("state", "stopped"))
    <3>1. Request("state", "stopped") \in Requests /\ "leaving" \in Places
      BY RequestsAre DEF Places, States
    <3> QED BY <1>0, <1>2, <3>1, SendsMoves DEF Stopped
  <2>2. Moves(c, w) /\ w.at = "leaving" /\ w.reached = FALSE /\ Asks(w)
    BY <2>1 DEF GoesOn, Goes, Asks, Adjusting
  <2>3. {remote', halted'} \subseteq BOOLEAN
    BY <1>0, <1>2, Types DEF Stopped
  <2>4. "remote" \notin tangled => ~halted'
    BY <1>1, <1>2, Sole DEF Stopped
  <2> QED BY <1>1, <1>2, <2>2, <2>3, <2>4, RemoteGoesOn DEF Stopped
<1>3. CASE ~remote
  <2>1. Moves(c, Done) /\ halted' = TRUE
    BY <1>3, EndsMoves DEF Stopped
  <2>2. {remote', halted'} \subseteq BOOLEAN
    BY <1>0, <2>1, Types DEF Stopped
  <2>3. "remote" \notin tangled => robot.wheels = "still" \/ faults'["lost"] > 0
    BY <1>1, StoppedByNow DEF Stopped
  <2> QED BY <1>1, <1>3, <2>1, <2>2, <2>3, RemoteGoesOn, DoneIsDone DEF Stopped
<1> QED BY <1>2, <1>3

LEMMA LeftKeeps ==
  ASSUME IInv, NEW c \in Calls, Left(c)
  PROVE  IInv'
<1>0. Plain /\ TypeOK
  BY DEF IInv, Plain
<1>1. Worse /\ call[c].at \in Remote /\ call[c].at = "leaving"
  BY <1>0, ReturnedStep DEF Left, Returned, Remote
<1>2. Moves(c, Done)
  BY EndsMoves DEF Left
<1>3. {remote', halted'} \subseteq BOOLEAN /\ halted' = TRUE /\ remote' = FALSE
  BY DEF Left
<1>4. "remote" \notin tangled => robot.wheels = "still" \/ faults'["lost"] > 0
  BY <1>1, StoppedByNow DEF Left
<1> QED BY <1>1, <1>2, <1>3, <1>4, RemoteGoesOn, DoneIsDone DEF Left

-----------------------------------------------------------------------------
(* Timing adjustments.                                                     *)

\* What is sent is what the adjustment is meant to do, where it read right.
LEMMA SumIsSent ==
  ASSUME NEW d \in {-1, 1}, NEW n \in Nat
  PROVE  /\ NewStepper(d, n) = Sum(d, n)
         /\ Sum(d, n) \in Nat /\ Sum(d, n) <= n + 1
<1>1. CASE d = 1
  BY <1>1 DEF NewStepper, Sum
<1>2. CASE d = -1
  BY <1>2 DEF NewStepper, Sum
<1> QED BY <1>1, <1>2

\* An adjustment begins, goes on or ends; the robot is as it was.
LEMMA AdjustStep ==
  ASSUME IInv, Worse, NEW c \in Calls, NEW w, Moves(c, w), Plain',
         call[c].at \notin Remote, w.at \notin Remote,
         UNCHANGED <<robot, remote, halted>>, tangled \subseteq tangled',
         Alone(Adjusting, "adjusting")', AdjustingHolds'
  PROVE  IInv'
<1>0. TypeOK
  BY DEF IInv
<1>1. Alone(Remote, "remote")'
  <2>1. Under(Remote)' \subseteq Under(Remote)
    BY <1>0, UnderMoves DEF Under
  <2> QED BY <2>1, AloneKept DEF IInv
<1>2. RemoteHolds'
  BY <1>0, RemoteKept DEF IInv
<1> QED BY <1>1, <1>2 DEF IInv, Plain

LEMMA AdjustKeeps ==
  ASSUME IInv, NEW c \in Calls, Adjust(c)
  PROVE  IInv'
<1>0. Plain /\ TypeOK
  BY DEF IInv, Plain
<1>1. PICK d \in {-1, 1} : call' = [call EXCEPT ![c] = [Done EXCEPT !.at = "reading", !.delta = d]]
  BY DEF Adjust
<1> DEFINE w == [Done EXCEPT !.at = "reading", !.delta = d]
<1>2. w \in Works /\ w.at = "reading" /\ w.request = Nothing /\ w.delta = d /\ w.reached = FALSE
  <2>1. "reading" \in Places /\ d \in -1..1
    BY DEF Places
  <2> QED BY <2>1, DoneIsDone DEF Works
<1>3. Moves(c, w)
  BY <1>1, <1>2 DEF Moves
<1> HIDE DEF w
<1>4. Asks(w) /\ w.request.field # "stepper" /\ w.at \notin Remote /\ w.at \in Adjusting
  BY <1>2 DEF Asks, Adjusting, Remote, Nothing, Request
<1>5. presses' \in 0..MaxPresses /\ presses' = presses + 1 /\ call[c].at = "done"
  BY <1>0, PressStep DEF Adjust
<1>6. call[c].at \notin Remote /\ call[c].at \notin Adjusting
  BY <1>5 DEF Remote, Adjusting
<1>7. Worse
  BY <1>0, FaultsKept DEF Adjust
<1>8. /\ tangled \subseteq tangled' /\ tangled' \subseteq {"adjusting", "remote"}
      /\ "adjusting" \notin tangled' => Under(Adjusting) = {}
  BY <1>0, Tangling DEF Adjust
<1>9. Plain'
  <2>1. Cardinality(Under(Adjusting)') = Cardinality(Under(Adjusting)) + 1
    BY <1>0, <1>3, <1>4, <1>6, UnderJoined
  <2>2. expected' + Cardinality(Under(Adjusting)') <= presses'
        /\ robot'.stepper <= presses' /\ presses <= presses' /\ expected' \in Nat
    <3>1. robot' = robot /\ expected' = expected
      BY DEF Adjust
    <3> QED BY <1>0, <1>5, <2>1, <3>1, Types
  <2>3. {remote', cooling', halted'} \subseteq BOOLEAN /\ robot' = robot /\ shown' = shown
        /\ poll' = poll
    BY <1>0, Types DEF Adjust
  <2> QED BY <1>0, <1>3, <1>4, <1>5, <1>7, <1>8, <2>2, <2>3, PlainMoves, Types
<1>10. Alone(Adjusting, "adjusting")'
  BY <1>0, <1>3, AloneJoined DEF IInv, Adjust
<1>11. AdjustingHolds'
  <2> SUFFICES ASSUME "adjusting" \notin tangled', ~Mishap' PROVE AdjustingHolds'
    BY DEF AdjustingHolds
  <2>1. ~Mishap /\ Under(Adjusting) = {} /\ "adjusting" \notin tangled
    BY <1>0, <1>7, <1>8, MishapKept
  <2>2. robot'.stepper = expected'
    BY <2>1 DEF IInv, AdjustingHolds, Adjust
  <2>3. \A e \in Calls : call'[e].at \in Adjusting => e = c
    BY <1>0, <1>3, <2>1, MovesTo DEF Under
  <2>4. call'[c].at = "reading"
    BY <1>0, <1>2, <1>3, MovesTo
  <2> QED BY <2>2, <2>3, <2>4 DEF AdjustingHolds, Adjusting
<1> QED BY <1>3, <1>4, <1>6, <1>7, <1>8, <1>9, <1>10, <1>11, AdjustStep DEF Adjust

\* An adjustment is the only one, unless some overlapped.
LEMMA SoleAdjustment ==
  ASSUME IInv, NEW c \in Calls, call[c].at \in Adjusting, "adjusting" \notin tangled
  PROVE  \A d \in Calls \ {c} : call[d].at \notin Adjusting
BY DEF IInv, Alone, Under

\* An adjustment that is under way goes on.
LEMMA AdjustmentGoesOn ==
  ASSUME IInv, Worse, NEW c \in Calls, NEW w, Moves(c, w), Asks(w),
         call[c].at \in Adjusting, w.at \in Adjusting,
         UNCHANGED <<robot, remote, cooling, shown, poll, presses, history>>,
         w.request.field = "stepper" => w.request.value <= presses,
         "adjusting" \notin tangled /\ ~Mishap' =>
           /\ w.at = "reading" => robot.stepper = expected
           /\ w.at = "adjusting" => /\ w.request.value = Sum(w.delta, expected)
                                    /\ ~w.reached /\ robot.stepper = expected
           /\ w.at = "clearing" => robot.stepper = Sum(w.delta, expected)
  PROVE  IInv'
<1>0. Plain /\ TypeOK
  BY DEF IInv, Plain
<1>1. call[c].at \notin Remote /\ w.at \notin Remote
  BY DEF Adjusting, Remote
<1>2. Under(Adjusting)' = Under(Adjusting)
  BY <1>0, UnderSame
<1>3. Plain'
  <2>1. presses <= presses' /\ presses' \in 0..MaxPresses /\ presses' = presses
    <3>1. presses \in Nat /\ presses \in 0..MaxPresses /\ presses' = presses
      BY <1>0, Types
    <3> QED BY <3>1
  <2> QED BY <1>0, <1>2, <2>1, PlainMoves, Types DEF history
<1>4. Alone(Adjusting, "adjusting")'
  BY <1>2, AloneKept DEF IInv, history
<1>5. AdjustingHolds'
  <2> SUFFICES ASSUME "adjusting" \notin tangled', ~Mishap' PROVE AdjustingHolds'
    BY DEF AdjustingHolds
  <2>1. \A e \in Calls : call'[e].at \in Adjusting => e = c
    BY <1>0, SoleAdjustment, MovesTo DEF history
  <2>2. call'[c] = w
    BY <1>0, MovesTo
  <2>3. Under(Adjusting)' # {}
    BY <2>2 DEF Under
  <2>4. /\ w.at = "reading" => robot'.stepper = expected'
        /\ w.at = "adjusting" => /\ w.request.value = Sum(w.delta, expected')
                                 /\ ~w.reached /\ robot'.stepper = expected'
        /\ w.at = "clearing" => robot'.stepper = Sum(w.delta, expected')
    BY DEF history
  <2> QED BY <2>1, <2>2, <2>3, <2>4 DEF AdjustingHolds, Adjusting, Sum
<1> QED BY <1>1, <1>3, <1>4, <1>5, AdjustStep DEF history

LEMMA ReadKeeps ==
  ASSUME IInv, NEW c \in Calls, Read(c)
  PROVE  IInv'
<1>0. Plain /\ TypeOK
  BY DEF IInv, Plain
<1>1. PICK n \in 0..(presses - 1) :
        /\ IF n = robot.stepper THEN UNCHANGED faults ELSE Fault("misread")
        /\ call' = [call EXCEPT ![c].at = "adjusting",
                                ![c].request = Request("stepper", NewStepper(call[c].delta, n))]
  BY DEF Read
<1> DEFINE q == Request("stepper", NewStepper(call[c].delta, n))
           w == [call[c] EXCEPT !.at = "adjusting", !.request = q]
<1>2. call[c].at = "reading" /\ call[c].delta \in {-1, 1} /\ call[c].reached = FALSE
      /\ call[c] \in Works
  BY <1>0, Types DEF Read, IInv, Asking, Asks, Adjusting, Works
<1>3. presses \in Nat /\ presses <= MaxPresses /\ MaxPresses \in Nat /\ n \in Nat
      /\ n + 1 <= presses
  BY <1>0, Types
<1>4. NewStepper(call[c].delta, n) = Sum(call[c].delta, n)
      /\ Sum(call[c].delta, n) \in Nat /\ Sum(call[c].delta, n) <= presses
  <2>1. Sum(call[c].delta, n) \in Nat /\ Sum(call[c].delta, n) <= n + 1
        /\ NewStepper(call[c].delta, n) = Sum(call[c].delta, n)
    BY <1>2, <1>3, SumIsSent
  <2> QED BY <1>3, <2>1
<1>5. q \in Requests /\ q.field = "stepper" /\ q.value = Sum(call[c].delta, n)
  <2>1. NewStepper(call[c].delta, n) \in Steppers
    BY <1>3, <1>4 DEF Steppers
  <2> QED BY <1>4, <2>1, RequestsAre DEF Request
<1> HIDE DEF q
<1>6. w \in Works /\ w.at = "adjusting" /\ w.request = q /\ w.delta = call[c].delta
      /\ w.reached = FALSE
  <2>1. "adjusting" \in Places
    BY DEF Places
  <2> QED BY <1>2, <1>5, <2>1 DEF Works
<1>7. Moves(c, w)
  <2>1. call' = [call EXCEPT ![c] = w]
    BY <1>1 DEF q
  <2> QED BY <1>6, <2>1 DEF Moves
<1> HIDE DEF w
<1>8. Asks(w) /\ w.at \in Adjusting /\ call[c].at \in Adjusting
  BY <1>2, <1>5, <1>6 DEF Asks, Adjusting, Nothing, Request
<1>9. Worse /\ (n # robot.stepper => faults'["misread"] > 0)
  <2>1. "misread" \in Kinds
    BY DEF Kinds
  <2>2. CASE n = robot.stepper
    BY <1>0, <1>1, <2>2, FaultsKept
  <2>3. CASE n # robot.stepper
    BY <1>0, <1>1, <2>1, <2>3, FaultStep
  <2> QED BY <2>2, <2>3
<1>10. ASSUME "adjusting" \notin tangled, ~Mishap'
       PROVE  /\ w.at = "adjusting" => /\ w.request.value = Sum(w.delta, expected)
                                       /\ ~w.reached /\ robot.stepper = expected
              /\ w.at # "reading" /\ w.at # "clearing"
  <2>1. ~Mishap /\ n = robot.stepper
    BY <1>0, <1>9, <1>10, MishapKept
  <2>2. robot.stepper = expected
    BY <1>2, <1>10, <2>1 DEF IInv, AdjustingHolds
  <2> QED BY <1>5, <1>6, <2>1, <2>2
<1> QED BY <1>4, <1>5, <1>6, <1>7, <1>8, <1>9, <1>10, AdjustmentGoesOn DEF Read

LEMMA AdjustedKeeps ==
  ASSUME IInv, NEW c \in Calls, Adjusted(c)
  PROVE  IInv'
<1>0. Plain /\ TypeOK
  BY DEF IInv, Plain
<1>1. PICK w : GoesOn(c, w, "clearing", Nothing)
  <2>1. Nothing \in Requests /\ "clearing" \in Places
    BY RequestsAre DEF Places
  <2> QED BY <1>0, <2>1, SendsMoves DEF Adjusted
<1>2. call[c].at = "adjusting" /\ call[c].delta \in {-1, 1} /\ call[c].at \in Adjusting
      /\ call[c].request # Nothing
  BY DEF Adjusted, Returned, IInv, Asking, Asks, Adjusting, Nothing, Request
<1>3. /\ Moves(c, w) /\ w.at = "clearing" /\ w.reached = FALSE /\ w.delta = call[c].delta
      /\ w.request = Nothing
  BY <1>1 DEF GoesOn, Goes
<1>4. Asks(w) /\ w.at \in Adjusting /\ w.request.field # "stepper"
  BY <1>2, <1>3 DEF Asks, Adjusting, Nothing, Request
<1>5. Worse /\ (~call[c].reached => faults'["lost"] > 0)
  BY <1>0, <1>2, ReturnedStep DEF Adjusted, Missed
<1>6. ASSUME "adjusting" \notin tangled, ~Mishap'
      PROVE  robot.stepper = Sum(w.delta, expected)
  <2>1. ~Mishap /\ call[c].reached
    BY <1>0, <1>5, <1>6, MishapKept
  <2> QED BY <1>2, <1>3, <1>6, <2>1 DEF IInv, AdjustingHolds
<1> QED BY <1>2, <1>3, <1>4, <1>5, <1>6, AdjustmentGoesOn DEF Adjusted

LEMMA ClearedKeeps ==
  ASSUME IInv, NEW c \in Calls, Cleared(c)
  PROVE  IInv'
<1>0. Plain /\ TypeOK
  BY DEF IInv, Plain
<1>1. call[c].at = "clearing" /\ call[c].delta \in {-1, 1} /\ call[c].at \in Adjusting
      /\ call[c].at \notin Remote
  BY DEF Cleared, Returned, IInv, Asking, Asks, Adjusting, Remote
<1>2. Moves(c, Done) /\ Done.at \notin Adjusting /\ Done.at \notin Remote /\ Asks(Done)
      /\ Done.request.field # "stepper"
  BY EndsMoves, DoneIsDone DEF Cleared, Adjusting, Remote, Nothing, Request
<1>3. Worse
  BY <1>0, ReturnedStep DEF Cleared
<1>4. Plain'
  <2>1. Cardinality(Under(Adjusting)') = Cardinality(Under(Adjusting)) - 1
    BY <1>0, <1>1, <1>2, UnderLeft
  <2>2. expected' \in Nat /\ expected' <= expected + 1
    BY <1>0, <1>1, SumIsSent, Types DEF Cleared
  <2>3. expected' + Cardinality(Under(Adjusting)') <= presses
    BY <1>0, <2>1, <2>2, Types
  <2>4. presses <= presses' /\ presses' \in 0..MaxPresses /\ presses' = presses
    <3>1. presses \in Nat /\ presses \in 0..MaxPresses /\ presses' = presses
      BY <1>0, Types DEF Cleared
    <3> QED BY <3>1
  <2> QED BY <1>0, <1>2, <1>3, <2>2, <2>3, <2>4, PlainMoves, Types DEF Cleared
<1>5. Alone(Adjusting, "adjusting")'
  <2>1. Under(Adjusting)' \subseteq Under(Adjusting)
    BY <1>0, <1>2, UnderMoves DEF Under
  <2> QED BY <2>1, AloneKept DEF IInv, Cleared
<1>6. AdjustingHolds'
  <2> SUFFICES ASSUME "adjusting" \notin tangled', ~Mishap' PROVE AdjustingHolds'
    BY DEF AdjustingHolds
  <2>1. "adjusting" \notin tangled /\ ~Mishap
    BY <1>0, <1>3, MishapKept DEF Cleared
  <2>2. robot'.stepper = expected'
    BY <1>1, <2>1 DEF IInv, AdjustingHolds, Cleared
  <2>3. \A e \in Calls : call'[e].at \notin Adjusting
    BY <1>0, <1>1, <1>2, <2>1, SoleAdjustment, MovesTo
  <2> QED BY <2>2, <2>3 DEF AdjustingHolds, Adjusting
<1> QED BY <1>1, <1>2, <1>3, <1>4, <1>5, <1>6, AdjustStep DEF Cleared

-----------------------------------------------------------------------------
(* The robot obeys, and the rest.                                          *)

\* Which calls can start the wheels, and which set the stepper.
LEMMA OnlyThey ==
  ASSUME NEW w \in Works, Asks(w)
  PROVE  /\ w.request.field = "wheels" /\ w.request.value # "still" => w.at = "steering"
         /\ w.request.field = "stepper" => w.at = "adjusting"
         /\ w.at = "halting" => w.request.field = "wheels" /\ w.request.value = "still"
         /\ w.at = "leaving" => w.request.field = "state"
         /\ w.at = "adjusting" => w.request.field = "stepper"
<1>1. w.at \in Places
  BY DEF Works
<1> QED BY <1>1 DEF Asks, Places, Nothing, Request

LEMMA ReachKeeps ==
  ASSUME IInv, NEW c \in Calls, Reach(c)
  PROVE  IInv'
<1>0. Plain /\ TypeOK
  BY DEF IInv, Plain
<1> DEFINE q == call[c].request
           w == [call[c] EXCEPT !.reached = TRUE]
<1>1. call[c] \in Works /\ Asks(call[c]) /\ q \in Requests /\ q # Nothing
  BY <1>0, Types DEF IInv, Asking, Works, Reach
<1>2. w \in Works /\ w.at = call[c].at /\ w.request = q /\ w.delta = call[c].delta
      /\ w.reached = TRUE
  BY <1>1 DEF Works
<1>3. Moves(c, w)
  BY <1>2 DEF Moves, Reach
<1>4. Asks(w)
  BY <1>1, <1>2 DEF Asks
<1> HIDE DEF w
<1>5. robot' = Obey(robot, q) /\ robot \in Robots /\ robot' \in Robots
  BY <1>0, <1>1, Obeys, Types DEF Reach
<1>6. /\ q.field = "state" => robot'.state = q.value /\ robot'.wheels = "still"
      /\ q.field # "state" => robot'.state = robot.state
      /\ q.field = "wheels" =>
           robot'.wheels = IF robot.state = "paused" THEN q.value ELSE robot.wheels
      /\ q.field \notin {"state", "wheels"} => robot'.wheels = robot.wheels
      /\ robot'.stepper = IF q.field = "stepper" THEN q.value ELSE robot.stepper
  BY <1>1, <1>5, Obeys
<1>7. Worse
  <2>1. "doubled" \in Kinds
    BY DEF Kinds
  <2> QED BY <1>0, <2>1, FaultStep, FaultsKept DEF Reach
<1>8. \A places : Under(places)' = Under(places)
  BY <1>0, <1>2, <1>3, UnderSame
<1>9. UNCHANGED <<remote, cooling, shown, poll, presses, expected, tangled, halted>>
  BY DEF Reach, history
<1>10. \A d \in Calls \ {c} : call'[d] = call[d]
  BY <1>0, <1>3, MovesTo
<1>11. call'[c] = w
  BY <1>0, <1>3, MovesTo
<1>12. Plain'
  <2>1. robot'.state # "paused" => robot'.wheels = "still"
    BY <1>0, <1>6, Types
  <2>2. q.field = "stepper" => q.value <= presses
    BY <1>0 DEF Plain, Counted
  <2>3. robot'.stepper <= presses /\ presses \in Nat
    BY <1>0, <1>6, <2>2, Types
  <2>4. presses <= presses' /\ presses' \in 0..MaxPresses /\ presses' = presses
    <3>1. presses \in Nat /\ presses \in 0..MaxPresses /\ presses' = presses
      BY <1>0, <1>9, Types
    <3> QED BY <3>1
  <2>5. expected' \in Nat /\ expected' + Cardinality(Under(Adjusting)') <= presses'
    BY <1>0, <1>8, <1>9, Types
  <2> QED BY <1>0, <1>2, <1>3, <1>4, <1>5, <1>7, <1>9, <2>1, <2>2, <2>3, <2>4, <2>5, PlainMoves,
             Types
<1>13. Alone(Remote, "remote")' /\ Alone(Adjusting, "adjusting")'
  BY <1>8, <1>9, AloneKept DEF IInv
<1>14. RemoteHolds'
  <2> SUFFICES ASSUME "remote" \notin tangled' PROVE RemoteHolds'
    BY DEF RemoteHolds
  <2>0. "remote" \notin tangled
    BY <1>9
  <2>1. call[c].at # "steering" /\ robot.wheels = "still" => robot'.wheels = "still"
    <3>1. q.field = "wheels" /\ call[c].at # "steering" => q.value = "still"
      BY <1>1, OnlyThey
    <3> QED BY <1>6, <3>1
  <2>2. call[c].at \in {"halting", "leaving"} => robot'.wheels = "still"
    <3>1. call[c].at = "halting" => q.field = "wheels" /\ q.value = "still"
      BY <1>1, OnlyThey
    <3>2. call[c].at = "leaving" => q.field = "state"
      BY <1>1, OnlyThey
    <3>3. robot.state # "paused" => robot.wheels = "still"
      BY <1>0, Types
    <3> QED BY <1>6, <3>1, <3>2, <3>3
  <2>3. ASSUME NEW d \in Calls
        PROVE  /\ call'[d].at = "steering" => remote'
               /\ call'[d].at \in {"halting", "leaving"} /\ call'[d].reached
                    => robot'.wheels = "still"
    <3>1. CASE d = c
      BY <1>2, <1>9, <1>11, <2>0, <2>2, <3>1 DEF IInv, RemoteHolds
    <3>2. CASE d # c
      <4>1. call'[d] = call[d]
        BY <1>10, <3>2
      <4>2. call[d].at \in {"halting", "leaving"} => call[c].at # "steering"
        BY <2>0, <3>2, Sole DEF Remote
      <4> QED BY <1>9, <2>0, <2>1, <4>1, <4>2 DEF IInv, RemoteHolds
    <3> QED BY <3>1, <3>2
  <2>4. faults["lost"] \in Nat /\ faults["restarted"] \in Nat
        /\ faults'["lost"] \in Nat /\ faults'["restarted"] \in Nat
        /\ faults["lost"] <= faults'["lost"] /\ faults["restarted"] <= faults'["restarted"]
    BY <1>0, <1>7, CommandsAssumption DEF TypeOK, Worse, Kinds
  <2>5. ASSUME halted'
        PROVE  /\ Under(Remote)' = {} /\ ~remote'
               /\ robot'.wheels = "still" \/ faults'["lost"] > 0
    <3>1. /\ Under(Remote) = {} /\ ~remote
          /\ robot.wheels = "still" \/ faults["lost"] > 0
      BY <1>9, <2>0, <2>5 DEF IInv, RemoteHolds
    <3>2. call[c].at # "steering"
      BY <3>1 DEF Under, Remote
    <3> QED BY <1>8, <1>9, <2>1, <2>4, <3>1, <3>2
  <2>6. robot'.wheels = "driving" => remote' \/ faults'["restarted"] + faults'["lost"] > 0
    <3>1. CASE call[c].at = "steering"
      BY <1>9, <2>0, <3>1 DEF IInv, RemoteHolds
    <3>2. CASE call[c].at # "steering" /\ robot'.wheels = "driving"
      <4>1. robot.wheels = "driving"
        <5>1. robot.wheels \in {"still", "driving"}
          BY <1>5 DEF Robots, Wheels
        <5> QED BY <2>1, <3>2, <5>1
      <4>2. remote \/ faults["restarted"] + faults["lost"] > 0
        BY <2>0, <4>1 DEF IInv, RemoteHolds
      <4> QED BY <1>9, <2>4, <4>2
    <3> QED BY <3>1, <3>2
  <2> QED BY <2>3, <2>5, <2>6 DEF RemoteHolds
<1>15. AdjustingHolds'
  <2>1. CASE call[c].at \notin Adjusting
    <3>1. robot'.stepper = robot.stepper
      BY <1>1, <1>6, <2>1, OnlyThey DEF Adjusting
    <3> QED BY <1>0, <1>2, <1>3, <1>7, <1>9, <2>1, <3>1, AdjustingKept DEF IInv
  <2>2. CASE call[c].at \in Adjusting
    <3> SUFFICES ASSUME "adjusting" \notin tangled', ~Mishap' PROVE AdjustingHolds'
      BY DEF AdjustingHolds
    <3>0. "adjusting" \notin tangled /\ ~Mishap
      BY <1>0, <1>7, <1>9, MishapKept
    <3>1. call[c].at = "adjusting" /\ q.field = "stepper"
      BY <1>1, <2>2, OnlyThey DEF Adjusting, Asks
    <3>2. robot'.stepper = q.value /\ q.value = Sum(call[c].delta, expected)
      BY <1>6, <3>0, <3>1 DEF IInv, AdjustingHolds
    <3>3. \A e \in Calls : call'[e].at \in Adjusting => e = c
      BY <1>10, <2>2, <3>0, SoleAdjustment
    <3>4. Under(Adjusting)' # {}
      BY <1>8, <2>2 DEF Under
    <3> QED BY <1>2, <1>9, <1>11, <3>1, <3>2, <3>3, <3>4 DEF AdjustingHolds, Adjusting
  <2> QED BY <2>1, <2>2
<1> QED BY <1>12, <1>13, <1>14, <1>15 DEF IInv, Plain

LEMMA RaiseKeeps ==
  ASSUME IInv, NEW c \in Calls, Raise(c)
  PROVE  IInv'
<1>0. Plain /\ TypeOK
  BY DEF IInv, Plain
<1>1. Moves(c, Done) /\ Done.at \notin Adjusting /\ Done.at \notin Remote /\ Asks(Done)
      /\ Done.request.field # "stepper"
  BY DoneIsDone DEF Moves, Raise, Adjusting, Remote, Nothing, Request
<1>2. Worse /\ faults'["raised"] > 0
  <2>1. "raised" \in Kinds
    BY DEF Kinds
  <2> QED BY <1>0, <2>1, FaultStep DEF Raise
<1>3. UNCHANGED <<robot, remote, cooling, shown, poll, presses, expected, tangled, halted>>
  BY DEF Raise, history
<1>4. Under(Remote)' \subseteq Under(Remote) /\ Under(Adjusting)' \subseteq Under(Adjusting)
  BY <1>0, <1>1, UnderMoves DEF Under
<1>5. Plain'
  <2>1. Cardinality(Under(Adjusting)') \in Nat
        /\ Cardinality(Under(Adjusting)') <= Cardinality(Under(Adjusting))
    BY <1>4, UnderFinite, FS_Subset, FS_CardinalityType
  <2>2. expected' \in Nat /\ expected' + Cardinality(Under(Adjusting)') <= presses'
    BY <1>0, <1>3, <2>1, Types
  <2>3. presses <= presses' /\ presses' \in 0..MaxPresses /\ presses' = presses
    <3>1. presses \in Nat /\ presses \in 0..MaxPresses /\ presses' = presses
      BY <1>0, <1>3, Types
    <3> QED BY <3>1
  <2> QED BY <1>0, <1>1, <1>2, <1>3, <2>2, <2>3, PlainMoves, Types
<1>6. Alone(Remote, "remote")' /\ Alone(Adjusting, "adjusting")'
  BY <1>3, <1>4, AloneKept DEF IInv
<1>7. RemoteHolds'
  BY <1>0, <1>1, <1>2, <1>3, RemoteKept DEF IInv
<1>8. AdjustingHolds'
  BY <1>0, <1>2, AdjustingSpoilt
<1> QED BY <1>5, <1>6, <1>7, <1>8 DEF IInv, Plain

LEMMA RestartKeeps ==
  ASSUME IInv, Restart
  PROVE  IInv'
<1>0. Plain /\ TypeOK
  BY DEF IInv, Plain
<1>1. Worse /\ faults'["restarted"] > 0
  <2>1. "restarted" \in Kinds
    BY DEF Kinds
  <2> QED BY <1>0, <2>1, FaultStep DEF Restart
<1>2. /\ UNCHANGED <<robot, presses, expected, tangled, halted>>
      /\ remote' = FALSE /\ cooling' = FALSE /\ shown' \in Speeds /\ poll' = NoPoll
      /\ call' = [c \in Calls |-> Done]
  BY DEF Restart, history
<1>3. call' \in [Calls -> Works] /\ \A c \in Calls : call'[c] = Done
  BY <1>2, DoneIsDone
<1>4. Under(Remote)' = {} /\ Under(Adjusting)' = {}
  BY <1>3, DoneIsDone DEF Under, Remote, Adjusting
<1>5. TypeOK'
  BY <1>0, <1>1, <1>2, <1>3 DEF TypeOK, Worse, Works
<1>6. Counted'
  <2>1. Cardinality(Under(Adjusting)') = 0
    BY <1>4, FS_EmptySet
  <2>2. expected' + Cardinality(Under(Adjusting)') <= presses'
    BY <1>0, <1>2, <2>1, Types
  <2>3. \A c \in Calls : call'[c].request.field # "stepper"
    BY <1>3, DoneIsDone DEF Nothing, Request
  <2> QED BY <1>0, <1>2, <2>2, <2>3 DEF Counted, Plain
<1>7. Asking' /\ Grounded'
  BY <1>0, <1>2, <1>3, DoneIsDone DEF Asking, Grounded, Plain
<1>8. Alone(Remote, "remote")' /\ Alone(Adjusting, "adjusting")'
  BY <1>4 DEF Alone
<1>9. RemoteHolds'
  <2>1. \A c \in Calls : call'[c].at = "done"
    BY <1>3, DoneIsDone
  <2>2. faults'["restarted"] + faults'["lost"] > 0
        /\ (faults["lost"] > 0 => faults'["lost"] > 0)
    BY <1>0, <1>1, CommandsAssumption DEF TypeOK, Worse, Kinds
  <2> QED BY <1>2, <1>4, <2>1, <2>2 DEF IInv, RemoteHolds
<1>10. AdjustingHolds'
  BY <1>0, <1>1, AdjustingSpoilt
<1> QED BY <1>5, <1>6, <1>7, <1>8, <1>9, <1>10 DEF IInv

\* The debounce, and polls; and what leaves every variable as it is.
LEMMA QuietKeeps ==
  ASSUME IInv, UNCHANGED <<robot, call, remote, faults, history>>,
         cooling' \in BOOLEAN, shown' \in Speeds, poll' \in Speeds \cup {NoPoll},
         presses' \in 0..MaxPresses, presses <= presses'
  PROVE  IInv'
<1>0. Plain /\ TypeOK
  BY DEF IInv, Plain
<1>1. UNCHANGED <<robot, call, remote, faults, expected, tangled, halted>>
  BY DEF history
<1>2. TypeOK'
  BY <1>0, <1>1 DEF TypeOK
<1>3. \A places : Under(places)' = Under(places)
  BY <1>1 DEF Under
<1>4. Counted'
  <2>1. presses' \in Nat
    BY <1>0, Types
  <2>2. \A c \in Calls : call[c].request.field = "stepper" => call[c].request.value <= presses'
    <3> SUFFICES ASSUME NEW c \in Calls, call[c].request.field = "stepper"
                 PROVE  call[c].request.value <= presses'
      OBVIOUS
    <3>1. call[c].request \in Requests /\ call[c].request.value <= presses
      BY <1>0 DEF TypeOK, Plain, Counted
    <3>2. call[c].request.value \in Nat
      BY <3>1, RequestFields, CommandsAssumption DEF Steppers
    <3>3. presses \in Nat
      BY <1>0, Types
    <3> QED BY <2>1, <3>1, <3>2, <3>3
  <2>3. robot.stepper <= presses'
    BY <1>0, <2>1, Types
  <2>4. expected + Cardinality(Under(Adjusting)) <= presses'
    BY <1>0, <2>1, Types
  <2> QED BY <1>1, <1>3, <2>2, <2>3, <2>4 DEF Counted
<1>5. Asking' /\ Grounded' /\ Alone(Remote, "remote")' /\ Alone(Adjusting, "adjusting")'
  BY <1>1, <1>3 DEF IInv, Asking, Grounded, Alone
<1>6. RemoteHolds'
  BY <1>1, <1>3 DEF IInv, RemoteHolds
<1>7. AdjustingHolds'
  BY <1>1, <1>3 DEF IInv, AdjustingHolds, Mishap
<1> QED BY <1>2, <1>4, <1>5, <1>6, <1>7 DEF IInv

-----------------------------------------------------------------------------
(* The theorems.                                                           *)

LEMMA Initially ==
  Init => IInv
<1> SUFFICES ASSUME Init PROVE IInv
  OBVIOUS
<1>1. MaxPresses \in Nat /\ MaxFaults \in Nat /\ 0 \in 0..MaxPresses /\ 0 \in 0..MaxFaults
  BY CommandsAssumption
<1>2. call \in [Calls -> Works] /\ \A c \in Calls : call[c] = Done
  BY DoneIsDone DEF Init
<1>3. Under(Remote) = {} /\ Under(Adjusting) = {}
  BY <1>2, DoneIsDone DEF Under, Remote, Adjusting
<1>4. robot \in Robots /\ robot.state = "stopped" /\ robot.wheels = "still" /\ robot.stepper = 0
  BY <1>1 DEF Init, Robots, States, Wheels, Steppers
<1>5. TypeOK
  BY <1>1, <1>2, <1>4 DEF Init, TypeOK, Robots, Works, Steppers
<1>6. Counted
  <2>1. Cardinality(Under(Adjusting)) = 0
    BY <1>3, FS_EmptySet
  <2>2. \A c \in Calls : call[c].request.field # "stepper"
    BY <1>2, DoneIsDone DEF Nothing, Request
  <2>3. presses = 0 /\ expected = 0
    BY DEF Init
  <2> QED BY <1>4, <2>1, <2>2, <2>3 DEF Counted
<1>7. Asking /\ Grounded
  BY <1>2, <1>4, DoneIsDone DEF Asking, Grounded
<1>8. Alone(Remote, "remote") /\ Alone(Adjusting, "adjusting")
  BY <1>3 DEF Alone
<1>9. RemoteHolds
  BY <1>2, <1>4, DoneIsDone DEF RemoteHolds, Init
<1>10. AdjustingHolds
  BY <1>2, <1>4, DoneIsDone DEF AdjustingHolds, Init
<1> QED BY <1>5, <1>6, <1>7, <1>8, <1>9, <1>10 DEF IInv

LEMMA Inductive ==
  IInv /\ [Next]_vars => IInv'
<1> SUFFICES ASSUME IInv, [Next]_vars PROVE IInv'
  OBVIOUS
<1>0. Plain /\ presses \in Nat /\ MaxPresses \in Nat /\ presses \in 0..MaxPresses
  <2>1. Plain
    BY DEF IInv, Plain
  <2> QED BY <2>1, Types
<1>1. cooling \in BOOLEAN /\ shown \in Speeds /\ poll \in Speeds \cup {NoPoll}
      /\ robot.speed \in Speeds /\ presses <= presses
  BY <1>0, Types DEF Robots
<1>2. ASSUME NEW c \in Calls, Begin(c) PROVE IInv'
  <2>1. CASE SetState(c)
    BY <2>1, SetStateKeeps
  <2>2. CASE Steer(c)
    BY <2>2, SteerKeeps
  <2>3. CASE Halt(c)
    BY <2>3, HaltKeeps
  <2>4. CASE SetSpeed(c)
    BY <2>4, SetSpeedKeeps
  <2>5. CASE Adjust(c)
    BY <2>5, AdjustKeeps
  <2>6. CASE AdjustSuspended(c)
    <3>1. presses' \in 0..MaxPresses /\ presses <= presses'
      BY <1>0, <2>6, PressStep DEF AdjustSuspended
    <3> QED BY <1>1, <2>6, <3>1, QuietKeeps DEF AdjustSuspended
  <2> QED BY <1>2, <2>1, <2>2, <2>3, <2>4, <2>5, <2>6 DEF Begin
<1>3. ASSUME NEW c \in Calls, Return(c) PROVE IInv'
  BY <1>3, StateIsSetKeeps, EnteredKeeps, StoppedKeeps, LeftKeeps, ReadKeeps, AdjustedKeeps,
     ClearedKeeps, SpeedIsSetKeeps DEF Return
<1>4. CASE CoolsDown
  BY <1>0, <1>1, <1>4, QuietKeeps DEF CoolsDown
<1>5. CASE PollReads
  BY <1>0, <1>1, <1>5, QuietKeeps DEF PollReads
<1>6. CASE PollEnds
  <2>1. shown' \in Speeds
    BY <1>1, <1>6 DEF PollEnds
  <2> QED BY <1>0, <1>1, <1>6, <2>1, QuietKeeps DEF PollEnds
<1>7. CASE Restart
  BY <1>7, RestartKeeps
<1>8. CASE UNCHANGED vars
  BY <1>0, <1>1, <1>8, QuietKeeps DEF vars, history
<1>9. CASE \E c \in Calls : Reach(c) \/ Raise(c)
  BY <1>9, ReachKeeps, RaiseKeeps
<1> QED BY <1>2, <1>3, <1>4, <1>5, <1>6, <1>7, <1>8, <1>9 DEF Next

LEMMA Invariance ==
  Spec => []IInv
<1>1. Init => IInv
  BY Initially
<1>2. IInv /\ [Next]_vars => IInv'
  BY Inductive
<1> QED BY <1>1, <1>2, PTL DEF Spec

\* The variables have their types; what is asked of the robot's stepper, and what the
\* adjustments add up to, stay within what was pressed.
THEOREM TypeCorrect ==
  Spec => []TypeOK
<1>1. IInv => TypeOK
  BY DEF IInv
<1> QED BY <1>1, Invariance, PTL

\* After a remote stop the robot stands still and the flag is down, whatever other
\* commands and polls interleave, unless remote commands overlapped or the stop was lost.
THEOREM AStopHolds ==
  Spec => []HaltHolds
<1>1. IInv => HaltHolds
  BY DEF IInv, RemoteHolds, HaltHolds
<1> QED BY <1>1, Invariance, PTL

\* While the wheels turn, _remote_control_active is up.
THEOREM TheDriverIsKnown ==
  Spec => []DrivingIsKnown
<1>1. IInv => DrivingIsKnown
  BY DEF IInv, RemoteHolds, DrivingIsKnown
<1> QED BY <1>1, Invariance, PTL

\* Timing adjustments that do not overlap and read the robot's stepper add up, also
\* when a request reaches the robot twice.
THEOREM TimeAddsUp ==
  Spec => []AdjustmentsAddUp
<1>1. IInv => AdjustmentsAddUp
  BY DEF IInv, AdjustingHolds, AdjustmentsAddUp, Mishap
<1> QED BY <1>1, Invariance, PTL
=============================================================================
