---------------------------- MODULE ReadingsProofs ----------------------------
(* What the entities show of the updates of Readings, for any statuses and *)
(* any settings of the stabiliser.                                         *)
EXTENDS Readings, FiniteSetTheorems, TLAPS

\* An update is what a parser or a fallback can make: what is degraded comes without
\* an activity.
Sound(d) ==
  /\ d.activity \in Activities \cup {"unknown"}
  /\ d.degraded => d.activity = "unknown"

\* The entity keeps a status and an activity, and the activity is the one last told.
VacuumInv ==
  /\ vacuum = [status |-> vacuum.status, activity |-> vacuum.activity]
  /\ vacuum.activity = told

\* Parsers and fallbacks make sound updates.
LEMMA ResultsAreSound ==
  ASSUME NEW answer \in Answers, NEW givenUp \in BOOLEAN, NEW activity \in Activities
  PROVE  Sound(Result(answer, givenUp, activity))
<1>1. CASE answer \in Readable
  BY <1>1 DEF Sound, Result, Parse, Dict, Readable
<1>2. CASE answer = "empty"
  BY <1>2 DEF Sound, Result, Dict, Readable
<1>3. CASE answer = "silent"
  BY <1>3 DEF Sound, Result, Dict, Readable
<1> QED BY <1>1, <1>2, <1>3 DEF Answers

\* So does the parser of a push.
LEMMA PushesAreSound ==
  ASSUME NEW status, NEW answer \in Readable, NEW activity \in Activities
  PROVE  Sound(Parse(status, answer, activity))
BY DEF Sound, Parse, Dict, Readable

\* A sound update leaves the vacuum with the activity last told.
LEMMA PublishKeepsActivity ==
  ASSUME VacuumInv, NEW d, Sound(d), Publish(d)
  PROVE  VacuumInv'
<1>1. vacuum' = Vacuum(d) /\ told' = IF d.activity \in Activities THEN d.activity ELSE told
  BY DEF Publish
<1>2. CASE d.degraded
  <2>1. told' = told
    BY <1>1, <1>2 DEF Sound, Activities
  <2>2. CASE d.status = "absent"
    BY <1>1, <1>2, <2>1, <2>2 DEF Vacuum, VacuumInv
  <2>3. CASE d.status # "absent"
    <3>1. vacuum' = [vacuum EXCEPT !.status = d.status]
      BY <1>1, <1>2, <2>3 DEF Vacuum
    <3>2. vacuum' = [status |-> d.status, activity |-> vacuum.activity]
      BY <3>1 DEF VacuumInv
    <3> QED BY <2>1, <3>2 DEF VacuumInv
  <2> QED BY <2>2, <2>3
<1>3. CASE ~d.degraded
  <2>1. /\ vacuum'.activity = Activity(d)
        /\ vacuum' = [status |-> vacuum'.status, activity |-> vacuum'.activity]
    BY <1>1, <1>3 DEF Vacuum
  <2>2. Activity(d) = told'
    BY <1>1 DEF Activity, Sound, Activities, VacuumInv
  <2> QED BY <2>1, <2>2 DEF VacuumInv
<1> QED BY <1>2, <1>3

\* The steps, one by one.
LEMMA StepKeepsActivity == VacuumInv /\ [Next]_vars => VacuumInv'
<1> SUFFICES ASSUME VacuumInv, [Next]_vars PROVE VacuumInv'
  OBVIOUS
<1>1. CASE Poll
  <2>1. PICK answer \in Answers, givenUp \in BOOLEAN, activity \in Activities :
          Publish(Result(answer, givenUp, activity))
    BY <1>1 DEF Poll
  <2> QED BY <2>1, ResultsAreSound, PublishKeepsActivity
<1>2. CASE Push
  <2>1. PICK answer \in Readable, s \in {lastKnown, robot}, activity \in Activities :
          Publish(Parse(IF Parsed(stabilizer, s, answer) = stabilizer THEN "absent"
                        ELSE Parsed(stabilizer, s, answer).stable, answer, activity))
    BY <1>2 DEF Push
  <2> QED BY <2>1, PushesAreSound, PublishKeepsActivity
<1>3. CASE Peek \/ Change \/ Tick \/ UNCHANGED vars
  <2>1. UNCHANGED <<vacuum, told>>
    BY <1>3 DEF Peek, Change, Tick, vars, entities
  <2> QED BY <2>1 DEF VacuumInv
<1> QED BY <1>1, <1>2, <1>3 DEF Next

\* The vacuum shows the last activity that the robot has reported: neither a
\* degraded update nor an answer without an activity changes it (_apply_activity,
\* _apply_degraded_state).
THEOREM ActivityIsKept == Spec => []VacuumKeepsActivity
<1>1. Init => VacuumInv
  BY DEF Init, VacuumInv
<1>2. VacuumInv => VacuumKeepsActivity
  BY DEF VacuumInv, VacuumKeepsActivity
<1> QED BY <1>1, <1>2, StepKeepsActivity, PTL DEF Spec

\* Whatever the stabiliser's settings are, the sensor changes to what it has
\* accepted and to nothing else (native_value, _degraded_result).
THEOREM SensorFollowsStabilizer == Spec => SensorIsDebounced
<1> DEFINE Debounced == sensor # None /\ sensor' # sensor => sensor' = stabilizer'.stable
<1>1. [Next]_vars => [Debounced]_vars
  <2> SUFFICES ASSUME Next, sensor # None, sensor' # sensor
               PROVE  sensor' = stabilizer'.stable
    OBVIOUS
  <2>1. ASSUME NEW d, Publish(d)
        PROVE  ~d.degraded /\ d.status # "absent" /\ sensor' = d.status
    BY <2>1 DEF Publish, Sensor
  <2>2. CASE Poll
    <3>1. PICK answer \in Answers, givenUp \in BOOLEAN, activity \in Activities :
            Publish(Result(answer, givenUp, activity))
      BY <2>2 DEF Poll
    <3> DEFINE d == Result(answer, givenUp, activity)
    <3>2. ~d.degraded /\ sensor' = d.status
      BY <3>1, <2>1
    <3>3. answer \in Readable
      BY <3>2 DEF Result, Dict, Answers, Readable
    <3>4. d.status = stabilizer'.stable
      BY <3>3 DEF Result, Parse, Dict, Readable
    <3> QED BY <3>2, <3>4
  <2>3. CASE Push
    <3>1. PICK answer \in Readable, s \in {lastKnown, robot}, activity \in Activities :
            /\ stabilizer' = Parsed(stabilizer, s, answer)
            /\ Publish(Parse(IF Parsed(stabilizer, s, answer) = stabilizer THEN "absent"
                             ELSE Parsed(stabilizer, s, answer).stable, answer, activity))
      BY <2>3 DEF Push
    <3> DEFINE status == IF Parsed(stabilizer, s, answer) = stabilizer THEN "absent"
                         ELSE Parsed(stabilizer, s, answer).stable
               d == Parse(status, answer, activity)
    <3>2. d.status # "absent" /\ sensor' = d.status
      BY <3>1, <2>1
    <3>3. d.status = status
      BY DEF Parse, Dict
    <3> QED BY <3>1, <3>2, <3>3
  <2>4. ~(Peek \/ Change \/ Tick)
    BY DEF Peek, Change, Tick, entities
  <2> QED BY <2>2, <2>3, <2>4 DEF Next
<1> QED BY <1>1, PTL DEF Spec, SensorIsDebounced

-----------------------------------------------------------------------------
(* The stabiliser.                                                         *)

Entries == [status : Statuses, age : 0..Window, nth : 0..1]
Stabilizers == [history : SUBSET Entries, stable : Statuses \cup {None}, since : 0..Duration]

\* A change that was accepted less than Duration ago is still in the history: the
\* reading it was accepted for.
Backed(b) ==
  b.stable # None /\ b.since < Duration =>
    \E e \in b.history : e.status = b.stable /\ e.age = b.since

Steady(b) == b \in Stabilizers /\ IsFiniteSet(b.history) /\ Backed(b)

\* What AgreedStatusIsStable says, of any stabiliser.
Agreed(b) ==
  \A s \in Statuses :
    (\A e \in Younger(b.history, Duration) : e.status = s) => b.stable = s

LEMMA Constants ==
  /\ Duration \in Nat /\ Duration > 0 /\ Window \in Nat /\ Duration <= Window /\ Window > 0
  /\ None \notin Statuses /\ "absent" \notin Statuses
BY ReadingsAssumption DEF Statuses, Fallbacks, None

\* The reading in hand joins the history, and what is out of the window leaves it.
Joined(b, s) == Younger(b.history \cup {Entry(b.history, s)}, Window)

LEMMA JoinedIs ==
  ASSUME NEW b, Steady(b), NEW s \in Statuses, Cardinality(Younger(b.history, 1)) \in 0..1
  PROVE  /\ Joined(b, s) \subseteq Entries /\ IsFiniteSet(Joined(b, s))
         /\ Entry(b.history, s) \in Joined(b, s)
         /\ Entry(b.history, s).status = s /\ Entry(b.history, s).age = 0
         /\ \A e \in b.history : e.age < Window => e \in Joined(b, s)
<1> DEFINE x == Entry(b.history, s)
<1>1. x \in Entries /\ x.status = s /\ x.age = 0
  <2>1. 0 \in 0..Window
    BY Constants
  <2> QED BY <2>1 DEF Entry, Entries
<1>2. b.history \subseteq Entries /\ IsFiniteSet(b.history)
  BY DEF Steady, Stabilizers
<1>3. IsFiniteSet(b.history \cup {x})
  BY <1>2, FS_AddElement
<1>4. Joined(b, s) \subseteq b.history \cup {x}
  BY DEF Joined, Younger
<1>5. IsFiniteSet(Joined(b, s))
  BY <1>3, <1>4, FS_Subset
<1>6. x.age < Window
  BY <1>1, Constants
<1> QED BY <1>1, <1>2, <1>4, <1>5, <1>6 DEF Joined, Younger

\* A status is taken at once, kept, or changed.
LEMMA StabilizedIs ==
  ASSUME NEW b \in Stabilizers, NEW s \in Statuses
  PROVE  LET read == [b EXCEPT !.history = Joined(b, s)] IN
         /\ read.history = Joined(b, s) /\ read.stable = b.stable /\ read.since = b.since
         /\ Stabilized(b, s).history = Joined(b, s)
         /\ IF b.stable = None \/ (s # b.stable /\ Accepts(read, s))
            THEN Stabilized(b, s) = [history |-> Joined(b, s), stable |-> s, since |-> 0]
            ELSE Stabilized(b, s) =
                   [history |-> Joined(b, s), stable |-> b.stable, since |-> b.since]
BY DEF Stabilized, Joined, Stabilizers

\* One reading leaves the stabiliser steady, and settled where all recent readings agree.
LEMMA StabilizedHolds ==
  ASSUME NEW b, Steady(b), NEW s \in Statuses, Cardinality(Younger(b.history, 1)) \in 0..1
  PROVE  /\ Steady(Stabilized(b, s)) /\ Agreed(Stabilized(b, s))
         /\ Stabilized(b, s).stable \in Statuses
<1> DEFINE h == Joined(b, s)
           x == Entry(b.history, s)
           read == [b EXCEPT !.history = h]
           c == Stabilized(b, s)
<1>1. b \in Stabilizers /\ b.stable \in Statuses \cup {None} /\ b.since \in 0..Duration
      /\ b.since \in Nat
  BY Constants DEF Steady, Stabilizers
<1>2. /\ h \subseteq Entries /\ IsFiniteSet(h) /\ x \in h /\ x.status = s /\ x.age = 0
      /\ \A e \in b.history : e.age < Window => e \in h
  BY JoinedIs
<1>3. /\ read.history = h /\ read.stable = b.stable /\ read.since = b.since
      /\ c.history = h
      /\ IF b.stable = None \/ (s # b.stable /\ Accepts(read, s))
         THEN c = [history |-> h, stable |-> s, since |-> 0]
         ELSE c = [history |-> h, stable |-> b.stable, since |-> b.since]
  BY <1>1, StabilizedIs
<1> HIDE DEF h, x, read, c
<1>4. CASE b.stable = None \/ (s # b.stable /\ Accepts(read, s))
  <2>1. c = [history |-> h, stable |-> s, since |-> 0] /\ 0 \in 0..Duration
    BY <1>3, <1>4, Constants
  <2>2. c \in Stabilizers
    BY <1>2, <2>1 DEF Stabilizers
  <2>3. Backed(c)
    BY <1>2, <2>1 DEF Backed
  <2>4. Agreed(c)
    <3>1. x \in Younger(c.history, Duration)
      BY <1>2, <2>1, Constants DEF Younger
    <3> QED BY <1>2, <2>1, <3>1 DEF Agreed
  <2> QED BY <1>2, <2>1, <2>2, <2>3, <2>4 DEF Steady, c
<1>5. CASE b.stable # None /\ ~(s # b.stable /\ Accepts(read, s))
  <2>1. c = [history |-> h, stable |-> b.stable, since |-> b.since] /\ b.stable \in Statuses
    BY <1>1, <1>3, <1>5
  <2>2. c \in Stabilizers
    BY <1>1, <1>2, <2>1 DEF Stabilizers
  <2>3. ASSUME b.since < Duration
        PROVE  \E e \in h : e.status = b.stable /\ e.age = b.since
    <3>1. PICK e \in b.history : e.status = b.stable /\ e.age = b.since
      BY <1>5, <2>3 DEF Steady, Backed
    <3>2. e.age < Window
      BY <1>1, <2>3, <3>1, Constants
    <3> QED BY <1>2, <3>1, <3>2
  <2>4. Backed(c)
    BY <2>1, <2>3 DEF Backed
  <2>5. ASSUME NEW v \in Statuses, \A e \in Younger(h, Duration) : e.status = v
        PROVE  b.stable = v
    <3>1. x \in Younger(h, Duration)
      BY <1>2, Constants DEF Younger
    <3>2. v = s
      BY <1>2, <2>5, <3>1
    <3>3. CASE b.since < Duration
      <4>1. PICK e \in h : e.status = b.stable /\ e.age = b.since
        BY <2>3, <3>3
      <4>2. e \in Younger(h, Duration)
        BY <3>3, <4>1 DEF Younger
      <4> QED BY <2>5, <4>1, <4>2
    <3>4. CASE b.since >= Duration
      <4> DEFINE recent == Younger(h, Duration)
      <4>1. {e \in recent : e.status = s} = recent
        BY <2>5, <3>2
      <4>2. Cardinality(recent) \in Nat
        <5>1. recent \subseteq h
          BY DEF Younger
        <5> QED BY <1>2, <5>1, FS_Subset, FS_CardinalityType
      <4>3. 10 * Cardinality(recent) >= 7 * Cardinality(recent)
        BY <4>2
      <4>4. Accepts(read, s)
        BY <1>3, <3>4, <4>1, <4>3 DEF Accepts, Count
      <4> QED BY <1>5, <3>2, <4>4
    <3> QED BY <1>1, <3>3, <3>4, Constants
  <2>6. Agreed(c)
    BY <2>1, <2>5 DEF Agreed
  <2> QED BY <1>2, <2>1, <2>2, <2>4, <2>6 DEF Steady, c
<1> QED BY <1>4, <1>5

\* Nothing was read in this tick yet.
LEMMA UnreadIs ==
  ASSUME Steady(stabilizer), ~Read
  PROVE  Younger(stabilizer.history, 1) = {}
BY DEF Steady, Stabilizers, Entries, Younger, Read

\* The second reading of a tick, which the cyclobat parser makes of the same answer.
LEMMA ParsedHolds ==
  ASSUME Steady(stabilizer), ~Read, NEW s \in Statuses, NEW answer
  PROVE  LET c == Parsed(Stabilized(stabilizer, s), s, answer) IN
         Steady(c) /\ Agreed(c) /\ c.stable \in Statuses
<1> DEFINE b == Stabilized(stabilizer, s)
<1>1. Cardinality(Younger(stabilizer.history, 1)) \in 0..1
  BY UnreadIs, FS_EmptySet
<1>2. Steady(b) /\ Agreed(b) /\ b.stable \in Statuses
  BY <1>1, StabilizedHolds
<1>3. Cardinality(Younger(b.history, 1)) \in 0..1
  <2>1. b.history = Joined(stabilizer, s)
    BY StabilizedIs DEF Steady
  <2>2. Younger(b.history, 1) = {Entry(stabilizer.history, s)}
    <3>1. Entry(stabilizer.history, s) \in Joined(stabilizer, s)
          /\ Entry(stabilizer.history, s).age = 0
      BY <1>1, JoinedIs
    <3>2. \A e \in Joined(stabilizer, s) :
            e.age < 1 => e = Entry(stabilizer.history, s)
      BY UnreadIs DEF Joined, Younger
    <3> QED BY <2>1, <3>1, <3>2 DEF Younger
  <2>3. Cardinality({Entry(stabilizer.history, s)}) = 1
    BY FS_Singleton
  <2>4. Cardinality(Younger(b.history, 1)) = 1
    BY <2>2, <2>3
  <2> QED BY <2>4
<1> HIDE DEF b
<1>4. Steady(Stabilized(b, s)) /\ Agreed(Stabilized(b, s)) /\ Stabilized(b, s).stable \in Statuses
  BY <1>2, <1>3, StabilizedHolds
<1> QED BY <1>2, <1>4 DEF Parsed, b
-----------------------------------------------------------------------------
(* Every variable.                                                         *)

\* The values, and a stabiliser that is steady and settled.
IInv == TypeOK /\ Steady(stabilizer) /\ (Read => Agreed(stabilizer))

\* An update that has its values.
Typed(d) == Sound(d) /\ d.status \in Statuses \cup {"absent"}

\* A typed update leaves the entities with their values.
LEMMA PublishTypes ==
  ASSUME TypeOK, NEW d, Typed(d), Publish(d)
  PROVE  /\ vacuum' \in [status : Statuses \cup {None}, activity : Activities]
         /\ sensor' \in (Statuses \ {"unknown"}) \cup {None}
         /\ told' \in Activities
<1>1. vacuum' = Vacuum(d) /\ sensor' = Sensor(d)
      /\ told' = IF d.activity \in Activities THEN d.activity ELSE told
  BY DEF Publish
<1>2. Activity(d) \in Activities
  BY DEF Activity, Typed, Sound, TypeOK
<1>3. vacuum' \in [status : Statuses \cup {None}, activity : Activities]
  BY <1>1, <1>2 DEF Vacuum, Typed, TypeOK
<1>4. sensor' \in (Statuses \ {"unknown"}) \cup {None}
  BY <1>1 DEF Sensor, Typed, TypeOK
<1> QED BY <1>1, <1>3, <1>4 DEF TypeOK

LEMMA ResilientIs ==
  ASSUME TypeOK, NEW givenUp \in BOOLEAN
  PROVE  Resilient(givenUp) \in Statuses
BY DEF TypeOK, Resilient, Statuses, Fallbacks

\* Whatever is fetched, and by whom: the stabiliser stays steady and settled.
LEMMA FetchHolds ==
  ASSUME IInv, NEW answer \in Answers, NEW givenUp \in BOOLEAN, Fetch(answer, givenUp)
  PROVE  /\ Steady(stabilizer') /\ (Read => Agreed(stabilizer))'
         /\ answer # "silent" => stabilizer'.stable \in Statuses
         /\ lastKnown' \in Reported \cup {None} /\ faults' \in 0..MaxFaults
<1>1. ~Read /\ Steady(stabilizer) /\ TypeOK
  BY DEF IInv, Fetch
<1>2. faults' \in 0..MaxFaults
  BY <1>1, ReadingsAssumption DEF Fetch, TypeOK
<1>3. CASE FetchReading(answer)
  <2>1. robot \in Statuses /\ lastKnown' = robot /\ robot \in Reported
    BY <1>1, <1>3 DEF TypeOK, Statuses, FetchReading
  <2>2. stabilizer' = Parsed(Stabilized(stabilizer, robot), robot, answer)
    BY <1>3 DEF FetchReading
  <2>3. Steady(stabilizer') /\ Agreed(stabilizer') /\ stabilizer'.stable \in Statuses
    BY <1>1, <2>1, <2>2, ParsedHolds
  <2> QED BY <1>2, <2>1, <2>3 DEF Agreed
<1>4. CASE answer = "empty" /\ FetchEmpty(givenUp)
  <2>1. Resilient(givenUp) \in Statuses
    BY <1>1, ResilientIs
  <2>2. Cardinality(Younger(stabilizer.history, 1)) \in 0..1
    BY <1>1, UnreadIs, FS_EmptySet
  <2>3. stabilizer' = Stabilized(stabilizer, Resilient(givenUp)) /\ lastKnown' = lastKnown
    BY <1>4 DEF FetchEmpty
  <2>4. Steady(stabilizer') /\ Agreed(stabilizer') /\ stabilizer'.stable \in Statuses
    BY <1>1, <2>1, <2>2, <2>3, StabilizedHolds
  <2> QED BY <1>1, <1>2, <2>3, <2>4 DEF Agreed, TypeOK
<1>5. CASE answer = "silent" /\ FetchSilent
  <2>1. stabilizer' = stabilizer /\ lastKnown' = lastKnown
    BY <1>5 DEF FetchSilent
  <2>2. ~Read'
    BY <1>1, <2>1 DEF Read
  <2> QED BY <1>1, <1>2, <1>5, <2>1, <2>2 DEF TypeOK
<1> QED BY <1>3, <1>4, <1>5 DEF Fetch

\* The update a poll makes of what it fetched.
LEMMA ResultsAreTyped ==
  ASSUME TypeOK, NEW answer \in Answers, NEW givenUp \in BOOLEAN, NEW activity \in Activities,
         answer # "silent" => stabilizer'.stable \in Statuses
  PROVE  Typed(Result(answer, givenUp, activity))
<1>1. Sound(Result(answer, givenUp, activity))
  BY ResultsAreSound
<1>2. Resilient(givenUp) \in Statuses
  BY ResilientIs
<1>3. Result(answer, givenUp, activity).status \in Statuses
  BY <1>2 DEF Result, Parse, Dict, Readable, Answers
<1> QED BY <1>1, <1>3 DEF Typed

LEMMA TickHolds ==
  ASSUME Steady(stabilizer), Tick
  PROVE  Steady(stabilizer') /\ ~Read'
<1> DEFINE old == stabilizer.history
           aged == [e \in old |-> [e EXCEPT !.age = Older(@, Window)]]
           h == {[e EXCEPT !.age = Older(@, Window)] : e \in old}
           since == Older(stabilizer.since, Duration)
<1>1. /\ stabilizer \in Stabilizers /\ old \subseteq Entries /\ IsFiniteSet(old)
      /\ stabilizer.since \in 0..Duration /\ stabilizer.stable \in Statuses \cup {None}
  BY DEF Steady, Stabilizers
<1>2. stabilizer' = [history |-> h, stable |-> stabilizer.stable, since |-> since]
  BY <1>1 DEF Tick, Stabilizers
<1>3. ASSUME NEW e \in old
      PROVE  LET y == [e EXCEPT !.age = Older(@, Window)] IN
             /\ y \in Entries /\ y.age = Older(e.age, Window) /\ y.age # 0
             /\ y.status = e.status
  <2>1. e \in Entries /\ e.age \in 0..Window
    BY <1>1 DEF Entries
  <2>2. Older(e.age, Window) \in 0..Window /\ Older(e.age, Window) # 0
    BY <2>1, Constants DEF Older
  <2> QED BY <2>1, <2>2 DEF Entries
<1>4. h \subseteq Entries /\ \A y \in h : y.age # 0
  BY <1>3
<1>5. IsFiniteSet(h)
  <2>1. aged \in Surjection(old, h)
    BY DEF Surjection
  <2> QED BY <1>1, <2>1, FS_Surjection
<1>6. since \in 0..Duration
  BY <1>1, Constants DEF Older
<1>7. Backed(stabilizer')
  <2> SUFFICES ASSUME stabilizer.stable # None, since < Duration
               PROVE  \E y \in h : y.status = stabilizer.stable /\ y.age = since
    BY <1>2 DEF Backed
  <2>1. stabilizer.since < Duration /\ since = stabilizer.since + 1
    BY <1>1, Constants DEF Older
  <2>2. PICK e \in old : e.status = stabilizer.stable /\ e.age = stabilizer.since
    BY <2>1 DEF Steady, Backed
  <2>3. Older(e.age, Window) = since
    BY <1>1, <2>1, <2>2, Constants DEF Older
  <2> QED BY <1>3, <2>2, <2>3
<1> HIDE DEF h, since
<1>8. stabilizer' \in Stabilizers
  BY <1>1, <1>2, <1>4, <1>6 DEF Stabilizers
<1> QED BY <1>2, <1>4, <1>5, <1>7, <1>8 DEF Steady, Read

\* The steps, one by one.
LEMMA StepIsSteady == IInv /\ [Next]_vars => IInv'
<1> SUFFICES ASSUME IInv, [Next]_vars PROVE IInv'
  OBVIOUS
<1>0. TypeOK /\ Steady(stabilizer)
  BY DEF IInv
<1>1. CASE Poll
  <2>1. PICK answer \in Answers, givenUp \in BOOLEAN, activity \in Activities :
          /\ Fetch(answer, givenUp) /\ Publish(Result(answer, givenUp, activity))
          /\ UNCHANGED <<family, robot>>
    BY <1>1 DEF Poll
  <2>2. /\ Steady(stabilizer') /\ (Read => Agreed(stabilizer))'
        /\ answer # "silent" => stabilizer'.stable \in Statuses
        /\ lastKnown' \in Reported \cup {None} /\ faults' \in 0..MaxFaults
    BY <2>1, FetchHolds
  <2>3. Typed(Result(answer, givenUp, activity))
    BY <1>0, <2>2, ResultsAreTyped
  <2>4. /\ vacuum' \in [status : Statuses \cup {None}, activity : Activities]
        /\ sensor' \in (Statuses \ {"unknown"}) \cup {None}
        /\ told' \in Activities
    BY <1>0, <2>1, <2>3, PublishTypes
  <2>5. family' \in Families /\ robot' \in Reported
    BY <1>0, <2>1 DEF TypeOK
  <2> QED BY <2>2, <2>4, <2>5 DEF IInv, TypeOK, Steady, Stabilizers, Entries
<1>2. CASE Peek
  <2>1. PICK answer \in Answers, givenUp \in BOOLEAN : Fetch(answer, givenUp)
    BY <1>2 DEF Peek
  <2>2. /\ Steady(stabilizer') /\ (Read => Agreed(stabilizer))'
        /\ lastKnown' \in Reported \cup {None} /\ faults' \in 0..MaxFaults
    BY <2>1, FetchHolds
  <2>3. UNCHANGED <<family, robot, vacuum, sensor, told>>
    BY <1>2 DEF Peek, entities
  <2> QED BY <1>0, <2>2, <2>3 DEF IInv, TypeOK, Steady, Stabilizers, Entries
<1>3. CASE Push
  <2>1. ~Read /\ lastKnown # None /\ UNCHANGED <<family, robot, lastKnown>>
    BY <1>3 DEF Push
  <2>2. PICK answer \in Readable, s \in {lastKnown, robot}, activity \in Activities :
          /\ answer # "full" => faults < MaxFaults
          /\ faults' = IF answer = "full" THEN faults ELSE faults + 1
          /\ stabilizer' = Parsed(stabilizer, s, answer)
          /\ Publish(Parse(IF Parsed(stabilizer, s, answer) = stabilizer THEN "absent"
                           ELSE Parsed(stabilizer, s, answer).stable, answer, activity))
    BY <1>3 DEF Push
  <2>3. faults' \in 0..MaxFaults
    BY <1>0, <2>2, ReadingsAssumption DEF TypeOK
  <2>4. s \in Statuses
    BY <1>0, <2>1 DEF TypeOK, Statuses
  <2>5. Cardinality(Younger(stabilizer.history, 1)) \in 0..1
    BY <1>0, <2>1, UnreadIs, FS_EmptySet
  <2>6. \/ /\ Steady(stabilizer') /\ Agreed(stabilizer') /\ stabilizer'.stable \in Statuses
        \/ stabilizer' = stabilizer
    BY <1>0, <2>2, <2>4, <2>5, StabilizedHolds DEF Parsed
  <2>7. Steady(stabilizer') /\ (Read => Agreed(stabilizer))'
    <3>1. CASE stabilizer' = stabilizer
      BY <1>0, <2>1, <3>1 DEF Read
    <3>2. CASE Steady(stabilizer') /\ Agreed(stabilizer')
      BY <3>2 DEF Agreed
    <3> QED BY <2>6, <3>1, <3>2
  <2> DEFINE status == IF Parsed(stabilizer, s, answer) = stabilizer THEN "absent"
                       ELSE Parsed(stabilizer, s, answer).stable
  <2>8. status \in Statuses \cup {"absent"}
    BY <2>2, <2>6
  <2> HIDE DEF status
  <2>9. Typed(Parse(status, answer, activity))
    BY <2>8, PushesAreSound DEF Typed, Parse, Dict
  <2>10. /\ vacuum' \in [status : Statuses \cup {None}, activity : Activities]
         /\ sensor' \in (Statuses \ {"unknown"}) \cup {None}
         /\ told' \in Activities
    BY <1>0, <2>2, <2>9, PublishTypes DEF status
  <2> QED BY <1>0, <2>1, <2>3, <2>7, <2>10 DEF IInv, TypeOK, Steady, Stabilizers, Entries
<1>4. CASE Change \/ UNCHANGED vars
  <2>1. UNCHANGED <<family, stabilizer, lastKnown, faults, vacuum, sensor, told>>
        /\ robot' \in Reported
    BY <1>0, <1>4 DEF Change, vars, entities, TypeOK
  <2> QED BY <2>1 DEF IInv, TypeOK, Read, Agreed
<1>5. CASE Tick
  <2>1. Steady(stabilizer') /\ ~Read'
    BY <1>0, <1>5, TickHolds
  <2>2. UNCHANGED <<family, robot, lastKnown, faults, vacuum, sensor, told>>
    BY <1>5 DEF Tick, entities
  <2> QED BY <1>0, <2>1, <2>2 DEF IInv, TypeOK, Steady, Stabilizers, Entries
<1> QED BY <1>1, <1>2, <1>3, <1>4, <1>5 DEF Next

LEMMA StartIsSteady == Init => IInv
<1> SUFFICES ASSUME Init PROVE IInv
  OBVIOUS
<1>1. stabilizer = [history |-> {}, stable |-> None, since |-> 0] /\ 0 \in 0..Duration
  BY Constants DEF Init
<1>2. Steady(stabilizer)
  BY <1>1, FS_EmptySet DEF Steady, Stabilizers, Backed
<1>3. ~Read
  BY <1>1 DEF Read
<1>4. family \in Families /\ faults \in 0..MaxFaults /\ robot \in Reported
  BY ReadingsAssumption DEF Init
<1>5. /\ lastKnown \in Reported \cup {None}
      /\ vacuum \in [status : Statuses \cup {None}, activity : Activities]
      /\ sensor \in (Statuses \ {"unknown"}) \cup {None}
      /\ told \in Activities
  BY Constants DEF Init, Activities
<1> QED BY <1>2, <1>3, <1>4, <1>5 DEF IInv, TypeOK, Steady, Stabilizers, Entries

\* Every variable keeps to its values: a status that the stabiliser shows is one that
\* was reported or a fallback, the vacuum and the sensor never show a missing key.
THEOREM TypeCorrect == Spec => []TypeOK
<1>1. IInv => TypeOK
  BY DEF IInv
<1> QED BY <1>1, StartIsSteady, StepIsSteady, PTL DEF Spec

\* For any window and any minimum duration that fits in it: when every reading of the
\* last Duration ticks says the same, the stabiliser says it too.  Either the last
\* change is old, then the 70% agree; or it is recent, then the reading it was
\* accepted for is among those that agree (_stabilize_status).
THEOREM AgreedIsStable == Spec => []AgreedStatusIsStable
<1>1. IInv => AgreedStatusIsStable
  BY DEF IInv, AgreedStatusIsStable, Agreed
<1> QED BY <1>1, StartIsSteady, StepIsSteady, PTL DEF Spec

=============================================================================
