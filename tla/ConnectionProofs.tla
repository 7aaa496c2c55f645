-------------------------- MODULE ConnectionProofs --------------------------
(***************************************************************************)
(* Proofs about Connection, for any polls and commands, attempts, tries,   *)
(* begins and faults.                                                      *)
(***************************************************************************)
EXTENDS Connection, TLAPS, FiniteSetTheorems

-----------------------------------------------------------------------------
(* The inductive invariant.                                                *)

Detouring == {"close", "closing connection", "closing session"}
Returns == {"open", "failed", "pausing", "ensure", "end"}

\* Where a task is, or where the close it is in returns to.
Spot(r) == IF r.at \in Detouring THEN r.after ELSE r.at

\* A close knows where it returns to; only what waits on a session or a connection
\* holds one; a request that left used an attempt.
Formed(r) ==
  /\ IF r.at \in Detouring THEN r.after \in Returns ELSE r.after = "idle"
  /\ r.at = "idle" => r = Rest
  /\ r.held # None => r.at \in {"connecting", "sending", "receiving"}
  /\ r.sent <= IF Spot(r) \in {"idle", "end", "denied", "raised", "receiving"}
               THEN r.attempt ELSE r.attempt - 1

\* A task that does not wait is the one that runs.
Shaped(t) ==
  /\ Formed(task[t])
  /\ task[t].at \notin Waiting \cup {"idle"} => running = t
  /\ task[t].at = "ready" => conn \in openConns

\* The unload closes, and does nothing else, once.
Unloading ==
  /\ Spot(task[Unload]) \in {"end", "idle"}
  /\ ~cleanedUp => task[Unload].at = "idle"

TypeInv ==
  /\ TypeOK /\ Unloading /\ openConns \subseteq openSess
  /\ \A t \in Tasks : Shaped(t)

\* No two tasks at once change what the connection and the session are: what is open is
\* what _ws_session names, and nothing is once it was closed.
Untouched ==
  crossed \/
    /\ openSess \subseteq {sess}
    /\ \A t \in Tasks : task[t].at \in {"closing session", "open"} => openSess = {}
    /\ \A t, u \in Tasks :
         {task[t].at, task[u].at} \subseteq Reworking \cup {"open"} => t = u

\* An unload that found nothing under way has the connection for itself.
Alone ==
  cleanedUp => unclean \/
    /\ \A t \in Exchanges : task[t].at = "idle"
    /\ task[Unload].at \in {"end", "idle"} => crossed \/ openSess = {}

\* No other task is under way.
Lone(t) == \A u \in Tasks \ {t} : task[u].at = "idle"

\* The poll whose count was raised, and that only closes and ends.
Ending(t) == t \in Polls /\ Spot(task[t]) = "end"

Alive == conn \in openConns \/ sess \in openSess

\* Failures are connects that were refused, and one more of the poll that ends.
CountedFor(t) ==
  /\ failures <= faults.refused \/ (Ending(t) /\ failures <= faults.refused + 1)
  /\ conn \in openConns => failures = 0 \/ Ending(t)
  /\ task[t].at \in {"closing session", "open", "connecting", "sleeping"} => conn = None
  /\ Spot(task[t]) = "failed" => conn = None
  /\ task[t].at = "failed" => sess = None
  /\ task[t].at = "connecting" => task[t].held \in openSess
  /\ task[t].at \in {"ready", "sending", "receiving"} => failures = 0
  /\ task[t].at \in {"raised", "denied"} /\ Alive => failures = 0 \/ failures < faults.refused
  /\ Ending(t) /\ (task[t].at \in Reworking \/ (task[t].at = "close" /\ Alive))
       => failures <= 1 \/ failures <= faults.refused

\* As long as tasks come one by one.
Counted == shared \/ \E t \in Tasks : Lone(t) /\ CountedFor(t)

\* Then a request and its answer have the connection they began with, and a command
\* that left waits for its answer.
Holding(t) ==
  /\ task[t].at \in {"sending", "receiving"} => task[t].held = conn /\ conn \in openConns
  /\ t \in Commands /\ task[t].sent > 0 => task[t].at = "receiving" /\ task[t].sent = 1

\* What makes a command go out again.
Disturbed == faults.dropped + faults.binary > 0

Sending == shared \/ Disturbed \/ \A t \in Tasks : Holding(t)

IInv == TypeInv /\ Untouched /\ Alone /\ Counted /\ Sending /\ OfflineIsReal

-----------------------------------------------------------------------------
(* What the actions do to the task that takes them.                        *)

USE DEF Waiting, Reworking

Records == [at : Locations, tries : 1..Tries, attempt : 1..Attempts,
            after : Locations, held : Ids \cup {None}, sent : 0..Attempts]

LEMMA FieldsAre ==
  ASSUME NEW r \in Records
  PROVE  r = [at |-> r.at, tries |-> r.tries, attempt |-> r.attempt,
              after |-> r.after, held |-> r.held, sent |-> r.sent]
BY DEF Records

\* A record has its six fields and no other.
Whole(y) ==
  y = [at |-> y.at, tries |-> y.tries, attempt |-> y.attempt,
       after |-> y.after, held |-> y.held, sent |-> y.sent]

\* y is x at another place, with another attempt and holding something else.
Moves(x, y, at, after, held, attempt) ==
  /\ Whole(y)
  /\ y.at = at /\ y.after = after /\ y.held = held /\ y.attempt = attempt
  /\ y.tries = x.tries /\ y.sent = x.sent

LEMMA RestIsARecord == Rest \in Records
BY ConnectionAssumption DEF Rest, Records, Locations, ConnectionAssumption

LEMMA GoesTo ==
  ASSUME TypeOK, NEW t \in Tasks
  PROVE  /\ task[t] \in Records
         /\ \A r : Goes(t, r) => task'[t] = r
         /\ \A r, next : Closes(t, r, next) => task'[t] = [r EXCEPT !.at = "close", !.after = next]
BY DEF TypeOK, Records, Goes, Closes

LEMMA RestWaitsForNothing ==
  Formed(Rest) /\ Spot(Rest) = "idle" /\ Rest.at = "idle" /\ Rest.held = None /\ Rest.sent = 0
BY DEF Rest, Formed, Spot, Detouring

CloseConnectionDoes(x, y) ==
  Moves(x, y, "closing connection", x.after, x.held, x.attempt)

LEMMA CloseConnectionMoves ==
  ASSUME TypeOK, NEW t \in Tasks, NEW x, x = task[t], NEW y, y = task'[t], CloseConnection(t)
  PROVE  CloseConnectionDoes(x, y)
<1>1. x \in Records
  BY GoesTo
<1>2. y = [x EXCEPT !.at = "closing connection"]
  BY GoesTo DEF CloseConnection
<1> QED BY <1>1, <1>2, FieldsAre DEF CloseConnectionDoes, Moves, Whole

CloseSessionDoes(x, y) ==
  Moves(x, y, "closing session", x.after, x.held, x.attempt)

LEMMA CloseSessionMoves ==
  ASSUME TypeOK, NEW t \in Tasks, NEW x, x = task[t], NEW y, y = task'[t], CloseSession(t)
  PROVE  CloseSessionDoes(x, y)
<1>1. x \in Records
  BY GoesTo
<1>2. y = [x EXCEPT !.at = "closing session"]
  BY GoesTo DEF CloseSession
<1> QED BY <1>1, <1>2, FieldsAre DEF CloseSessionDoes, Moves, Whole

ClosedDoes(x, y) ==
  Moves(x, y, x.after, "idle", x.held, x.attempt)

LEMMA ClosedMoves ==
  ASSUME TypeOK, NEW t \in Tasks, NEW x, x = task[t], NEW y, y = task'[t], Closed(t)
  PROVE  ClosedDoes(x, y)
<1>1. x \in Records
  BY GoesTo
<1>2. y = [x EXCEPT !.at = x.after, !.after = "idle"]
  BY GoesTo DEF Closed
<1> QED BY <1>1, <1>2, FieldsAre DEF ClosedDoes, Moves, Whole

EnsureDoes(x, y) ==
  \/ Usable /\ Moves(x, y, "ready", x.after, x.held, x.attempt)
  \/ ~Usable /\ Moves(x, y, "close", "open", x.held, x.attempt)
  \/ ~Usable /\ Moves(x, y, "logging in", x.after, x.held, x.attempt)

LEMMA EnsureMoves ==
  ASSUME TypeOK, NEW t \in Tasks, NEW x, x = task[t], NEW y, y = task'[t], Ensure(t)
  PROVE  EnsureDoes(x, y)
<1>1. x \in Records
  BY GoesTo
<1>2. \/ Usable /\ y = [x EXCEPT !.at = "ready"]
      \/ ~Usable /\ y = [x EXCEPT !.at = "close", !.after = "open"]
      \/ ~Usable /\ y = [x EXCEPT !.at = "logging in"]
  BY GoesTo DEF Ensure
<1> QED BY <1>1, <1>2, FieldsAre DEF EnsureDoes, Moves, Whole

LoggedInDoes(x, y) ==
  \/ Moves(x, y, "close", "open", x.held, x.attempt) /\ UNCHANGED faults
  \/ /\ Moves(x, y, y.at, x.after, x.held, x.attempt) /\ y.at \in {"denied", "raised"}
     /\ Fault("refused")

LEMMA LoggedInMoves ==
  ASSUME TypeOK, NEW t \in Tasks, NEW x, x = task[t], NEW y, y = task'[t], LoggedIn(t)
  PROVE  LoggedInDoes(x, y)
<1>1. x \in Records
  BY GoesTo
<1>2. CASE Closes(t, task[t], "open") /\ UNCHANGED faults
  <2>1. y = [x EXCEPT !.at = "close", !.after = "open"]
    BY <1>2, GoesTo
  <2> QED BY <1>1, <1>2, <2>1, FieldsAre DEF LoggedInDoes, Moves, Whole
<1>3. ASSUME NEW at \in {"denied", "raised"}, Goes(t, [task[t] EXCEPT !.at = at]), Fault("refused")
      PROVE  Moves(x, y, at, x.after, x.held, x.attempt) /\ y.at = at
  <2>1. y = [x EXCEPT !.at = at]
    BY <1>3, GoesTo
  <2> QED BY <1>1, <2>1, FieldsAre DEF LoggedInDoes, Moves, Whole
<1> QED BY <1>2, <1>3 DEF LoggedIn, LoggedInDoes

OpenDoes(x, y) ==
  Moves(x, y, "connecting", x.after, Free, x.attempt)

LEMMA OpenMoves ==
  ASSUME TypeOK, NEW t \in Tasks, NEW x, x = task[t], NEW y, y = task'[t], Open(t)
  PROVE  OpenDoes(x, y)
<1>1. x \in Records
  BY GoesTo
<1>2. y = [x EXCEPT !.at = "connecting", !.held = Free]
  BY GoesTo DEF Open
<1> QED BY <1>1, <1>2, FieldsAre DEF OpenDoes, Moves, Whole

ConnectedDoes(x, y) ==
  /\ Whole(y) /\ y.at = "ready" /\ y.after = x.after /\ y.held = None
  /\ y.attempt = x.attempt /\ y.tries = 1 /\ y.sent = x.sent

LEMMA ConnectedMoves ==
  ASSUME TypeOK, NEW t \in Tasks, NEW x, x = task[t], NEW y, y = task'[t], Connected(t)
  PROVE  ConnectedDoes(x, y)
<1>1. x \in Records
  BY GoesTo
<1>2. y = [x EXCEPT !.at = "ready", !.held = None, !.tries = 1]
  BY GoesTo DEF Connected
<1> QED BY <1>1, <1>2, FieldsAre DEF ConnectedDoes, Moves, Whole

ConnectFailedDoes(x, y) ==
  Moves(x, y, "close", "failed", None, x.attempt)

LEMMA ConnectFailedMoves ==
  ASSUME TypeOK, NEW t \in Tasks, NEW x, x = task[t], NEW y, y = task'[t], ConnectFailed(t)
  PROVE  ConnectFailedDoes(x, y)
<1>1. x \in Records
  BY GoesTo
<1>2. y = [[x EXCEPT !.held = None] EXCEPT !.at = "close", !.after = "failed"]
  BY GoesTo DEF ConnectFailed
<1> QED BY <1>1, <1>2, FieldsAre DEF ConnectFailedDoes, Moves, Whole

TryFailedDoes(x, y) ==
  /\ Whole(y)
  /\ y.after = x.after /\ y.held = x.held /\ y.attempt = x.attempt /\ y.sent = x.sent
  /\ \/ y.at = "sleeping" /\ x.tries < Tries /\ y.tries = x.tries + 1
     \/ y.at \in {"denied", "raised"} /\ y.tries = 1

LEMMA TryFailedMoves ==
  ASSUME TypeOK, NEW t \in Tasks, NEW x, x = task[t], NEW y, y = task'[t], TryFailed(t)
  PROVE  TryFailedDoes(x, y)
<1>1. x \in Records
  BY GoesTo
<1>2. \/ x.tries < Tries /\ y = [x EXCEPT !.at = "sleeping", !.tries = x.tries + 1]
      \/ \E at \in {"denied", "raised"} : y = [x EXCEPT !.at = at, !.tries = 1]
  BY GoesTo DEF TryFailed
<1> QED BY <1>1, <1>2, FieldsAre DEF TryFailedDoes, Moves, Whole

TryAgainDoes(x, y) ==
  Moves(x, y, "close", "open", x.held, x.attempt)

LEMMA TryAgainMoves ==
  ASSUME TypeOK, NEW t \in Tasks, NEW x, x = task[t], NEW y, y = task'[t], TryAgain(t)
  PROVE  TryAgainDoes(x, y)
<1>1. x \in Records
  BY GoesTo
<1>2. y = [x EXCEPT !.at = "close", !.after = "open"]
  BY GoesTo DEF TryAgain
<1> QED BY <1>1, <1>2, FieldsAre DEF TryAgainDoes, Moves, Whole

SendDoes(x, y) ==
  Moves(x, y, "sending", x.after, conn, x.attempt)

LEMMA SendMoves ==
  ASSUME TypeOK, NEW t \in Tasks, NEW x, x = task[t], NEW y, y = task'[t], Send(t)
  PROVE  SendDoes(x, y)
<1>1. x \in Records
  BY GoesTo
<1>2. y = [x EXCEPT !.at = "sending", !.held = conn]
  BY GoesTo DEF Send
<1> QED BY <1>1, <1>2, FieldsAre DEF SendDoes, Moves, Whole

SentDoes(t, x, y) ==
  \/ y = Rest
  \/ /\ Whole(y) /\ y.after = x.after /\ y.attempt = x.attempt /\ y.tries = x.tries
     /\ y.sent = IF t \in Commands THEN x.sent + 1 ELSE 0
     /\ \/ y.at = "receiving" /\ y.held = conn /\ conn # None
        \/ y.at = "raised" /\ y.held = None /\ t \in Polls

LEMMA SentMoves ==
  ASSUME TypeOK, NEW t \in Tasks, NEW x, x = task[t], NEW y, y = task'[t], Sent(t)
  PROVE  SentDoes(t, x, y)
<1>1. x \in Records
  BY GoesTo
<1>2. \/ y = Rest
      \/ \E sent : /\ sent = IF t \in Commands THEN x.sent + 1 ELSE 0
                   /\ \/ /\ y = [[x EXCEPT !.held = None, !.sent = sent]
                                   EXCEPT !.at = "receiving", !.held = conn]
                         /\ conn # None
                      \/ /\ y = [[x EXCEPT !.held = None, !.sent = sent] EXCEPT !.at = "raised"]
                         /\ t \in Polls
  BY GoesTo DEF Sent, Ends
<1> QED BY <1>1, <1>2, FieldsAre DEF SentDoes, Moves, Whole

SendFailedDoes(x, y) ==
  Moves(x, y, "raised", x.after, None, x.attempt)

LEMMA SendFailedMoves ==
  ASSUME TypeOK, NEW t \in Tasks, NEW x, x = task[t], NEW y, y = task'[t], SendFailed(t)
  PROVE  SendFailedDoes(x, y)
<1>1. x \in Records
  BY GoesTo
<1>2. y = [x EXCEPT !.at = "raised", !.held = None]
  BY GoesTo DEF SendFailed
<1> QED BY <1>1, <1>2, FieldsAre DEF SendFailedDoes, Moves, Whole

UnansweredDoes(x, y) ==
  y = Rest \/ Moves(x, y, "raised", x.after, None, x.attempt)

LEMMA UnansweredMoves ==
  ASSUME TypeOK, NEW t \in Tasks, NEW x, x = task[t], NEW y, y = task'[t], Unanswered(t)
  PROVE  UnansweredDoes(x, y)
<1>1. x \in Records
  BY GoesTo
<1>2. y = Rest \/ y = [x EXCEPT !.at = "raised", !.held = None]
  BY GoesTo DEF Unanswered, Ends
<1> QED BY <1>1, <1>2, FieldsAre DEF UnansweredDoes, Moves, Whole

CutOffDoes(x, y) ==
  \/ Moves(x, y, "end", x.after, None, x.attempt)
  \/ Moves(x, y, "close", "end", None, x.attempt)
  \/ /\ x.attempt # Attempts
     /\ \/ Moves(x, y, "close", "ensure", None, x.attempt + 1)
        \/ Moves(x, y, "ensure", x.after, None, x.attempt + 1)

LEMMA CutOffMoves ==
  ASSUME TypeOK, NEW t \in Tasks, NEW x, x = task[t], NEW y, y = task'[t], CutOff(t)
  PROVE  CutOffDoes(x, y)
<1> DEFINE z == [x EXCEPT !.held = None]
           n == NextAttempt(z)
<1>1. x \in Records
  BY GoesTo
<1>2. \/ Goes(t, [z EXCEPT !.at = "end"])
      \/ Closes(t, z, "end")
      \/ x.attempt # Attempts /\ (Closes(t, n, "ensure") \/ Goes(t, [n EXCEPT !.at = "ensure"]))
  BY DEF CutOff
<1>3. z = [at |-> x.at, tries |-> x.tries, attempt |-> x.attempt,
           after |-> x.after, held |-> None, sent |-> x.sent]
  BY <1>1, FieldsAre
<1>4. n = [at |-> x.at, tries |-> x.tries, attempt |-> x.attempt + 1,
           after |-> x.after, held |-> None, sent |-> x.sent]
  <2> HIDE DEF z
  <2> QED BY <1>3 DEF NextAttempt
<1>5. \/ y = [z EXCEPT !.at = "end"]
      \/ y = [z EXCEPT !.at = "close", !.after = "end"]
      \/ /\ x.attempt # Attempts
         /\ \/ y = [n EXCEPT !.at = "close", !.after = "ensure"]
            \/ y = [n EXCEPT !.at = "ensure"]
  <2>1. \A r : Goes(t, r) => y = r
    BY GoesTo
  <2> HIDE DEF z, n
  <2> QED BY <1>2, <2>1 DEF Closes
<1> HIDE DEF z, n
<1> QED BY <1>3, <1>4, <1>5 DEF CutOffDoes, Moves, Whole

RaisedDoes(t, x, y) ==
  \/ /\ x.attempt < Attempts /\ UNCHANGED failures
     /\ Moves(x, y, "close", "pausing", x.held, x.attempt + 1)
  \/ /\ Moves(x, y, "close", "end", x.held, x.attempt)
     /\ failures' = IF t \in Polls THEN Bump(failures) ELSE failures

LEMMA RaisedMoves ==
  ASSUME TypeOK, NEW t \in Tasks, NEW x, x = task[t], NEW y, y = task'[t], Raised(t)
  PROVE  RaisedDoes(t, x, y)
<1> DEFINE n == NextAttempt(x)
<1>1. x \in Records
  BY GoesTo
<1>2. \/ x.attempt < Attempts /\ UNCHANGED failures /\ Closes(t, n, "pausing")
      \/ /\ failures' = IF t \in Polls THEN Bump(failures) ELSE failures
         /\ Closes(t, x, "end")
  BY DEF Raised
<1>3. n = [at |-> x.at, tries |-> x.tries, attempt |-> x.attempt + 1,
           after |-> x.after, held |-> x.held, sent |-> x.sent]
  BY <1>1, FieldsAre DEF NextAttempt
<1> HIDE DEF n
<1>4. CASE x.attempt < Attempts /\ UNCHANGED failures /\ Closes(t, n, "pausing")
  <2>1. y = [n EXCEPT !.at = "close", !.after = "pausing"]
    BY <1>4, GoesTo
  <2> QED BY <1>3, <1>4, <2>1 DEF RaisedDoes, Moves, Whole
<1>5. CASE /\ failures' = IF t \in Polls THEN Bump(failures) ELSE failures
           /\ Closes(t, x, "end")
  <2>1. y = [x EXCEPT !.at = "close", !.after = "end"]
    BY <1>5, GoesTo
  <2> QED BY <1>1, <1>5, <2>1, FieldsAre DEF RaisedDoes, Moves, Whole
<1> QED BY <1>2, <1>4, <1>5

ResumeDoes(x, y) ==
  Moves(x, y, "ensure", x.after, x.held, x.attempt)

LEMMA ResumeMoves ==
  ASSUME TypeOK, NEW t \in Tasks, NEW x, x = task[t], NEW y, y = task'[t], Resume(t)
  PROVE  ResumeDoes(x, y)
<1>1. x \in Records
  BY GoesTo
<1>2. y = [x EXCEPT !.at = "ensure"]
  BY GoesTo DEF Resume
<1> QED BY <1>1, <1>2, FieldsAre DEF ResumeDoes, Moves, Whole

DeniedDoes(x, y) ==
  Moves(x, y, "close", "end", x.held, x.attempt)

LEMMA DeniedMoves ==
  ASSUME TypeOK, NEW t \in Tasks, NEW x, x = task[t], NEW y, y = task'[t], Denied(t)
  PROVE  DeniedDoes(x, y)
<1>1. x \in Records
  BY GoesTo
<1>2. y = [x EXCEPT !.at = "close", !.after = "end"]
  BY GoesTo DEF Denied
<1> QED BY <1>1, <1>2, FieldsAre DEF DeniedDoes, Moves, Whole

-----------------------------------------------------------------------------
(* Types, and the shape of a task.                                         *)

LEMMA NamesDiffer == Unload \notin Exchanges /\ Nobody \notin Tasks
BY ConnectionAssumption DEF Unload, Exchanges, Nobody, Tasks, ConnectionAssumption

\* There is a session that nothing refers to, for a task that opens one holds none.
LEMMA FreeIsFree ==
  ASSUME TypeOK, NEW t \in Tasks, task[t].held = None
  PROVE  Free \in Ids /\ Free \notin Referenced
<1> DEFINE others == Tasks \ {t}
           held == {task[u].held : u \in others}
           f == [u \in others |-> task[u].held]
           r == held \cup {conn, sess}
<1>1. IsFiniteSet(Exchanges) /\ Cardinality(Exchanges) \in Nat
  BY ConnectionAssumption, FS_CardinalityType DEF Exchanges, ConnectionAssumption
<1>2. IsFiniteSet(others) /\ Cardinality(others) = Cardinality(Exchanges)
  <2>1. IsFiniteSet(Tasks) /\ Cardinality(Tasks) = Cardinality(Exchanges) + 1
    BY <1>1, NamesDiffer, FS_AddElement DEF Tasks
  <2>2. /\ IsFiniteSet(others)
        /\ Cardinality(others) = IF t \in Tasks THEN Cardinality(Tasks) - 1 ELSE Cardinality(Tasks)
    BY <2>1, FS_RemoveElement
  <2> HIDE DEF others
  <2> QED BY <1>1, <2>1, <2>2
<1>3. IsFiniteSet(held) /\ Cardinality(held) <= Cardinality(Exchanges) /\ Cardinality(held) \in Nat
  <2>1. f \in Surjection(others, held)
    BY DEF Surjection
  <2> HIDE DEF f, held, others
  <2>2. IsFiniteSet(held) /\ Cardinality(held) <= Cardinality(others)
    BY <1>2, <2>1, FS_Surjection
  <2> QED BY <1>2, <2>2, FS_CardinalityType
<1>4. IsFiniteSet(r) /\ Cardinality(r) <= Cardinality(Exchanges) + 2
  <2> HIDE DEF held
  <2> DEFINE h == held \cup {conn}
  <2>1. /\ IsFiniteSet(h)
        /\ Cardinality(h) = IF conn \in held THEN Cardinality(held) ELSE Cardinality(held) + 1
    BY <1>3, FS_AddElement
  <2>2. Cardinality(h) \in Nat
    BY <2>1, FS_CardinalityType
  <2>3. r = h \cup {sess}
    OBVIOUS
  <2> HIDE DEF h, r
  <2>4. /\ IsFiniteSet(h \cup {sess})
        /\ Cardinality(h \cup {sess}) = IF sess \in h THEN Cardinality(h) ELSE Cardinality(h) + 1
    BY <2>1, FS_AddElement
  <2> QED BY <1>1, <1>3, <2>1, <2>2, <2>3, <2>4
<1>5. ~(Ids \subseteq r)
  <2> HIDE DEF r
  <2> SUFFICES ASSUME Ids \in SUBSET r PROVE FALSE
    OBVIOUS
  <2>1. Cardinality(Ids) = Cardinality(Exchanges) + 3
    BY <1>1, FS_Interval DEF Ids
  <2>2. Cardinality(Ids) <= Cardinality(r) /\ Cardinality(r) \in Nat
    BY <1>4, FS_Subset, FS_CardinalityType
  <2> QED BY <1>1, <1>4, <2>1, <2>2
<1>6. \E i \in Ids : i \notin Referenced
  <2>1. PICK i \in Ids : i \notin r
    BY <1>5
  <2>2. i # task[t].held
    BY <1>1 DEF Ids, None
  <2> QED BY <2>1, <2>2 DEF Referenced
<1> QED BY <1>6 DEF Free

LEMMA StepGoes ==
  ASSUME NEW t \in Tasks, Step(t)
  PROVE  running \in {t, Nobody} /\ \E r : Goes(t, r)
BY DEF Step, CloseConnection, CloseSession, Closed, Ensure, LoggedIn, Open, Connected,
       ConnectFailed, TryFailed, TryAgain, Send, Sent, SendFailed, Answered, Unanswered,
       CutOff, Raised, Resume, Denied, End, ConnectionIsClosed, SessionIsClosed, Runs, Closes, Ends

\* The task that goes on has what its action gave it; all others wait.
LEMMA OthersStay ==
  ASSUME TypeInv, NEW t \in Tasks, running \in {t, Nobody}, \E r : Goes(t, r)
  PROVE  /\ \A u \in Tasks : u # t =>
              task'[u] = task[u] /\ task[u].at \in Waiting \cup {"idle"}
         /\ running' = IF task'[t].at \in Waiting \cup {"idle"} THEN Nobody ELSE t
         /\ task'[t] \in Records => task' \in [Tasks -> Records]
<1>1. PICK r : Goes(t, r)
  OBVIOUS
<1>2. \A u \in Tasks : u # t => task[u].at \in Waiting \cup {"idle"}
  BY NamesDiffer DEF TypeInv, Shaped
<1> QED BY <1>1, <1>2 DEF Goes, TypeInv, TypeOK, Records

\* What an action makes of a task: a record that knows where it returns to, with the
\* connection it is ready to use.
Becomes(t, y) ==
  /\ y \in Records /\ Formed(y)
  /\ y.at = "ready" => conn' \in openConns'
  /\ t = Unload => Spot(y) \in {"end", "idle"}

LEMMA RecordOf ==
  ASSUME NEW y, Whole(y), y.at \in Locations, y.after \in Locations, y.held \in Ids \cup {None},
         y.tries \in 1..Tries, y.attempt \in 1..Attempts, y.sent \in 0..Attempts
  PROVE  y \in Records
BY DEF Whole, Records

LEMMA StepBecomes ==
  ASSUME TypeInv, NEW t \in Tasks, NEW x, x = task[t], NEW y, y = task'[t], Step(t)
  PROVE  Becomes(t, y)
<1>1. /\ x \in Records /\ Formed(x) /\ TypeOK
      /\ x.at = "ready" => conn \in openConns
      /\ t = Unload => Spot(x) \in {"end", "idle"}
  BY DEF TypeInv, TypeOK, Records, Shaped, Unloading
<1>2. /\ x.at \in Locations /\ x.after \in Locations /\ x.held \in Ids \cup {None}
      /\ x.tries \in 1..Tries /\ x.attempt \in 1..Attempts /\ x.sent \in 0..Attempts
      /\ Tries \in Nat /\ 1 <= Tries /\ 1 \in 1..Tries /\ Attempts \in Nat /\ 1 <= Attempts
  BY <1>1, ConnectionAssumption DEF Records, ConnectionAssumption
<1>3. CASE y = Rest
  <2>1. y \in Records
    BY <1>3, RestIsARecord
  <2> QED BY <1>3, <2>1 DEF Rest, Becomes, Formed, Spot, Detouring
<1>4. CASE Answered(t) \/ End(t)
  BY <1>1, <1>3, <1>4, GoesTo DEF Answered, End, Ends
<1>5. CASE CloseConnection(t)
  <2>1. x.at = "close"
    BY <1>1, <1>5 DEF CloseConnection, Runs
  <2>2. CloseConnectionDoes(x, y)
    BY <1>1, <1>5, CloseConnectionMoves
  <2>3. /\ Whole(y) /\ y.at \in Locations /\ y.after \in Locations /\ y.held \in Ids \cup {None}
        /\ y.tries \in 1..Tries /\ y.attempt \in 1..Attempts /\ y.sent \in 0..Attempts
    BY <1>1, <1>2, <2>1, <2>2 DEF CloseConnectionDoes, Moves, Locations, Formed, Spot, Detouring, Returns
  <2>4. Formed(y)
    BY <1>1, <1>2, <2>1, <2>2 DEF CloseConnectionDoes, Moves, Formed, Spot, Detouring, Returns
  <2>5. t = Unload => Spot(y) \in {"end", "idle"}
    BY <1>1, <2>1, <2>2 DEF CloseConnectionDoes, Moves, Formed, Spot, Detouring, Returns
  <2>6. y.at = "ready" => conn' \in openConns'
    BY <1>1, <1>5, <2>1, <2>2 DEF CloseConnectionDoes, Moves, fields
  <2> QED BY <2>3, <2>4, <2>5, <2>6, RecordOf DEF Becomes
<1>6. CASE CloseSession(t)
  <2>1. x.at \in {"close", "closing connection"}
    BY <1>1, <1>6 DEF CloseSession, Runs, ConnectionIsClosed
  <2>2. CloseSessionDoes(x, y)
    BY <1>1, <1>6, CloseSessionMoves
  <2>3. /\ Whole(y) /\ y.at \in Locations /\ y.after \in Locations /\ y.held \in Ids \cup {None}
        /\ y.tries \in 1..Tries /\ y.attempt \in 1..Attempts /\ y.sent \in 0..Attempts
    BY <1>1, <1>2, <2>1, <2>2 DEF CloseSessionDoes, Moves, Locations, Formed, Spot, Detouring, Returns
  <2>4. Formed(y)
    BY <1>1, <1>2, <2>1, <2>2 DEF CloseSessionDoes, Moves, Formed, Spot, Detouring, Returns
  <2>5. t = Unload => Spot(y) \in {"end", "idle"}
    BY <1>1, <2>1, <2>2 DEF CloseSessionDoes, Moves, Formed, Spot, Detouring, Returns
  <2>6. y.at = "ready" => conn' \in openConns'
    BY <1>1, <1>6, <2>1, <2>2 DEF CloseSessionDoes, Moves, fields
  <2> QED BY <2>3, <2>4, <2>5, <2>6, RecordOf DEF Becomes
<1>7. CASE Closed(t)
  <2>1. x.at \in Detouring
    BY <1>1, <1>7 DEF Closed, Runs, SessionIsClosed, ConnectionIsClosed, Detouring
  <2>2. ClosedDoes(x, y)
    BY <1>1, <1>7, ClosedMoves
  <2>3. /\ Whole(y) /\ y.at \in Locations /\ y.after \in Locations /\ y.held \in Ids \cup {None}
        /\ y.tries \in 1..Tries /\ y.attempt \in 1..Attempts /\ y.sent \in 0..Attempts
    BY <1>1, <1>2, <2>1, <2>2 DEF ClosedDoes, Moves, Locations, Formed, Spot, Detouring, Returns
  <2>4. Formed(y)
    BY <1>1, <1>2, <2>1, <2>2 DEF ClosedDoes, Moves, Formed, Spot, Detouring, Returns
  <2>5. t = Unload => Spot(y) \in {"end", "idle"}
    BY <1>1, <2>1, <2>2 DEF ClosedDoes, Moves, Formed, Spot, Detouring, Returns
  <2>6. y.at = "ready" => conn' \in openConns'
    BY <1>1, <1>7, <2>1, <2>2 DEF ClosedDoes, Moves, Formed, Returns, Detouring, fields
  <2> QED BY <2>3, <2>4, <2>5, <2>6, RecordOf DEF Becomes
<1>8. CASE Ensure(t)
  <2>1. x.at = "ensure"
    BY <1>1, <1>8 DEF Ensure, Runs
  <2>2. EnsureDoes(x, y)
    BY <1>1, <1>8, EnsureMoves
  <2>3. /\ Whole(y) /\ y.at \in Locations /\ y.after \in Locations /\ y.held \in Ids \cup {None}
        /\ y.tries \in 1..Tries /\ y.attempt \in 1..Attempts /\ y.sent \in 0..Attempts
    BY <1>1, <1>2, <2>1, <2>2 DEF EnsureDoes, Moves, Locations, Formed, Spot, Detouring, Returns
  <2>4. Formed(y)
    BY <1>1, <1>2, <2>1, <2>2 DEF EnsureDoes, Moves, Formed, Spot, Detouring, Returns
  <2>5. t = Unload => Spot(y) \in {"end", "idle"}
    BY <1>1, <2>1, <2>2 DEF EnsureDoes, Moves, Formed, Spot, Detouring, Returns
  <2>6. y.at = "ready" => conn' \in openConns'
    BY <1>1, <1>8, <2>1, <2>2 DEF EnsureDoes, Moves, Ensure, Usable, fields
  <2> QED BY <2>3, <2>4, <2>5, <2>6, RecordOf DEF Becomes
<1>9. CASE LoggedIn(t)
  <2>1. x.at = "logging in"
    BY <1>1, <1>9 DEF LoggedIn, Runs
  <2>2. LoggedInDoes(x, y)
    BY <1>1, <1>9, LoggedInMoves
  <2>3. x.after = "idle" /\ x.held = None /\ x.sent <= x.attempt - 1 /\ x.sent <= x.attempt
    <3>1. x.after = "idle" /\ x.held = None /\ x.sent <= x.attempt - 1
      BY <1>1, <2>1 DEF Formed, Spot, Detouring
    <3> QED BY <1>2, <3>1
  <2>4. /\ Whole(y) /\ y.at \in Locations /\ y.after \in Locations /\ y.held \in Ids \cup {None}
        /\ y.tries \in 1..Tries /\ y.attempt \in 1..Attempts /\ y.sent \in 0..Attempts
    BY <1>1, <1>2, <2>1, <2>2, <2>3 DEF LoggedInDoes, Moves, Locations, Formed, Spot, Detouring, Returns
  <2>5. Formed(y)
    BY <1>1, <1>2, <2>1, <2>2, <2>3 DEF LoggedInDoes, Moves, Formed, Spot, Detouring, Returns
  <2>6. t = Unload => Spot(y) \in {"end", "idle"}
    BY <1>1, <2>1, <2>2 DEF LoggedInDoes, Moves, Formed, Spot, Detouring, Returns
  <2>7. y.at = "ready" => conn' \in openConns'
    BY <1>1, <1>9, <2>1, <2>2 DEF LoggedInDoes, Moves, fields
  <2> QED BY <2>4, <2>5, <2>6, <2>7, RecordOf DEF Becomes
<1>10. CASE Open(t)
  <2>1. x.at = "open"
    BY <1>1, <1>10 DEF Open, Runs
  <2>2. OpenDoes(x, y)
    BY <1>1, <1>10, OpenMoves
  <2>3. Free \in Ids
    BY <1>1, <2>1, FreeIsFree DEF Formed
  <2>4. /\ Whole(y) /\ y.at \in Locations /\ y.after \in Locations /\ y.held \in Ids \cup {None}
        /\ y.tries \in 1..Tries /\ y.attempt \in 1..Attempts /\ y.sent \in 0..Attempts
    BY <1>1, <1>2, <2>1, <2>2, <2>3 DEF OpenDoes, Moves, Locations, Formed, Spot, Detouring, Returns
  <2>5. Formed(y)
    BY <1>1, <1>2, <2>1, <2>2, <2>3 DEF OpenDoes, Moves, Formed, Spot, Detouring, Returns
  <2>6. t = Unload => Spot(y) \in {"end", "idle"}
    BY <1>1, <2>1, <2>2 DEF OpenDoes, Moves, Formed, Spot, Detouring, Returns
  <2>7. y.at = "ready" => conn' \in openConns'
    BY <1>1, <1>10, <2>1, <2>2 DEF OpenDoes, Moves, fields
  <2> QED BY <2>4, <2>5, <2>6, <2>7, RecordOf DEF Becomes
<1>11. CASE Connected(t)
  <2>1. x.at = "connecting" /\ conn' \in openConns'
    BY <1>1, <1>11 DEF Connected, Runs
  <2>2. ConnectedDoes(x, y)
    BY <1>1, <1>11, ConnectedMoves
  <2>3. /\ Whole(y) /\ y.at \in Locations /\ y.after \in Locations /\ y.held \in Ids \cup {None}
        /\ y.tries \in 1..Tries /\ y.attempt \in 1..Attempts /\ y.sent \in 0..Attempts
    BY <1>1, <1>2, <2>1, <2>2 DEF ConnectedDoes, Moves, Locations, Formed, Spot, Detouring, Returns
  <2>4. Formed(y)
    BY <1>1, <1>2, <2>1, <2>2 DEF ConnectedDoes, Moves, Formed, Spot, Detouring, Returns
  <2>5. t = Unload => Spot(y) \in {"end", "idle"}
    BY <1>1, <2>1, <2>2 DEF ConnectedDoes, Moves, Formed, Spot, Detouring, Returns
  <2>6. y.at = "ready" => conn' \in openConns'
    BY <1>1, <1>11, <2>1, <2>2 DEF ConnectedDoes, Moves, fields
  <2> QED BY <2>3, <2>4, <2>5, <2>6, RecordOf DEF Becomes
<1>12. CASE ConnectFailed(t)
  <2>1. x.at = "connecting"
    BY <1>1, <1>12 DEF ConnectFailed, Runs
  <2>2. ConnectFailedDoes(x, y)
    BY <1>1, <1>12, ConnectFailedMoves
  <2>3. /\ Whole(y) /\ y.at \in Locations /\ y.after \in Locations /\ y.held \in Ids \cup {None}
        /\ y.tries \in 1..Tries /\ y.attempt \in 1..Attempts /\ y.sent \in 0..Attempts
    BY <1>1, <1>2, <2>1, <2>2 DEF ConnectFailedDoes, Moves, Locations, Formed, Spot, Detouring, Returns
  <2>4. Formed(y)
    BY <1>1, <1>2, <2>1, <2>2 DEF ConnectFailedDoes, Moves, Formed, Spot, Detouring, Returns
  <2>5. t = Unload => Spot(y) \in {"end", "idle"}
    BY <1>1, <2>1, <2>2 DEF ConnectFailedDoes, Moves, Formed, Spot, Detouring, Returns
  <2>6. y.at = "ready" => conn' \in openConns'
    BY <1>1, <1>12, <2>1, <2>2 DEF ConnectFailedDoes, Moves, fields
  <2> QED BY <2>3, <2>4, <2>5, <2>6, RecordOf DEF Becomes
<1>13. CASE TryFailed(t)
  <2>1. x.at = "failed"
    BY <1>1, <1>13 DEF TryFailed, Runs
  <2>2. TryFailedDoes(x, y)
    BY <1>1, <1>13, TryFailedMoves
  <2>3. x.after = "idle" /\ x.held = None /\ x.sent <= x.attempt - 1 /\ x.sent <= x.attempt /\ (x.tries < Tries => x.tries + 1 \in 1..Tries)
    BY <1>1, <1>2, <2>1 DEF Formed, Spot, Detouring
  <2>4. /\ Whole(y) /\ y.at \in Locations /\ y.after \in Locations /\ y.held \in Ids \cup {None}
        /\ y.tries \in 1..Tries /\ y.attempt \in 1..Attempts /\ y.sent \in 0..Attempts
    BY <1>1, <1>2, <2>1, <2>2, <2>3 DEF TryFailedDoes, Moves, Locations, Formed, Spot, Detouring, Returns
  <2>5. Formed(y)
    BY <1>1, <1>2, <2>1, <2>2, <2>3 DEF TryFailedDoes, Moves, Formed, Spot, Detouring, Returns
  <2>6. t = Unload => Spot(y) \in {"end", "idle"}
    BY <1>1, <2>1, <2>2 DEF TryFailedDoes, Moves, Formed, Spot, Detouring, Returns
  <2>7. y.at = "ready" => conn' \in openConns'
    BY <1>1, <1>13, <2>1, <2>2 DEF TryFailedDoes, Moves, fields
  <2> QED BY <2>4, <2>5, <2>6, <2>7, RecordOf DEF Becomes
<1>14. CASE TryAgain(t)
  <2>1. x.at = "sleeping"
    BY <1>1, <1>14 DEF TryAgain, Runs
  <2>2. TryAgainDoes(x, y)
    BY <1>1, <1>14, TryAgainMoves
  <2>3. /\ Whole(y) /\ y.at \in Locations /\ y.after \in Locations /\ y.held \in Ids \cup {None}
        /\ y.tries \in 1..Tries /\ y.attempt \in 1..Attempts /\ y.sent \in 0..Attempts
    BY <1>1, <1>2, <2>1, <2>2 DEF TryAgainDoes, Moves, Locations, Formed, Spot, Detouring, Returns
  <2>4. Formed(y)
    BY <1>1, <1>2, <2>1, <2>2 DEF TryAgainDoes, Moves, Formed, Spot, Detouring, Returns
  <2>5. t = Unload => Spot(y) \in {"end", "idle"}
    BY <1>1, <2>1, <2>2 DEF TryAgainDoes, Moves, Formed, Spot, Detouring, Returns
  <2>6. y.at = "ready" => conn' \in openConns'
    BY <1>1, <1>14, <2>1, <2>2 DEF TryAgainDoes, Moves, fields
  <2> QED BY <2>3, <2>4, <2>5, <2>6, RecordOf DEF Becomes
<1>15. CASE Send(t)
  <2>1. x.at = "ready" /\ conn \in Ids \cup {None}
    BY <1>1, <1>15 DEF Send, Runs, TypeInv, TypeOK
  <2>2. SendDoes(x, y)
    BY <1>1, <1>15, SendMoves
  <2>3. /\ Whole(y) /\ y.at \in Locations /\ y.after \in Locations /\ y.held \in Ids \cup {None}
        /\ y.tries \in 1..Tries /\ y.attempt \in 1..Attempts /\ y.sent \in 0..Attempts
    BY <1>1, <1>2, <2>1, <2>2 DEF SendDoes, Moves, Locations, Formed, Spot, Detouring, Returns
  <2>4. Formed(y)
    BY <1>1, <1>2, <2>1, <2>2 DEF SendDoes, Moves, Formed, Spot, Detouring, Returns
  <2>5. t = Unload => Spot(y) \in {"end", "idle"}
    BY <1>1, <2>1, <2>2 DEF SendDoes, Moves, Formed, Spot, Detouring, Returns
  <2>6. y.at = "ready" => conn' \in openConns'
    BY <1>1, <1>15, <2>1, <2>2 DEF SendDoes, Moves, fields
  <2> QED BY <2>3, <2>4, <2>5, <2>6, RecordOf DEF Becomes
<1>16. CASE Sent(t) /\ y # Rest
  <2>1. x.at = "sending" /\ conn \in Ids \cup {None}
    BY <1>1, <1>16 DEF Sent, Runs, TypeInv, TypeOK
  <2>2. SentDoes(t, x, y)
    BY <1>1, <1>16, SentMoves
  <2>3. /\ x.after = "idle" /\ x.sent <= x.attempt - 1 /\ x.sent + 1 \in 0..Attempts
        /\ 0 \in 0..Attempts /\ 0 <= x.attempt /\ x.sent + 1 <= x.attempt
    BY <1>1, <1>2, <2>1 DEF Formed, Spot, Detouring
  <2>4. /\ Whole(y) /\ y.at \in Locations /\ y.after \in Locations /\ y.held \in Ids \cup {None}
        /\ y.tries \in 1..Tries /\ y.attempt \in 1..Attempts /\ y.sent \in 0..Attempts
    BY <1>2, <1>16, <2>1, <2>2, <2>3 DEF SentDoes, Moves, Locations, Formed, Spot, Detouring, Returns
  <2>5. Formed(y)
    BY <1>2, <1>16, <2>1, <2>2, <2>3 DEF SentDoes, Moves, Formed, Spot, Detouring, Returns
  <2>6. t = Unload => Spot(y) \in {"end", "idle"}
    BY <1>1, <1>16, <2>1, <2>2 DEF SentDoes, Moves, Formed, Spot, Detouring, Returns
  <2>7. y.at = "ready" => conn' \in openConns'
    BY <1>1, <1>16, <2>1, <2>2 DEF SentDoes, Moves, fields
  <2> QED BY <2>4, <2>5, <2>6, <2>7, RecordOf DEF Becomes
<1>17. CASE SendFailed(t)
  <2>1. x.at = "sending"
    BY <1>1, <1>17 DEF SendFailed, Runs
  <2>2. SendFailedDoes(x, y)
    BY <1>1, <1>17, SendFailedMoves
  <2>3. /\ Whole(y) /\ y.at \in Locations /\ y.after \in Locations /\ y.held \in Ids \cup {None}
        /\ y.tries \in 1..Tries /\ y.attempt \in 1..Attempts /\ y.sent \in 0..Attempts
    BY <1>1, <1>2, <2>1, <2>2 DEF SendFailedDoes, Moves, Locations, Formed, Spot, Detouring, Returns
  <2>4. Formed(y)
    BY <1>1, <1>2, <2>1, <2>2 DEF SendFailedDoes, Moves, Formed, Spot, Detouring, Returns
  <2>5. t = Unload => Spot(y) \in {"end", "idle"}
    BY <1>1, <2>1, <2>2 DEF SendFailedDoes, Moves, Formed, Spot, Detouring, Returns
  <2>6. y.at = "ready" => conn' \in openConns'
    BY <1>1, <1>17, <2>1, <2>2 DEF SendFailedDoes, Moves, fields
  <2> QED BY <2>3, <2>4, <2>5, <2>6, RecordOf DEF Becomes
<1>18. CASE Unanswered(t) /\ y # Rest
  <2>1. x.at = "receiving"
    BY <1>1, <1>18 DEF Unanswered, Runs
  <2>2. UnansweredDoes(x, y)
    BY <1>1, <1>18, UnansweredMoves
  <2>3. /\ Whole(y) /\ y.at \in Locations /\ y.after \in Locations /\ y.held \in Ids \cup {None}
        /\ y.tries \in 1..Tries /\ y.attempt \in 1..Attempts /\ y.sent \in 0..Attempts
    BY <1>1, <1>2, <1>18, <2>1, <2>2 DEF UnansweredDoes, Moves, Locations, Formed, Spot, Detouring, Returns
  <2>4. Formed(y)
    BY <1>1, <1>2, <1>18, <2>1, <2>2 DEF UnansweredDoes, Moves, Formed, Spot, Detouring, Returns
  <2>5. t = Unload => Spot(y) \in {"end", "idle"}
    BY <1>1, <1>18, <2>1, <2>2 DEF UnansweredDoes, Moves, Formed, Spot, Detouring, Returns
  <2>6. y.at = "ready" => conn' \in openConns'
    BY <1>1, <1>18, <2>1, <2>2 DEF UnansweredDoes, Moves, fields
  <2> QED BY <2>3, <2>4, <2>5, <2>6, RecordOf DEF Becomes
<1>19. CASE CutOff(t)
  <2>1. x.at = "receiving"
    BY <1>1, <1>19 DEF CutOff, Runs
  <2>2. CutOffDoes(x, y)
    BY <1>1, <1>19, CutOffMoves
  <2>3. /\ x.after = "idle" /\ x.sent <= x.attempt /\ x.sent <= (x.attempt + 1) - 1
        /\ (x.attempt # Attempts => x.attempt + 1 \in 1..Attempts)
    BY <1>1, <1>2, <2>1 DEF Formed, Spot, Detouring
  <2>4. /\ Whole(y) /\ y.at \in Locations /\ y.after \in Locations /\ y.held \in Ids \cup {None}
        /\ y.tries \in 1..Tries /\ y.attempt \in 1..Attempts /\ y.sent \in 0..Attempts
    BY <1>2, <2>1, <2>2, <2>3 DEF CutOffDoes, Moves, Locations, Formed, Spot, Detouring, Returns
  <2>5. Formed(y)
    BY <1>2, <2>1, <2>2, <2>3 DEF CutOffDoes, Moves, Formed, Spot, Detouring, Returns
  <2>6. t = Unload => Spot(y) \in {"end", "idle"}
    BY <1>1, <2>1, <2>2 DEF CutOffDoes, Moves, Formed, Spot, Detouring, Returns
  <2>7. y.at = "ready" => conn' \in openConns'
    BY <1>1, <1>19, <2>1, <2>2 DEF CutOffDoes, Moves, fields
  <2> QED BY <2>4, <2>5, <2>6, <2>7, RecordOf DEF Becomes
<1>20. CASE Raised(t)
  <2>1. x.at = "raised"
    BY <1>1, <1>20 DEF Raised, Runs
  <2>2. RaisedDoes(t, x, y)
    BY <1>1, <1>20, RaisedMoves
  <2>3. /\ x.after = "idle" /\ x.held = None /\ x.sent <= x.attempt /\ x.sent <= (x.attempt + 1) - 1
        /\ (x.attempt < Attempts => x.attempt + 1 \in 1..Attempts)
    BY <1>1, <1>2, <2>1 DEF Formed, Spot, Detouring
  <2>4. /\ Whole(y) /\ y.at \in Locations /\ y.after \in Locations /\ y.held \in Ids \cup {None}
        /\ y.tries \in 1..Tries /\ y.attempt \in 1..Attempts /\ y.sent \in 0..Attempts
    BY <1>2, <2>1, <2>2, <2>3 DEF RaisedDoes, Moves, Locations, Formed, Spot, Detouring, Returns
  <2>5. Formed(y)
    BY <1>2, <2>1, <2>2, <2>3 DEF RaisedDoes, Moves, Formed, Spot, Detouring, Returns
  <2>6. t = Unload => Spot(y) \in {"end", "idle"}
    BY <1>1, <2>1, <2>2 DEF RaisedDoes, Moves, Formed, Spot, Detouring, Returns
  <2>7. y.at = "ready" => conn' \in openConns'
    BY <1>1, <1>20, <2>1, <2>2 DEF RaisedDoes, Moves, fields
  <2> QED BY <2>4, <2>5, <2>6, <2>7, RecordOf DEF Becomes
<1>21. CASE Resume(t)
  <2>1. x.at = "pausing"
    BY <1>1, <1>21 DEF Resume, Runs
  <2>2. ResumeDoes(x, y)
    BY <1>1, <1>21, ResumeMoves
  <2>3. /\ Whole(y) /\ y.at \in Locations /\ y.after \in Locations /\ y.held \in Ids \cup {None}
        /\ y.tries \in 1..Tries /\ y.attempt \in 1..Attempts /\ y.sent \in 0..Attempts
    BY <1>1, <1>2, <2>1, <2>2 DEF ResumeDoes, Moves, Locations, Formed, Spot, Detouring, Returns
  <2>4. Formed(y)
    BY <1>1, <1>2, <2>1, <2>2 DEF ResumeDoes, Moves, Formed, Spot, Detouring, Returns
  <2>5. t = Unload => Spot(y) \in {"end", "idle"}
    BY <1>1, <2>1, <2>2 DEF ResumeDoes, Moves, Formed, Spot, Detouring, Returns
  <2>6. y.at = "ready" => conn' \in openConns'
    BY <1>1, <1>21, <2>1, <2>2 DEF ResumeDoes, Moves, fields
  <2> QED BY <2>3, <2>4, <2>5, <2>6, RecordOf DEF Becomes
<1>22. CASE Denied(t)
  <2>1. x.at = "denied"
    BY <1>1, <1>22 DEF Denied, Runs
  <2>2. DeniedDoes(x, y)
    BY <1>1, <1>22, DeniedMoves
  <2>3. /\ Whole(y) /\ y.at \in Locations /\ y.after \in Locations /\ y.held \in Ids \cup {None}
        /\ y.tries \in 1..Tries /\ y.attempt \in 1..Attempts /\ y.sent \in 0..Attempts
    BY <1>1, <1>2, <2>1, <2>2 DEF DeniedDoes, Moves, Locations, Formed, Spot, Detouring, Returns
  <2>4. Formed(y)
    BY <1>1, <1>2, <2>1, <2>2 DEF DeniedDoes, Moves, Formed, Spot, Detouring, Returns
  <2>5. t = Unload => Spot(y) \in {"end", "idle"}
    BY <1>1, <2>1, <2>2 DEF DeniedDoes, Moves, Formed, Spot, Detouring, Returns
  <2>6. y.at = "ready" => conn' \in openConns'
    BY <1>1, <1>22, <2>1, <2>2 DEF DeniedDoes, Moves, fields
  <2> QED BY <2>3, <2>4, <2>5, <2>6, RecordOf DEF Becomes
<1> QED
  BY <1>3, <1>4, <1>5, <1>6, <1>7, <1>8, <1>9, <1>10, <1>11, <1>12,
     <1>13, <1>14, <1>15, <1>16, <1>17, <1>18, <1>19, <1>20, <1>21, <1>22
     DEF Step

LEMMA StepKeeps ==
  ASSUME TypeInv, NEW t \in Tasks, Step(t)
  PROVE  task[t].at # "idle" /\ UNCHANGED <<cleanedUp, begins, shared, unclean>>
BY DEF Step, CloseConnection, CloseSession, Closed, Ensure, LoggedIn, Open, Connected,
       ConnectFailed, TryFailed, TryAgain, Send, Sent, SendFailed, Answered, Unanswered,
       CutOff, Raised, Resume, Denied, End, ConnectionIsClosed, SessionIsClosed, Runs,
       bounds, history

\* Every open connection is of an open session.
LEMMA StepKeepsConnections ==
  ASSUME TypeInv, NEW t \in Tasks, Step(t)
  PROVE  /\ {conn', sess'} \subseteq Ids \cup {None}
         /\ openConns' \subseteq openSess' /\ openSess' \subseteq Ids
<1>1. /\ {conn, sess} \subseteq Ids \cup {None} /\ openConns \subseteq openSess /\ openSess \subseteq Ids
      /\ TypeOK
  BY DEF TypeInv, TypeOK
<1>2. CASE CloseConnection(t) \/ CloseSession(t) \/ Closed(t)
  BY <1>1, <1>2 DEF CloseConnection, CloseSession, Closed
<1>3. CASE Open(t)
  <2>1. Free \in Ids
    BY <1>1, <1>3, FreeIsFree DEF Open, Runs, TypeInv, Shaped, Formed
  <2> QED BY <1>1, <1>3, <2>1 DEF Open
<1>4. CASE Connected(t)
  BY <1>1, <1>4 DEF Connected
<1>5. CASE UNCHANGED fields
  BY <1>1, <1>5 DEF fields
<1> QED
  BY <1>2, <1>3, <1>4, <1>5
     DEF Step, Ensure, LoggedIn, ConnectFailed, TryFailed, TryAgain, Send, Sent, SendFailed,
         Answered, Unanswered, CutOff, Raised, Resume, Denied, End

LEMMA FaultCounts ==
  ASSUME TypeOK, NEW kind \in Kinds, Fault(kind)
  PROVE  /\ faults' \in [Kinds -> 0..MaxFaults]
         /\ faults'[kind] = faults[kind] + 1
         /\ \A k \in Kinds : faults'[k] >= faults[k]
<1>1. \A k \in Kinds : faults[k] \in Nat /\ faults[k] <= MaxFaults
  BY ConnectionAssumption DEF TypeOK, ConnectionAssumption
<1>2. MaxFaults \in Nat /\ {"refused", "silent", "dropped", "binary", "late"} = Kinds
  BY ConnectionAssumption DEF ConnectionAssumption, Kinds
<1>3. faults[kind] + 1 <= MaxFaults
  <2>1. /\ faults["refused"] \in Nat /\ faults["silent"] \in Nat
        /\ faults["dropped"] \in Nat /\ faults["binary"] \in Nat /\ faults["late"] \in Nat
    BY <1>1, <1>2
  <2>2. faults["refused"] + faults["silent"] + faults["dropped"] + faults["binary"]
          + faults["late"] < MaxFaults
    BY DEF Fault
  <2> QED BY <1>2, <2>1, <2>2
<1>4. faults' = [faults EXCEPT ![kind] = faults[kind] + 1] /\ faults \in [Kinds -> 0..MaxFaults]
  BY DEF Fault, TypeOK
<1> QED BY <1>1, <1>2, <1>3, <1>4

LEMMA FaultDisturbs ==
  ASSUME TypeOK, NEW kind \in Kinds, Fault(kind)
  PROVE  /\ Disturbed => Disturbed'
         /\ kind \in {"dropped", "binary"} => Disturbed'
<1>1. /\ faults'.dropped >= faults.dropped /\ faults'.binary >= faults.binary
      /\ faults'[kind] = faults[kind] + 1
      /\ {faults.dropped, faults.binary, faults'.dropped, faults'.binary} \subseteq Nat
  <2>1. {"dropped", "binary"} \subseteq Kinds /\ faults' \in [Kinds -> 0..MaxFaults]
        /\ faults \in [Kinds -> 0..MaxFaults] /\ MaxFaults \in Nat
    BY FaultCounts, ConnectionAssumption DEF TypeOK, Kinds, ConnectionAssumption
  <2> QED BY <2>1, FaultCounts
<1> QED BY <1>1 DEF Disturbed

LEMMA CountIsBounded ==
  /\ 0 \in 0..Threshold
  /\ \A n \in 0..Threshold : Bump(n) \in 0..Threshold
  /\ \A n : Resilient(n) \in {"live", "kept", "offline"}
BY ConnectionAssumption DEF Bump, Resilient, ConnectionAssumption

LEMMA StepCounts ==
  ASSUME TypeInv, NEW t \in Tasks, Step(t)
  PROVE  /\ failures' \in 0..Threshold /\ shown' \in {"live", "kept", "offline"}
         /\ faults' \in [Kinds -> 0..MaxFaults]
         /\ crossed' \in BOOLEAN
<1>1. /\ failures \in 0..Threshold /\ shown \in {"live", "kept", "offline"}
      /\ faults \in [Kinds -> 0..MaxFaults] /\ crossed \in BOOLEAN /\ TypeOK
      /\ {"refused", "silent", "dropped", "binary"} \subseteq Kinds
  BY DEF TypeInv, TypeOK, Kinds
<1>2. failures' \in {0, failures, Bump(failures)} /\ shown' \in {"live", shown, Resilient(failures)}
  BY DEF Step, CloseConnection, CloseSession, Closed, Ensure, LoggedIn, Open, Connected,
         ConnectFailed, TryFailed, TryAgain, Send, Sent, SendFailed, Answered, Unanswered,
         CutOff, Raised, Resume, Denied, End, Degrade
<1>3. UNCHANGED faults \/ \E k \in Kinds : Fault(k)
  BY <1>1 DEF Step, CloseConnection, CloseSession, Closed, Ensure, LoggedIn, Open, Connected,
         ConnectFailed, TryFailed, TryAgain, Send, Sent, SendFailed, Answered, Unanswered,
         CutOff, Raised, Resume, Denied, End, bounds
<1>4. UNCHANGED crossed \/ Crosses(t)
  BY DEF Step, CloseConnection, CloseSession, Closed, Ensure, LoggedIn, Open, Connected,
         ConnectFailed, TryFailed, TryAgain, Send, Sent, SendFailed, Answered, Unanswered,
         CutOff, Raised, Resume, Denied, End, history
<1>5. failures' \in 0..Threshold /\ shown' \in {"live", "kept", "offline"}
  BY <1>1, <1>2, CountIsBounded
<1>6. faults' \in [Kinds -> 0..MaxFaults]
  BY <1>1, <1>3, FaultCounts
<1> QED BY <1>1, <1>4, <1>5, <1>6 DEF Crosses

LEMMA StepPreservesTypes ==
  ASSUME TypeInv, NEW t \in Tasks, Step(t)
  PROVE  TypeInv'
<1> DEFINE y == task'[t]
<1>1. Becomes(t, y)
  BY StepBecomes
<1>2. /\ \A u \in Tasks : u # t => task'[u] = task[u] /\ task[u].at \in Waiting \cup {"idle"}
      /\ running' = IF y.at \in Waiting \cup {"idle"} THEN Nobody ELSE t
      /\ task' \in [Tasks -> Records]
  BY <1>1, StepGoes, OthersStay DEF Becomes
<1>3. task[t].at # "idle" /\ UNCHANGED <<cleanedUp, begins, shared, unclean>>
  BY StepKeeps
<1> HIDE DEF y
<1>4. TypeOK'
  <2>1. running' \in Tasks \cup {Nobody}
    BY <1>2
  <2>2. begins' \in 0..MaxBegins /\ {cleanedUp', shared', unclean'} \subseteq BOOLEAN
    BY <1>3 DEF TypeInv, TypeOK
  <2> QED BY <1>2, <2>1, <2>2, StepKeepsConnections, StepCounts DEF TypeOK, Records
<1>5. Unloading'
  <2>1. Unload \in Tasks /\ Unloading
    BY DEF Tasks, TypeInv
  <2>2. CASE t = Unload
    BY <1>1, <1>3, <2>1, <2>2 DEF Unloading, Becomes, Spot, y
  <2>3. CASE t # Unload
    BY <1>2, <1>3, <2>1, <2>3 DEF Unloading, Spot
  <2> QED BY <2>2, <2>3
<1>6. \A u \in Tasks : Shaped(u)'
  <2>1. Shaped(t)'
    BY <1>1, <1>2 DEF Shaped, Becomes, Formed, Spot, y
  <2>2. ASSUME NEW u \in Tasks, u # t PROVE Shaped(u)'
    BY <1>2, <2>2 DEF Shaped, Formed, Spot, TypeInv
  <2> QED BY <2>1, <2>2
<1> QED BY <1>4, <1>5, <1>6, StepKeepsConnections DEF TypeInv

LEMMA InitHasTypes == Init => TypeInv
<1> SUFFICES ASSUME Init PROVE TypeInv
  OBVIOUS
<1>1. /\ Rest \in Records /\ Rest.at = "idle" /\ Formed(Rest)
      /\ \A t \in Tasks : task[t] = Rest
  BY RestIsARecord DEF Init, Rest, Formed, Spot, Detouring
<1>2. TypeOK
  <2>1. task \in [Tasks -> Records]
    BY <1>1 DEF Init
  <2>2. faults \in [Kinds -> 0..MaxFaults] /\ 0 \in 0..MaxBegins
    BY ConnectionAssumption DEF Init, ConnectionAssumption
  <2> QED BY <2>1, <2>2, CountIsBounded DEF Init, TypeOK, Records
<1>3. \A t \in Tasks : Shaped(t)
  BY <1>1 DEF Shaped
<1>4. Unloading
  BY <1>1 DEF Unloading, Tasks, Spot, Detouring
<1> QED BY <1>2, <1>3, <1>4 DEF Init, TypeInv

BeginDoes(y) ==
  /\ Whole(y) /\ y.at = "ensure" /\ y.after = "idle" /\ y.held = None
  /\ y.attempt = 1 /\ y.tries = 1 /\ y.sent = 0

\* A task that begins, and the unload, are where nothing is held or sent yet.
LEMMA BeginMoves ==
  ASSUME TypeInv, NEW t \in Tasks, Begin(t)
  PROVE  /\ t \in Exchanges /\ BeginDoes(task'[t]) /\ task'[t] \in Records /\ Formed(task'[t])
         /\ \A u \in Tasks : u # t => task'[u] = task[u] /\ task[u].at \in Waiting \cup {"idle"}
         /\ task' \in [Tasks -> Records] /\ running' = t /\ task[t] = Rest
<1> DEFINE y == task'[t]
<1>1. TypeOK /\ t \in Exchanges /\ Goes(t, [Rest EXCEPT !.at = "ensure"]) /\ running \in {t, Nobody}
      /\ task[t].at = "idle"
  BY DEF Begin, TypeInv, Runs
<1>2. y = [Rest EXCEPT !.at = "ensure"]
  BY <1>1, GoesTo
<1>3. BeginDoes(y)
  BY <1>2 DEF BeginDoes, Whole, Rest
<1>4. /\ y.at \in Locations /\ y.after \in Locations /\ y.held \in Ids \cup {None}
      /\ y.tries \in 1..Tries /\ y.attempt \in 1..Attempts /\ y.sent \in 0..Attempts
  BY <1>3, ConnectionAssumption DEF BeginDoes, Locations, ConnectionAssumption
<1> HIDE DEF y
<1>5. y \in Records /\ Formed(y)
  BY <1>3, <1>4, RecordOf DEF BeginDoes, Formed, Spot, Detouring
<1>6. task[t] = Rest
  BY <1>1 DEF TypeInv, Shaped, Formed
<1> QED BY <1>1, <1>3, <1>5, <1>6, OthersStay DEF BeginDoes, y

CleanupDoes(y) ==
  /\ Whole(y) /\ y.at = "close" /\ y.after = "end" /\ y.held = None
  /\ y.attempt = 1 /\ y.tries = 1 /\ y.sent = 0

LEMMA CleanupMoves ==
  ASSUME TypeInv, BeginCleanup
  PROVE  /\ CleanupDoes(task'[Unload]) /\ task'[Unload] \in Records /\ Formed(task'[Unload])
         /\ \A u \in Tasks : u # Unload => task'[u] = task[u] /\ task[u].at \in Waiting \cup {"idle"}
         /\ task' \in [Tasks -> Records] /\ running' = Unload /\ task[Unload] = Rest
<1> DEFINE y == task'[Unload]
<1>1. TypeOK /\ Unload \in Tasks /\ Closes(Unload, Rest, "end") /\ running \in {Unload, Nobody}
      /\ task[Unload].at = "idle"
  BY DEF BeginCleanup, TypeInv, Runs, Tasks
<1>2. y = [Rest EXCEPT !.at = "close", !.after = "end"]
  BY <1>1, GoesTo
<1>3. CleanupDoes(y)
  BY <1>2 DEF CleanupDoes, Whole, Rest
<1>4. /\ y.at \in Locations /\ y.after \in Locations /\ y.held \in Ids \cup {None}
      /\ y.tries \in 1..Tries /\ y.attempt \in 1..Attempts /\ y.sent \in 0..Attempts
  BY <1>3, ConnectionAssumption DEF CleanupDoes, Locations, ConnectionAssumption
<1> HIDE DEF y
<1>5. y \in Records /\ Formed(y)
  BY <1>3, <1>4, RecordOf DEF CleanupDoes, Formed, Spot, Detouring, Returns
<1>6. task[Unload] = Rest
  BY <1>1 DEF TypeInv, Shaped, Formed
<1>7. \E r : Goes(Unload, r)
  BY <1>1 DEF Closes
<1> QED BY <1>1, <1>3, <1>5, <1>6, <1>7, OthersStay DEF CleanupDoes, y

LEMMA AbandonMoves ==
  ASSUME TypeInv, NEW t \in Tasks, Abandon(t)
  PROVE  /\ task'[t] = Rest /\ task[t].at \in Waiting /\ running = Nobody /\ running' = Nobody
         /\ \A u \in Tasks : u # t => task'[u] = task[u] /\ task[u].at \in Waiting \cup {"idle"}
         /\ task' \in [Tasks -> Records]
<1>1. TypeOK /\ Goes(t, Rest) /\ running = Nobody /\ task[t].at \in Waiting
  BY DEF Abandon, Ends, TypeInv
<1>2. task'[t] = Rest
  BY <1>1, GoesTo
<1>3. running' = Nobody
  BY <1>1 DEF Goes, Rest
<1> QED BY <1>1, <1>2, <1>3, OthersStay, RestIsARecord

LEMMA BeginPreservesTypes ==
  ASSUME TypeInv, NEW t \in Tasks, Begin(t)
  PROVE  TypeInv'
<1> DEFINE y == task'[t]
<1>1. /\ t \in Exchanges /\ BeginDoes(y) /\ Formed(y)
      /\ \A u \in Tasks : u # t => task'[u] = task[u] /\ task[u].at \in Waiting \cup {"idle"}
      /\ task' \in [Tasks -> Records] /\ running' = t
  BY BeginMoves
<1>2. UNCHANGED <<conn, sess, openConns, openSess, failures, shown, cleanedUp, faults, crossed, unclean>>
  BY DEF Begin, fields
<1>3. TypeOK'
  <2>1. begins' \in 0..MaxBegins /\ shared' \in BOOLEAN
    BY ConnectionAssumption DEF Begin, TypeInv, TypeOK, Occupied, ConnectionAssumption
  <2> QED BY <1>1, <1>2, <2>1 DEF TypeInv, TypeOK, Records
<1> HIDE DEF y
<1>4. \A u \in Tasks : Shaped(u)'
  <2>1. Shaped(t)'
    BY <1>1 DEF Shaped, BeginDoes, Formed, Spot, y
  <2>2. ASSUME NEW u \in Tasks, u # t PROVE Shaped(u)'
    BY <1>1, <2>2 DEF Shaped, Formed, Spot, TypeInv
  <2> QED BY <2>1, <2>2
<1>5. Unloading'
  <2>1. Unload \in Tasks /\ Unload # t
    BY <1>1, NamesDiffer DEF Tasks
  <2> QED BY <1>1, <1>2, <2>1 DEF TypeInv, Unloading, Spot
<1> QED BY <1>2, <1>3, <1>4, <1>5 DEF TypeInv

LEMMA CleanupPreservesTypes ==
  ASSUME TypeInv, BeginCleanup
  PROVE  TypeInv'
<1> DEFINE y == task'[Unload]
<1>1. /\ CleanupDoes(y) /\ Formed(y)
      /\ \A u \in Tasks : u # Unload => task'[u] = task[u] /\ task[u].at \in Waiting \cup {"idle"}
      /\ task' \in [Tasks -> Records] /\ running' = Unload /\ Unload \in Tasks
  BY CleanupMoves DEF Tasks
<1>2. UNCHANGED <<conn, sess, openConns, openSess, failures, shown, begins, faults, crossed>>
      /\ cleanedUp' = TRUE
  BY DEF BeginCleanup, fields, bounds
<1>3. TypeOK'
  <2>1. {shared', unclean'} \subseteq BOOLEAN
    BY DEF BeginCleanup, TypeInv, TypeOK, Occupied
  <2> QED BY <1>1, <1>2, <2>1 DEF TypeInv, TypeOK, Records
<1> HIDE DEF y
<1>4. \A u \in Tasks : Shaped(u)'
  <2>1. Shaped(Unload)'
    BY <1>1 DEF Shaped, CleanupDoes, Formed, Spot, y
  <2>2. ASSUME NEW u \in Tasks, u # Unload PROVE Shaped(u)'
    BY <1>1, <2>2 DEF Shaped, Formed, Spot, TypeInv
  <2> QED BY <2>1, <2>2
<1>5. Unloading'
  BY <1>1, <1>2 DEF Unloading, Spot, CleanupDoes, Detouring, y
<1> QED BY <1>2, <1>3, <1>4, <1>5 DEF TypeInv

LEMMA AbandonPreservesTypes ==
  ASSUME TypeInv, NEW t \in Tasks, Abandon(t)
  PROVE  TypeInv'
<1>1. /\ task'[t] = Rest /\ running' = Nobody
      /\ \A u \in Tasks : u # t => task'[u] = task[u] /\ task[u].at \in Waiting \cup {"idle"}
      /\ task' \in [Tasks -> Records]
  BY AbandonMoves
<1>2. UNCHANGED <<openConns, openSess, cleanedUp, begins, crossed, shared>>
      /\ {conn', sess'} \subseteq {conn, sess, None}
  BY DEF Abandon
<1>3. TypeOK'
  <2>1. faults' \in [Kinds -> 0..MaxFaults]
    BY FaultCounts DEF Abandon, TypeInv, Kinds
  <2>2. failures' \in 0..Threshold /\ shown' \in {"live", "kept", "offline"}
    BY CountIsBounded DEF Abandon, Degrade, TypeInv, TypeOK
  <2>3. unclean' \in BOOLEAN
    BY DEF Abandon, TypeInv, TypeOK
  <2> QED BY <1>1, <1>2, <2>1, <2>2, <2>3 DEF TypeInv, TypeOK, Records
<1>4. \A u \in Tasks : Shaped(u)'
  <2>1. Shaped(t)'
    <3>1. Formed(task[t])'
      BY <1>1, RestWaitsForNothing DEF Formed, Spot
    <3> QED BY <1>1, <3>1, RestWaitsForNothing DEF Shaped
  <2>2. ASSUME NEW u \in Tasks, u # t PROVE Shaped(u)'
    BY <1>1, <2>2 DEF Shaped, Formed, Spot, TypeInv
  <2> QED BY <2>1, <2>2
<1>5. Unloading'
  <2>1. Unload \in Tasks
    BY DEF Tasks
  <2> QED BY <1>1, <1>2, <2>1, RestWaitsForNothing DEF TypeInv, Unloading, Spot
<1> QED BY <1>2, <1>3, <1>4, <1>5 DEF TypeInv

LEMMA DropPreservesTypes ==
  ASSUME TypeInv, Drop
  PROVE  TypeInv'
<1>1. /\ UNCHANGED <<running, task, conn, sess, openSess, failures, shown, cleanedUp, begins,
                     crossed, shared, unclean>>
      /\ running = Nobody /\ openConns' \subseteq openConns
  BY DEF Drop, history
<1>2. faults' \in [Kinds -> 0..MaxFaults]
  BY FaultCounts DEF Drop, TypeInv, Kinds
<1>3. TypeOK'
  BY <1>1, <1>2 DEF TypeInv, TypeOK
<1>4. ASSUME NEW u \in Tasks PROVE Shaped(u)'
  <2>1. u # Nobody /\ Shaped(u)
    BY NamesDiffer DEF TypeInv
  <2>2. Formed(task[u])'
    BY <1>1, <2>1 DEF Shaped, Formed, Spot
  <2>3. task[u].at \in Waiting \cup {"idle"}
    BY <1>1, <2>1 DEF Shaped
  <2> QED BY <1>1, <2>2, <2>3 DEF Shaped
<1> QED BY <1>1, <1>3, <1>4 DEF TypeInv, Unloading, Spot

LEMMA StutterPreservesTypes ==
  ASSUME TypeInv, UNCHANGED vars
  PROVE  TypeInv'
<1>1. UNCHANGED <<running, task, conn, sess, openConns, openSess, failures, shown, cleanedUp,
                  begins, faults, crossed, shared, unclean>>
  BY DEF vars, fields, bounds, history
<1>2. TypeOK' /\ Unloading'
  BY <1>1 DEF TypeInv, TypeOK, Unloading, Spot
<1>3. ASSUME NEW t \in Tasks PROVE Shaped(t)'
  BY <1>1, <1>3 DEF TypeInv, Shaped, Formed, Spot
<1> QED BY <1>1, <1>2, <1>3 DEF TypeInv

-----------------------------------------------------------------------------
(* The session that is open is the one that _ws_session names.             *)

\* Only a close, and the opening of a session, change what is open or referred to.
LEMMA StepTouches ==
  ASSUME TypeInv, NEW t \in Tasks, NEW x, x = task[t], NEW y, y = task'[t], Step(t)
  PROVE  \/ CloseConnection(t) \/ CloseSession(t) \/ Closed(t) \/ Open(t) \/ Connected(t)
         \/ /\ UNCHANGED <<conn, sess, openConns, openSess, crossed>>
            /\ y.at \notin Reworking \cup {"open"}
<1>1. TypeOK
  BY DEF TypeInv
<1>2. CASE y = Rest /\ UNCHANGED <<fields, crossed>>
  BY <1>2, RestWaitsForNothing DEF fields
<1>3. CASE Answered(t) \/ End(t)
  <2>1. y = Rest
    BY <1>1, <1>3, GoesTo DEF Answered, End, Ends
  <2> QED BY <1>2, <1>3, <2>1 DEF Answered, End, history
<1>4. CASE Ensure(t)
  <2>1. EnsureDoes(x, y) /\ UNCHANGED <<fields, crossed>>
    BY <1>1, <1>4, EnsureMoves DEF Ensure, history
  <2> QED BY <2>1, <1>2 DEF EnsureDoes, Moves, fields
<1>5. CASE LoggedIn(t)
  <2>1. LoggedInDoes(x, y) /\ UNCHANGED <<fields, crossed>>
    BY <1>1, <1>5, LoggedInMoves DEF LoggedIn, history
  <2> QED BY <2>1, <1>2 DEF LoggedInDoes, Moves, fields
<1>6. CASE ConnectFailed(t)
  <2>1. ConnectFailedDoes(x, y) /\ UNCHANGED <<fields, crossed>>
    BY <1>1, <1>6, ConnectFailedMoves DEF ConnectFailed, history
  <2> QED BY <2>1, <1>2 DEF ConnectFailedDoes, Moves, fields
<1>7. CASE TryFailed(t)
  <2>1. TryFailedDoes(x, y) /\ UNCHANGED <<fields, crossed>>
    BY <1>1, <1>7, TryFailedMoves DEF TryFailed, history
  <2> QED BY <2>1, <1>2 DEF TryFailedDoes, Moves, fields
<1>8. CASE TryAgain(t)
  <2>1. TryAgainDoes(x, y) /\ UNCHANGED <<fields, crossed>>
    BY <1>1, <1>8, TryAgainMoves DEF TryAgain, history
  <2> QED BY <2>1, <1>2 DEF TryAgainDoes, Moves, fields
<1>9. CASE Send(t)
  <2>1. SendDoes(x, y) /\ UNCHANGED <<fields, crossed>>
    BY <1>1, <1>9, SendMoves DEF Send, history
  <2> QED BY <2>1, <1>2 DEF SendDoes, Moves, fields
<1>10. CASE Sent(t)
  <2>1. SentDoes(t, x, y) /\ UNCHANGED <<fields, crossed>>
    BY <1>1, <1>10, SentMoves DEF Sent, history
  <2> QED BY <2>1, <1>2 DEF SentDoes, Moves, fields
<1>11. CASE SendFailed(t)
  <2>1. SendFailedDoes(x, y) /\ UNCHANGED <<fields, crossed>>
    BY <1>1, <1>11, SendFailedMoves DEF SendFailed, history
  <2> QED BY <2>1, <1>2 DEF SendFailedDoes, Moves, fields
<1>12. CASE Unanswered(t)
  <2>1. UnansweredDoes(x, y) /\ UNCHANGED <<fields, crossed>>
    BY <1>1, <1>12, UnansweredMoves DEF Unanswered, history
  <2> QED BY <2>1, <1>2 DEF UnansweredDoes, Moves, fields
<1>13. CASE CutOff(t)
  <2>1. CutOffDoes(x, y) /\ UNCHANGED <<fields, crossed>>
    BY <1>1, <1>13, CutOffMoves DEF CutOff, history
  <2> QED BY <2>1, <1>2 DEF CutOffDoes, Moves, fields
<1>14. CASE Raised(t)
  <2>1. RaisedDoes(t, x, y) /\ UNCHANGED <<fields, crossed>>
    BY <1>1, <1>14, RaisedMoves DEF Raised, history
  <2> QED BY <2>1, <1>2 DEF RaisedDoes, Moves, fields
<1>15. CASE Resume(t)
  <2>1. ResumeDoes(x, y) /\ UNCHANGED <<fields, crossed>>
    BY <1>1, <1>15, ResumeMoves DEF Resume, history
  <2> QED BY <2>1, <1>2 DEF ResumeDoes, Moves, fields
<1>16. CASE Denied(t)
  <2>1. DeniedDoes(x, y) /\ UNCHANGED <<fields, crossed>>
    BY <1>1, <1>16, DeniedMoves DEF Denied, history
  <2> QED BY <2>1, <1>2 DEF DeniedDoes, Moves, fields
<1> QED
  BY <1>3, <1>4, <1>5, <1>6, <1>7, <1>8, <1>9, <1>10,
     <1>11, <1>12, <1>13, <1>14, <1>15, <1>16 DEF Step

\* Nobody else works on the connection when a task that closes does so uncrossed.
LEMMA NobodyElseReworks ==
  ASSUME TypeInv, NEW t \in Tasks, Step(t), Crosses(t), ~crossed', NEW u \in Tasks, u # t
  PROVE  task'[u] = task[u] /\ task[u].at \notin Reworking \cup {"open"} /\ ~crossed
<1>1. task'[u] = task[u] /\ task[u].at \in Waiting \cup {"idle"}
  BY StepGoes, OthersStay
<1>2. task[u].at \notin Reworking /\ ~crossed
  BY DEF Crosses, TypeInv, TypeOK
<1> QED BY <1>1, <1>2

\* A task that leaves the connection alone changes nothing of that.
LEMMA UntouchedStays ==
  ASSUME Untouched, NEW t \in Tasks,
         \A u \in Tasks : u # t => task'[u] = task[u],
         task'[t].at \notin Reworking \cup {"open"},
         UNCHANGED <<crossed, openSess>>,
         sess' = sess \/ task[t].at = "closing session"
  PROVE  Untouched'
<1> SUFFICES ASSUME ~crossed PROVE Untouched'
  BY DEF Untouched
<1>1. openSess' \subseteq {sess'}
  BY DEF Untouched
<1>2. ASSUME NEW u \in Tasks, task'[u].at \in {"closing session", "open"} PROVE openSess' = {}
  <2>1. u # t
    BY <1>2
  <2> QED BY <1>2, <2>1 DEF Untouched
<1>3. ASSUME NEW u \in Tasks, NEW v \in Tasks,
             {task'[u].at, task'[v].at} \subseteq Reworking \cup {"open"}
      PROVE  u = v
  <2>1. u # t /\ v # t
    BY <1>3
  <2>2. task'[u] = task[u] /\ task'[v] = task[v]
    BY <2>1
  <2>3. {task[u].at, task[v].at} \subseteq Reworking \cup {"open"}
    BY <1>3, <2>2
  <2> QED BY <2>3 DEF Untouched
<1> QED BY <1>1, <1>2, <1>3 DEF Untouched

LEMMA StepPreservesUntouched ==
  ASSUME TypeInv, Untouched, NEW t \in Tasks, Step(t)
  PROVE  Untouched'
<1> DEFINE x == task[t]
           y == task'[t]
<1>1. /\ \A u \in Tasks : u # t => task'[u] = task[u] /\ task[u].at \in Waiting \cup {"idle"}
      /\ TypeOK
  BY StepGoes, OthersStay DEF TypeInv
<1> SUFFICES ASSUME ~crossed' PROVE Untouched'
  BY DEF Untouched
<1>2. CASE CloseConnection(t)
  <2>1. y.at = "closing connection" /\ Crosses(t) /\ UNCHANGED <<sess, openSess>>
    BY <1>1, <1>2, CloseConnectionMoves DEF CloseConnection, CloseConnectionDoes, Moves
  <2>2. \A u \in Tasks : u # t => task'[u] = task[u] /\ task[u].at \notin Reworking \cup {"open"}
    BY <2>1, NobodyElseReworks
  <2>3. ~crossed
    BY <2>1 DEF Crosses, TypeOK, TypeInv
  <2> HIDE DEF y
  <2> QED BY <2>1, <2>2, <2>3 DEF Untouched, y
<1>3. CASE CloseSession(t)
  <2>1. y.at = "closing session" /\ Crosses(t) /\ openSess' = openSess \ {sess} /\ sess' = sess
    BY <1>1, <1>3, CloseSessionMoves DEF CloseSession, CloseSessionDoes, Moves
  <2>2. \A u \in Tasks : u # t => task'[u] = task[u] /\ task[u].at \notin Reworking \cup {"open"}
    BY <2>1, NobodyElseReworks
  <2>3. ~crossed
    BY <2>1 DEF Crosses, TypeOK, TypeInv
  <2> HIDE DEF y
  <2> QED BY <2>1, <2>2, <2>3 DEF Untouched, y
<1>4. CASE Closed(t)
  <2>1. y.at = x.after /\ Crosses(t) /\ sess' = None /\ UNCHANGED openSess
    BY <1>1, <1>4, ClosedMoves DEF Closed, ClosedDoes, Moves
  <2>2. \A u \in Tasks : u # t => task'[u] = task[u] /\ task[u].at \notin Reworking \cup {"open"}
    BY <2>1, NobodyElseReworks
  <2>3. ~crossed
    BY <2>1 DEF Crosses, TypeOK, TypeInv
  <2>4. x.at = "closing session" \/ sess \notin openSess
    BY <1>4 DEF Closed, SessionIsClosed, Runs
  <2>5. openSess = {}
    BY <2>3, <2>4 DEF Untouched
  <2>6. x.after \notin Reworking
    BY <1>4 DEF TypeInv, Shaped, Formed, Returns, Detouring
  <2> HIDE DEF x, y
  <2> QED BY <2>1, <2>2, <2>3, <2>5, <2>6 DEF Untouched, x, y
<1>5. CASE Open(t)
  <2>1. /\ x.at = "open" /\ y.at = "connecting" /\ UNCHANGED crossed /\ sess' = Free
        /\ openSess' = (openSess \cap Referenced) \cup {Free}
    BY <1>1, <1>5, OpenMoves DEF Open, OpenDoes, Moves, Runs, history
  <2>2. openSess' = {Free}
    BY <2>1 DEF Untouched
  <2>3. \A u \in Tasks : u # t => task'[u] = task[u] /\ task[u].at \notin Reworking \cup {"open"}
    BY <1>1, <2>1 DEF Untouched
  <2> HIDE DEF x, y
  <2> QED BY <2>1, <2>2, <2>3 DEF Untouched, x, y
<1>6. CASE Connected(t)
  <2>1. y.at = "ready" /\ UNCHANGED <<crossed, sess, openSess>>
    BY <1>1, <1>6, ConnectedMoves DEF Connected, ConnectedDoes, history
  <2> HIDE DEF y
  <2> QED BY <1>1, <2>1, UntouchedStays DEF y
<1>7. CASE /\ UNCHANGED <<conn, sess, openConns, openSess, crossed>>
           /\ y.at \notin Reworking \cup {"open"}
  <2> HIDE DEF y
  <2> QED BY <1>1, <1>7, UntouchedStays DEF y
<1> HIDE DEF y
<1> QED BY <1>2, <1>3, <1>4, <1>5, <1>6, <1>7, StepTouches DEF y

\* The other steps open nothing, and a close that is abandoned had closed its session.
LEMMA OthersPreserveUntouched ==
  ASSUME TypeInv, Untouched
  PROVE  /\ \A t \in Tasks : Begin(t) \/ Abandon(t) => Untouched'
         /\ BeginCleanup \/ Drop \/ UNCHANGED vars => Untouched'
<1>1. ASSUME NEW t \in Tasks, Begin(t) PROVE Untouched'
  <2>1. task'[t].at = "ensure" /\ \A u \in Tasks : u # t => task'[u] = task[u]
    BY <1>1, BeginMoves DEF BeginDoes
  <2>2. UNCHANGED <<sess, openSess, crossed>>
    BY <1>1 DEF Begin, fields
  <2> QED BY <2>1, <2>2, UntouchedStays
<1>2. ASSUME NEW t \in Tasks, Abandon(t) PROVE Untouched'
  <2>1. task'[t].at = "idle" /\ \A u \in Tasks : u # t => task'[u] = task[u]
    BY <1>2, AbandonMoves, RestWaitsForNothing
  <2>2. /\ UNCHANGED <<openSess, crossed>>
        /\ sess' = sess \/ (task[t].at = "closing session" /\ sess' = None)
    BY <1>2 DEF Abandon
  <2> QED BY <2>1, <2>2, UntouchedStays
<1>3. ASSUME BeginCleanup PROVE Untouched'
  <2>1. task'[Unload].at = "close" /\ Unload \in Tasks /\ \A u \in Tasks : u # Unload => task'[u] = task[u]
    BY <1>3, CleanupMoves DEF CleanupDoes, Tasks
  <2>2. UNCHANGED <<sess, openSess, crossed>>
    BY <1>3 DEF BeginCleanup, fields
  <2> QED BY <2>1, <2>2, UntouchedStays
<1>4. CASE Drop
  BY <1>4 DEF Drop, Untouched, history
<1>5. CASE UNCHANGED vars
  BY <1>5 DEF Untouched, vars, fields, history
<1> QED BY <1>1, <1>2, <1>3, <1>4, <1>5

-----------------------------------------------------------------------------
(* An unload that has the connection for itself closes all of it.          *)

LEMMA NoneIsNoId == None \notin Ids
BY DEF None, Ids

LEMMA UnloadOnlyCloses ==
  ASSUME TypeInv, Step(Unload)
  PROVE  \/ CloseConnection(Unload) \/ CloseSession(Unload) \/ Closed(Unload)
         \/ End(Unload) /\ task[Unload].at = "end"
<1>1. task[Unload].at \in {"close", "closing connection", "closing session", "end", "idle"}
  BY DEF TypeInv, Unloading, Spot, Detouring
<1> QED
  BY <1>1 DEF Step, Ensure, LoggedIn, Open, Connected, ConnectFailed, TryFailed, TryAgain, Send,
              Sent, SendFailed, Answered, Unanswered, CutOff, Raised, Resume, Denied, End, Runs

LEMMA StepPreservesAlone ==
  ASSUME TypeInv, Untouched, Alone, NEW t \in Tasks, Step(t)
  PROVE  Alone'
<1>1. task[t].at # "idle" /\ UNCHANGED <<cleanedUp, unclean>>
  BY StepKeeps
<1>2. TypeOK /\ Unload \in Tasks /\ Unload \notin Exchanges
  BY NamesDiffer DEF TypeInv, Tasks
<1> SUFFICES ASSUME cleanedUp, ~unclean PROVE Alone'
  BY <1>1 DEF Alone
<1>3. t = Unload /\ \A u \in Exchanges : task[u].at = "idle"
  BY <1>1 DEF Alone, Tasks
<1>4. \A u \in Exchanges : task'[u].at = "idle"
  BY <1>2, <1>3, StepGoes, OthersStay DEF Tasks
<1>5. task'[Unload].at \in {"end", "idle"} => (crossed \/ openSess = {})'
  <2>1. CASE CloseConnection(Unload)
    BY <1>2, <2>1, CloseConnectionMoves DEF CloseConnectionDoes, Moves
  <2>2. CASE CloseSession(Unload)
    BY <1>2, <2>2, CloseSessionMoves DEF CloseSessionDoes, Moves
  <2>3. CASE Closed(Unload)
    <3>1. Untouched'
      BY <1>2, <2>3, <1>3, StepPreservesUntouched
    <3>2. openSess' \subseteq Ids
      BY <1>3, <2>3, StepKeepsConnections
    <3>3. sess' = None
      BY <2>3 DEF Closed
    <3> QED BY <3>1, <3>2, <3>3, NoneIsNoId DEF Untouched
  <2>4. CASE End(Unload) /\ task[Unload].at = "end"
    BY <2>4 DEF Alone, End, fields, history
  <2> QED BY <1>3, <2>1, <2>2, <2>3, <2>4, UnloadOnlyCloses
<1> QED BY <1>4, <1>5 DEF Alone

LEMMA OthersPreserveAlone ==
  ASSUME TypeInv, Alone
  PROVE  /\ \A t \in Tasks : Begin(t) \/ Abandon(t) => Alone'
         /\ BeginCleanup \/ Drop \/ UNCHANGED vars => Alone'
<1>1. ASSUME NEW t \in Tasks, Begin(t) PROVE Alone'
  BY <1>1 DEF Begin, Alone
<1>2. ASSUME NEW t \in Tasks, Abandon(t) PROVE Alone'
  <2>1. task[t].at # "idle"
    BY <1>2, AbandonMoves
  <2>2. unclean' = (unclean \/ t = Unload) /\ cleanedUp' = cleanedUp
    BY <1>2 DEF Abandon
  <2> QED BY <2>1, <2>2 DEF Alone, Tasks
<1>3. ASSUME BeginCleanup PROVE Alone'
  <2>1. /\ task'[Unload].at = "close" /\ Unload \notin Exchanges
        /\ \A u \in Tasks : u # Unload => task'[u] = task[u]
    BY <1>3, CleanupMoves, NamesDiffer DEF CleanupDoes
  <2>2. unclean' \/ \A u \in Tasks : task[u].at = "idle"
    BY <1>3 DEF BeginCleanup, Occupied
  <2>3. ASSUME ~unclean', NEW u \in Exchanges PROVE task'[u].at = "idle"
    BY <2>1, <2>2, <2>3 DEF Tasks
  <2> QED BY <2>1, <2>3 DEF Alone
<1>4. CASE Drop
  BY <1>4 DEF Drop, Alone, history
<1>5. CASE UNCHANGED vars
  BY <1>5 DEF Alone, vars, fields, history
<1> QED BY <1>1, <1>2, <1>3, <1>4, <1>5

-----------------------------------------------------------------------------
(* Tasks one by one: what a failure, a request and an answer then say.     *)

\* As long as tasks come one by one, the one that takes a step has no other beside it.
LEMMA OneAtWork ==
  ASSUME Counted, ~shared, NEW t \in Tasks, task[t].at # "idle"
  PROVE  Lone(t) /\ CountedFor(t)
BY DEF Counted, Lone

LEMMA StepStaysLone ==
  ASSUME TypeInv, NEW t \in Tasks, Step(t), Lone(t)
  PROVE  Lone(t)'
BY StepGoes, OthersStay DEF Lone

LEMMA FaultsAreNumbers ==
  ASSUME TypeOK
  PROVE  /\ {faults.refused, faults.dropped, faults.binary, failures} \subseteq Nat
         /\ Bump(failures) \in {failures, failures + 1}
         /\ Threshold \in Nat /\ Threshold >= 3
BY ConnectionAssumption DEF TypeOK, Kinds, Bump, ConnectionAssumption

LEMMA ClosedAtIds ==
  ASSUME TypeInv
  PROVE  None \notin openConns /\ None \notin openSess
BY NoneIsNoId DEF TypeInv, TypeOK

LEMMA StepPreservesCountedFor ==
  ASSUME TypeInv, NEW t \in Tasks, NEW x, x = task[t], NEW y, y = task'[t], Step(t), CountedFor(t)
  PROVE  CountedFor(t)'
<1>1. /\ TypeOK /\ Formed(x) /\ faults.refused \in Nat /\ failures \in Nat
      /\ Bump(failures) \in {failures, failures + 1}
      /\ None \notin openConns /\ None \notin openSess
  BY FaultsAreNumbers, ClosedAtIds DEF TypeInv, Shaped
<1>2. None \notin openConns' /\ None \notin openSess'
  BY StepPreservesTypes, NoneIsNoId DEF TypeInv, TypeOK
<1>3. CASE Answered(t) \/ End(t)
  <2>1. y = Rest /\ UNCHANGED <<conn, sess, openConns, openSess, faults>>
    BY <1>1, <1>3, GoesTo DEF Answered, End, Ends, fields, bounds
  <2>2. \/ failures' = 0
        \/ failures' = failures /\ ~Ending(t)
    BY <1>3 DEF Answered, End, Degrade, Ending
  <2>3. y.at = "idle" /\ Spot(y) = "idle"
    BY <2>1, RestWaitsForNothing
  <2>4. failures' <= faults.refused /\ (conn \in openConns => failures' = 0)
    <3>1. CASE failures' = 0
      BY <1>1, <3>1
    <3>2. CASE failures' = failures /\ ~Ending(t)
      BY <3>2 DEF CountedFor
    <3> QED BY <2>2, <3>1, <3>2
  <2> QED
    <3>1. ~Ending(t)'
      BY <2>3 DEF Ending
    <3>2. faults' = faults /\ conn' = conn /\ openConns' = openConns
      BY <2>1
    <3> QED BY <1>1, <2>3, <2>4, <3>1, <3>2 DEF CountedFor, Ending
<1>4. CASE CloseConnection(t)
  <2>1. CloseConnectionDoes(x, y)
    BY <1>1, <1>4, CloseConnectionMoves
  <2>2. /\ x.at = "close" /\ UNCHANGED <<conn, sess, openSess, failures, faults>>
        /\ openConns' = openConns \ {conn} /\ conn \in openConns
    BY <1>1, <1>4 DEF CloseConnection, Runs, bounds
  <2>3. /\ Spot(y) = Spot(x) /\ y.at = "closing connection"
    BY <1>1, <2>1, <2>2 DEF CloseConnectionDoes, Moves, Formed, Spot, Detouring, Returns
  <2> QED BY <1>1, <1>2, <2>2, <2>3 DEF CountedFor, Ending, Alive
<1>5. CASE CloseSession(t)
  <2>1. CloseSessionDoes(x, y)
    BY <1>1, <1>5, CloseSessionMoves
  <2>2. /\ x.at \in {"close", "closing connection"} /\ conn' = None
        /\ UNCHANGED <<sess, failures, faults>> /\ sess \in openSess
        /\ openConns' \subseteq openConns /\ openSess' \subseteq openSess
    BY <1>1, <1>5 DEF CloseSession, ConnectionIsClosed, Runs, bounds
  <2>3. /\ Spot(y) = Spot(x) /\ y.at = "closing session"
    BY <1>1, <2>1, <2>2 DEF CloseSessionDoes, Moves, Formed, Spot, Detouring, Returns
  <2> QED BY <1>1, <1>2, <2>2, <2>3 DEF CountedFor, Ending, Alive
<1>6. CASE Closed(t)
  <2>1. ClosedDoes(x, y)
    BY <1>1, <1>6, ClosedMoves
  <2>2. /\ x.at \in Detouring /\ sess' = None
        /\ UNCHANGED <<openConns, openSess, failures, faults>>
        /\ IF x.at = "closing session" THEN conn' = conn ELSE conn' = None
    BY <1>1, <1>6 DEF Closed, SessionIsClosed, ConnectionIsClosed, Runs, Detouring, bounds
  <2>3. /\ Spot(y) = Spot(x) /\ y.at = Spot(y) /\ y.at \in Returns
    BY <1>1, <2>1, <2>2 DEF ClosedDoes, Moves, Formed, Spot, Detouring, Returns
  <2> QED BY <1>1, <1>2, <2>2, <2>3 DEF CountedFor, Ending, Alive, Returns, Detouring
<1>7. CASE Ensure(t)
  <2>1. EnsureDoes(x, y)
    BY <1>1, <1>7, EnsureMoves
  <2>2. /\ x.at = "ensure" /\ UNCHANGED <<conn, sess, openConns, openSess, failures, faults>>
    BY <1>1, <1>7 DEF Ensure, Runs, bounds, fields
  <2>3. \/ y.at = "ready" /\ Spot(y) = "ready" /\ conn \in openConns
        \/ y.at = "close" /\ Spot(y) = "open"
        \/ y.at = "logging in" /\ Spot(y) = "logging in"
    BY <2>1 DEF EnsureDoes, Moves, Spot, Detouring, Usable
  <2>4. Spot(x) = "ensure"
    BY <2>2 DEF Spot, Detouring
  <2> QED BY <1>1, <1>2, <2>2, <2>3, <2>4 DEF CountedFor, Ending, Alive
<1>8. CASE LoggedIn(t)
  <2>1. LoggedInDoes(x, y)
    BY <1>1, <1>8, LoggedInMoves
  <2>2. x.at = "logging in" /\ UNCHANGED <<conn, sess, openConns, openSess, failures>>
    BY <1>1, <1>8 DEF LoggedIn, Runs, fields
  <2>3. \/ y.at = "close" /\ faults'.refused = faults.refused
        \/ y.at # "close" /\ faults'.refused = faults.refused + 1
    <3>1. CASE y.at = "close" /\ UNCHANGED faults
      BY <3>1
    <3>2. CASE y.at \in {"denied", "raised"} /\ Fault("refused")
      BY <1>1, <3>2, FaultCounts DEF Kinds
    <3> QED BY <2>1, <3>1, <3>2 DEF LoggedInDoes, Moves
  <2>4. \/ y.at = "close" /\ Spot(y) = "open"
        \/ y.at \in {"denied", "raised"} /\ Spot(y) = y.at
    BY <2>1 DEF LoggedInDoes, Moves, Spot, Detouring
  <2>5. failures <= faults.refused /\ (conn \in openConns => failures = 0)
    BY <2>2 DEF CountedFor, Ending, Spot, Detouring
  <2>6. ~Ending(t)'
    BY <2>4 DEF Ending
  <2>7. failures' <= faults'.refused /\ (y.at # "close" => failures' < faults'.refused)
    <3>1. failures' = failures /\ failures \in Nat /\ faults.refused \in Nat
      BY <1>1, <2>2
    <3>2. CASE y.at = "close" /\ faults'.refused = faults.refused
      BY <2>5, <3>1, <3>2
    <3>3. CASE y.at # "close" /\ faults'.refused = faults.refused + 1
      BY <2>5, <3>1, <3>3
    <3> QED BY <2>3, <3>2, <3>3
  <2> QED BY <1>1, <2>2, <2>4, <2>5, <2>6, <2>7 DEF CountedFor
<1>9. CASE Open(t)
  <2>1. OpenDoes(x, y)
    BY <1>1, <1>9, OpenMoves
  <2>2. /\ x.at = "open" /\ UNCHANGED <<conn, failures, faults>>
        /\ openConns' \subseteq openConns /\ Free \in openSess' 
    BY <1>1, <1>9 DEF Open, Runs, bounds
  <2>3. /\ Spot(x) = "open" /\ y.at = "connecting" /\ Spot(y) = "connecting" /\ y.held = Free
    BY <1>1, <2>1, <2>2 DEF OpenDoes, Moves, Formed, Spot, Detouring, Returns
  <2> QED BY <1>1, <1>2, <2>2, <2>3 DEF CountedFor, Ending, Alive
<1>10. CASE Connected(t)
  <2>1. ConnectedDoes(x, y)
    BY <1>1, <1>10, ConnectedMoves
  <2>2. /\ x.at = "connecting" /\ failures' = 0 /\ UNCHANGED faults
    BY <1>1, <1>10 DEF Connected, Runs, bounds
  <2>3. /\ Spot(x) = "connecting" /\ y.at = "ready" /\ Spot(y) = "ready"
    BY <1>1, <2>1, <2>2 DEF ConnectedDoes, Moves, Formed, Spot, Detouring, Returns
  <2> QED BY <1>1, <1>2, <2>2, <2>3 DEF CountedFor, Ending, Alive, Connected
<1>11. CASE ConnectFailed(t)
  <2>1. ConnectFailedDoes(x, y)
    BY <1>1, <1>11, ConnectFailedMoves
  <2>2. /\ x.at = "connecting" /\ UNCHANGED <<conn, sess, openConns, openSess>>
        /\ failures' = Bump(failures) /\ faults'.refused \in Nat
        /\ \/ x.held \notin openSess
           \/ faults'.refused = faults.refused + 1
    <3>1. CASE Fault("refused")
      <4>1. faults'["refused"] = faults["refused"] + 1
        BY <1>1, <3>1, FaultCounts DEF Kinds
      <4> QED BY <1>1, <1>11, <4>1 DEF ConnectFailed, Runs, fields
    <3>2. CASE ~Fault("refused")
      BY <1>1, <1>11, <3>2 DEF ConnectFailed, Runs, fields
    <3> QED BY <3>1, <3>2
  <2>3. /\ Spot(x) = "connecting" /\ y.at = "close" /\ Spot(y) = "failed"
    BY <2>1, <2>2 DEF ConnectFailedDoes, Moves, Spot, Detouring
  <2>4. failures' <= faults'.refused /\ conn' = None /\ ~Ending(t)'
    BY <1>1, <2>2, <2>3 DEF CountedFor, Ending
  <2> QED BY <1>1, <2>2, <2>3, <2>4 DEF CountedFor
<1>12. CASE TryFailed(t)
  <2>1. TryFailedDoes(x, y)
    BY <1>1, <1>12, TryFailedMoves
  <2>2. /\ x.at = "failed" /\ UNCHANGED <<conn, sess, openConns, openSess, failures, faults>>
    BY <1>1, <1>12 DEF TryFailed, Runs, bounds, fields
  <2>3. /\ Spot(x) = "failed" /\ y.at \in {"sleeping", "denied", "raised"} /\ Spot(y) = y.at
    BY <1>1, <2>1, <2>2 DEF TryFailedDoes, Moves, Formed, Spot, Detouring, Returns
  <2> QED BY <1>1, <1>2, <2>2, <2>3 DEF CountedFor, Ending, Alive
<1>13. CASE TryAgain(t)
  <2>1. TryAgainDoes(x, y)
    BY <1>1, <1>13, TryAgainMoves
  <2>2. /\ x.at = "sleeping" /\ UNCHANGED <<conn, sess, openConns, openSess, failures, faults>>
    BY <1>1, <1>13 DEF TryAgain, Runs, bounds, fields
  <2>3. /\ Spot(x) = "sleeping" /\ y.at = "close" /\ Spot(y) = "open"
    BY <1>1, <2>1, <2>2 DEF TryAgainDoes, Moves, Formed, Spot, Detouring, Returns
  <2> QED BY <1>1, <1>2, <2>2, <2>3 DEF CountedFor, Ending, Alive
<1>14. CASE Send(t)
  <2>1. SendDoes(x, y)
    BY <1>1, <1>14, SendMoves
  <2>2. /\ x.at = "ready" /\ UNCHANGED <<conn, sess, openConns, openSess, failures, faults>>
    BY <1>1, <1>14 DEF Send, Runs, bounds, fields
  <2>3. /\ Spot(x) = "ready" /\ y.at = "sending" /\ Spot(y) = "sending"
    BY <1>1, <2>1, <2>2 DEF SendDoes, Moves, Formed, Spot, Detouring, Returns
  <2> QED BY <1>1, <1>2, <2>2, <2>3 DEF CountedFor, Ending, Alive
<1>15. CASE Sent(t)
  <2>1. SentDoes(t, x, y)
    BY <1>1, <1>15, SentMoves
  <2>2. /\ x.at = "sending" /\ UNCHANGED <<conn, sess, openConns, openSess, failures, faults>>
    BY <1>1, <1>15 DEF Sent, Runs, bounds, fields
  <2>3. /\ Spot(x) = "sending" /\ y.at \in {"idle", "receiving", "raised"} /\ Spot(y) = y.at
    BY <1>1, <2>1, <2>2, RestWaitsForNothing DEF SentDoes, Moves, Formed, Spot, Detouring, Returns
  <2> QED BY <1>1, <1>2, <2>2, <2>3 DEF CountedFor, Ending, Alive
<1>16. CASE SendFailed(t)
  <2>1. SendFailedDoes(x, y)
    BY <1>1, <1>16, SendFailedMoves
  <2>2. /\ x.at = "sending" /\ UNCHANGED <<conn, sess, openConns, openSess, failures, faults>>
    BY <1>1, <1>16 DEF SendFailed, Runs, bounds, fields
  <2>3. /\ Spot(x) = "sending" /\ y.at = "raised" /\ Spot(y) = "raised"
    BY <1>1, <2>1, <2>2 DEF SendFailedDoes, Moves, Formed, Spot, Detouring, Returns
  <2> QED BY <1>1, <1>2, <2>2, <2>3 DEF CountedFor, Ending, Alive
<1>17. CASE Unanswered(t)
  <2>1. UnansweredDoes(x, y)
    BY <1>1, <1>17, UnansweredMoves
  <2>2. /\ x.at = "receiving" /\ UNCHANGED <<conn, sess, openConns, openSess, failures>>
        /\ faults'.refused >= faults.refused
    BY <1>1, <1>17, FaultCounts, <2>1 DEF Unanswered, Runs, fields, Kinds
  <2>3. /\ Spot(x) = "receiving" /\ y.at \in {"idle", "raised"} /\ Spot(y) = y.at
    BY <1>1, <2>1, <2>2, RestWaitsForNothing DEF UnansweredDoes, Moves, Formed, Spot, Detouring, Returns
  <2>4. failures = 0
    BY <2>2 DEF CountedFor
  <2>5. failures' = 0 /\ failures' <= faults'.refused
    <3>1. 0 <= faults.refused /\ faults'.refused \in Nat
      BY <1>1, StepPreservesTypes, FaultsAreNumbers DEF TypeInv, TypeOK, Kinds
    <3> QED BY <2>2, <2>4, <3>1
  <2>6. ~Ending(t)'
    BY <2>3 DEF Ending
  <2> QED BY <2>3, <2>5, <2>6 DEF CountedFor
<1>18. CASE CutOff(t)
  <2>1. CutOffDoes(x, y)
    BY <1>1, <1>18, CutOffMoves
  <2>2. /\ x.at = "receiving" /\ UNCHANGED <<conn, sess, openConns, openSess, failures>>
        /\ faults'.refused >= faults.refused
    <3>1. UNCHANGED faults \/ Fault("binary")
      BY <1>18 DEF CutOff
    <3>2. faults.refused \in Nat
      BY <1>1, FaultsAreNumbers DEF TypeInv
    <3> QED BY <1>1, <1>18, <3>1, <3>2, FaultCounts DEF CutOff, Runs, fields, Kinds
  <2>3. /\ Spot(x) = "receiving" /\ y.at \in {"close", "end", "ensure"} /\ Spot(y) \in {"end", "ensure"}
    BY <1>1, <2>1, <2>2 DEF CutOffDoes, Moves, Formed, Spot, Detouring, Returns
  <2>4. failures = 0
    BY <2>2 DEF CountedFor
  <2>5. failures' = 0 /\ failures' <= faults'.refused
    <3>1. 0 <= faults.refused /\ faults'.refused \in Nat
      BY <1>1, StepPreservesTypes, FaultsAreNumbers DEF TypeInv, TypeOK, Kinds
    <3> QED BY <2>2, <2>4, <3>1
  <2> QED BY <1>1, <2>2, <2>3, <2>5 DEF CountedFor, Ending
<1>19. CASE Raised(t)
  <2>1. RaisedDoes(t, x, y)
    BY <1>1, <1>19, RaisedMoves
  <2>2. /\ x.at = "raised" /\ UNCHANGED <<conn, sess, openConns, openSess, faults>>
    BY <1>1, <1>19 DEF Raised, Runs, bounds, fields
  <2>3. Spot(x) = "raised" /\ y.at = "close" /\ (\/ Spot(y) = "pausing" /\ failures' = failures
                                               \/ /\ Spot(y) = "end"
                                                  /\ failures' = IF t \in Polls THEN Bump(failures) ELSE failures)
    BY <1>1, <2>1, <2>2 DEF RaisedDoes, Moves, Formed, Spot, Detouring, Returns
  <2> QED BY <1>1, <1>2, <2>2, <2>3 DEF CountedFor, Ending, Alive
<1>20. CASE Resume(t)
  <2>1. ResumeDoes(x, y)
    BY <1>1, <1>20, ResumeMoves
  <2>2. /\ x.at = "pausing" /\ UNCHANGED <<conn, sess, openConns, openSess, failures, faults>>
    BY <1>1, <1>20 DEF Resume, Runs, bounds, fields
  <2>3. /\ Spot(x) = "pausing" /\ y.at = "ensure" /\ Spot(y) = "ensure"
    BY <1>1, <2>1, <2>2 DEF ResumeDoes, Moves, Formed, Spot, Detouring, Returns
  <2> QED BY <1>1, <1>2, <2>2, <2>3 DEF CountedFor, Ending, Alive
<1>21. CASE Denied(t)
  <2>1. DeniedDoes(x, y)
    BY <1>1, <1>21, DeniedMoves
  <2>2. /\ x.at = "denied" /\ UNCHANGED <<conn, sess, openConns, openSess, faults>>
        /\ failures' = IF t \in Polls THEN Bump(failures) ELSE failures
    BY <1>1, <1>21 DEF Denied, Runs, bounds, fields
  <2>3. /\ Spot(x) = "denied" /\ y.at = "close" /\ Spot(y) = "end"
    BY <1>1, <2>1, <2>2 DEF DeniedDoes, Moves, Formed, Spot, Detouring, Returns
  <2> QED BY <1>1, <1>2, <2>2, <2>3 DEF CountedFor, Ending, Alive
<1> QED
  BY <1>3, <1>4, <1>5, <1>6, <1>7, <1>8, <1>9, <1>10, <1>11, <1>12,
     <1>13, <1>14, <1>15, <1>16, <1>17, <1>18, <1>19, <1>20, <1>21 DEF Step

LEMMA StepPreservesCounted ==
  ASSUME TypeInv, Counted, NEW t \in Tasks, Step(t)
  PROVE  Counted'
<1>1. task[t].at # "idle" /\ shared' = shared
  BY StepKeeps
<1> SUFFICES ASSUME ~shared PROVE Lone(t)' /\ CountedFor(t)'
  BY <1>1 DEF Counted
<1>2. Lone(t) /\ CountedFor(t)
  BY <1>1, OneAtWork
<1> QED BY <1>2, StepStaysLone, StepPreservesCountedFor

\* A poll or the unload that begins finds nobody, or is remembered not to.
LEMMA BeginningFindsNobody ==
  ASSUME TypeInv, Counted, ~Occupied, ~shared
  PROVE  /\ \A t \in Tasks : task[t].at = "idle"
         /\ failures <= faults.refused /\ (conn \in openConns => failures = 0)
<1>1. PICK t \in Tasks : CountedFor(t)
  BY DEF Counted
<1>2. \A u \in Tasks : task[u].at = "idle"
  BY DEF Occupied
<1>3. ~Ending(t)
  BY <1>2 DEF Ending, Spot, Detouring
<1> QED BY <1>1, <1>2, <1>3 DEF CountedFor

LEMMA OthersPreserveCounted ==
  ASSUME TypeInv, Counted
  PROVE  /\ \A t \in Tasks : Begin(t) \/ Abandon(t) => Counted'
         /\ BeginCleanup \/ Drop \/ UNCHANGED vars => Counted'
<1>1. ASSUME NEW t \in Tasks, ~shared', shared' = (shared \/ Occupied),
             \A u \in Tasks : u # t => task'[u] = task[u],
             task'[t].at \in {"ensure", "close"}, Spot(task'[t]) # "failed",
             Spot(task'[t]) = "end" => t \notin Polls,
             UNCHANGED <<conn, openConns, failures, faults>>
      PROVE  Counted'
  <2>1. /\ \A u \in Tasks : task[u].at = "idle"
        /\ failures <= faults.refused /\ (conn \in openConns => failures = 0)
    BY <1>1, BeginningFindsNobody
  <2>2. Lone(t)'
    BY <1>1, <2>1 DEF Lone
  <2>3. ~Ending(t)'
    BY <1>1 DEF Ending
  <2>4. CountedFor(t)'
    BY <1>1, <2>1, <2>3 DEF CountedFor
  <2> QED BY <2>2, <2>4 DEF Counted
<1>2. ASSUME NEW t \in Tasks, Begin(t) PROVE Counted'
  <2> SUFFICES ASSUME ~shared' PROVE Counted'
    BY DEF Counted
  <2>1. /\ task'[t].at = "ensure" /\ Spot(task'[t]) = "ensure"
        /\ \A u \in Tasks : u # t => task'[u] = task[u]
    BY <1>2, BeginMoves DEF BeginDoes, Spot, Detouring
  <2>2. shared' = (shared \/ Occupied) /\ UNCHANGED <<conn, openConns, failures, faults>>
    BY <1>2 DEF Begin, fields
  <2> QED BY <1>1, <2>1, <2>2
<1>3. ASSUME BeginCleanup PROVE Counted'
  <2> SUFFICES ASSUME ~shared' PROVE Counted'
    BY DEF Counted
  <2>1. /\ task'[Unload].at = "close" /\ Spot(task'[Unload]) = "end"
        /\ \A u \in Tasks : u # Unload => task'[u] = task[u]
    BY <1>3, CleanupMoves DEF CleanupDoes, Spot, Detouring
  <2>2. shared' = (shared \/ Occupied) /\ UNCHANGED <<conn, openConns, failures, faults>>
    BY <1>3 DEF BeginCleanup, fields, bounds
  <2>3. Unload \in Tasks /\ Unload \notin Polls
    BY NamesDiffer DEF Tasks, Exchanges
  <2> QED BY <1>1, <2>1, <2>2, <2>3
<1>4. ASSUME NEW t \in Tasks, Abandon(t) PROVE Counted'
  <2> SUFFICES ASSUME ~shared PROVE Lone(t)' /\ CountedFor(t)'
    BY <1>4 DEF Counted, Abandon
  <2>1. /\ task[t].at # "idle" /\ task'[t] = Rest
        /\ \A u \in Tasks : u # t => task'[u] = task[u]
    BY <1>4, AbandonMoves
  <2>2. Lone(t) /\ CountedFor(t)
    BY <2>1, OneAtWork
  <2>3. Lone(t)'
    BY <2>1, <2>2 DEF Lone
  <2>4. /\ task'[t].at = "idle" /\ Spot(task'[t]) = "idle" /\ openConns' = openConns
        /\ conn' \in {conn, None} /\ None \notin openConns
    BY <1>4, <2>1, RestWaitsForNothing, ClosedAtIds DEF Abandon
  <2>5. failures' <= faults'.refused /\ (conn' \in openConns' => failures' = 0)
    <3>1. faults'.refused = faults.refused /\ faults.refused \in Nat /\ failures \in Nat
      BY <1>4, FaultsAreNumbers DEF Abandon, Fault, TypeInv, TypeOK, Kinds
    <3>2. CASE failures' = 0
      BY <3>1, <3>2
    <3>3. CASE failures' = failures /\ ~Ending(t)
      BY <2>2, <2>4, <3>1, <3>3 DEF CountedFor
    <3> QED BY <1>4, <3>2, <3>3 DEF Abandon, Degrade, Ending
  <2>6. ~Ending(t)'
    BY <2>4 DEF Ending
  <2>7. CountedFor(t)'
    BY <2>4, <2>5, <2>6 DEF CountedFor
  <2> QED BY <2>3, <2>7
<1>5. CASE Drop
  <2> SUFFICES ASSUME NEW t \in Tasks, Lone(t), CountedFor(t) PROVE Lone(t)' /\ CountedFor(t)'
    BY <1>5 DEF Counted, Drop, history
  <2>1. UNCHANGED <<task, conn, sess, openSess, failures>> /\ openConns' \subseteq openConns
    BY <1>5 DEF Drop
  <2>2. faults'.refused = faults.refused
    BY <1>5 DEF Drop, Fault, TypeInv, TypeOK, Kinds
  <2> QED BY <2>1, <2>2 DEF Lone, CountedFor, Ending, Spot, Alive
<1>6. CASE UNCHANGED vars
  <2>1. UNCHANGED <<task, conn, sess, openConns, openSess, failures, faults, shared>>
    BY <1>6 DEF vars, fields, bounds, history
  <2>2. ASSUME NEW t \in Tasks, Lone(t), CountedFor(t) PROVE Lone(t)' /\ CountedFor(t)'
    BY <2>1, <2>2 DEF Lone, CountedFor, Ending, Spot, Alive
  <2> QED BY <2>1, <2>2 DEF Counted
<1> QED BY <1>2, <1>3, <1>4, <1>5, <1>6

\* A poll that ends without an answer reports "offline" after the threshold's failures.
LEMMA OfflineIsLate ==
  ASSUME TypeInv, NEW n \in Nat, Resilient(n) = "offline", n <= faults.refused + 1
  PROVE  faults.refused >= Threshold - 1
<1>1. n >= Threshold
  BY DEF Resilient
<1>2. faults.refused \in Nat /\ Threshold \in Nat
  BY FaultsAreNumbers DEF TypeInv
<1> QED BY <1>1, <1>2

LEMMA StepPreservesOfflineIsReal ==
  ASSUME TypeInv, Counted, OfflineIsReal, NEW t \in Tasks, Step(t)
  PROVE  OfflineIsReal'
<1>1. /\ task[t].at # "idle" /\ shared' = shared
      /\ faults.refused \in Nat /\ faults'.refused \in Nat /\ failures \in Nat
      /\ Threshold \in Nat
  BY StepKeeps, FaultsAreNumbers, StepPreservesTypes DEF TypeInv, TypeOK, Kinds
<1>2. faults'.refused >= faults.refused
  <2>1. UNCHANGED faults \/ \E k \in Kinds : Fault(k)
    BY DEF Step, CloseConnection, CloseSession, Closed, Ensure, LoggedIn, Open, Connected,
           ConnectFailed, TryFailed, TryAgain, Send, Sent, SendFailed, Answered, Unanswered,
           CutOff, Raised, Resume, Denied, End, bounds, Kinds
  <2> QED BY <1>1, <2>1, FaultCounts DEF TypeInv, Kinds
<1>3. \/ shown' \in {shown, "live"}
      \/ End(t) /\ t \in Polls /\ Degrade(failures)
  BY DEF Step, CloseConnection, CloseSession, Closed, Ensure, LoggedIn, Open, Connected,
         ConnectFailed, TryFailed, TryAgain, Send, Sent, SendFailed, Answered, Unanswered,
         CutOff, Raised, Resume, Denied, End
<1>4. CASE shown' \in {shown, "live"}
  <2>1. faults.refused >= Threshold - 1 => faults'.refused >= Threshold - 1
    BY <1>1, <1>2
  <2> QED BY <1>1, <1>4, <2>1 DEF OfflineIsReal
<1>5. CASE End(t) /\ t \in Polls /\ Degrade(failures)
  <2> SUFFICES ASSUME ~shared, Resilient(failures) = "offline"
               PROVE  faults'.refused >= Threshold - 1
    BY <1>1, <1>5 DEF OfflineIsReal, Degrade
  <2>1. failures <= faults.refused + 1
    <3>1. CountedFor(t)
      BY <1>1, OneAtWork
    <3>2. failures <= faults.refused \/ failures <= faults.refused + 1
      BY <3>1 DEF CountedFor
    <3> QED BY <1>1, <3>2
  <2> QED BY <1>1, <1>2, <2>1, OfflineIsLate
<1> QED BY <1>3, <1>4, <1>5

LEMMA OthersPreserveOfflineIsReal ==
  ASSUME TypeInv, Counted, OfflineIsReal
  PROVE  /\ \A t \in Tasks : Begin(t) \/ Abandon(t) => OfflineIsReal'
         /\ BeginCleanup \/ Drop \/ UNCHANGED vars => OfflineIsReal'
<1>1. /\ faults.refused \in Nat /\ failures \in Nat /\ Threshold \in Nat /\ Threshold >= 3
      /\ Bump(failures) \in {failures, failures + 1}
  BY FaultsAreNumbers DEF TypeInv
<1>2. ASSUME NEW t \in Tasks, Begin(t) PROVE OfflineIsReal'
  BY <1>2 DEF Begin, OfflineIsReal
<1>3. ASSUME NEW t \in Tasks, Abandon(t) PROVE OfflineIsReal'
  <2>1. faults'.refused = faults.refused /\ shared' = shared
    BY <1>3 DEF Abandon, Fault, TypeInv, TypeOK, Kinds
  <2>2. CASE shown' = shown
    BY <2>1, <2>2 DEF OfflineIsReal
  <2>3. CASE t \in Polls /\ Degrade(Bump(failures))
    <3> SUFFICES ASSUME ~shared, Resilient(Bump(failures)) = "offline"
                 PROVE  faults.refused >= Threshold - 1
      BY <2>1, <2>3 DEF OfflineIsReal, Degrade
    <3>1. task[t].at # "idle" /\ task[t].at \in Waiting
      BY <1>3, AbandonMoves
    <3>2. CountedFor(t)
      BY <3>1, OneAtWork
    <3>3. Bump(failures) >= Threshold
      BY DEF Resilient
    <3>4. CASE failures <= faults.refused
      BY <1>1, <3>3, <3>4
    <3>5. CASE Ending(t) /\ failures > faults.refused
      <4>1. task[t].at \in Reworking
        <5>1. Formed(task[t]) /\ Spot(task[t]) = "end"
          BY <3>5 DEF Ending, TypeInv, Shaped
        <5> QED BY <3>1, <5>1 DEF Spot, Detouring
      <4>2. failures <= 1
        <5>1. failures <= 1 \/ failures <= faults.refused
          BY <3>2, <3>5, <4>1 DEF CountedFor
        <5> QED BY <1>1, <3>5, <5>1
      <4> QED BY <1>1, <3>3, <4>2
    <3> QED
      <4>1. failures <= faults.refused \/ Ending(t)
        BY <3>2 DEF CountedFor
      <4> QED BY <1>1, <3>4, <3>5, <4>1
  <2> QED BY <1>3, <2>2, <2>3 DEF Abandon
<1>4. CASE BeginCleanup
  BY <1>4 DEF BeginCleanup, OfflineIsReal, bounds
<1>5. CASE Drop
  BY <1>5 DEF Drop, OfflineIsReal, Fault, TypeInv, TypeOK, Kinds, history
<1>6. CASE UNCHANGED vars
  BY <1>6 DEF OfflineIsReal, vars, bounds, history
<1> QED BY <1>2, <1>3, <1>4, <1>5, <1>6

\* A step that is not of a request or an answer, or that gives up one that did not leave.
Quiet(x, y) ==
  /\ x.at # "receiving" /\ y.at \notin {"sending", "receiving"}
  /\ y.sent = x.sent

LEMMA StepIsQuiet ==
  ASSUME TypeInv, NEW t \in Tasks, NEW x, x = task[t], NEW y, y = task'[t], Step(t)
  PROVE  \/ y = Rest \/ Send(t) \/ Sent(t) \/ Unanswered(t) \/ CutOff(t)
         \/ Quiet(x, y)
<1>1. TypeOK /\ Formed(x)
  BY DEF TypeInv, Shaped
<1>2. CASE Answered(t) \/ End(t)
  BY <1>1, <1>2, GoesTo DEF Answered, End, Ends
<1>3. CASE CloseConnection(t)
  <2>1. x.at # "receiving"
    BY <1>3 DEF CloseConnection, Runs
  <2>2. CloseConnectionDoes(x, y)
    BY <1>1, <1>3, CloseConnectionMoves
  <2> QED BY <2>1, <2>2 DEF CloseConnectionDoes, Moves, Quiet
<1>4. CASE CloseSession(t)
  <2>1. x.at # "receiving"
    BY <1>4 DEF CloseSession, Runs, ConnectionIsClosed
  <2>2. CloseSessionDoes(x, y)
    BY <1>1, <1>4, CloseSessionMoves
  <2> QED BY <2>1, <2>2 DEF CloseSessionDoes, Moves, Quiet
<1>5. CASE Closed(t)
  <2>1. x.at # "receiving"
    BY <1>5 DEF Closed, Runs, SessionIsClosed, ConnectionIsClosed
  <2>2. ClosedDoes(x, y)
    BY <1>1, <1>5, ClosedMoves
  <2>3. x.after \in Returns
    BY <1>1, <1>5 DEF Formed, Closed, SessionIsClosed, ConnectionIsClosed, Runs, Detouring
  <2> QED BY <2>1, <2>2, <2>3 DEF ClosedDoes, Moves, Quiet, Returns
<1>6. CASE Ensure(t)
  <2>1. x.at # "receiving"
    BY <1>6 DEF Ensure, Runs
  <2>2. EnsureDoes(x, y)
    BY <1>1, <1>6, EnsureMoves
  <2> QED BY <2>1, <2>2 DEF EnsureDoes, Moves, Quiet
<1>7. CASE LoggedIn(t)
  <2>1. x.at # "receiving"
    BY <1>7 DEF LoggedIn, Runs
  <2>2. LoggedInDoes(x, y)
    BY <1>1, <1>7, LoggedInMoves
  <2> QED BY <2>1, <2>2 DEF LoggedInDoes, Moves, Quiet
<1>8. CASE Open(t)
  <2>1. x.at # "receiving"
    BY <1>8 DEF Open, Runs
  <2>2. OpenDoes(x, y)
    BY <1>1, <1>8, OpenMoves
  <2> QED BY <2>1, <2>2 DEF OpenDoes, Moves, Quiet
<1>9. CASE Connected(t)
  <2>1. x.at # "receiving"
    BY <1>9 DEF Connected, Runs
  <2>2. ConnectedDoes(x, y)
    BY <1>1, <1>9, ConnectedMoves
  <2> QED BY <2>1, <2>2 DEF ConnectedDoes, Moves, Quiet
<1>10. CASE ConnectFailed(t)
  <2>1. x.at # "receiving"
    BY <1>10 DEF ConnectFailed, Runs
  <2>2. ConnectFailedDoes(x, y)
    BY <1>1, <1>10, ConnectFailedMoves
  <2> QED BY <2>1, <2>2 DEF ConnectFailedDoes, Moves, Quiet
<1>11. CASE TryFailed(t)
  <2>1. x.at # "receiving"
    BY <1>11 DEF TryFailed, Runs
  <2>2. TryFailedDoes(x, y)
    BY <1>1, <1>11, TryFailedMoves
  <2> QED BY <2>1, <2>2 DEF TryFailedDoes, Moves, Quiet
<1>12. CASE TryAgain(t)
  <2>1. x.at # "receiving"
    BY <1>12 DEF TryAgain, Runs
  <2>2. TryAgainDoes(x, y)
    BY <1>1, <1>12, TryAgainMoves
  <2> QED BY <2>1, <2>2 DEF TryAgainDoes, Moves, Quiet
<1>13. CASE SendFailed(t)
  <2>1. x.at # "receiving"
    BY <1>13 DEF SendFailed, Runs
  <2>2. SendFailedDoes(x, y)
    BY <1>1, <1>13, SendFailedMoves
  <2> QED BY <2>1, <2>2 DEF SendFailedDoes, Moves, Quiet
<1>14. CASE Raised(t)
  <2>1. x.at # "receiving"
    BY <1>14 DEF Raised, Runs
  <2>2. RaisedDoes(t, x, y)
    BY <1>1, <1>14, RaisedMoves
  <2> QED BY <2>1, <2>2 DEF RaisedDoes, Moves, Quiet
<1>15. CASE Resume(t)
  <2>1. x.at # "receiving"
    BY <1>15 DEF Resume, Runs
  <2>2. ResumeDoes(x, y)
    BY <1>1, <1>15, ResumeMoves
  <2> QED BY <2>1, <2>2 DEF ResumeDoes, Moves, Quiet
<1>16. CASE Denied(t)
  <2>1. x.at # "receiving"
    BY <1>16 DEF Denied, Runs
  <2>2. DeniedDoes(x, y)
    BY <1>1, <1>16, DeniedMoves
  <2> QED BY <2>1, <2>2 DEF DeniedDoes, Moves, Quiet
<1> QED
  BY <1>2, <1>3, <1>4, <1>5, <1>6, <1>7, <1>8, <1>9, <1>10, <1>11, <1>12, <1>13, <1>14, <1>15, <1>16 DEF Step

LEMMA StepPreservesSending ==
  ASSUME TypeInv, Counted, Sending, NEW t \in Tasks, Step(t)
  PROVE  Sending'
<1> DEFINE x == task[t]
           y == task'[t]
<1>1. task[t].at # "idle" /\ shared' = shared
  BY StepKeeps
<1>2. Disturbed => Disturbed'
  <2>1. UNCHANGED faults \/ \E k \in Kinds : Fault(k)
    BY DEF Step, CloseConnection, CloseSession, Closed, Ensure, LoggedIn, Open, Connected,
           ConnectFailed, TryFailed, TryAgain, Send, Sent, SendFailed, Answered, Unanswered,
           CutOff, Raised, Resume, Denied, End, bounds, Kinds
  <2> QED BY <2>1, FaultDisturbs DEF Disturbed, TypeInv
<1> SUFFICES ASSUME ~shared, ~Disturbed' PROVE \A u \in Tasks : Holding(u)'
  BY <1>1 DEF Sending
<1>3. Holding(t)
  BY <1>2 DEF Sending
<1>4. ASSUME NEW u \in Tasks, u # t PROVE Holding(u)'
  <2>1. task'[u] = task[u] /\ task[u].at = "idle"
    BY <1>1, <1>4, OneAtWork, StepGoes, OthersStay DEF Lone
  <2>2. task'[u] = Rest
    BY <2>1 DEF TypeInv, Shaped, Formed
  <2> QED BY <2>2, RestWaitsForNothing DEF Holding
<1>5. Holding(t)'
  <2>1. CASE y = Rest
    BY <2>1, RestWaitsForNothing DEF Holding
  <2>2. CASE Quiet(x, y)
    BY <1>3, <2>2 DEF Holding, Quiet
  <2>3. CASE Send(t)
    <3>1. SendDoes(x, y) /\ x.at = "ready" /\ UNCHANGED <<conn, openConns>> /\ conn \in openConns
      BY <2>3, SendMoves DEF TypeInv, Shaped, Send, Runs, fields
    <3> HIDE DEF x, y
    <3> QED BY <1>3, <3>1 DEF Holding, SendDoes, Moves, x, y
  <2>4. CASE Sent(t) /\ y # Rest
    <3>1. /\ SentDoes(t, x, y) /\ x.at = "sending" /\ UNCHANGED <<conn, openConns>>
          /\ x.sent \in 0..Attempts /\ Polls \cap Commands = {}
      BY <2>4, SentMoves, ConnectionAssumption
         DEF TypeInv, TypeOK, Sent, Runs, fields, ConnectionAssumption
    <3>2. conn \in openConns /\ (t \in Commands => x.sent = 0)
      BY <1>3, <3>1 DEF Holding
    <3> HIDE DEF x, y
    <3>3. \/ y.at = "receiving" /\ y.held = conn
          \/ y.at = "raised" /\ t \notin Commands
      BY <2>4, <3>1 DEF SentDoes
    <3>4. t \in Commands => y.sent = 1
      BY <2>4, <3>1, <3>2 DEF SentDoes
    <3> QED BY <3>1, <3>2, <3>3, <3>4 DEF Holding, x, y
  <2>5. CASE Unanswered(t) /\ y # Rest
    <3>1. UnansweredDoes(x, y) /\ t \notin Commands
      <4>1. t \in Polls \/ Ends(t)
        BY <2>5 DEF Unanswered
      <4>2. t \in Polls
        BY <2>5, <4>1, GoesTo DEF Ends, TypeInv
      <4> QED BY <2>5, <4>2, UnansweredMoves, ConnectionAssumption DEF TypeInv, ConnectionAssumption
    <3> HIDE DEF x, y
    <3> QED BY <2>5, <3>1 DEF Holding, UnansweredDoes, Moves, x, y
  <2>6. CASE CutOff(t)
    <3>1. x.at = "receiving" /\ x.held \notin openConns
      BY <2>6, FaultDisturbs DEF CutOff, Runs, Kinds, TypeInv
    <3> QED BY <1>3, <3>1 DEF Holding
  <2> HIDE DEF x, y
  <2>7. \/ y = Rest \/ Send(t) \/ Sent(t) \/ Unanswered(t) \/ CutOff(t)
        \/ Quiet(x, y)
    BY StepIsQuiet DEF x, y
  <2> QED BY <2>1, <2>2, <2>3, <2>4, <2>5, <2>6, <2>7
<1> QED BY <1>4, <1>5

LEMMA OthersPreserveSending ==
  ASSUME TypeInv, Counted, Sending
  PROVE  /\ \A t \in Tasks : Begin(t) \/ Abandon(t) => Sending'
         /\ BeginCleanup \/ Drop \/ UNCHANGED vars => Sending'
<1>1. ASSUME NEW t \in Tasks, ~shared', shared' = (shared \/ Occupied),
             \A u \in Tasks : u # t => task'[u] = task[u],
             task'[t].at \in {"ensure", "close"}, task'[t].sent = 0
      PROVE  Sending'
  <2>1. ASSUME NEW u \in Tasks, u # t PROVE Holding(u)'
    <3>1. task[u].at = "idle"
      BY <1>1 DEF Occupied
    <3>2. task'[u] = Rest
      BY <1>1, <2>1, <3>1 DEF TypeInv, Shaped, Formed
    <3> QED BY <3>2, RestWaitsForNothing DEF Holding
  <2>2. Holding(t)'
    BY <1>1 DEF Holding
  <2> QED BY <2>1, <2>2 DEF Sending
<1>2. ASSUME NEW t \in Tasks, Begin(t) PROVE Sending'
  <2> SUFFICES ASSUME ~shared' PROVE Sending'
    BY DEF Sending
  <2> QED BY <1>1, <1>2, BeginMoves DEF Begin, BeginDoes
<1>3. ASSUME BeginCleanup PROVE Sending'
  <2> SUFFICES ASSUME ~shared' PROVE Sending'
    BY DEF Sending
  <2> QED BY <1>1, <1>3, CleanupMoves DEF BeginCleanup, CleanupDoes, Tasks
<1>4. ASSUME NEW t \in Tasks, Abandon(t) PROVE Sending'
  <2>1. (Disturbed => Disturbed') /\ shared' = shared
    BY <1>4, FaultDisturbs DEF Abandon, TypeInv, Kinds
  <2> SUFFICES ASSUME ~shared, NEW u \in Tasks PROVE Holding(u)'
    BY <2>1 DEF Sending
  <2>2. task'[t] = Rest /\ task[t].at # "idle" /\ \A v \in Tasks : v # t => task'[v] = task[v]
    BY <1>4, AbandonMoves
  <2>3. u # t => task[u].at = "idle"
    BY <2>2, OneAtWork DEF Lone
  <2>4. task'[u] = Rest
    BY <2>2, <2>3 DEF TypeInv, Shaped, Formed
  <2> QED BY <2>4, RestWaitsForNothing DEF Holding
<1>5. CASE Drop
  <2>1. Disturbed'
    BY <1>5, FaultDisturbs DEF Drop, TypeInv, Kinds
  <2> QED BY <2>1 DEF Sending
<1>6. CASE UNCHANGED vars
  <2>1. UNCHANGED <<task, conn, openConns, faults, shared>>
    BY <1>6 DEF vars, fields, bounds, history
  <2>2. ASSUME NEW t \in Tasks, Holding(t) PROVE Holding(t)'
    BY <2>1, <2>2 DEF Holding
  <2> QED BY <2>1, <2>2 DEF Sending, Disturbed
<1> QED BY <1>2, <1>3, <1>4, <1>5, <1>6

-----------------------------------------------------------------------------
(* The invariance of it all.                                               *)

LEMMA InitIsSound == Init => IInv
<1> SUFFICES ASSUME Init PROVE IInv
  OBVIOUS
<1>1. TypeInv
  BY InitHasTypes
<1>2. \A t \in Tasks : task[t] = Rest
  BY DEF Init
<1>3. Untouched /\ Alone
  BY <1>2, RestWaitsForNothing DEF Init, Untouched, Alone
<1>4. Counted
  <2>1. Unload \in Tasks /\ Lone(Unload)
    BY <1>2, RestWaitsForNothing DEF Tasks, Lone
  <2>2. task[Unload].at = "idle" /\ Spot(task[Unload]) = "idle"
    BY <1>2, <2>1, RestWaitsForNothing
  <2>3. failures = 0 /\ failures <= faults.refused
    BY <1>1, FaultsAreNumbers DEF Init, TypeInv
  <2>4. CountedFor(Unload)
    BY <2>2, <2>3 DEF CountedFor, Ending
  <2> QED BY <2>1, <2>4 DEF Counted
<1>5. Sending
  BY <1>2, RestWaitsForNothing DEF Sending, Holding
<1>6. OfflineIsReal
  BY DEF Init, OfflineIsReal
<1> QED BY <1>1, <1>3, <1>4, <1>5, <1>6 DEF IInv

LEMMA NextPreservesSoundness == IInv /\ [Next]_vars => IInv'
<1> SUFFICES ASSUME IInv, [Next]_vars PROVE IInv'
  OBVIOUS
<1>1. TypeInv /\ Untouched /\ Alone /\ Counted /\ Sending /\ OfflineIsReal
  BY DEF IInv
<1>2. ASSUME NEW t \in Tasks, Step(t) PROVE IInv'
  BY <1>1, <1>2, StepPreservesTypes, StepPreservesUntouched, StepPreservesAlone,
     StepPreservesCounted, StepPreservesSending, StepPreservesOfflineIsReal DEF IInv
<1>3. ASSUME NEW t \in Tasks, Begin(t) PROVE IInv'
  BY <1>1, <1>3, BeginPreservesTypes, OthersPreserveUntouched, OthersPreserveAlone,
     OthersPreserveCounted, OthersPreserveSending, OthersPreserveOfflineIsReal DEF IInv
<1>4. ASSUME NEW t \in Tasks, Abandon(t) PROVE IInv'
  BY <1>1, <1>4, AbandonPreservesTypes, OthersPreserveUntouched, OthersPreserveAlone,
     OthersPreserveCounted, OthersPreserveSending, OthersPreserveOfflineIsReal DEF IInv
<1>5. ASSUME BeginCleanup PROVE IInv'
  BY <1>1, <1>5, CleanupPreservesTypes, OthersPreserveUntouched, OthersPreserveAlone,
     OthersPreserveCounted, OthersPreserveSending, OthersPreserveOfflineIsReal DEF IInv
<1>6. ASSUME Drop PROVE IInv'
  BY <1>1, <1>6, DropPreservesTypes, OthersPreserveUntouched, OthersPreserveAlone,
     OthersPreserveCounted, OthersPreserveSending, OthersPreserveOfflineIsReal DEF IInv
<1>7. ASSUME UNCHANGED vars PROVE IInv'
  BY <1>1, <1>7, StutterPreservesTypes, OthersPreserveUntouched, OthersPreserveAlone,
     OthersPreserveCounted, OthersPreserveSending, OthersPreserveOfflineIsReal DEF IInv
<1> QED BY <1>2, <1>3, <1>4, <1>5, <1>6, <1>7 DEF Next

LEMMA Invariance == Spec => []IInv
BY InitIsSound, NextPreservesSoundness, PTL DEF Spec

\* Every task keeps a state it can be in, and the counts of attempts, tries and
\* failures stay within what the loops of _ensure_websocket_connection,
\* get_device_status and set_cleaner_state allow.
THEOREM TypeCorrect == Spec => []TypeOK
<1>1. IInv => TypeOK
  BY DEF IInv, TypeInv
<1> QED BY <1>1, Invariance, PTL

\* However many polls and commands there are, a session is lost, open and out of reach
\* of every later _close_websocket, only when a task began to close while another was
\* opening or closing: the missing lock of _ensure_websocket_connection and
\* _close_websocket is the only way to leak one.
THEOREM SessionIsInReach == Spec => []NothingOrphaned
<1>1. IInv => NothingOrphaned
  BY DEF IInv, Untouched, NothingOrphaned
<1> QED BY <1>1, Invariance, PTL

\* cleanup leaves no session and no connection open, unless an exchange was under way,
\* its wait_for ran out of time, or an earlier overlap had lost a session.
THEOREM CleanupClosesAll == Spec => []UnloadCloses
<1>1. ASSUME IInv PROVE UnloadCloses
  <2> SUFFICES ASSUME cleanedUp, ~Occupied, ~unclean, ~crossed
               PROVE  openSess = {} /\ openConns = {}
    BY DEF UnloadCloses
  <2>1. Unload \in Tasks /\ task[Unload].at = "idle"
    BY DEF Occupied, Tasks
  <2>2. openSess = {} /\ openConns \subseteq openSess
    BY <1>1, <2>1 DEF IInv, Alone, TypeInv
  <2> QED BY <2>2
<1> QED BY <1>1, Invariance, PTL

\* A command goes out a second time only after a connection was dropped or a frame came
\* that is not text, as long as tasks come one by one: beyond that the retry loop of set_cleaner_state never repeats a command
\* that may have succeeded, whatever the number of its attempts.
THEOREM CommandGoesOutOnce == Spec => []SentOnce
<1>1. ASSUME IInv PROVE SentOnce
  <2> SUFFICES ASSUME ~shared, ~Disturbed, NEW t \in Commands PROVE task[t].sent <= 1
    BY DEF SentOnce, Disturbed
  <2>1. t \in Tasks
    BY DEF Tasks, Exchanges
  <2>2. task[t].sent \in 0..Attempts
    BY <1>1, <2>1 DEF IInv, TypeInv, TypeOK
  <2>3. task[t].sent > 0 => task[t].sent = 1
    BY <1>1, <2>1 DEF IInv, Sending, Holding
  <2>4. Attempts \in Nat
    BY ConnectionAssumption DEF ConnectionAssumption
  <2> QED BY <2>2, <2>3, <2>4
<1> QED BY <1>1, Invariance, PTL

\* _get_resilient_status says "offline" only after the network refused all but one of the
\* threshold's connects, for any threshold of at least 3 and any mix of polls and
\* commands that come one by one: what polls and commands add to
\* _ws_consecutive_failures never outruns what the network did.
THEOREM OfflineIsTheNetwork == Spec => []OfflineIsReal
<1>1. IInv => OfflineIsReal
  BY DEF IInv
<1> QED BY <1>1, Invariance, PTL

-----------------------------------------------------------------------------
(* Every step takes its task nearer to its end.                            *)

LEMMA WayIs ==
  /\ Len(Way) = 14 /\ DOMAIN Way = 1..14
  /\ Way[1] = "idle" /\ Way[2] = "end" /\ Way[3] = "denied" /\ Way[4] = "raised"
  /\ Way[5] = "receiving" /\ Way[6] = "sending" /\ Way[7] = "ready" /\ Way[8] = "failed"
  /\ Way[9] = "connecting" /\ Way[10] = "open" /\ Way[11] = "sleeping"
  /\ Way[12] = "logging in" /\ Way[13] = "ensure" /\ Way[14] = "pausing"
BY DEF Way

LEMMA OncePassed ==
  ASSUME NEW i \in 1..14, NEW j \in 1..14, Way[i] = Way[j]
  PROVE  i = j
<1>1. \A k \in 1..14 : k \in {1, 2, 3, 4, 5, 6, 7, 8, 9, 10, 11, 12, 13, 14}
  OBVIOUS
<1>2. CASE j = 1
  BY <1>1, <1>2, WayIs
<1>3. CASE j = 2
  BY <1>1, <1>3, WayIs
<1>4. CASE j = 3
  BY <1>1, <1>4, WayIs
<1>5. CASE j = 4
  BY <1>1, <1>5, WayIs
<1>6. CASE j = 5
  BY <1>1, <1>6, WayIs
<1>7. CASE j = 6
  BY <1>1, <1>7, WayIs
<1>8. CASE j = 7
  BY <1>1, <1>8, WayIs
<1>9. CASE j = 8
  BY <1>1, <1>9, WayIs
<1>10. CASE j = 9
  BY <1>1, <1>10, WayIs
<1>11. CASE j = 10
  BY <1>1, <1>11, WayIs
<1>12. CASE j = 11
  BY <1>1, <1>12, WayIs
<1>13. CASE j = 12
  BY <1>1, <1>13, WayIs
<1>14. CASE j = 13
  BY <1>1, <1>14, WayIs
<1>15. CASE j = 14
  BY <1>1, <1>15, WayIs
<1> QED BY <1>1, <1>2, <1>3, <1>4, <1>5, <1>6, <1>7, <1>8, <1>9, <1>10, <1>11, <1>12, <1>13, <1>14, <1>15

LEMMA PlaceOf ==
  ASSUME NEW j \in 1..14
  PROVE  Place(Way[j]) = j
BY WayIs, OncePassed DEF Place

LEMMA Places ==
  /\ Place("idle") = 1 /\ Place("end") = 2 /\ Place("denied") = 3 /\ Place("raised") = 4
  /\ Place("receiving") = 5 /\ Place("sending") = 6 /\ Place("ready") = 7 /\ Place("failed") = 8
  /\ Place("connecting") = 9 /\ Place("open") = 10 /\ Place("sleeping") = 11 /\ Place("logging in") = 12
  /\ Place("ensure") = 13 /\ Place("pausing") = 14
<1>1. \A k \in {1, 2, 3, 4, 5, 6, 7, 8, 9, 10, 11, 12, 13, 14} : k \in 1..14
  OBVIOUS
<1>2. Place("idle") = 1
  BY PlaceOf, WayIs, <1>1
<1>3. Place("end") = 2
  BY PlaceOf, WayIs, <1>1
<1>4. Place("denied") = 3
  BY PlaceOf, WayIs, <1>1
<1>5. Place("raised") = 4
  BY PlaceOf, WayIs, <1>1
<1>6. Place("receiving") = 5
  BY PlaceOf, WayIs, <1>1
<1>7. Place("sending") = 6
  BY PlaceOf, WayIs, <1>1
<1>8. Place("ready") = 7
  BY PlaceOf, WayIs, <1>1
<1>9. Place("failed") = 8
  BY PlaceOf, WayIs, <1>1
<1>10. Place("connecting") = 9
  BY PlaceOf, WayIs, <1>1
<1>11. Place("open") = 10
  BY PlaceOf, WayIs, <1>1
<1>12. Place("sleeping") = 11
  BY PlaceOf, WayIs, <1>1
<1>13. Place("logging in") = 12
  BY PlaceOf, WayIs, <1>1
<1>14. Place("ensure") = 13
  BY PlaceOf, WayIs, <1>1
<1>15. Place("pausing") = 14
  BY PlaceOf, WayIs, <1>1
<1> QED BY <1>15, <1>2, <1>3, <1>4, <1>5, <1>6, <1>7, <1>8, <1>9, <1>10, <1>11, <1>12, <1>13, <1>14

\* The tries left of the one that opens, and how far along one try a task is.
Turns(r) == IF Spot(r) \in Opening THEN 1 + Tries - r.tries ELSE 0
Rank(r) == 4 * Place(Spot(r)) + Detour(r.at)

LEMMA Detours ==
  /\ Detour("close") = 3 /\ Detour("closing connection") = 2 /\ Detour("closing session") = 1
  /\ \A at \in Locations \ Detouring : Detour(at) = 0
BY DEF Detour, Detouring

LEMMA PlacesAreNumbers ==
  ASSUME NEW r \in Records, Formed(r)
  PROVE  Place(Spot(r)) \in 1..14
<1>1. Spot(r) \in {"idle", "end", "denied", "raised", "receiving", "sending", "ready", "failed",
                   "connecting", "open", "sleeping", "logging in", "ensure", "pausing"}
  BY DEF Records, Formed, Spot, Detouring, Returns, Locations
<1> HIDE DEF Spot
<1>2. \A i \in {1, 2, 3, 4, 5, 6, 7, 8, 9, 10, 11, 12, 13, 14} : i \in 1..14
  OBVIOUS
<1> QED BY <1>1, <1>2, Places

LEMMA Ranks ==
  ASSUME NEW r
  PROVE  /\ r.at = "end" => Rank(r) = 8
         /\ r.at = "denied" => Rank(r) = 12
         /\ r.at = "raised" => Rank(r) = 16
         /\ r.at = "receiving" => Rank(r) = 20
         /\ r.at = "sending" => Rank(r) = 24
         /\ r.at = "ready" => Rank(r) = 28
         /\ r.at = "connecting" => Rank(r) = 36
         /\ r.at = "open" => Rank(r) = 40
         /\ r.at = "sleeping" => Rank(r) = 44
         /\ r.at = "logging in" => Rank(r) = 48
         /\ r.at = "ensure" => Rank(r) = 52
         /\ r.at = "pausing" => Rank(r) = 56
         /\ r.at = "close" /\ r.after = "end" => Rank(r) = 11
         /\ r.at = "close" /\ r.after = "failed" => Rank(r) = 35
         /\ r.at = "close" /\ r.after = "open" => Rank(r) = 43
<1>1. ASSUME r.at = "end" PROVE Rank(r) = 8
  <2>1. Spot(r) = "end"
    BY <1>1 DEF Spot, Detouring
  <2>2. Detour(r.at) = 0
    BY <1>1, Detours DEF Locations, Detouring
  <2>3. Place(Spot(r)) = 2
    BY <2>1, Places
  <2> QED BY <2>2, <2>3 DEF Rank
<1>2. ASSUME r.at = "denied" PROVE Rank(r) = 12
  <2>1. Spot(r) = "denied"
    BY <1>2 DEF Spot, Detouring
  <2>2. Detour(r.at) = 0
    BY <1>2, Detours DEF Locations, Detouring
  <2>3. Place(Spot(r)) = 3
    BY <2>1, Places
  <2> QED BY <2>2, <2>3 DEF Rank
<1>3. ASSUME r.at = "raised" PROVE Rank(r) = 16
  <2>1. Spot(r) = "raised"
    BY <1>3 DEF Spot, Detouring
  <2>2. Detour(r.at) = 0
    BY <1>3, Detours DEF Locations, Detouring
  <2>3. Place(Spot(r)) = 4
    BY <2>1, Places
  <2> QED BY <2>2, <2>3 DEF Rank
<1>4. ASSUME r.at = "receiving" PROVE Rank(r) = 20
  <2>1. Spot(r) = "receiving"
    BY <1>4 DEF Spot, Detouring
  <2>2. Detour(r.at) = 0
    BY <1>4, Detours DEF Locations, Detouring
  <2>3. Place(Spot(r)) = 5
    BY <2>1, Places
  <2> QED BY <2>2, <2>3 DEF Rank
<1>5. ASSUME r.at = "sending" PROVE Rank(r) = 24
  <2>1. Spot(r) = "sending"
    BY <1>5 DEF Spot, Detouring
  <2>2. Detour(r.at) = 0
    BY <1>5, Detours DEF Locations, Detouring
  <2>3. Place(Spot(r)) = 6
    BY <2>1, Places
  <2> QED BY <2>2, <2>3 DEF Rank
<1>6. ASSUME r.at = "ready" PROVE Rank(r) = 28
  <2>1. Spot(r) = "ready"
    BY <1>6 DEF Spot, Detouring
  <2>2. Detour(r.at) = 0
    BY <1>6, Detours DEF Locations, Detouring
  <2>3. Place(Spot(r)) = 7
    BY <2>1, Places
  <2> QED BY <2>2, <2>3 DEF Rank
<1>7. ASSUME r.at = "connecting" PROVE Rank(r) = 36
  <2>1. Spot(r) = "connecting"
    BY <1>7 DEF Spot, Detouring
  <2>2. Detour(r.at) = 0
    BY <1>7, Detours DEF Locations, Detouring
  <2>3. Place(Spot(r)) = 9
    BY <2>1, Places
  <2> QED BY <2>2, <2>3 DEF Rank
<1>8. ASSUME r.at = "open" PROVE Rank(r) = 40
  <2>1. Spot(r) = "open"
    BY <1>8 DEF Spot, Detouring
  <2>2. Detour(r.at) = 0
    BY <1>8, Detours DEF Locations, Detouring
  <2>3. Place(Spot(r)) = 10
    BY <2>1, Places
  <2> QED BY <2>2, <2>3 DEF Rank
<1>9. ASSUME r.at = "sleeping" PROVE Rank(r) = 44
  <2>1. Spot(r) = "sleeping"
    BY <1>9 DEF Spot, Detouring
  <2>2. Detour(r.at) = 0
    BY <1>9, Detours DEF Locations, Detouring
  <2>3. Place(Spot(r)) = 11
    BY <2>1, Places
  <2> QED BY <2>2, <2>3 DEF Rank
<1>10. ASSUME r.at = "logging in" PROVE Rank(r) = 48
  <2>1. Spot(r) = "logging in"
    BY <1>10 DEF Spot, Detouring
  <2>2. Detour(r.at) = 0
    BY <1>10, Detours DEF Locations, Detouring
  <2>3. Place(Spot(r)) = 12
    BY <2>1, Places
  <2> QED BY <2>2, <2>3 DEF Rank
<1>11. ASSUME r.at = "ensure" PROVE Rank(r) = 52
  <2>1. Spot(r) = "ensure"
    BY <1>11 DEF Spot, Detouring
  <2>2. Detour(r.at) = 0
    BY <1>11, Detours DEF Locations, Detouring
  <2>3. Place(Spot(r)) = 13
    BY <2>1, Places
  <2> QED BY <2>2, <2>3 DEF Rank
<1>12. ASSUME r.at = "pausing" PROVE Rank(r) = 56
  <2>1. Spot(r) = "pausing"
    BY <1>12 DEF Spot, Detouring
  <2>2. Detour(r.at) = 0
    BY <1>12, Detours DEF Locations, Detouring
  <2>3. Place(Spot(r)) = 14
    BY <2>1, Places
  <2> QED BY <2>2, <2>3 DEF Rank
<1>13. ASSUME r.at = "close", r.after = "end" PROVE Rank(r) = 11
  <2>1. Spot(r) = "end"
    BY <1>13 DEF Spot, Detouring
  <2>2. Detour(r.at) = 3
    BY <1>13, Detours
  <2>3. Place(Spot(r)) = 2
    BY <2>1, Places
  <2> QED BY <2>2, <2>3 DEF Rank
<1>14. ASSUME r.at = "close", r.after = "failed" PROVE Rank(r) = 35
  <2>1. Spot(r) = "failed"
    BY <1>14 DEF Spot, Detouring
  <2>2. Detour(r.at) = 3
    BY <1>14, Detours
  <2>3. Place(Spot(r)) = 8
    BY <2>1, Places
  <2> QED BY <2>2, <2>3 DEF Rank
<1>15. ASSUME r.at = "close", r.after = "open" PROVE Rank(r) = 43
  <2>1. Spot(r) = "open"
    BY <1>15 DEF Spot, Detouring
  <2>2. Detour(r.at) = 3
    BY <1>15, Detours
  <2>3. Place(Spot(r)) = 10
    BY <2>1, Places
  <2> QED BY <2>2, <2>3 DEF Rank
<1> QED BY <1>1, <1>2, <1>3, <1>4, <1>5, <1>6, <1>7, <1>8, <1>9, <1>10, <1>11, <1>12, <1>13, <1>14, <1>15

LEMMA TurnsAre ==
  ASSUME NEW r
  PROVE  /\ r.at \in Opening => Turns(r) = 1 + Tries - r.tries
         /\ r.at = "close" /\ r.after \in {"open", "failed"} => Turns(r) = 1 + Tries - r.tries
         /\ r.at \in Locations \ (Detouring \cup Opening) => Turns(r) = 0
         /\ r.at = "close" /\ r.after = "end" => Turns(r) = 0
BY DEF Turns, Spot, Detouring, Opening

LEMMA RanksAreBounded ==
  ASSUME NEW r \in Records, Formed(r)
  PROVE  Rank(r) \in 4..59 /\ Turns(r) \in 0..Tries /\ Tries \in Nat /\ Attempts \in Nat
<1>1. Detour(r.at) \in 0..3
  BY DEF Detour
<1>2. Place(Spot(r)) \in 1..14
  BY PlacesAreNumbers
<1>3. r.tries \in 1..Tries /\ Tries \in Nat /\ Attempts \in Nat
  BY ConnectionAssumption DEF Records, ConnectionAssumption
<1>4. Turns(r) \in 0..Tries
  BY <1>3 DEF Turns
<1> QED BY <1>1, <1>2, <1>3, <1>4 DEF Rank

LEMMA DistanceIs ==
  ASSUME NEW r \in Records, Formed(r)
  PROVE  Distance(r) = 56 * ((Tries + 1) * (Attempts - r.attempt) + Turns(r)) + Rank(r)
<1>1. Spot(r) = IF Detour(r.at) > 0 THEN r.after ELSE r.at
  <2>1. CASE r.at \in Detouring
    <3>1. Detour(r.at) \in {1, 2, 3}
      BY <2>1, Detours DEF Detouring
    <3>2. Detour(r.at) > 0
      BY <3>1
    <3> QED BY <2>1, <3>2 DEF Spot
  <2>2. CASE r.at \notin Detouring
    <3>1. Detour(r.at) = 0
      BY <2>2, Detours DEF Records
    <3>2. ~(Detour(r.at) > 0)
      BY <3>1
    <3> QED BY <2>2, <3>2 DEF Spot
  <2> QED BY <2>1, <2>2
<1>2. 4 * Len(Way) = 56
  <2>1. Len(Way) = 14
    BY WayIs
  <2> QED BY <2>1
<1>3. Distance(r) = 4 * Len(Way) * ((Tries + 1) * (Attempts - r.attempt) + Turns(r))
                      + 4 * Place(Spot(r)) + Detour(r.at)
  BY <1>1 DEF Distance, Turns
<1>4. /\ r.attempt \in Int /\ Attempts \in Int /\ Tries \in Int /\ Turns(r) \in Int
      /\ 4 * Place(Spot(r)) \in Int /\ Detour(r.at) \in Int
  <2>1. r.attempt \in Int
    BY ConnectionAssumption DEF Records, ConnectionAssumption
  <2>2. Place(Spot(r)) \in Int
    BY PlacesAreNumbers
  <2>3. Detour(r.at) \in Int
    BY DEF Detour
  <2> QED BY <2>1, <2>2, <2>3, RanksAreBounded
<1> QED BY <1>2, <1>3, <1>4 DEF Rank

\* Attempts before tries before the way through one try.
Closer(x, y) ==
  \/ y.attempt = x.attempt /\ Turns(y) <= Turns(x) /\ Rank(y) < Rank(x)
  \/ y.attempt = x.attempt /\ Turns(y) < Turns(x)
  \/ y.attempt = x.attempt + 1

LEMMA OneLess ==
  ASSUME NEW c \in Int, NEW d \in Int, NEW e \in Int, e = d - 1
  PROVE  c * d = c * e + c
OBVIOUS

LEMMA CloserIsLess ==
  ASSUME NEW x \in Records, Formed(x), NEW y \in Records, Formed(y), Closer(x, y)
  PROVE  Distance(y) < Distance(x)
<1> DEFINE p == (Tries + 1) * (Attempts - x.attempt)
           q == (Tries + 1) * (Attempts - y.attempt)
<1>1. /\ Rank(x) \in 4..59 /\ Turns(x) \in 0..Tries /\ Rank(y) \in 4..59 /\ Turns(y) \in 0..Tries
      /\ Tries \in Nat /\ Attempts \in Nat
  BY RanksAreBounded
<1>2. x.attempt \in Nat /\ y.attempt \in Nat
  BY <1>1 DEF Records
<1>3. p \in Int /\ q \in Int
  BY <1>1, <1>2
<1>4. Distance(x) = 56 * (p + Turns(x)) + Rank(x) /\ Distance(y) = 56 * (q + Turns(y)) + Rank(y)
  BY DistanceIs
<1>5. y.attempt = x.attempt => q = p
  OBVIOUS
<1>6. y.attempt = x.attempt + 1 => p = q + (Tries + 1)
  <2> SUFFICES ASSUME y.attempt = x.attempt + 1 PROVE p = q + (Tries + 1)
    OBVIOUS
  <2>1. Attempts - y.attempt = (Attempts - x.attempt) - 1
    BY <1>1, <1>2
  <2>2. Attempts - y.attempt \in Int /\ Attempts - x.attempt \in Int /\ Tries + 1 \in Int
    BY <1>1, <1>2
  <2> QED BY <2>1, <2>2, OneLess
<1> HIDE DEF p, q
<1>7. \/ q = p /\ Turns(y) <= Turns(x) /\ Rank(y) < Rank(x)
      \/ q = p /\ Turns(y) < Turns(x)
      \/ p = q + (Tries + 1)
  BY <1>5, <1>6 DEF Closer
<1> QED BY <1>1, <1>3, <1>4, <1>7

\* One way of getting closer for each action.
LEMMA StepIsCloser ==
  ASSUME TypeInv, NEW t \in Tasks, NEW x, x = task[t], NEW y, y = task'[t], Step(t), y # Rest
  PROVE  Closer(x, y)
<1>1. TypeOK /\ Formed(x) /\ x \in Records
  BY DEF TypeInv, TypeOK, Records, Shaped
<1>2. y \in Records /\ Formed(y)
  BY StepBecomes DEF Becomes
<1>3. /\ x.tries \in 1..Tries /\ y.tries \in 1..Tries /\ Tries \in Nat
      /\ Place(Spot(x)) \in Int
  BY <1>1, <1>2, RanksAreBounded, PlacesAreNumbers DEF Records
<1>4. ~(Answered(t) \/ End(t))
  BY <1>1, GoesTo DEF Answered, End, Ends
<1>5. CASE CloseConnection(t)
  <2>1. x.at = "close" /\ CloseConnectionDoes(x, y)
    BY <1>1, <1>5, CloseConnectionMoves DEF CloseConnection, Runs
  <2>2. y.at = "closing connection" /\ Spot(y) = Spot(x) /\ y.tries = x.tries /\ y.attempt = x.attempt
    BY <1>1, <2>1 DEF CloseConnectionDoes, Moves, Spot, Detouring, Formed
  <2>3. Detour(x.at) = 3 /\ Detour(y.at) = 2
    BY <2>1, <2>2, Detours DEF Detouring
  <2>4. Turns(y) = Turns(x) /\ Turns(x) \in 0..Tries /\ Tries \in Nat
    BY <1>1, <2>2, RanksAreBounded DEF Turns
  <2>5. y.attempt = x.attempt /\ Place(Spot(y)) = Place(Spot(x))
    BY <2>2
  <2> QED BY <1>3, <2>3, <2>4, <2>5 DEF Closer, Rank
<1>6. CASE CloseSession(t)
  <2>1. x.at \in {"close", "closing connection"} /\ CloseSessionDoes(x, y)
    BY <1>1, <1>6, CloseSessionMoves DEF CloseSession, ConnectionIsClosed, Runs
  <2>2. y.at = "closing session" /\ Spot(y) = Spot(x) /\ y.tries = x.tries /\ y.attempt = x.attempt
    BY <1>1, <2>1 DEF CloseSessionDoes, Moves, Spot, Detouring, Formed
  <2>3. Detour(x.at) \in {2, 3} /\ Detour(y.at) = 1
    BY <2>1, <2>2, Detours DEF Detouring
  <2>4. Turns(y) = Turns(x) /\ Turns(x) \in 0..Tries /\ Tries \in Nat
    BY <1>1, <2>2, RanksAreBounded DEF Turns
  <2>5. y.attempt = x.attempt /\ Place(Spot(y)) = Place(Spot(x))
    BY <2>2
  <2> QED BY <1>3, <2>3, <2>4, <2>5 DEF Closer, Rank
<1>7. CASE Closed(t)
  <2>1. x.at \in Detouring /\ ClosedDoes(x, y)
    BY <1>1, <1>7, ClosedMoves DEF Closed, SessionIsClosed, ConnectionIsClosed, Runs, Detouring
  <2>2. y.at \notin Detouring /\ Spot(y) = Spot(x) /\ y.tries = x.tries /\ y.attempt = x.attempt
    BY <1>1, <2>1 DEF ClosedDoes, Moves, Spot, Detouring, Formed, Returns
  <2>3. Detour(x.at) \in {1, 2, 3} /\ Detour(y.at) = 0
    BY <2>1, <2>2, <1>2, Detours DEF Detouring, Records
  <2>4. Turns(y) = Turns(x) /\ Turns(x) \in 0..Tries /\ Tries \in Nat
    BY <1>1, <2>2, RanksAreBounded DEF Turns
  <2>5. y.attempt = x.attempt /\ Place(Spot(y)) = Place(Spot(x))
    BY <2>2
  <2> QED BY <1>3, <2>3, <2>4, <2>5 DEF Closer, Rank
<1>8. CASE Ensure(t)
  <2>1. x.at = "ensure" /\ EnsureDoes(x, y)
    BY <1>1, <1>8, EnsureMoves DEF Ensure, Runs
  <2>2. /\ y.attempt = x.attempt
        /\ \/ y.at = "ready"
           \/ y.at = "close" /\ y.after = "open" /\ y.tries = x.tries
           \/ y.at = "logging in" /\ y.tries = x.tries
    BY <1>1, <2>1 DEF EnsureDoes, Moves
  <2>3. Rank(x) = 52 /\ Rank(y) \in {28, 43, 48}
    BY <2>1, <2>2, Ranks
  <2>4. \/ Turns(y) = 0
        \/ Turns(y) = 1 + Tries - y.tries /\ y.tries = x.tries
    BY <2>1, <2>2, TurnsAre DEF Opening, Detouring, Locations
  <2>5. Turns(x) = 1 + Tries - x.tries
    BY <2>1, TurnsAre DEF Opening
  <2>6. y.attempt = x.attempt
    BY <2>2
  <2> QED BY <1>3, <2>3, <2>4, <2>5, <2>6 DEF Closer
<1>9. CASE LoggedIn(t)
  <2>1. x.at = "logging in" /\ LoggedInDoes(x, y)
    BY <1>1, <1>9, LoggedInMoves DEF LoggedIn, Runs
  <2>2. /\ y.attempt = x.attempt
        /\ \/ y.at = "close" /\ y.after = "open" /\ y.tries = x.tries
           \/ y.at \in {"denied", "raised"}
    BY <1>1, <2>1 DEF LoggedInDoes, Moves
  <2>3. Rank(x) = 48 /\ Rank(y) \in {43, 12, 16}
    BY <2>1, <2>2, Ranks
  <2>4. \/ Turns(y) = 0
        \/ Turns(y) = 1 + Tries - y.tries /\ y.tries = x.tries
    BY <2>1, <2>2, TurnsAre DEF Opening, Detouring, Locations
  <2>5. Turns(x) = 1 + Tries - x.tries
    BY <2>1, TurnsAre DEF Opening
  <2>6. y.attempt = x.attempt
    BY <2>2
  <2> QED BY <1>3, <2>3, <2>4, <2>5, <2>6 DEF Closer
<1>10. CASE Open(t)
  <2>1. x.at = "open" /\ OpenDoes(x, y)
    BY <1>1, <1>10, OpenMoves DEF Open, Runs
  <2>2. y.attempt = x.attempt /\ y.at = "connecting" /\ y.tries = x.tries
    BY <1>1, <2>1 DEF OpenDoes, Moves
  <2>3. Rank(x) = 40 /\ Rank(y) \in {36}
    BY <2>1, <2>2, Ranks
  <2>4. Turns(y) = 1 + Tries - y.tries /\ y.tries = x.tries
    BY <2>1, <2>2, TurnsAre DEF Opening, Detouring, Locations
  <2>5. Turns(x) = 1 + Tries - x.tries
    BY <2>1, TurnsAre DEF Opening
  <2>6. y.attempt = x.attempt
    BY <2>2
  <2> QED BY <1>3, <2>3, <2>4, <2>5, <2>6 DEF Closer
<1>11. CASE Connected(t)
  <2>1. x.at = "connecting" /\ ConnectedDoes(x, y)
    BY <1>1, <1>11, ConnectedMoves DEF Connected, Runs
  <2>2. y.attempt = x.attempt /\ y.at = "ready"
    BY <1>1, <2>1 DEF ConnectedDoes, Moves
  <2>3. Rank(x) = 36 /\ Rank(y) \in {28}
    BY <2>1, <2>2, Ranks
  <2>4. Turns(y) = 0
    BY <2>1, <2>2, TurnsAre DEF Opening, Detouring, Locations
  <2>5. Turns(x) = 1 + Tries - x.tries
    BY <2>1, TurnsAre DEF Opening
  <2>6. y.attempt = x.attempt
    BY <2>2
  <2> QED BY <1>3, <2>3, <2>4, <2>5, <2>6 DEF Closer
<1>12. CASE ConnectFailed(t)
  <2>1. x.at = "connecting" /\ ConnectFailedDoes(x, y)
    BY <1>1, <1>12, ConnectFailedMoves DEF ConnectFailed, Runs
  <2>2. y.attempt = x.attempt /\ y.at = "close" /\ y.after = "failed" /\ y.tries = x.tries
    BY <1>1, <2>1 DEF ConnectFailedDoes, Moves
  <2>3. Rank(x) = 36 /\ Rank(y) \in {35}
    BY <2>1, <2>2, Ranks
  <2>4. Turns(y) = 1 + Tries - y.tries /\ y.tries = x.tries
    BY <2>1, <2>2, TurnsAre DEF Opening, Detouring, Locations
  <2>5. Turns(x) = 1 + Tries - x.tries
    BY <2>1, TurnsAre DEF Opening
  <2>6. y.attempt = x.attempt
    BY <2>2
  <2> QED BY <1>3, <2>3, <2>4, <2>5, <2>6 DEF Closer
<1>13. CASE TryFailed(t)
  <2>1. x.at = "failed" /\ TryFailedDoes(x, y)
    BY <1>1, <1>13, TryFailedMoves DEF TryFailed, Runs
  <2>2. /\ y.attempt = x.attempt
        /\ \/ y.at = "sleeping" /\ y.tries = x.tries + 1
           \/ y.at \in {"denied", "raised"}
    BY <1>1, <2>1 DEF TryFailedDoes, Moves
  <2>3. \/ Turns(y) = 0
        \/ Turns(y) = 1 + Tries - y.tries /\ y.tries = x.tries + 1
    BY <2>1, <2>2, TurnsAre DEF Opening, Detouring, Locations
  <2>4. Turns(x) = 1 + Tries - x.tries
    BY <2>1, TurnsAre DEF Opening
  <2>5. y.attempt = x.attempt
    BY <2>2
  <2> QED BY <1>3, <2>3, <2>4, <2>5 DEF Closer
<1>14. CASE TryAgain(t)
  <2>1. x.at = "sleeping" /\ TryAgainDoes(x, y)
    BY <1>1, <1>14, TryAgainMoves DEF TryAgain, Runs
  <2>2. y.attempt = x.attempt /\ y.at = "close" /\ y.after = "open" /\ y.tries = x.tries
    BY <1>1, <2>1 DEF TryAgainDoes, Moves
  <2>3. Rank(x) = 44 /\ Rank(y) \in {43}
    BY <2>1, <2>2, Ranks
  <2>4. Turns(y) = 1 + Tries - y.tries /\ y.tries = x.tries
    BY <2>1, <2>2, TurnsAre DEF Opening, Detouring, Locations
  <2>5. Turns(x) = 1 + Tries - x.tries
    BY <2>1, TurnsAre DEF Opening
  <2>6. y.attempt = x.attempt
    BY <2>2
  <2> QED BY <1>3, <2>3, <2>4, <2>5, <2>6 DEF Closer
<1>15. CASE Send(t)
  <2>1. x.at = "ready" /\ SendDoes(x, y)
    BY <1>1, <1>15, SendMoves DEF Send, Runs
  <2>2. y.attempt = x.attempt /\ y.at = "sending"
    BY <1>1, <2>1 DEF SendDoes, Moves
  <2>3. Rank(x) = 28 /\ Rank(y) \in {24}
    BY <2>1, <2>2, Ranks
  <2>4. Turns(y) = 0
    BY <2>1, <2>2, TurnsAre DEF Opening, Detouring, Locations
  <2>5. Turns(x) = 0
    BY <2>1, TurnsAre DEF Opening, Detouring, Locations
  <2>6. y.attempt = x.attempt
    BY <2>2
  <2> QED BY <1>3, <2>3, <2>4, <2>5, <2>6 DEF Closer
<1>16. CASE Sent(t)
  <2>1. x.at = "sending" /\ SentDoes(t, x, y)
    BY <1>1, <1>16, SentMoves DEF Sent, Runs
  <2>2. y.attempt = x.attempt /\ y.at \in {"receiving", "raised"}
    BY <1>1, <2>1 DEF SentDoes, Moves
  <2>3. Rank(x) = 24 /\ Rank(y) \in {20, 16}
    BY <2>1, <2>2, Ranks
  <2>4. Turns(y) = 0
    BY <2>1, <2>2, TurnsAre DEF Opening, Detouring, Locations
  <2>5. Turns(x) = 0
    BY <2>1, TurnsAre DEF Opening, Detouring, Locations
  <2>6. y.attempt = x.attempt
    BY <2>2
  <2> QED BY <1>3, <2>3, <2>4, <2>5, <2>6 DEF Closer
<1>17. CASE SendFailed(t)
  <2>1. x.at = "sending" /\ SendFailedDoes(x, y)
    BY <1>1, <1>17, SendFailedMoves DEF SendFailed, Runs
  <2>2. y.attempt = x.attempt /\ y.at = "raised"
    BY <1>1, <2>1 DEF SendFailedDoes, Moves
  <2>3. Rank(x) = 24 /\ Rank(y) \in {16}
    BY <2>1, <2>2, Ranks
  <2>4. Turns(y) = 0
    BY <2>1, <2>2, TurnsAre DEF Opening, Detouring, Locations
  <2>5. Turns(x) = 0
    BY <2>1, TurnsAre DEF Opening, Detouring, Locations
  <2>6. y.attempt = x.attempt
    BY <2>2
  <2> QED BY <1>3, <2>3, <2>4, <2>5, <2>6 DEF Closer
<1>18. CASE Unanswered(t)
  <2>1. x.at = "receiving" /\ UnansweredDoes(x, y)
    BY <1>1, <1>18, UnansweredMoves DEF Unanswered, Runs
  <2>2. y.attempt = x.attempt /\ y.at = "raised"
    BY <1>1, <2>1 DEF UnansweredDoes, Moves
  <2>3. Rank(x) = 20 /\ Rank(y) \in {16}
    BY <2>1, <2>2, Ranks
  <2>4. Turns(y) = 0
    BY <2>1, <2>2, TurnsAre DEF Opening, Detouring, Locations
  <2>5. Turns(x) = 0
    BY <2>1, TurnsAre DEF Opening, Detouring, Locations
  <2>6. y.attempt = x.attempt
    BY <2>2
  <2> QED BY <1>3, <2>3, <2>4, <2>5, <2>6 DEF Closer
<1>19. CASE CutOff(t)
  <2>1. x.at = "receiving" /\ CutOffDoes(x, y)
    BY <1>1, <1>19, CutOffMoves DEF CutOff, Runs
  <2>2. \/ y.attempt = x.attempt + 1
        \/ y.attempt = x.attempt /\ (y.at = "end" \/ (y.at = "close" /\ y.after = "end"))
    BY <1>1, <2>1 DEF CutOffDoes, Moves
  <2>3. CASE y.attempt = x.attempt + 1
    BY <2>3 DEF Closer
  <2>4. CASE y.attempt = x.attempt /\ (y.at = "end" \/ (y.at = "close" /\ y.after = "end"))
    <3>1. Rank(x) = 20 /\ Rank(y) \in {8, 11}
      BY <2>1, <2>4, Ranks
    <3>2. Turns(x) = 0 /\ Turns(y) = 0
      BY <2>1, <2>4, TurnsAre DEF Opening, Detouring, Locations
    <3>3. y.attempt = x.attempt
      BY <2>4
    <3> QED BY <3>1, <3>2, <3>3 DEF Closer
  <2> QED BY <2>2, <2>3, <2>4
<1>20. CASE Raised(t)
  <2>1. x.at = "raised" /\ RaisedDoes(t, x, y)
    BY <1>1, <1>20, RaisedMoves DEF Raised, Runs
  <2>2. \/ y.attempt = x.attempt + 1
        \/ y.attempt = x.attempt /\ y.at = "close" /\ y.after = "end"
    BY <1>1, <2>1 DEF RaisedDoes, Moves
  <2>3. CASE y.attempt = x.attempt + 1
    BY <2>3 DEF Closer
  <2>4. CASE y.attempt = x.attempt /\ y.at = "close" /\ y.after = "end"
    <3>1. Rank(x) = 16 /\ Rank(y) = 11
      BY <2>1, <2>4, Ranks
    <3>2. Turns(x) = 0 /\ Turns(y) = 0
      BY <2>1, <2>4, TurnsAre DEF Opening, Detouring, Locations
    <3>3. y.attempt = x.attempt
      BY <2>4
    <3> QED BY <3>1, <3>2, <3>3 DEF Closer
  <2> QED BY <2>2, <2>3, <2>4
<1>21. CASE Resume(t)
  <2>1. x.at = "pausing" /\ ResumeDoes(x, y)
    BY <1>1, <1>21, ResumeMoves DEF Resume, Runs
  <2>2. y.attempt = x.attempt /\ y.at = "ensure" /\ y.tries = x.tries
    BY <1>1, <2>1 DEF ResumeDoes, Moves
  <2>3. Rank(x) = 56 /\ Rank(y) \in {52}
    BY <2>1, <2>2, Ranks
  <2>4. Turns(y) = 1 + Tries - y.tries /\ y.tries = x.tries
    BY <2>1, <2>2, TurnsAre DEF Opening, Detouring, Locations
  <2>5. Turns(x) = 1 + Tries - x.tries
    BY <2>1, TurnsAre DEF Opening
  <2>6. y.attempt = x.attempt
    BY <2>2
  <2> QED BY <1>3, <2>3, <2>4, <2>5, <2>6 DEF Closer
<1>22. CASE Denied(t)
  <2>1. x.at = "denied" /\ DeniedDoes(x, y)
    BY <1>1, <1>22, DeniedMoves DEF Denied, Runs
  <2>2. y.attempt = x.attempt /\ y.at = "close" /\ y.after = "end"
    BY <1>1, <2>1 DEF DeniedDoes, Moves
  <2>3. Rank(x) = 12 /\ Rank(y) \in {11}
    BY <2>1, <2>2, Ranks
  <2>4. Turns(y) = 0
    BY <2>1, <2>2, TurnsAre DEF Opening, Detouring, Locations
  <2>5. Turns(x) = 0
    BY <2>1, TurnsAre DEF Opening, Detouring, Locations
  <2>6. y.attempt = x.attempt
    BY <2>2
  <2> QED BY <1>3, <2>3, <2>4, <2>5, <2>6 DEF Closer
<1> QED
  BY <1>4, <1>5, <1>6, <1>7, <1>8, <1>9, <1>10, <1>11, <1>12,
     <1>13, <1>14, <1>15, <1>16, <1>17, <1>18, <1>19, <1>20, <1>21, <1>22 DEF Step

\* The retries of _ensure_websocket_connection, get_device_status and set_cleaner_state
\* end: for any number of tasks, tries and attempts, every step takes its task nearer to
\* its end, whatever the tasks do to the connection of one another. Exchanges that close
\* each other's connection cannot keep each other going.
THEOREM RetriesEnd == Spec => EveryStepAdvances
<1>1. ASSUME IInv, [Next]_vars
      PROVE  [\A t \in Tasks : task[t].at # "idle" /\ task'[t] \notin {task[t], Rest}
                => Distance(task'[t]) < Distance(task[t])]_vars
  <2> SUFFICES ASSUME Next, NEW t \in Tasks, task[t].at # "idle", task'[t] \notin {task[t], Rest}
               PROVE  Distance(task'[t]) < Distance(task[t])
    BY <1>1
  <2>1. TypeInv
    BY <1>1 DEF IInv
  <2>2. CASE Step(t)
    <3>1. Closer(task[t], task'[t])
      BY <2>1, <2>2, StepIsCloser
    <3>2. task[t] \in Records /\ Formed(task[t])
      BY <2>1 DEF TypeInv, TypeOK, Records, Shaped
    <3>3. task'[t] \in Records /\ Formed(task'[t])
      BY <2>1, <2>2, StepBecomes DEF Becomes
    <3> QED BY <3>1, <3>2, <3>3, CloserIsLess
  <2>3. ASSUME NEW u \in Tasks, Step(u), u # t PROVE FALSE
    BY <2>1, <2>3, StepGoes, OthersStay
  <2>4. ASSUME NEW u \in Tasks, Begin(u) PROVE FALSE
    BY <2>1, <2>4, BeginMoves, RestWaitsForNothing
  <2>5. ASSUME NEW u \in Tasks, Abandon(u) PROVE FALSE
    BY <2>1, <2>5, AbandonMoves
  <2>6. ASSUME BeginCleanup PROVE FALSE
    BY <2>1, <2>6, CleanupMoves, RestWaitsForNothing
  <2>7. ASSUME Drop PROVE FALSE
    BY <2>7 DEF Drop
  <2> QED BY <2>2, <2>3, <2>4, <2>5, <2>6, <2>7 DEF Next
<1> QED BY <1>1, Invariance, PTL DEF Spec, EveryStepAdvances
=============================================================================
