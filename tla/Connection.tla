----------------------------- MODULE Connection -----------------------------
(***************************************************************************)
(* The one websocket connection of a robot's client, opened, used and      *)
(* closed by tasks that interleave at every await: polls                   *)
(* (_update_other_robots over get_device_status), commands                 *)
(* (set_cleaner_state) and the unload of the entry (cleanup).              *)
(* _ensure_websocket_connection and _close_websocket take no lock.         *)
(*                                                                         *)
(* A task runs until it awaits: "running" is the task the event loop is    *)
(* in, or nobody.  An id stands for one aiohttp session and for the one    *)
(* connection ever opened on it.                                           *)
(***************************************************************************)
EXTENDS Integers, FiniteSets, Sequences

CONSTANTS
  Polls, Commands,  \* the tasks that poll, and those that send commands
  Tries,            \* max_retries of _ensure_websocket_connection
  Attempts,         \* max_retries of get_device_status and set_cleaner_state
  Threshold,        \* _max_ws_failures_before_offline
  MaxBegins,        \* bound: polls and commands begun
  MaxFaults         \* bound: faults of the network, and exchanges out of time

ASSUME ConnectionAssumption ==
  /\ Polls \cap Commands = {}
  /\ IsFiniteSet(Polls \cup Commands)
  /\ {"unload", "nobody"} \cap (Polls \cup Commands) = {}
  /\ {Tries, Attempts} \subseteq Nat \ {0}
  /\ Threshold \in Nat \ (0..2)  \* 5 in the code
  /\ {MaxBegins, MaxFaults} \subseteq Nat

VARIABLES
  running,    \* the task that has not awaited yet
  task,       \* of each task: where it is, its attempts, what it holds
  conn,       \* _ws_connection
  sess,       \* _ws_session
  openConns,  \* connections that are open
  openSess,   \* sessions that are open
  failures,   \* _ws_consecutive_failures
  shown,      \* the status the last poll reported
  cleanedUp,  \* _cleanup_done
  begins,     \* polls and commands begun so far
  faults,     \* what went wrong so far
  crossed,    \* history: a task began to close while another was opening or closing
  shared,     \* history: two tasks were under way at once
  unclean     \* history: cleanup found a task under way, or was out of time

fields == <<conn, sess, openConns, openSess>>
bounds == <<begins, faults>>
history == <<crossed, shared, unclean>>
vars == <<running, task, fields, failures, shown, cleanedUp, bounds, history>>

-----------------------------------------------------------------------------
Unload == "unload"
Exchanges == Polls \cup Commands
Tasks == Exchanges \cup {Unload}
Nobody == "nobody"
None == 0
Kinds == {"refused", "silent", "dropped", "binary", "late"}
\* Enough that one is always neither referenced nor held.
Ids == 1..(Cardinality(Exchanges) + 3)

Locations == {"idle", "ensure", "logging in", "close", "closing connection",
              "closing session", "open", "connecting", "failed", "sleeping", "raised",
              "denied", "ready", "sending", "receiving", "pausing", "end"}

\* tries: of _ensure_websocket_connection; attempt: of its caller; after: where
\* _close_websocket returns to; held: the session or connection it waits on; sent: times the request left.
Rest == [at |-> "idle", tries |-> 1, attempt |-> 1, after |-> "idle", held |-> None, sent |-> 0]

\* The count is compared with the threshold only, and stops there.
Bump(n) == IF n < Threshold THEN n + 1 ELSE n

\* The awaits during which the connection or the session changes hands.
Reworking == {"closing connection", "closing session", "connecting"}
Waiting == Reworking \cup {"logging in", "sleeping", "pausing", "sending", "receiving"}

Runs(t, location) == running \in {t, Nobody} /\ task[t].at = location
\* t goes on as r; it keeps running unless that is an await or its end.
Goes(t, r) ==
  /\ running' = IF r.at \in Waiting \cup {"idle"} THEN Nobody ELSE t
  /\ task' = [task EXCEPT ![t] = r]
Ends(t) == Goes(t, Rest)
Closes(t, r, next) == Goes(t, [r EXCEPT !.at = "close", !.after = next])
\* The next attempt of a poll or command, if there is one.
NextAttempt(r) == [r EXCEPT !.attempt = @ + 1]

Usable == conn \in openConns /\ sess \in openSess
Referenced == {conn, sess} \cup {task[t].held : t \in Tasks}
\* None is referenced, and closes nothing.
Free == CHOOSE i \in Ids : i \notin Referenced

-----------------------------------------------------------------------------
Init ==
  /\ running = Nobody
  /\ task = [t \in Tasks |-> Rest]
  /\ conn = None /\ sess = None /\ openConns = {} /\ openSess = {}
  /\ failures = 0 /\ shown = "kept" /\ cleanedUp = FALSE
  /\ begins = 0 /\ faults = [k \in Kinds |-> 0]
  /\ crossed = FALSE /\ shared = FALSE /\ unclean = FALSE

Fault(kind) ==
  /\ faults.refused + faults.silent + faults.dropped + faults.binary + faults.late < MaxFaults
  /\ faults' = [faults EXCEPT ![kind] = @ + 1]

Occupied == \E t \in Tasks : task[t].at # "idle"

\* A poll or a command begins, as long as the platforms are loaded.
Begin(t) ==
  /\ t \in Exchanges /\ ~cleanedUp /\ Runs(t, "idle")
  /\ begins < MaxBegins /\ begins' = begins + 1
  /\ Goes(t, [Rest EXCEPT !.at = "ensure"])
  /\ shared' = (shared \/ Occupied)
  /\ UNCHANGED <<fields, failures, shown, cleanedUp, faults, crossed, unclean>>

\* Mutant of BeginCleanup: stops the tasks and leaves the connection to them.
CleanupWithoutClose ==
  /\ ~cleanedUp /\ Runs(Unload, "idle")
  /\ cleanedUp' = TRUE /\ unclean' = Occupied
  /\ UNCHANGED <<running, task, fields, failures, shown, bounds, crossed, shared>>

\* cleanup: once, after the platforms were unloaded.
BeginCleanup ==
  /\ ~cleanedUp /\ Runs(Unload, "idle")
  /\ cleanedUp' = TRUE
  /\ Closes(Unload, Rest, "end")
  /\ shared' = (shared \/ Occupied) /\ unclean' = Occupied
  /\ UNCHANGED <<fields, failures, shown, bounds, crossed>>

-----------------------------------------------------------------------------
(* _close_websocket: close what is there, wait, and forget what is there   *)
(* by then.                                                                *)

Crosses(t) ==
  crossed' = (crossed \/ \E u \in Tasks \ {t} : task[u].at \in Reworking)

CloseConnection(t) ==
  /\ Runs(t, "close") /\ conn \in openConns
  /\ Goes(t, [task[t] EXCEPT !.at = "closing connection"])
  /\ openConns' = openConns \ {conn}
  /\ Crosses(t)
  /\ UNCHANGED <<conn, sess, openSess, failures, shown, cleanedUp, bounds, shared, unclean>>

ConnectionIsClosed(t) ==
  Runs(t, "closing connection") \/ (Runs(t, "close") /\ conn \notin openConns)

\* Mutant of CloseSession: the session is forgotten, not closed.
ForgetSession(t) ==
  /\ ConnectionIsClosed(t) /\ sess \in openSess
  /\ conn' = None
  /\ Goes(t, [task[t] EXCEPT !.at = "closing session"])
  /\ UNCHANGED <<sess, openConns, openSess, failures, shown, cleanedUp, bounds, history>>

\* A session that closes takes its connection with it.
CloseSession(t) ==
  /\ ConnectionIsClosed(t) /\ sess \in openSess
  /\ conn' = None
  /\ Goes(t, [task[t] EXCEPT !.at = "closing session"])
  /\ openSess' = openSess \ {sess} /\ openConns' = openConns \ {sess}
  /\ Crosses(t)
  /\ UNCHANGED <<sess, failures, shown, cleanedUp, bounds, shared, unclean>>

SessionIsClosed(t) ==
  Runs(t, "closing session") \/ (ConnectionIsClosed(t) /\ sess \notin openSess)

Closed(t) ==
  /\ SessionIsClosed(t)
  /\ conn' = IF task[t].at = "closing session" THEN conn ELSE None
  /\ sess' = None
  /\ Goes(t, [task[t] EXCEPT !.at = task[t].after, !.after = "idle"])
  /\ Crosses(t)
  /\ UNCHANGED <<openConns, openSess, failures, shown, cleanedUp, bounds, shared, unclean>>

-----------------------------------------------------------------------------
(* _ensure_websocket_connection.                                           *)

\* An expired token is renewed before the connection is opened (module AuthToken).
Ensure(t) ==
  /\ Runs(t, "ensure")
  /\ \/ Usable /\ Goes(t, [task[t] EXCEPT !.at = "ready"])
     \/ ~Usable /\ Closes(t, task[t], "open")
     \/ ~Usable /\ Goes(t, [task[t] EXCEPT !.at = "logging in"])
  /\ UNCHANGED <<fields, failures, shown, cleanedUp, bounds, history>>

LoggedIn(t) ==
  /\ Runs(t, "logging in")
  /\ \/ Closes(t, task[t], "open") /\ UNCHANGED faults
     \/ /\ Fault("refused")
        /\ \E at \in {"denied", "raised"} : Goes(t, [task[t] EXCEPT !.at = at])
  /\ UNCHANGED <<fields, failures, shown, cleanedUp, begins, history>>

\* A new session takes the place of whatever is there, and connects.
Open(t) ==
  /\ Runs(t, "open")
  /\ sess' = Free
  /\ openSess' = (openSess \cap Referenced) \cup {Free}
  /\ openConns' = openConns \cap Referenced
  /\ Goes(t, [task[t] EXCEPT !.at = "connecting", !.held = Free])
  /\ UNCHANGED <<conn, failures, shown, cleanedUp, bounds, history>>

Connected(t) ==
  /\ Runs(t, "connecting") /\ task[t].held \in openSess
  /\ conn' = task[t].held
  /\ openConns' = openConns \cup {task[t].held}
  /\ failures' = 0
  /\ Goes(t, [task[t] EXCEPT !.at = "ready", !.held = None, !.tries = 1])
  /\ UNCHANGED <<sess, openSess, shown, cleanedUp, bounds, history>>

\* ws_connect raised: the network refused it, or the session was closed meanwhile.
ConnectFailed(t) ==
  /\ Runs(t, "connecting")
  /\ \/ task[t].held \notin openSess /\ UNCHANGED faults
     \/ Fault("refused")
  /\ failures' = Bump(failures)
  /\ Closes(t, [task[t] EXCEPT !.held = None], "failed")
  /\ UNCHANGED <<fields, shown, cleanedUp, begins, history>>

\* Mutant of TryFailed: tries are not counted.
TryFailedUncounted(t) ==
  /\ Runs(t, "failed")
  /\ Goes(t, [task[t] EXCEPT !.at = "sleeping"])
  /\ UNCHANGED <<fields, failures, shown, cleanedUp, bounds, history>>

\* After a 401 the wait includes a login, whose failure denies access at once; the
\* last 401 does too, and any other last failure is raised as it is.
TryFailed(t) ==
  /\ Runs(t, "failed")
  /\ \/ /\ task[t].tries < Tries
        /\ Goes(t, [task[t] EXCEPT !.at = "sleeping", !.tries = @ + 1])
     \/ Goes(t, [task[t] EXCEPT !.at = "denied", !.tries = 1])
     \/ /\ task[t].tries = Tries
        /\ Goes(t, [task[t] EXCEPT !.at = "raised", !.tries = 1])
  /\ UNCHANGED <<fields, failures, shown, cleanedUp, bounds, history>>

TryAgain(t) ==
  /\ Runs(t, "sleeping")
  /\ Closes(t, task[t], "open")
  /\ UNCHANGED <<fields, failures, shown, cleanedUp, bounds, history>>

-----------------------------------------------------------------------------
(* get_device_status and set_cleaner_state.                                *)

\* No await since the connection was found or opened: it is usable.
Send(t) ==
  /\ Runs(t, "ready")
  /\ Goes(t, [task[t] EXCEPT !.at = "sending", !.held = conn])
  /\ UNCHANGED <<fields, failures, shown, cleanedUp, bounds, history>>

\* The request left, if the connection lasted.  receive() is called on what is by
\* then the connection: none, one closed, or one another task is waiting on.
Sent(t) ==
  /\ Runs(t, "sending") /\ task[t].held \in openConns
  /\ LET left == [task[t] EXCEPT !.held = None,
                                !.sent = IF t \in Commands THEN @ + 1 ELSE 0]
         refused == conn = None \/ \E u \in Tasks : task[u].at = "receiving" /\ task[u].held = conn
     IN \/ ~refused /\ Goes(t, [left EXCEPT !.at = "receiving", !.held = conn])
        \/ refused /\ t \in Polls /\ Goes(t, [left EXCEPT !.at = "raised"])
        \/ refused /\ t \in Commands /\ Ends(t)
  /\ UNCHANGED <<fields, failures, shown, cleanedUp, bounds, history>>

SendFailed(t) ==
  /\ Runs(t, "sending") /\ task[t].held \notin openConns
  /\ Goes(t, [task[t] EXCEPT !.at = "raised", !.held = None])
  /\ UNCHANGED <<fields, failures, shown, cleanedUp, bounds, history>>

\* A poll's answer is a status; the refresh that it ends resets the count as well.
Answered(t) ==
  /\ Runs(t, "receiving") /\ task[t].held \in openConns
  /\ Ends(t)
  /\ IF t \in Polls THEN failures' = 0 /\ shown' = "live" ELSE UNCHANGED <<failures, shown>>
  /\ UNCHANGED <<fields, cleanedUp, bounds, history>>

\* Mutant of Unanswered: a command that gets no response is sent again.
UnansweredRetried(t) ==
  /\ Runs(t, "receiving") /\ task[t].held \in openConns
  /\ Fault("silent")
  /\ Goes(t, [task[t] EXCEPT !.at = "raised", !.held = None])
  /\ UNCHANGED <<fields, failures, shown, cleanedUp, begins, history>>

\* wait_for's 10 s: a command may still have succeeded, and is not sent again.
Unanswered(t) ==
  /\ Runs(t, "receiving") /\ task[t].held \in openConns
  /\ Fault("silent")
  /\ IF t \in Polls THEN Goes(t, [task[t] EXCEPT !.at = "raised", !.held = None])
                    ELSE Ends(t)
  /\ UNCHANGED <<fields, failures, shown, cleanedUp, begins, history>>

\* receive() returned no text.  The connection closed under it: CLOSED is closed and
\* tried again.  For any other message, a binary frame of an open connection among
\* them, a poll ends and a command is sent once more as it is.
CutOff(t) ==
  /\ Runs(t, "receiving")
  /\ LET cut == [task[t] EXCEPT !.held = None]
         last == task[t].attempt = Attempts
     IN \/ /\ task[t].held \notin openConns
           /\ IF last THEN Closes(t, cut, "end") ELSE Closes(t, NextAttempt(cut), "ensure")
        \/ Goes(t, IF last \/ t \in Polls THEN [cut EXCEPT !.at = "end"]
                                       ELSE [NextAttempt(cut) EXCEPT !.at = "ensure"])
  /\ IF task[t].held \in openConns THEN Fault("binary") ELSE UNCHANGED faults
  /\ UNCHANGED <<fields, failures, shown, cleanedUp, begins, history>>

\* except Exception: a poll counts the failure of its last attempt.
Raised(t) ==
  /\ Runs(t, "raised")
  /\ IF task[t].attempt < Attempts
     THEN Closes(t, NextAttempt(task[t]), "pausing") /\ UNCHANGED failures
     ELSE /\ Closes(t, task[t], "end")
          /\ failures' = IF t \in Polls THEN Bump(failures) ELSE failures
  /\ UNCHANGED <<fields, shown, cleanedUp, bounds, history>>

Resume(t) ==
  /\ Runs(t, "pausing")
  /\ Goes(t, [task[t] EXCEPT !.at = "ensure"])
  /\ UNCHANGED <<fields, failures, shown, cleanedUp, bounds, history>>

\* AuthFailedError: closed, and raised to the caller, where a poll counts it.
Denied(t) ==
  /\ Runs(t, "denied")
  /\ Closes(t, task[t], "end")
  /\ failures' = IF t \in Polls THEN Bump(failures) ELSE failures
  /\ UNCHANGED <<fields, shown, cleanedUp, bounds, history>>

\* Mutant of Resilient: one failure is enough.
ResilientAtOnce(n) == IF n > 0 THEN "offline" ELSE "kept"

\* _get_resilient_status, of a poll without an answer: 5 failures in a row are
\* "offline".  The refresh did not fail and resets the count.
Resilient(n) == IF n >= Threshold THEN "offline" ELSE "kept"

Degrade(n) == shown' = Resilient(n) /\ failures' = 0

End(t) ==
  /\ Runs(t, "end")
  /\ Ends(t)
  /\ IF t \in Polls THEN Degrade(failures) ELSE UNCHANGED <<failures, shown>>
  /\ UNCHANGED <<fields, cleanedUp, bounds, history>>

-----------------------------------------------------------------------------
\* wait_for around the exchange, or around the close of cleanup, is out of time:
\* the await is cancelled, and what _close_websocket was at is forgotten.
Abandon(t) ==
  /\ running = Nobody /\ task[t].at \in Waiting
  /\ Fault("late")
  /\ Ends(t)
  /\ conn' = IF task[t].at = "closing connection" THEN None ELSE conn
  /\ sess' = IF task[t].at = "closing session" THEN None ELSE sess
  /\ IF t \in Polls THEN Degrade(Bump(failures)) ELSE UNCHANGED <<failures, shown>>
  /\ unclean' = (unclean \/ t = Unload)
  /\ UNCHANGED <<openConns, openSess, cleanedUp, begins, crossed, shared>>

\* The peer closes the connection.
Drop ==
  /\ running = Nobody
  /\ Fault("dropped")
  /\ \E i \in openConns : openConns' = openConns \ {i}
  /\ UNCHANGED <<running, task, conn, sess, openSess, failures, shown, cleanedUp, begins, history>>

-----------------------------------------------------------------------------
Step(t) ==
  \/ CloseConnection(t) \/ CloseSession(t) \/ Closed(t)
  \/ Ensure(t) \/ LoggedIn(t) \/ Open(t) \/ Connected(t) \/ ConnectFailed(t)
  \/ TryFailed(t) \/ TryAgain(t)
  \/ Send(t) \/ Sent(t) \/ SendFailed(t) \/ Answered(t) \/ Unanswered(t) \/ CutOff(t)
  \/ Raised(t) \/ Resume(t) \/ Denied(t) \/ End(t)

Next ==
  \/ \E t \in Tasks : Begin(t) \/ Step(t) \/ Abandon(t)
  \/ BeginCleanup \/ Drop

Spec == Init /\ [][Next]_vars

-----------------------------------------------------------------------------
(* Types, and what the shared connection promises.                         *)

TypeOK ==
  /\ running \in Tasks \cup {Nobody}
  /\ task \in [Tasks -> [at : Locations, tries : 1..Tries, attempt : 1..Attempts,
                         after : Locations, held : Ids \cup {None}, sent : 0..Attempts]]
  /\ {conn, sess} \subseteq Ids \cup {None}
  /\ openConns \subseteq Ids /\ openSess \subseteq Ids
  /\ failures \in 0..Threshold /\ shown \in {"live", "kept", "offline"}
  /\ faults \in [Kinds -> 0..MaxFaults]
  /\ begins \in 0..MaxBegins
  /\ {cleanedUp, crossed, shared, unclean} \subseteq BOOLEAN

\* A session is lost, open and out of reach of every later close, only when a task
\* began to close while another was opening or closing (client.py:892).
NothingOrphaned == openSess \subseteq {sess} \/ crossed

\* The robot is called offline only after the network refused several connects in
\* a row, however polls and commands add up their counts.
OfflineIsReal == shown # "offline" \/ faults.refused >= Threshold - 1 \/ shared

\* A command goes out twice only after a connection was dropped or a frame came that
\* is not text, or among exchanges that overlap: silence is not a reason, since the
\* command may have succeeded (client.py:2134-2136).
SentOnce ==
  \A t \in Commands : task[t].sent <= 1 \/ faults.dropped + faults.binary > 0 \/ shared

\* cleanup leaves nothing open, unless an exchange was under way, it ran out of
\* time, or an earlier overlap lost a session.
UnloadCloses ==
  (cleanedUp /\ ~Occupied) => (openSess = {} /\ openConns = {}) \/ unclean \/ crossed

\* How far a task is from its end: attempts before tries before the way through
\* one try.  A close is as far as what it returns to, and its awaits.
Way == <<"idle", "end", "denied", "raised", "receiving", "sending", "ready",
         "failed", "connecting", "open", "sleeping", "logging in", "ensure", "pausing">>
Place(at) == CHOOSE i \in DOMAIN Way : Way[i] = at
Detour(at) ==
  CASE at = "close" -> 3 [] at = "closing connection" -> 2 [] at = "closing session" -> 1
    [] OTHER -> 0
Opening == {"pausing", "ensure", "logging in", "sleeping", "open", "connecting", "failed"}
Distance(r) ==
  LET detour == Detour(r.at)
      at == IF detour > 0 THEN r.after ELSE r.at
      tries == IF at \in Opening THEN 1 + Tries - r.tries ELSE 0
  IN 4 * Len(Way) * ((Tries + 1) * (Attempts - r.attempt) + tries) + 4 * Place(at) + detour

\* Every step takes its task nearer to its end, whatever tasks do to each other's
\* connection: exchanges that close each other's connection do not go on for ever.
EveryStepAdvances ==
  [][\A t \in Tasks : task[t].at # "idle" /\ task'[t] \notin {task[t], Rest}
                        => Distance(task'[t]) < Distance(task[t])]_vars
=============================================================================
