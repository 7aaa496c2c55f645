----------------------------- MODULE AuthToken -----------------------------
(***************************************************************************)
(* The session of one AqualinkClient: the two tokens a login yields, their *)
(* local expiry, _authenticate under its lock, and the requests that find  *)
(* their token missing, expired or refused (client.py).                    *)
(*                                                                         *)
(* A token is named by the number of the login that yielded it.  The cloud *)
(* may refuse any request and any login, and answers only good tokens.     *)
(* Several requests are in flight: the polls and the commands of a user.   *)
(***************************************************************************)
EXTENDS Integers, Sequences

CONSTANTS
  Tasks,        \* asyncio tasks that make requests
  Kinds,        \* what they request, see AllKinds
  MaxRequests,  \* bound: requests made
  MaxExpiries   \* bound: local expiries of the session

AllKinds == {"discovery", "i2dPoll", "i2dCommand", "features", "shadowPoll", "shadowCommand"}

ASSUME AuthTokenAssumption ==
  Kinds \subseteq AllKinds /\ MaxRequests \in Nat /\ MaxExpiries \in Nat

VARIABLES
  good,        \* tokens the cloud accepts
  logins,      \* logins sent
  requests,    \* requests begun
  expiries,    \* local expiries
  authToken,   \* _auth_token, 0 when there is none
  idToken,     \* _id_token, 0 when there is none
  fresh,       \* _token_expires_at lies ahead
  lock,        \* _auth_lock: its holder, then those who wait for it in order
  job,         \* the request of each task
  due          \* history: routine logins the session has come to need, less those made

cloudVars == <<good, requests, expiries>>
session == <<authToken, idToken, fresh>>
vars == <<cloudVars, logins, session, lock, job, due>>

-----------------------------------------------------------------------------
Shadow   == {"shadowPoll", "shadowCommand"}
Polls    == {"discovery", "i2dPoll", "shadowPoll"}

\* Attempts of a REST request and of _ensure_websocket_connection.
Attempts(kind) == IF kind \in Shadow THEN 3 ELSE 2

\* entering: the gate of fetch_status.  connecting: the gate of
\* _ensure_websocket_connection.  locking, login: inside _authenticate, which
\* goes on with "next".  sending, sent: the request itself.
Steps == {"idle", "entering", "connecting", "locking", "login", "sending", "sent"}
Outcomes == {"none", "ok", "error", "reauth", "authError"}
Jobs == [step : Steps, kind : AllKinds, attempt : 1..3, force : BOOLEAN,
         next : {"connecting", "sending"}, used : Nat, outcome : Outcomes]

NoJob == [step |-> "idle", kind |-> "discovery", attempt |-> 1, force |-> FALSE,
          next |-> "sending", used |-> 0, outcome |-> "none"]

At(t, step) == job[t].step = step
Goto(t, step) == job' = [job EXCEPT ![t].step = step]
End(t, outcome) == job' = [job EXCEPT ![t] = [NoJob EXCEPT !.outcome = outcome]]

\* AuthFailedError leaves the request.  The coordinator makes it
\* ConfigEntryAuthFailed when it comes out of fetch_status; _update_other_robots
\* and _get_device_model turn it into a degraded result, and a command into an error
\* of the service call.
AuthFailure(t) ==
  IF \/ job[t].kind \in {"discovery", "i2dPoll"}
     \/ job[t].kind = "shadowPoll" /\ job[t].next = "connecting" /\ At(t, "login")
  THEN "reauth" ELSE "authError"

\* What AuthFailedError becomes where a re-login fails after a websocket 401: any
\* exception is an AuthFailedError there.
LoginError(t) ==
  IF job[t].kind \in Shadow /\ job[t].force THEN AuthFailure(t) ELSE "error"

-----------------------------------------------------------------------------
Init ==
  /\ good = {} /\ logins = 0 /\ requests = 0 /\ expiries = 0
  /\ authToken = 0 /\ idToken = 0 /\ fresh = FALSE
  /\ lock = <<>>
  /\ job = [t \in Tasks |-> NoJob]
  /\ due = 1

\* Commands of an i2d robot and the features call use the token as it is.
RequestBegins(t, kind) ==
  /\ At(t, "idle") /\ requests < MaxRequests
  /\ requests' = requests + 1
  /\ job' = [job EXCEPT ![t] = [NoJob EXCEPT
       !.kind = kind,
       !.step = CASE kind \in Polls -> "entering"
                  [] kind = "shadowCommand" -> "connecting"
                  [] OTHER -> "sending"]]
  /\ UNCHANGED <<good, logins, expiries, session, lock, due>>

\* _authenticate(force): wait for the lock, then go on at next.
Authenticate(t, force, next, attempt) ==
  /\ lock' = Append(lock, t)
  /\ job' = [job EXCEPT ![t].step = "locking", ![t].force = force,
                        ![t].next = next, ![t].attempt = attempt]

PastGate(t) ==
  IF At(t, "entering") /\ job[t].kind = "shadowPoll" THEN "connecting" ELSE "sending"

\* fetch_status asks for _auth_token, _ensure_websocket_connection for _id_token.
Gate(t) ==
  /\ At(t, "entering") \/ At(t, "connecting")
  /\ LET token == IF At(t, "entering") THEN authToken ELSE idToken IN
     IF token = 0 \/ ~fresh
     THEN Authenticate(t, FALSE, PastGate(t), 1)
     ELSE Goto(t, PastGate(t)) /\ UNCHANGED lock
  /\ UNCHANGED <<cloudVars, logins, session, due>>

Holds(t) == lock # <<>> /\ Head(lock) = t
Release == lock' = Tail(lock)

\* Mutant of StillValid: the recheck applies to forced logins as well.
StillValidEvenIfForced(t) == idToken # 0 /\ fresh

\* Mutant of StillValid: no double check.
StillValidNever(t) == FALSE

StillValid(t) == ~job[t].force /\ idToken # 0 /\ fresh

\* The double check under the lock: a peer has logged in meanwhile.
SkipLogin(t) ==
  /\ At(t, "locking") /\ Holds(t) /\ StillValid(t)
  /\ Release
  /\ Goto(t, job[t].next)
  /\ UNCHANGED <<cloudVars, logins, session, due>>

SendLogin(t) ==
  /\ At(t, "locking") /\ Holds(t) /\ ~StillValid(t)
  /\ logins' = logins + 1
  /\ due' = IF job[t].force THEN due ELSE due - 1
  /\ Goto(t, "login")
  /\ UNCHANGED <<cloudVars, session, lock>>

LoginSucceeds(t) ==
  /\ At(t, "login")
  /\ good' = good \cup {logins}
  /\ authToken' = logins /\ idToken' = logins /\ fresh' = TRUE
  /\ Release
  /\ Goto(t, job[t].next)
  /\ UNCHANGED <<requests, expiries, logins, due>>

\* Mutant of LoginEnds: the lock is not released on the way out.
LoginEndsLocked(t, outcome) ==
  /\ due' = IF job[t].force THEN due ELSE due + 1
  /\ End(t, outcome)
  /\ UNCHANGED <<requests, expiries, logins, fresh, lock>>

\* The login raises: the lock is released, and the login is as due as before.
LoginEnds(t, outcome) ==
  /\ Release
  /\ due' = IF job[t].force THEN due ELSE due + 1
  /\ End(t, outcome)
  /\ UNCHANGED <<requests, expiries, logins, fresh>>

\* 401, 403, not JSON, or a body without the first keys.
LoginRefused(t) ==
  /\ At(t, "login")
  /\ LoginEnds(t, AuthFailure(t))
  /\ UNCHANGED <<good, authToken, idToken>>

\* A body without userPoolOAuth, or without cognitoPool: what comes before the
\* missing key has been assigned.
LoginIncomplete(t) ==
  /\ At(t, "login")
  /\ good' = good \cup {logins}
  /\ authToken' = logins /\ idToken' \in {idToken, logins}
  /\ LoginEnds(t, AuthFailure(t))

\* The network, or the 30 s of the login.
LoginFails(t) ==
  /\ At(t, "login")
  /\ LoginEnds(t, LoginError(t))
  /\ UNCHANGED <<good, authToken, idToken>>

\* get_devices carries _auth_token, every other request _id_token.
SendRequest(t) ==
  /\ At(t, "sending")
  /\ job' = [job EXCEPT ![t].step = "sent",
       ![t].used = IF job[t].kind = "discovery" THEN authToken ELSE idToken]
  /\ UNCHANGED <<cloudVars, logins, session, lock, due>>

RequestAnswered(t) ==
  /\ At(t, "sent") /\ job[t].used \in good
  /\ End(t, "ok")
  /\ UNCHANGED <<cloudVars, logins, session, lock, due>>

\* 401: log in again and retry, as often as the request allows.
RequestUnauthorized(t) ==
  /\ At(t, "sent")
  /\ IF job[t].attempt < Attempts(job[t].kind)
     THEN Authenticate(t, TRUE, "sending", job[t].attempt + 1)
     ELSE End(t, AuthFailure(t)) /\ UNCHANGED lock
  /\ UNCHANGED <<cloudVars, logins, session, due>>

\* Another failure: a websocket handshake is retried, a REST request is not.
RequestFails(t) ==
  /\ At(t, "sent")
  /\ IF job[t].kind \in Shadow /\ job[t].attempt < 3
     THEN job' = [job EXCEPT ![t].step = "sending", ![t].force = FALSE, ![t].attempt = @ + 1]
     ELSE End(t, "error")
  /\ UNCHANGED <<cloudVars, logins, session, lock, due>>

-----------------------------------------------------------------------------
\* The expiry of the token passes.
SessionExpires ==
  /\ fresh /\ expiries < MaxExpiries
  /\ fresh' = FALSE /\ expiries' = expiries + 1 /\ due' = due + 1
  /\ UNCHANGED <<good, requests, logins, authToken, idToken, lock, job>>

\* The cloud revokes what it has issued.
TokensRevoked ==
  /\ good # {} /\ good' = {}
  /\ UNCHANGED <<requests, expiries, logins, session, lock, job, due>>

TaskStep(t) ==
  \/ Gate(t) \/ SkipLogin(t) \/ SendLogin(t) \/ LoginSucceeds(t) \/ LoginRefused(t)
  \/ LoginIncomplete(t) \/ LoginFails(t) \/ SendRequest(t) \/ RequestAnswered(t)
  \/ RequestUnauthorized(t) \/ RequestFails(t)

Next ==
  \/ \E t \in Tasks : TaskStep(t) \/ \E kind \in Kinds : RequestBegins(t, kind)
  \/ SessionExpires \/ TokensRevoked

Spec == Init /\ [][Next]_vars

\* Every task runs on: replies, errors and timers come.  Nothing is assumed of what
\* the cloud answers, and requests need not be made.
FairSpec == Spec /\ \A t \in Tasks : WF_vars(TaskStep(t))

-----------------------------------------------------------------------------
Tokens == 0..logins
TypeOK ==
  /\ logins \in Nat /\ good \subseteq 1..logins
  /\ requests \in 0..MaxRequests /\ expiries \in 0..MaxExpiries
  /\ authToken \in Tokens /\ idToken \in Tokens /\ fresh \in BOOLEAN
  /\ lock \in Seq(Tasks)
  /\ job \in [Tasks -> Jobs]
  /\ due \in Int

\* Requests that meet an expired session collapse into one routine login
\* (_authenticate's double check): there is one for each time the session has come
\* to need it, at most.
LoginsCollapse == due >= 0

\* The retry after a 401 carries a token that was issued after the one refused, so
\* that the second 401, which is taken for a rejection of the credentials, is one.
RetryUsesNewerToken ==
  [][\A t \in Tasks :
       SendRequest(t) /\ job[t].force => job'[t].used > job[t].used]_vars

\* Every request ends, whatever the cloud answers: the logins and retries of one
\* request are bounded, and no way out of a login keeps the lock.
RequestsEnd == \A t \in Tasks : job[t].step # "idle" ~> job[t].step = "idle"
=============================================================================
