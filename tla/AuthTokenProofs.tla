-------------------------- MODULE AuthTokenProofs --------------------------
(***************************************************************************)
(* Proofs about the session of a client, for any number of tasks, any mix  *)
(* of requests and any bounds: requests that meet an expired session       *)
(* collapse into one login, and the retry after a 401 carries a newer      *)
(* token.                                                                  *)
(***************************************************************************)
EXTENDS AuthToken, SequenceTheorems, TLAPS

-----------------------------------------------------------------------------
(* The inductive invariant.                                                *)

\* A login is sent by the holder of the lock.
Exclusive ==
  \A t \in Tasks : At(t, "login") => Holds(t) /\ logins > 0

\* A login that the session has come to need is on its way.
RoutineUnderWay == \E t \in Tasks : At(t, "login") /\ ~job[t].force

\* Each time the session has come to need a login, it is owed until it is made.
Owed ==
  /\ due >= 0
  /\ (idToken = 0 \/ ~fresh) /\ ~RoutineUnderWay => due > 0

\* The token that the next request of a kind carries.
Token(kind) == IF kind = "discovery" THEN authToken ELSE idToken

\* Only a 401 forces a login; its retry waits for a token newer than the one refused.
Retries(j) ==
  /\ j.used <= Token(j.kind)
  /\ j.step = "login" => j.used < logins
  /\ j.force => /\ j.step \in {"locking", "login", "sending", "sent"}
                /\ j.step \in {"locking", "login"} => j.next = "sending"
                /\ j.step = "sending" => j.used < Token(j.kind)

Newer == \A t \in Tasks : Retries(job[t])

IInv == TypeOK /\ Exclusive /\ Owed /\ Newer

-----------------------------------------------------------------------------
(* Jobs, and what a step makes of one.                                     *)

Changes(t, j) == j \in Jobs /\ job' = [job EXCEPT ![t] = j]

LEMMA ChangesTo ==
  ASSUME TypeOK, NEW t \in Tasks, NEW j, Changes(t, j)
  PROVE  /\ job' \in [Tasks -> Jobs] /\ job'[t] = j
         /\ \A u \in Tasks \ {t} : job'[u] = job[u]
BY DEF TypeOK, Changes

\* A job at another step, the same otherwise.
Gone(t, j, step) ==
  /\ Changes(t, j) /\ j.step = step /\ j.force = job[t].force /\ j.next = job[t].next
  /\ j.used = job[t].used /\ j.kind = job[t].kind

LEMMA GotoMoves ==
  ASSUME TypeOK, NEW t \in Tasks, NEW step \in Steps, Goto(t, step)
  PROVE  \E j : Gone(t, j, step)
<1> DEFINE j == [job[t] EXCEPT !.step = step]
<1>1. job[t] \in Jobs
  BY DEF TypeOK
<1>2. /\ j \in Jobs /\ j.step = step /\ j.force = job[t].force /\ j.next = job[t].next
      /\ j.used = job[t].used /\ j.kind = job[t].kind
  BY <1>1 DEF Jobs
<1>3. job' = [job EXCEPT ![t] = j]
  BY DEF Goto
<1> QED BY <1>2, <1>3 DEF Gone, Changes

LEMMA NoJobIs ==
  NoJob \in Jobs /\ NoJob.step = "idle" /\ NoJob.force = FALSE /\ NoJob.used = 0
BY DEF NoJob, Jobs, Steps, AllKinds, Outcomes

\* A job that is over.
Over(t, j) == Changes(t, j) /\ j.step = "idle" /\ j.force = FALSE /\ j.used = 0

LEMMA EndMoves ==
  ASSUME NEW t \in Tasks, NEW outcome \in Outcomes, End(t, outcome)
  PROVE  \E j : Over(t, j)
<1> DEFINE j == [NoJob EXCEPT !.outcome = outcome]
<1>1. j \in Jobs /\ j.step = "idle" /\ j.force = FALSE /\ j.used = 0
  BY NoJobIs DEF Jobs
<1>2. job' = [job EXCEPT ![t] = j]
  BY DEF End
<1> QED BY <1>1, <1>2 DEF Over, Changes

\* A job that waits for the lock, and goes on at next.
Waits(t, j, force, next) ==
  /\ Changes(t, j) /\ j.step = "locking" /\ j.force = force /\ j.next = next
  /\ j.used = job[t].used /\ j.kind = job[t].kind

LEMMA AuthenticateMoves ==
  ASSUME TypeOK, NEW t \in Tasks, NEW force \in BOOLEAN, NEW next \in {"connecting", "sending"},
         NEW attempt \in 1..3, Authenticate(t, force, next, attempt)
  PROVE  \E j : Waits(t, j, force, next)
<1> DEFINE j == [job[t] EXCEPT !.step = "locking", !.force = force, !.next = next,
                               !.attempt = attempt]
<1>1. job[t] \in Jobs /\ "locking" \in Steps
  BY DEF TypeOK, Steps
<1>2. /\ j \in Jobs /\ j.step = "locking" /\ j.force = force /\ j.next = next
      /\ j.used = job[t].used /\ j.kind = job[t].kind
  BY <1>1 DEF Jobs
<1>3. job' = [job EXCEPT ![t] = j]
  BY DEF Authenticate
<1> QED BY <1>2, <1>3 DEF Waits, Changes

LEMMA Types ==
  ASSUME TypeOK
  PROVE  /\ logins \in Nat /\ authToken \in Nat /\ idToken \in Nat
         /\ authToken <= logins /\ idToken <= logins
         /\ fresh \in BOOLEAN /\ due \in Int /\ lock \in Seq(Tasks)
         /\ requests \in Nat /\ expiries \in Nat
         /\ MaxRequests \in Nat /\ MaxExpiries \in Nat
         /\ \A t \in Tasks : job[t] \in Jobs /\ job[t].used \in Nat
BY AuthTokenAssumption DEF TypeOK, Tokens, Jobs

-----------------------------------------------------------------------------
(* The lock.                                                               *)

\* Its holder keeps it until it lets go, whoever joins the queue.
LEMMA StillHeld ==
  ASSUME TypeOK, NEW t \in Tasks, NEW u, Holds(u), lock' = lock \/ lock' = Append(lock, t)
  PROVE  Holds(u)'
<1>1. lock \in Seq(Tasks) /\ lock # <<>> /\ Head(lock) = u
  BY DEF TypeOK, Holds
<1>2. Append(lock, t) # <<>> /\ Head(Append(lock, t)) = Head(lock)
  BY <1>1
<1> QED BY <1>1, <1>2 DEF Holds

LEMMA LockTypes ==
  ASSUME TypeOK, NEW t \in Tasks,
         \/ lock' = lock
         \/ lock' = Append(lock, t)
         \/ Holds(t) /\ lock' = Tail(lock)
  PROVE  lock' \in Seq(Tasks)
<1>1. lock \in Seq(Tasks)
  BY DEF TypeOK
<1>2. CASE lock' = lock
  BY <1>1, <1>2
<1>3. CASE lock' = Append(lock, t)
  BY <1>1, <1>3
<1>4. CASE Holds(t) /\ lock' = Tail(lock)
  BY <1>1, <1>4 DEF Holds
<1> QED BY <1>2, <1>3, <1>4

\* One login at a time, however the lock is passed on.
LEMMA ExclusiveKept ==
  ASSUME TypeOK, Exclusive, NEW t \in Tasks, NEW j, Changes(t, j),
         j.step = "login" => Holds(t)' /\ logins' > 0,
         \/ lock' = lock
         \/ lock' = Append(lock, t)
         \/ Holds(t) /\ lock' = Tail(lock),
         logins' \in Nat, logins <= logins'
  PROVE  Exclusive'
<1> SUFFICES ASSUME NEW u \in Tasks, At(u, "login")'
             PROVE  Holds(u)' /\ logins' > 0
  BY DEF Exclusive
<1>1. CASE u = t
  BY <1>1, ChangesTo DEF At
<1>2. CASE u # t
  <2>1. At(u, "login") /\ Holds(u) /\ logins > 0
    BY <1>2, ChangesTo DEF At, Exclusive
  <2>2. ~Holds(t)
    BY <1>2, <2>1 DEF Holds
  <2>3. logins' > 0
    BY <2>1, Types
  <2> QED BY <2>1, <2>2, <2>3, StillHeld
<1> QED BY <1>1, <1>2

-----------------------------------------------------------------------------
(* The tokens.                                                             *)

\* Tokens and logins only grow, so that what was newer stays newer.
LEMMA NewerKept ==
  ASSUME TypeOK, Newer, NEW t \in Tasks, NEW j, Changes(t, j), Retries(j)',
         {authToken', idToken', logins'} \subseteq Nat,
         authToken <= authToken', idToken <= idToken', logins <= logins'
  PROVE  Newer'
<1> SUFFICES ASSUME NEW u \in Tasks PROVE Retries(job[u])'
  BY DEF Newer
<1>1. CASE u = t
  BY <1>1, ChangesTo DEF Retries, Token
<1>2. CASE u # t
  <2>1. job'[u] = job[u] /\ Retries(job[u]) /\ job[u].used \in Nat
    BY <1>2, ChangesTo, Types DEF Newer
  <2> QED BY <2>1, Types DEF Retries, Token
<1> QED BY <1>1, <1>2

\* A step outside a login, which leaves the session alone.
LEMMA CalmKeeps ==
  ASSUME IInv, NEW t \in Tasks, NEW j, Changes(t, j),
         ~At(t, "login"), j.step # "login", Retries(j),
         UNCHANGED <<good, expiries, logins, session, due>>, requests' \in 0..MaxRequests,
         \/ lock' = lock
         \/ lock' = Append(lock, t)
         \/ Holds(t) /\ lock' = Tail(lock)
  PROVE  IInv'
<1>0. TypeOK
  BY DEF IInv
<1>1. UNCHANGED <<good, expiries, logins, authToken, idToken, fresh, due>>
  BY DEF session
<1>2. TypeOK'
  BY <1>0, <1>1, ChangesTo, LockTypes DEF TypeOK, Tokens
<1>3. Exclusive'
  <2>1. logins' \in Nat /\ logins <= logins'
    BY <1>0, <1>1, Types
  <2> QED BY <1>0, <2>1, ExclusiveKept DEF IInv
<1>4. Owed'
  <2>1. RoutineUnderWay' <=> RoutineUnderWay
    BY <1>0, ChangesTo DEF RoutineUnderWay, At
  <2> QED BY <1>1, <2>1 DEF IInv, Owed
<1>5. Newer'
  <2>1. Retries(j)'
    BY <1>1 DEF Retries, Token
  <2>2. {authToken', idToken', logins'} \subseteq Nat /\ authToken <= authToken'
        /\ idToken <= idToken' /\ logins <= logins'
    BY <1>0, <1>1, Types
  <2> QED BY <1>0, <2>1, <2>2, NewerKept DEF IInv
<1> QED BY <1>2, <1>3, <1>4, <1>5 DEF IInv

\* Nothing has been refused yet: no retry.
LEMMA FirstTry ==
  ASSUME TypeOK, NEW j, j.used = 0, ~j.force, j.step # "login"
  PROVE  Retries(j)
BY Types DEF Retries, Token

-----------------------------------------------------------------------------
(* Each step preserves the invariant.                                      *)

LEMMA RequestBeginsKeeps ==
  ASSUME IInv, NEW t \in Tasks, NEW kind \in Kinds, RequestBegins(t, kind)
  PROVE  IInv'
<1>0. TypeOK
  BY DEF IInv
<1> DEFINE step == CASE kind \in Polls -> "entering"
                     [] kind = "shadowCommand" -> "connecting"
                     [] OTHER -> "sending"
           j == [NoJob EXCEPT !.kind = kind, !.step = step]
<1>1. step \in {"entering", "connecting", "sending"}
  OBVIOUS
<1>2. step \in Steps /\ step # "login" /\ kind \in AllKinds
  BY <1>1, AuthTokenAssumption DEF Steps
<1>3. job' = [job EXCEPT ![t] = j]
  BY DEF RequestBegins
<1> HIDE DEF step
<1>4. j \in Jobs /\ j.step = step /\ j.force = FALSE /\ j.used = 0
  BY <1>2, NoJobIs DEF Jobs
<1> HIDE DEF j
<1>5. Retries(j)
  BY <1>0, <1>2, <1>4, FirstTry
<1>6. requests' \in 0..MaxRequests
  BY <1>0, Types DEF RequestBegins
<1>7. ~At(t, "login")
  BY DEF RequestBegins, At
<1> QED BY <1>2, <1>3, <1>4, <1>5, <1>6, <1>7, CalmKeeps DEF RequestBegins, Changes

\* The steps that begin no request.
LEMMA CloudKept ==
  ASSUME TypeOK, UNCHANGED <<cloudVars, logins, session, due>>
  PROVE  UNCHANGED <<good, expiries, logins, session, due>> /\ requests' \in 0..MaxRequests
BY DEF TypeOK, cloudVars

LEMMA GateKeeps ==
  ASSUME IInv, NEW t \in Tasks, Gate(t)
  PROVE  IInv'
<1>0. TypeOK
  BY DEF IInv
<1>1. ~job[t].force /\ ~At(t, "login") /\ job[t].used <= Token(job[t].kind)
  BY DEF Gate, At, IInv, Newer, Retries
<1>2. PastGate(t) \in {"connecting", "sending"} /\ PastGate(t) \in Steps
  BY DEF PastGate, Steps
<1>3. CASE Authenticate(t, FALSE, PastGate(t), 1)
  <2>1. FALSE \in BOOLEAN /\ 1 \in 1..3
    OBVIOUS
  <2>2. PICK j : Waits(t, j, FALSE, PastGate(t))
    BY <1>0, <1>2, <1>3, <2>1, AuthenticateMoves
  <2>3. Changes(t, j) /\ j.step # "login" /\ Retries(j)
    BY <1>1, <2>2 DEF Waits, Retries, Token
  <2>4. lock' = Append(lock, t)
    BY <1>3 DEF Authenticate
  <2> QED BY <1>0, <1>1, <2>3, <2>4, CalmKeeps, CloudKept DEF Gate
<1>4. CASE Goto(t, PastGate(t)) /\ UNCHANGED lock
  <2>1. PICK j : Gone(t, j, PastGate(t))
    BY <1>0, <1>2, <1>4, GotoMoves
  <2>2. Changes(t, j) /\ j.step # "login" /\ Retries(j)
    BY <1>1, <1>2, <2>1 DEF Gone, Retries, Token
  <2> QED BY <1>0, <1>1, <1>4, <2>2, CalmKeeps, CloudKept DEF Gate
<1> QED BY <1>3, <1>4 DEF Gate

LEMMA SkipLoginKeeps ==
  ASSUME IInv, NEW t \in Tasks, SkipLogin(t)
  PROVE  IInv'
<1>0. TypeOK
  BY DEF IInv
<1>1. ~job[t].force /\ ~At(t, "login") /\ job[t].used <= Token(job[t].kind)
  BY DEF SkipLogin, StillValid, At, IInv, Newer, Retries
<1>2. job[t].next \in {"connecting", "sending"} /\ job[t].next \in Steps
  BY <1>0 DEF TypeOK, Jobs, Steps
<1>3. PICK j : Gone(t, j, job[t].next)
  BY <1>0, <1>2, GotoMoves DEF SkipLogin
<1>4. Changes(t, j) /\ j.step # "login" /\ Retries(j)
  BY <1>1, <1>2, <1>3 DEF Gone, Retries, Token
<1>5. Holds(t) /\ lock' = Tail(lock)
  BY DEF SkipLogin, Release
<1> QED BY <1>0, <1>1, <1>4, <1>5, CalmKeeps, CloudKept DEF SkipLogin

LEMMA SendRequestKeeps ==
  ASSUME IInv, NEW t \in Tasks, SendRequest(t)
  PROVE  IInv'
<1>0. TypeOK
  BY DEF IInv
<1> DEFINE token == Token(job[t].kind)
           j == [job[t] EXCEPT !.step = "sent", !.used = token]
<1>1. job[t] \in Jobs /\ "sent" \in Steps /\ token \in Nat
  BY <1>0, Types DEF Steps, Token
<1>2. job' = [job EXCEPT ![t] = j]
  BY DEF SendRequest, Token
<1> HIDE DEF token
<1>3. j \in Jobs /\ j.step = "sent" /\ j.used = token /\ j.kind = job[t].kind
  BY <1>1 DEF Jobs
<1> HIDE DEF j
<1>4. Changes(t, j) /\ j.step # "login" /\ Retries(j)
  <2>1. token <= token
    BY <1>1
  <2> QED BY <1>2, <1>3, <2>1 DEF Changes, Retries, token
<1>5. ~At(t, "login") /\ lock' = lock
  BY DEF SendRequest, At
<1> QED BY <1>0, <1>4, <1>5, CalmKeeps, CloudKept DEF SendRequest

\* A request that is over leaves nothing behind.
LEMMA OverKeeps ==
  ASSUME IInv, NEW t \in Tasks, NEW outcome \in Outcomes, End(t, outcome), ~At(t, "login"),
         UNCHANGED <<cloudVars, logins, session, lock, due>>
  PROVE  IInv'
<1>0. TypeOK
  BY DEF IInv
<1>1. PICK j : Over(t, j)
  BY EndMoves
<1>2. Changes(t, j) /\ j.step # "login" /\ Retries(j)
  BY <1>0, <1>1, FirstTry DEF Over
<1> QED BY <1>0, <1>2, CalmKeeps, CloudKept

LEMMA AuthFailureIs ==
  ASSUME NEW t
  PROVE  AuthFailure(t) \in Outcomes /\ LoginError(t) \in Outcomes
BY DEF AuthFailure, LoginError, Outcomes

LEMMA RequestAnsweredKeeps ==
  ASSUME IInv, NEW t \in Tasks, RequestAnswered(t)
  PROVE  IInv'
<1>1. "ok" \in Outcomes /\ ~At(t, "login")
  BY DEF RequestAnswered, Outcomes, At
<1> QED BY <1>1, OverKeeps DEF RequestAnswered

LEMMA RequestUnauthorizedKeeps ==
  ASSUME IInv, NEW t \in Tasks, RequestUnauthorized(t)
  PROVE  IInv'
<1>0. TypeOK
  BY DEF IInv
<1>1. ~At(t, "login") /\ job[t].used <= Token(job[t].kind)
  BY DEF RequestUnauthorized, At, IInv, Newer, Retries
<1>2. CASE job[t].attempt < Attempts(job[t].kind)
  <2>1. TRUE \in BOOLEAN /\ job[t].attempt + 1 \in 1..3 /\ "sending" \in {"connecting", "sending"}
    <3>1. job[t].attempt \in 1..3 /\ Attempts(job[t].kind) \in {2, 3}
      BY <1>0, Types DEF Jobs, Attempts
    <3> QED BY <1>2, <3>1
  <2>2. Authenticate(t, TRUE, "sending", job[t].attempt + 1)
    BY <1>2 DEF RequestUnauthorized
  <2>3. PICK j : Waits(t, j, TRUE, "sending")
    BY <1>0, <2>1, <2>2, AuthenticateMoves
  <2>4. Changes(t, j) /\ j.step # "login" /\ Retries(j)
    BY <1>1, <2>3 DEF Waits, Retries, Token
  <2>5. lock' = Append(lock, t)
    BY <2>2 DEF Authenticate
  <2> QED BY <1>0, <1>1, <2>4, <2>5, CalmKeeps, CloudKept DEF RequestUnauthorized
<1>3. CASE ~(job[t].attempt < Attempts(job[t].kind))
  BY <1>1, <1>3, AuthFailureIs, OverKeeps DEF RequestUnauthorized
<1> QED BY <1>2, <1>3

LEMMA RequestFailsKeeps ==
  ASSUME IInv, NEW t \in Tasks, RequestFails(t)
  PROVE  IInv'
<1>0. TypeOK
  BY DEF IInv
<1>1. ~At(t, "login") /\ job[t].used <= Token(job[t].kind)
  BY DEF RequestFails, At, IInv, Newer, Retries
<1>2. CASE job[t].kind \in Shadow /\ job[t].attempt < 3
  <2> DEFINE j == [job[t] EXCEPT !.step = "sending", !.force = FALSE,
                                 !.attempt = job[t].attempt + 1]
  <2>1. job[t] \in Jobs /\ "sending" \in Steps /\ job[t].attempt + 1 \in 1..3
    <3>1. job[t] \in Jobs /\ job[t].attempt \in 1..3
      BY <1>0, Types DEF Jobs
    <3> QED BY <1>2, <3>1 DEF Steps
  <2>2. j \in Jobs /\ j.step = "sending" /\ j.force = FALSE /\ j.used = job[t].used
        /\ j.kind = job[t].kind
    BY <2>1 DEF Jobs
  <2>3. job' = [job EXCEPT ![t] = j]
    BY <1>2 DEF RequestFails
  <2> HIDE DEF j
  <2>4. Changes(t, j) /\ j.step # "login" /\ Retries(j)
    BY <1>1, <2>2, <2>3 DEF Changes, Retries, Token
  <2>5. lock' = lock
    BY DEF RequestFails
  <2> QED BY <1>0, <1>1, <2>4, <2>5, CalmKeeps, CloudKept DEF RequestFails
<1>3. CASE ~(job[t].kind \in Shadow /\ job[t].attempt < 3)
  <2>1. "error" \in Outcomes
    BY DEF Outcomes
  <2> QED BY <1>1, <1>3, <2>1, OverKeeps DEF RequestFails
<1> QED BY <1>2, <1>3

-----------------------------------------------------------------------------
(* Logins.                                                                 *)

\* The holder of the lock is the only one who can be at a login.
LEMMA OnlyLogin ==
  ASSUME IInv, NEW t \in Tasks, Holds(t), NEW u \in Tasks, At(u, "login")
  PROVE  u = t
BY DEF IInv, Exclusive, Holds

LEMMA SendLoginKeeps ==
  ASSUME IInv, NEW t \in Tasks, SendLogin(t)
  PROVE  IInv'
<1>0. TypeOK
  BY DEF IInv
<1>1. job[t].step = "locking" /\ job[t].used <= Token(job[t].kind)
      /\ (job[t].force => job[t].next = "sending") /\ Holds(t)
  BY DEF SendLogin, At, IInv, Newer, Retries
<1>2. PICK j : Gone(t, j, "login")
  <2>1. "login" \in Steps
    BY DEF Steps
  <2> QED BY <1>0, <2>1, GotoMoves DEF SendLogin
<1>3. /\ Changes(t, j) /\ j.step = "login" /\ j.force = job[t].force
      /\ j.next = job[t].next /\ j.used = job[t].used /\ j.kind = job[t].kind
  BY <1>2 DEF Gone
<1>4. UNCHANGED <<good, requests, expiries, authToken, idToken, fresh, lock>>
  BY DEF SendLogin, cloudVars, session
<1>5. logins' \in Nat /\ logins' = logins + 1 /\ logins <= logins' /\ logins' > 0
  BY <1>0, Types DEF SendLogin
<1>6. TypeOK'
  <2>1. good' \subseteq 1..logins' /\ authToken' \in 0..logins' /\ idToken' \in 0..logins'
    BY <1>0, <1>4, <1>5, Types DEF TypeOK
  <2>2. due' \in Int
    BY <1>0, Types DEF SendLogin
  <2> QED BY <1>0, <1>3, <1>4, <1>5, <2>1, <2>2, ChangesTo DEF TypeOK, Tokens
<1>7. Exclusive'
  <2>1. Holds(t)'
    BY <1>1, <1>4 DEF Holds
  <2> QED BY <1>0, <1>3, <1>4, <1>5, <2>1, ExclusiveKept DEF IInv
<1>8. Owed'
  <2>1. ~RoutineUnderWay
    BY <1>1, OnlyLogin DEF RoutineUnderWay, At
  <2>2. due >= 0 /\ (idToken = 0 \/ ~fresh => due > 0)
    BY <2>1 DEF IInv, Owed
  <2>3. CASE job[t].force
    <3>1. due' = due
      BY <2>3 DEF SendLogin
    <3> QED BY <1>4, <2>2, <3>1 DEF Owed
  <2>4. CASE ~job[t].force
    <3>1. (idToken = 0 \/ ~fresh) /\ due' = due - 1
      BY <2>4 DEF SendLogin, StillValid
    <3>2. due' >= 0
      BY <1>0, <2>2, <3>1, Types
    <3>3. RoutineUnderWay'
      BY <1>0, <1>3, <2>4, ChangesTo DEF RoutineUnderWay, At
    <3> QED BY <3>2, <3>3 DEF Owed
  <2> QED BY <2>3, <2>4
<1>9. Newer'
  <2>1. Token(j.kind)' = Token(job[t].kind)
    BY <1>3, <1>4 DEF Token
  <2>2. Token(job[t].kind) <= logins /\ Token(job[t].kind) \in Nat /\ job[t].used \in Nat
    BY <1>0, Types DEF Token
  <2>3. j.used < logins' /\ j.used <= Token(j.kind)'
    BY <1>0, <1>1, <1>3, <1>5, <2>1, <2>2, Types
  <2>4. Retries(j)'
    BY <1>1, <1>3, <2>3 DEF Retries
  <2>5. {authToken', idToken', logins'} \subseteq Nat /\ authToken <= authToken'
        /\ idToken <= idToken'
    BY <1>0, <1>4, <1>5, Types
  <2> QED BY <1>0, <1>3, <1>5, <2>4, <2>5, NewerKept DEF IInv
<1> QED BY <1>6, <1>7, <1>8, <1>9 DEF IInv

LEMMA LoginSucceedsKeeps ==
  ASSUME IInv, NEW t \in Tasks, LoginSucceeds(t)
  PROVE  IInv'
<1>0. TypeOK
  BY DEF IInv
<1>1. /\ Holds(t) /\ logins > 0 /\ job[t].used < logins
      /\ (job[t].force => job[t].next = "sending")
      /\ job[t].next \in {"connecting", "sending"}
  BY <1>0, Types DEF LoginSucceeds, At, IInv, Exclusive, Newer, Retries, Jobs
<1>2. PICK j : Gone(t, j, job[t].next)
  <2>1. job[t].next \in Steps
    BY <1>1 DEF Steps
  <2> QED BY <1>0, <2>1, GotoMoves DEF LoginSucceeds
<1>3. /\ Changes(t, j) /\ j.step = job[t].next /\ j.force = job[t].force
      /\ j.used = job[t].used /\ j.kind = job[t].kind
  BY <1>2 DEF Gone
<1>4. /\ UNCHANGED <<requests, expiries, logins, due>> /\ good' = good \cup {logins}
      /\ authToken' = logins /\ idToken' = logins /\ fresh' = TRUE /\ lock' = Tail(lock)
  BY DEF LoginSucceeds, Release
<1>5. logins \in Nat /\ logins <= logins
  BY <1>0, Types
<1>6. TypeOK'
  <2>1. good' \subseteq 1..logins' /\ authToken' \in 0..logins' /\ idToken' \in 0..logins'
    BY <1>0, <1>1, <1>4, <1>5 DEF TypeOK
  <2> QED BY <1>0, <1>1, <1>3, <1>4, <2>1, ChangesTo, LockTypes DEF TypeOK, Tokens
<1>7. Exclusive'
  <2>1. j.step # "login"
    BY <1>1, <1>3
  <2> QED BY <1>0, <1>1, <1>3, <1>4, <1>5, <2>1, ExclusiveKept DEF IInv
<1>8. Owed'
  <2>1. idToken' # 0 /\ fresh'
    BY <1>1, <1>4, <1>5
  <2> QED BY <1>4, <2>1 DEF IInv, Owed
<1>9. Newer'
  <2>1. Token(j.kind)' = logins
    BY <1>4 DEF Token
  <2>2. j.used < Token(j.kind)' /\ j.used <= Token(j.kind)'
    BY <1>0, <1>1, <1>3, <1>5, <2>1, Types
  <2>3. Retries(j)'
    BY <1>1, <1>3, <2>2 DEF Retries
  <2>4. {authToken', idToken', logins'} \subseteq Nat /\ authToken <= authToken'
        /\ idToken <= idToken' /\ logins <= logins'
    BY <1>0, <1>4, <1>5, Types
  <2> QED BY <1>0, <1>3, <2>3, <2>4, NewerKept DEF IInv
<1> QED BY <1>6, <1>7, <1>8, <1>9 DEF IInv

\* A login that fails, whatever of its answer was kept.
LEMMA LoginEndsKeeps ==
  ASSUME IInv, NEW t \in Tasks, At(t, "login"), NEW outcome \in Outcomes, LoginEnds(t, outcome),
         good' \in {good, good \cup {logins}},
         authToken' \in {authToken, logins}, idToken' \in {idToken, logins}
  PROVE  IInv'
<1>0. TypeOK
  BY DEF IInv
<1>1. Holds(t) /\ logins > 0
  BY DEF IInv, Exclusive
<1>2. PICK j : Over(t, j)
  BY EndMoves DEF LoginEnds
<1>3. Changes(t, j) /\ j.step = "idle" /\ j.force = FALSE /\ j.used = 0
  BY <1>2 DEF Over
<1>4. UNCHANGED <<requests, expiries, logins, fresh>> /\ lock' = Tail(lock)
  BY DEF LoginEnds, Release
<1>5. logins \in Nat /\ logins <= logins
  BY <1>0, Types
<1>6. TypeOK'
  <2>1. good' \subseteq 1..logins' /\ authToken' \in 0..logins' /\ idToken' \in 0..logins'
    BY <1>0, <1>1, <1>4, <1>5, Types DEF TypeOK
  <2>2. due' \in Int
    BY <1>0, Types DEF LoginEnds
  <2> QED BY <1>0, <1>1, <1>3, <1>4, <2>1, <2>2, ChangesTo, LockTypes DEF TypeOK, Tokens
<1>7. Exclusive'
  BY <1>0, <1>1, <1>3, <1>4, <1>5, ExclusiveKept DEF IInv
<1>8. Owed'
  <2>1. CASE ~job[t].force
    <3>1. due' = due + 1 /\ due >= 0
      BY <2>1 DEF LoginEnds, IInv, Owed
    <3>2. due' > 0 /\ due' >= 0
      BY <1>0, <3>1, Types
    <3> QED BY <3>2 DEF Owed
  <2>2. CASE job[t].force
    <3>1. due' = due
      BY <2>2 DEF LoginEnds
    <3>2. ~RoutineUnderWay
      BY <1>1, <2>2, OnlyLogin DEF RoutineUnderWay
    <3>3. idToken' = 0 => idToken = 0
      BY <1>1, <1>5
    <3> QED BY <1>4, <3>1, <3>2, <3>3 DEF IInv, Owed
  <2> QED BY <2>1, <2>2
<1>9. Newer'
  <2>1. {authToken', idToken', logins'} \subseteq Nat /\ authToken <= authToken'
        /\ idToken <= idToken' /\ logins <= logins'
    BY <1>0, <1>4, <1>5, Types
  <2>2. Retries(j)'
    BY <1>3, <2>1 DEF Retries, Token
  <2> QED BY <1>0, <1>3, <2>1, <2>2, NewerKept DEF IInv
<1> QED BY <1>6, <1>7, <1>8, <1>9 DEF IInv

-----------------------------------------------------------------------------
(* The theorems.                                                           *)

LEMMA Initially ==
  Init => IInv
<1> SUFFICES ASSUME Init PROVE IInv
  OBVIOUS
<1>1. /\ good = {} /\ logins = 0 /\ requests = 0 /\ expiries = 0 /\ due = 1
      /\ authToken = 0 /\ idToken = 0 /\ fresh = FALSE /\ lock = <<>>
  BY DEF Init
<1>2. job \in [Tasks -> Jobs] /\ \A t \in Tasks : job[t] = NoJob
  BY NoJobIs DEF Init
<1>3. TypeOK
  <2>1. lock \in Seq(Tasks)
    BY <1>1
  <2>2. requests \in 0..MaxRequests /\ expiries \in 0..MaxExpiries
    BY <1>1, AuthTokenAssumption
  <2>3. logins \in Nat /\ due \in Int /\ authToken \in 0..logins /\ idToken \in 0..logins
    BY <1>1
  <2>4. fresh \in BOOLEAN /\ good \subseteq 1..logins
    BY <1>1
  <2> QED BY <1>2, <2>1, <2>2, <2>3, <2>4 DEF TypeOK, Tokens
<1>4. Exclusive /\ Owed
  BY <1>1, <1>2, NoJobIs DEF Exclusive, Owed, At
<1>5. Newer
  BY <1>2, <1>3, NoJobIs, FirstTry DEF Newer
<1> QED BY <1>3, <1>4, <1>5 DEF IInv

LEMMA Inductive ==
  IInv /\ [Next]_vars => IInv'
<1> SUFFICES ASSUME IInv, [Next]_vars PROVE IInv'
  OBVIOUS
<1>0. TypeOK
  BY DEF IInv
<1>1. ASSUME NEW t \in Tasks, TaskStep(t) PROVE IInv'
  <2>1. CASE LoginRefused(t)
    BY <2>1, LoginEndsKeeps, AuthFailureIs DEF LoginRefused
  <2>2. CASE LoginIncomplete(t)
    BY <2>2, LoginEndsKeeps, AuthFailureIs DEF LoginIncomplete
  <2>3. CASE LoginFails(t)
    BY <2>3, LoginEndsKeeps, AuthFailureIs DEF LoginFails
  <2> QED BY <1>1, <2>1, <2>2, <2>3, GateKeeps, SkipLoginKeeps, SendLoginKeeps,
             LoginSucceedsKeeps, SendRequestKeeps, RequestAnsweredKeeps,
             RequestUnauthorizedKeeps, RequestFailsKeeps DEF TaskStep
<1>2. ASSUME NEW t \in Tasks, NEW kind \in Kinds, RequestBegins(t, kind) PROVE IInv'
  BY <1>2, RequestBeginsKeeps
<1>3. CASE SessionExpires
  <2>1. /\ fresh = TRUE /\ fresh' = FALSE /\ expiries' = expiries + 1 /\ due' = due + 1
        /\ expiries < MaxExpiries
        /\ UNCHANGED <<good, requests, logins, authToken, idToken, lock, job>>
    BY <1>0, <1>3, Types DEF SessionExpires
  <2>2. due' > 0 /\ due' >= 0 /\ due' \in Int /\ expiries' \in 0..MaxExpiries
    BY <1>0, <2>1, Types DEF IInv, Owed
  <2>3. TypeOK'
    BY <1>0, <2>1, <2>2 DEF TypeOK, Tokens
  <2>4. Exclusive' /\ Owed'
    BY <2>1, <2>2 DEF IInv, Exclusive, Owed, At, Holds
  <2>5. Newer'
    BY <2>1 DEF IInv, Newer, Retries, Token
  <2> QED BY <2>3, <2>4, <2>5 DEF IInv
<1>4. CASE TokensRevoked \/ UNCHANGED vars
  <2>1. /\ good' \subseteq good
        /\ UNCHANGED <<requests, expiries, logins, authToken, idToken, fresh, lock, job, due>>
    BY <1>4 DEF TokensRevoked, vars, cloudVars, session
  <2>2. TypeOK'
    BY <1>0, <2>1 DEF TypeOK, Tokens
  <2>3. Exclusive' /\ Owed'
    BY <2>1 DEF IInv, Exclusive, Owed, RoutineUnderWay, At, Holds
  <2>4. Newer'
    BY <2>1 DEF IInv, Newer, Retries, Token
  <2> QED BY <2>2, <2>3, <2>4 DEF IInv
<1> QED BY <1>1, <1>2, <1>3, <1>4 DEF Next

LEMMA Invariance ==
  Spec => []IInv
<1>1. Init => IInv
  BY Initially
<1>2. IInv /\ [Next]_vars => IInv'
  BY Inductive
<1> QED BY <1>1, <1>2, PTL DEF Spec

\* The variables have their types: no token is newer than the last login, and the
\* cloud accepts only tokens that a login has yielded.
THEOREM TypeCorrect ==
  Spec => []TypeOK
<1>1. IInv => TypeOK
  BY DEF IInv
<1> QED BY <1>1, Invariance, PTL

\* The double check under the lock collapses the requests that meet an expired
\* session into one routine login for each time the session has come to need it.
THEOREM LoginsDoCollapse ==
  Spec => []LoginsCollapse
<1>1. IInv => LoginsCollapse
  BY DEF IInv, Owed, LoginsCollapse
<1> QED BY <1>1, Invariance, PTL

\* The retry after a 401 carries a token issued after the one that was refused.
THEOREM TheRetryIsNewer ==
  Spec => RetryUsesNewerToken
<1>1. ASSUME IInv, NEW t \in Tasks, SendRequest(t), job[t].force
      PROVE  job'[t].used > job[t].used
  <2>1. TypeOK /\ job[t].used < Token(job[t].kind)
    BY <1>1 DEF IInv, Newer, Retries, SendRequest, At
  <2>2. job'[t].used = Token(job[t].kind)
    BY <1>1, <2>1, Types DEF SendRequest, Token, Jobs, TypeOK
  <2>3. Token(job[t].kind) \in Nat /\ job[t].used \in Nat
    BY <2>1, Types DEF Token
  <2> QED BY <2>1, <2>2, <2>3
<1>2. IInv /\ [Next]_vars =>
        [\A t \in Tasks : SendRequest(t) /\ job[t].force => job'[t].used > job[t].used]_vars
  BY <1>1
<1> QED BY <1>2, Invariance, PTL DEF Spec, RetryUsesNewerToken
=============================================================================
