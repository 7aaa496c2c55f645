---------------------------- MODULE RealtimeProofs ----------------------------
(***************************************************************************)
(* Proofs about Realtime, for any fields' values and any number of changes *)
(* and commands.                                                           *)
(*                                                                         *)
(* Waiting says who may wait in receive() while the listener runs, Queued  *)
(* what the messages in the inbox tell of the robot, Polled what a poll    *)
(* that is not in its first attempt or first read leaves of the baseline,  *)
(* Signed where a signature comes from, and Followed that the baseline is  *)
(* on display.                                                             *)
(***************************************************************************)
EXTENDS Realtime, TLAPS

\* A listener that runs has the connection, and alone waits in receive().
Waiting ==
  /\ listener \in {"receiving", "refreshing"} => conn = "streaming"
  /\ listener = "receiving" => poll.step # "receiving" /\ cmd.step # "receiving"

\* What the last message with news tells of the state, and the replies after it, is s.
Says(m) == m.kind = "reply" \/ IsNews(m)
Quiet(q, i) == \A j \in i+1..Len(q) : ~IsNews(q[j])
Tells(q, s) == \A i \in 1..Len(q) : Says(q[i]) /\ Quiet(q, i) => q[i].doc["state"] = s

OnlyAcks(q) == \A i \in 1..Len(q) : q[i] = Ack
NoAcks(q) == \A i \in 1..Len(q) : q[i].kind # "ack"

\* Only who subscribed is told anything, and only commands are acknowledged.
Queued ==
  /\ Tells(inbox, truth["state"])
  /\ conn # "streaming" => OnlyAcks(inbox)
  /\ conn \in {"none", "dead"} => inbox = <<>>
  /\ commands = 0 => cmd.step = "idle" /\ NoAcks(inbox) /\ conn # "open"

\* A second attempt comes after a close, a second read after a delta was cached.
Polled ==
  /\ listener # "ended" /\ poll.step # "idle" /\ poll.attempt = 2 => baseline = None
  /\ poll.step # "idle" /\ poll.read = 2 => baseline.kind # "whole"

\* Only a push sets the signature, and what it pushed is on display until the next.
Signed ==
  /\ signature # NoSignature => baseline # None /\ listener \in {"receiving", "ended"}
  /\ family = "plain" /\ signature # NoSignature /\ listener = "receiving" =>
       shown.kind = "whole" /\ signature = [state |-> shown.doc["state"]]

\* What is on display is the baseline, and without news in the inbox it is the truth.
Followed ==
  /\ family = "plain" /\ commands = 0 /\ listener # "ended"
  /\ conn = "streaming" /\ baseline.kind = "whole"
  => /\ baseline = shown
     /\ Quiet(inbox, 0) => shown.doc["state"] = truth["state"]

IInv == TypeOK /\ Waiting /\ Queued /\ Polled /\ Signed /\ Followed

-----------------------------------------------------------------------------
(* Messages and documents.                                                 *)

LEMMA MessageIs ==
  ASSUME NEW m \in Messages
  PROVE  /\ m.kind \in {"reply", "delta", "ack"}
         /\ m.kind = "reply" => m.doc \in Docs
         /\ m.kind = "delta" => m.doc \in Deltas
         /\ Says(m) => m.kind \in {"reply", "delta"}
BY DEF Messages, Reply, Delta, Ack, Says, IsNews

LEMMA KindsAre ==
  /\ \A d : Reply(d).kind = "reply" /\ Reply(d).doc = d /\ ~IsNews(Reply(d))
  /\ \A d : Delta(d).kind = "delta" /\ Delta(d).doc = d
  /\ Ack.kind = "ack" /\ ~Says(Ack) /\ ~IsNews(Ack)
  /\ \A d : Whole(d).kind = "whole" /\ Whole(d).doc = d /\ Whole(d) # None /\ Whole(d) # Partial
  /\ None.kind = "none" /\ Partial.kind = "partial" /\ Partial # None
BY DEF Reply, Delta, Ack, Whole, None, Partial, IsNews, Says

LEMMA BaselineIs ==
  ASSUME NEW b \in Baselines
  PROVE  /\ b.kind \in {"none", "partial", "whole"}
         /\ b.kind = "whole" => b.doc \in Docs /\ b = Whole(b.doc)
         /\ b.kind = "none" <=> b = None
         /\ b.kind = "partial" <=> b = Partial
BY DEF Baselines, None, Partial, Whole

LEMMA MergeIs ==
  ASSUME NEW d \in Docs, NEW o \in Deltas
  PROVE  /\ Merge(d, o) \in Docs
         /\ Merge(d, o)["state"] = IF "state" \in DOMAIN o THEN o["state"] ELSE d["state"]
<1>1. \A f \in DOMAIN o : o[f] \in Values
  BY DEF Deltas
<1>2. \A f \in Fields : d[f] \in Values
  BY DEF Docs
<1> QED BY <1>1, <1>2 DEF Merge, Docs, Fields

LEMMA SignaturesDiffer ==
  ASSUME NEW s, NEW t
  PROVE  /\ [state |-> s] # NoSignature /\ [nones |-> TRUE] # NoSignature
         /\ [state |-> s] = [state |-> t] => s = t
<1>1. DOMAIN [state |-> s] = {"state"} /\ DOMAIN [nones |-> TRUE] = {"nones"}
      /\ DOMAIN [none |-> TRUE] = {"none"}
  OBVIOUS
<1>2. "state" # "none" /\ "nones" # "none"
  OBVIOUS
<1>3. {"state"} # {"none"} /\ {"nones"} # {"none"}
  BY <1>2
<1>4. [state |-> s] # [none |-> TRUE] /\ [nones |-> TRUE] # [none |-> TRUE]
  BY <1>1, <1>3
<1>5. [state |-> s].state = s /\ [state |-> t].state = t
  OBVIOUS
<1> QED BY <1>4, <1>5 DEF NoSignature

-----------------------------------------------------------------------------
(* The inbox.                                                              *)

LEMMA Appended ==
  ASSUME NEW q \in Seq(Messages), NEW m \in Messages
  PROVE  /\ Append(q, m) \in Seq(Messages) /\ Append(q, m) # <<>>
         /\ \A s : Tells(q, s) /\ (Says(m) => m.doc["state"] = s) => Tells(Append(q, m), s)
         /\ IsNews(m) => Tells(Append(q, m), m.doc["state"])
         /\ Quiet(Append(q, m), 0) => Quiet(q, 0) /\ ~IsNews(m)
         /\ OnlyAcks(q) /\ m = Ack => OnlyAcks(Append(q, m))
         /\ NoAcks(q) /\ m.kind # "ack" => NoAcks(Append(q, m))
<1> DEFINE r == Append(q, m)
           n == Len(q)
<1>1. /\ n \in Nat /\ Len(r) = n + 1 /\ r \in Seq(Messages) /\ r[n + 1] = m
      /\ \A i \in 1..n : r[i] = q[i]
  OBVIOUS
<1>2. r # <<>>
  BY <1>1
<1> HIDE DEF r, n
<1>3. ASSUME NEW i \in 1..n, Quiet(r, i) PROVE Quiet(q, i) /\ ~IsNews(m)
  <2>1. ASSUME NEW j \in i+1..Len(q) PROVE ~IsNews(q[j])
    BY <1>1, <1>3, <2>1 DEF Quiet, n
  <2>2. n + 1 \in i+1..Len(r)
    BY <1>1
  <2> QED BY <1>1, <1>3, <2>1, <2>2 DEF Quiet
<1>4. ASSUME NEW s, Tells(q, s), Says(m) => m.doc["state"] = s PROVE Tells(r, s)
  <2> SUFFICES ASSUME NEW i \in 1..n+1, Says(r[i]), Quiet(r, i) PROVE r[i].doc["state"] = s
    BY <1>1 DEF Tells
  <2>1. CASE i = n + 1
    BY <1>1, <1>4, <2>1
  <2>2. CASE i # n + 1
    <3>1. i \in 1..n /\ r[i] = q[i] /\ i \in 1..Len(q)
      BY <1>1, <2>2 DEF n
    <3> QED BY <1>3, <1>4, <3>1 DEF Tells
  <2> QED BY <2>1, <2>2
<1>5. ASSUME IsNews(m) PROVE Tells(r, m.doc["state"])
  <2> SUFFICES ASSUME NEW i \in 1..n+1, Says(r[i]), Quiet(r, i)
               PROVE  r[i].doc["state"] = m.doc["state"]
    BY <1>1 DEF Tells
  <2>1. CASE i = n + 1
    BY <1>1, <2>1
  <2>2. CASE i # n + 1
    <3>1. i \in 1..n
      BY <1>1, <2>2
    <3> QED BY <1>3, <1>5, <3>1
  <2> QED BY <2>1, <2>2
<1>6. ASSUME Quiet(r, 0) PROVE Quiet(q, 0) /\ ~IsNews(m)
  <2>1. ASSUME NEW j \in 0+1..Len(q) PROVE ~IsNews(q[j])
    BY <1>1, <1>6, <2>1 DEF Quiet, n
  <2>2. n + 1 \in 0+1..Len(r)
    BY <1>1
  <2> QED BY <1>1, <1>6, <2>1, <2>2 DEF Quiet
<1>7. OnlyAcks(q) /\ m = Ack => OnlyAcks(r)
  BY <1>1 DEF OnlyAcks, n
<1>8. NoAcks(q) /\ m.kind # "ack" => NoAcks(r)
  BY <1>1 DEF NoAcks, n
<1> QED BY <1>1, <1>2, <1>4, <1>5, <1>6, <1>7, <1>8 DEF r

LEMMA Tailed ==
  ASSUME NEW q \in Seq(Messages), q # <<>>
  PROVE  /\ Tail(q) \in Seq(Messages) /\ Head(q) \in Messages
         /\ \A s : Tells(q, s) => Tells(Tail(q), s)
         /\ \A s : Tells(q, s) /\ Says(Head(q)) /\ Quiet(Tail(q), 0) => Head(q).doc["state"] = s
         /\ Quiet(Tail(q), 0) /\ ~IsNews(Head(q)) => Quiet(q, 0)
         /\ OnlyAcks(q) => OnlyAcks(Tail(q))
         /\ NoAcks(q) => NoAcks(Tail(q)) /\ Head(q).kind # "ack"
<1> DEFINE r == Tail(q)
           n == Len(q)
<1>1. /\ n \in Nat /\ n > 0 /\ Len(r) = n - 1 /\ r \in Seq(Messages) /\ Head(q) = q[1]
      /\ Head(q) \in Messages /\ \A i \in 1..n-1 : r[i] = q[i + 1]
  OBVIOUS
<1> HIDE DEF r, n
<1>2. ASSUME NEW i \in 0..n-1, Quiet(r, i) PROVE Quiet(q, i + 1)
  <2> SUFFICES ASSUME NEW j \in (i+1)+1..n PROVE ~IsNews(q[j])
    BY DEF Quiet, n
  <2>1. j - 1 \in i+1..Len(r) /\ j - 1 \in 1..n-1 /\ (j - 1) + 1 = j
    BY <1>1
  <2>2. ~IsNews(r[j - 1])
    BY <1>2, <2>1 DEF Quiet
  <2> QED BY <1>1, <2>1, <2>2
<1>3. ASSUME NEW s, Tells(q, s) PROVE Tells(r, s)
  <2> SUFFICES ASSUME NEW i \in 1..n-1, Says(r[i]), Quiet(r, i) PROVE r[i].doc["state"] = s
    BY <1>1 DEF Tells
  <2>1. Quiet(q, i + 1) /\ r[i] = q[i + 1] /\ i + 1 \in 1..Len(q)
    BY <1>1, <1>2 DEF n
  <2> QED BY <1>3, <2>1 DEF Tells
<1>4. ASSUME NEW s, Tells(q, s), Says(Head(q)), Quiet(r, 0) PROVE Head(q).doc["state"] = s
  <2>1. Quiet(q, 0 + 1) /\ 1 \in 1..Len(q) /\ 0 + 1 = 1
    BY <1>1, <1>2, <1>4 DEF n
  <2> QED BY <1>1, <1>4, <2>1 DEF Tells
<1>5. ASSUME Quiet(r, 0), ~IsNews(Head(q)) PROVE Quiet(q, 0)
  <2>1. Quiet(q, 0 + 1)
    BY <1>1, <1>2, <1>5
  <2> SUFFICES ASSUME NEW j \in 0+1..Len(q) PROVE ~IsNews(q[j])
    BY DEF Quiet
  <2>2. CASE j = 1
    BY <1>1, <1>5, <2>2
  <2>3. CASE j # 1
    BY <2>1, <2>3 DEF Quiet
  <2> QED BY <2>2, <2>3
<1>6. OnlyAcks(q) => OnlyAcks(r)
  BY <1>1 DEF OnlyAcks, n
<1>7. NoAcks(q) => NoAcks(r) /\ Head(q).kind # "ack"
  <2>1. \A i \in 1..n-1 : r[i] = q[i + 1] /\ i + 1 \in 1..n
    BY <1>1
  <2>2. 1 \in 1..n
    BY <1>1
  <2> QED BY <1>1, <2>1, <2>2 DEF NoAcks, n
<1> QED BY <1>1, <1>3, <1>4, <1>5, <1>6, <1>7 DEF r

\* An inbox with one message, or with none.
LEMMA Started ==
  ASSUME NEW m \in Messages
  PROVE  /\ <<m>> \in Seq(Messages)
         /\ \A s : (Says(m) => m.doc["state"] = s) => Tells(<<m>>, s)
         /\ m = Ack => OnlyAcks(<<m>>)
         /\ m.kind # "ack" => NoAcks(<<m>>)
         /\ <<>> \in Seq(Messages) /\ OnlyAcks(<<>>) /\ NoAcks(<<>>) /\ \A s : Tells(<<>>, s)
BY DEF Tells, OnlyAcks, NoAcks

LEMMA Empty ==
  <<>> \in Seq(Messages) /\ OnlyAcks(<<>>) /\ NoAcks(<<>>) /\ \A s : Tells(<<>>, s)
BY DEF Tells, OnlyAcks, NoAcks

LEMMA AcksTellNothing ==
  ASSUME NEW q, OnlyAcks(q)
  PROVE  \A s : Tells(q, s)
BY KindsAre DEF OnlyAcks, Tells

-----------------------------------------------------------------------------
(* Types.                                                                  *)

TaskStates == [step : Tasks, read : 1..2, attempt : 1..2]

LEMMA RetryIs ==
  ASSUME NEW x \in TaskStates
  PROVE  LET y == [x EXCEPT !.step = "sending", !.attempt = 2] IN
         y \in TaskStates /\ y.step = "sending" /\ y.read = x.read /\ y.attempt = 2
<1> DEFINE y == [x EXCEPT !.step = "sending", !.attempt = 2]
<1>2. y.step = "sending" /\ y.read = x.read /\ y.attempt = 2
  BY DEF TaskStates
<1>3. y \in TaskStates
  <2>1. "sending" \in Tasks /\ 2 \in 1..2
    BY DEF Tasks
  <2> QED BY <2>1 DEF TaskStates
<1> QED BY <1>2, <1>3

LEMMA IdleIs == Idle \in TaskStates /\ Idle.step = "idle"
BY DEF Idle, TaskStates, Tasks

LEMMA CommandCutIs ==
  ASSUME cmd \in TaskStates
  PROVE  /\ CommandCut \in TaskStates
         /\ cmd.step = "idle" => CommandCut.step = "idle"
         /\ CommandCut.step # "receiving"
<1>1. CASE cmd.step # "receiving"
  <2>1. CommandCut = cmd
    BY <1>1 DEF CommandCut
  <2> QED BY <1>1, <2>1
<1>2. CASE cmd.step = "receiving" /\ cmd.attempt = 1
  <2>1. CommandCut = [cmd EXCEPT !.step = "sending", !.attempt = 2]
    BY <1>2 DEF CommandCut
  <2> QED BY <1>2, <2>1, RetryIs
<1>3. CASE cmd.step = "receiving" /\ cmd.attempt # 1
  BY <1>3, IdleIs DEF CommandCut
<1> QED BY <1>1, <1>2, <1>3

\* What an attempt that failed leaves, of a poll or of the connection.
LEMMA FailedIs ==
  ASSUME TypeOK, PollAttemptFails
  PROVE  /\ conn' = "none" /\ inbox' = <<>> /\ baseline' = None /\ signature' = NoSignature
         /\ listener' \in {"starting", "ended"}
         /\ poll' \in TaskStates /\ poll'.step # "receiving"
         /\ cmd' \in TaskStates /\ (cmd.step = "idle" => cmd'.step = "idle") /\ cmd'.step # "receiving"
         /\ shown' \in {shown, None}
         /\ UNCHANGED cloudVars
<1>1. poll \in TaskStates /\ cmd \in TaskStates
  BY DEF TypeOK, TaskStates
<1>2. /\ conn' = "none" /\ inbox' = <<>> /\ baseline' = None /\ signature' = NoSignature
      /\ listener' \in {"starting", "ended"} /\ cmd' = CommandCut /\ UNCHANGED cloudVars
  BY DEF PollAttemptFails, CloseConnection, Forget, ListenerCut
<1>3. CASE poll.attempt = 1
  <2>1. poll' = [poll EXCEPT !.step = "sending", !.attempt = 2] /\ shown' = shown
    BY <1>3 DEF PollAttemptFails
  <2> QED BY <1>1, <1>2, <2>1, RetryIs, CommandCutIs DEF TaskStates
<1>4. CASE poll.attempt # 1
  <2>1. poll' = Idle /\ shown' = None
    BY <1>4 DEF PollAttemptFails
  <2> QED BY <1>1, <1>2, <2>1, IdleIs, CommandCutIs
<1> QED BY <1>3, <1>4

\* The values that are written.
LEMMA ValuesAre ==
  ASSUME TypeOK
  PROVE  /\ None \in Baselines /\ Partial \in Baselines /\ \A d \in Docs : Whole(d) \in Baselines
         /\ Reply(truth) \in Messages /\ Ack \in Messages
         /\ NoSignature \in {NoSignature, [nones |-> TRUE]} \cup [state : Values]
         /\ Whole(truth) \in {Whole(d) : d \in Docs}
         /\ inbox \in Seq(Messages) /\ truth \in Docs
         /\ poll \in TaskStates /\ cmd \in TaskStates
BY DEF TypeOK, Baselines, Messages, TaskStates

LEMMA CachedIs ==
  ASSUME TypeOK, NEW m \in Messages
  PROVE  Cached(m) \in Baselines
BY MessageIs, ValuesAre DEF Cached, TypeOK

LEMMA SignatureIs ==
  ASSUME NEW d \in Docs
  PROVE  /\ Signature(d) \in {NoSignature, [nones |-> TRUE]} \cup [state : Values]
         /\ Signature(d) # NoSignature
         /\ family = "plain" => Signature(d) = [state |-> d["state"]]
<1>1. d["state"] \in Values
  BY DEF Docs, Fields
<1> QED BY <1>1, SignaturesDiffer DEF Signature

\* A change of the robot, and what is streamed of it.
LEMMA ReportIs ==
  ASSUME TypeOK, RobotReports
  PROVE  /\ truth' \in Docs /\ changes' \in 0..MaxChanges
         /\ UNCHANGED <<family, commands, conn, listener, poll, cmd, baseline, signature, shown>>
         /\ \/ conn # "streaming" /\ inbox' = inbox
            \/ /\ conn = "streaming"
               /\ \E m \in Messages :
                    /\ inbox' = Append(inbox, m) /\ m.kind = "delta"
                    /\ IsNews(m) => m.doc["state"] = truth'["state"]
                    /\ ~IsNews(m) => truth["state"] = truth'["state"]
<1>1. PICK d \in Docs, D \in (SUBSET Fields) \ {{}} :
        /\ \A f \in Fields \ D : d[f] = truth[f]
        /\ truth' = d
        /\ inbox' = IF conn = "streaming" THEN Append(inbox, Delta([f \in D |-> d[f]])) ELSE inbox
  BY DEF RobotReports
<1> DEFINE o == [f \in D |-> d[f]]
           m == Delta(o)
<1>2. o \in Deltas
  <2>1. o \in [D -> Values]
    BY DEF Docs
  <2> QED BY <2>1 DEF Deltas
<1>3. m \in Messages /\ m.kind = "delta" /\ m.doc = o
  BY <1>2, KindsAre DEF Messages
<1>4. DOMAIN o = D /\ ("state" \in D => o["state"] = d["state"]) /\ "state" \in Fields
  BY DEF Fields
<1>5. IsNews(m) <=> "state" \in D
  BY <1>3, <1>4 DEF IsNews
<1> HIDE DEF m, o
<1>6. /\ IsNews(m) => m.doc["state"] = truth'["state"]
      /\ ~IsNews(m) => truth["state"] = truth'["state"]
  BY <1>1, <1>3, <1>4, <1>5
<1>7. conn = "streaming" => inbox' = Append(inbox, m)
  BY <1>1 DEF m, o
<1>8. changes' \in 0..MaxChanges
  BY RealtimeAssumption DEF RobotReports, TypeOK
<1>9. UNCHANGED <<family, commands, conn, listener, poll, cmd, baseline, signature, shown>>
  BY DEF RobotReports
<1> QED BY <1>1, <1>3, <1>6, <1>7, <1>8, <1>9

\* What a push makes of the delta at the head of the inbox.
LEMMA PushIs ==
  ASSUME TypeOK, ListenerPushes \/ ListenerDedups
  PROVE  /\ inbox # <<>> /\ inbox' = Tail(inbox) /\ Take \in Messages /\ Take.kind = "delta"
         /\ Take.doc \in Deltas /\ baseline.doc \in Docs /\ baseline = Whole(baseline.doc)
         /\ baseline.kind = "whole" /\ listener = "receiving"
         /\ Merge(baseline.doc, Take.doc) \in Docs
         /\ Merge(baseline.doc, Take.doc)["state"] =
              IF "state" \in DOMAIN Take.doc THEN Take.doc["state"] ELSE baseline.doc["state"]
<1>1. /\ inbox # <<>> /\ inbox' = Tail(inbox) /\ Take.kind = "delta"
      /\ baseline.kind = "whole" /\ listener = "receiving"
  BY DEF ListenerPushes, ListenerDedups, ListenerTakes
<1>2. Take \in Messages
  BY <1>1, Tailed, ValuesAre DEF Take
<1>3. Take.doc \in Deltas
  BY <1>1, <1>2, MessageIs
<1>4. baseline \in Baselines
  BY DEF TypeOK
<1>5. baseline.doc \in Docs /\ baseline = Whole(baseline.doc)
  BY <1>1, <1>4, BaselineIs
<1> QED BY <1>1, <1>2, <1>3, <1>5, MergeIs

LEMMA NextTypes == TypeOK /\ [Next]_vars => TypeOK'
<1> SUFFICES ASSUME TypeOK, [Next]_vars PROVE TypeOK'
  OBVIOUS
<1> USE DEF cloudVars
<1>0. /\ None \in Baselines /\ Partial \in Baselines /\ \A d \in Docs : Whole(d) \in Baselines
      /\ Reply(truth) \in Messages /\ Ack \in Messages
      /\ NoSignature \in {NoSignature, [nones |-> TRUE]} \cup [state : Values]
      /\ inbox \in Seq(Messages) /\ truth \in Docs
      /\ poll \in TaskStates /\ cmd \in TaskStates
  BY ValuesAre
<1>a. <<Reply(truth)>> \in Seq(Messages) /\ <<Ack>> \in Seq(Messages) /\ <<>> \in Seq(Messages)
      /\ Append(inbox, Reply(truth)) \in Seq(Messages) /\ Append(inbox, Ack) \in Seq(Messages)
  BY <1>0, Appended, Started
<1>b. inbox # <<>> => Tail(inbox) \in Seq(Messages) /\ Take \in Messages
  BY <1>0, Tailed DEF Take
<1>c. ASSUME NEW x \in TaskStates
      PROVE  /\ [x EXCEPT !.step = "receiving"] \in TaskStates
             /\ [x EXCEPT !.step = "sending"] \in TaskStates
             /\ [x EXCEPT !.attempt = 2] \in TaskStates
  BY DEF TaskStates, Tasks
<1>1. CASE ListenerSubscribes
  BY <1>0, <1>a, <1>1 DEF ListenerSubscribes, Send, OpenAndSend, Forget, TypeOK, TaskStates
<1>2. CASE ListenerCannotConnect
  BY <1>0, <1>a, <1>2 DEF ListenerCannotConnect, Forget, TypeOK, TaskStates
<1>3. CASE ListenerIgnores \/ ListenerFallsBack \/ ListenerTrips \/ ListenerDedups
  BY <1>0, <1>b, <1>3 DEF ListenerIgnores, ListenerFallsBack, ListenerTrips, ListenerDedups,
     ListenerTakes, TypeOK, TaskStates
<1>4. CASE ListenerResumes
  BY <1>4 DEF ListenerResumes, TypeOK
<1>5. CASE ListenerPushes
  <2> DEFINE merged == Merge(baseline.doc, Take.doc)
  <2>1. merged \in Docs /\ inbox # <<>> /\ inbox' = Tail(inbox)
    BY <1>5, PushIs
  <2>2. Signature(merged) \in {NoSignature, [nones |-> TRUE]} \cup [state : Values]
    BY <2>1, SignatureIs
  <2>3. baseline' = Whole(merged) /\ signature' = Signature(merged) /\ shown' = Whole(merged)
        /\ UNCHANGED <<family, truth, changes, commands, conn, listener, poll, cmd>>
    BY <1>5 DEF ListenerPushes
  <2> HIDE DEF merged
  <2>4. shown' \in {None} \cup {Whole(d) : d \in Docs} /\ baseline' \in Baselines
    BY <1>0, <2>1, <2>3
  <2> QED BY <1>b, <2>1, <2>2, <2>3, <2>4 DEF TypeOK
<1>6. CASE PollBegin
  BY <1>0, <1>6, <1>c, IdleIs DEF PollBegin, TypeOK, TaskStates
<1>7. CASE PollAttemptFails
  BY <1>0, <1>7, <1>a, FailedIs DEF TypeOK, TaskStates
<1>8. CASE PollConnects
  BY <1>0, <1>8, <1>a, <1>c DEF PollConnects, OpenAndSend, Forget, TypeOK, TaskStates
<1>9. CASE PollSends
  BY <1>0, <1>9, <1>a, <1>c DEF PollSends, Send, TypeOK, TaskStates
<1>10. CASE PollGivesUp
  BY <1>0, <1>10, IdleIs DEF PollGivesUp, TypeOK, TaskStates
<1>11. CASE PollTakes
  <2>1. inbox # <<>> /\ inbox' = Tail(inbox) /\ Take \in Messages
    BY <1>11, <1>b DEF PollTakes
  <2>2. baseline' \in Baselines
    BY <1>11, <2>1, CachedIs DEF PollTakes, TypeOK
  <2>3. poll' \in TaskStates /\ shown' \in {None} \cup {Whole(d) : d \in Docs}
    <3>1. CASE Take.kind = "delta" /\ poll.read = 1
      BY <1>11, <3>1 DEF PollTakes, TypeOK, TaskStates, Tasks
    <3>2. CASE ~(Take.kind = "delta" /\ poll.read = 1)
      BY <1>11, <2>1, <3>2, IdleIs, MessageIs DEF PollTakes
    <3> QED BY <3>1, <3>2
  <2>4. UNCHANGED <<family, truth, changes, commands, conn, listener, cmd, signature>>
    BY <1>11 DEF PollTakes
  <2> QED BY <1>0, <1>b, <2>1, <2>2, <2>3, <2>4 DEF TypeOK, TaskStates
<1>12. CASE CommandBegins
  <2>1. commands' \in 0..MaxCommands
    BY <1>12, RealtimeAssumption DEF CommandBegins, TypeOK
  <2> QED BY <1>0, <1>12, <1>c, <2>1, IdleIs DEF CommandBegins, TypeOK, TaskStates
<1>13. CASE CommandConnects
  BY <1>0, <1>13, <1>a, <1>c DEF CommandConnects, OpenAndSend, Forget, TypeOK, TaskStates
<1>14. CASE CommandSends
  BY <1>0, <1>14, <1>a, <1>c, IdleIs DEF CommandSends, Send, TypeOK, TaskStates
<1>15. CASE CommandTakes
  BY <1>0, <1>15, <1>b, IdleIs DEF CommandTakes, TypeOK, TaskStates
<1>16. CASE CommandTimesOut
  BY <1>0, <1>16, IdleIs DEF CommandTimesOut, TypeOK, TaskStates
<1>17. CASE CommandCannotConnect
  BY <1>0, <1>17, <1>a, <1>c, IdleIs DEF CommandCannotConnect, CloseConnection, Forget,
     ListenerCut, TypeOK, TaskStates
<1>18. CASE RobotReports
  <2>1. inbox' \in Seq(Messages)
    BY <1>0, <1>18, ReportIs, Appended
  <2> QED BY <1>18, <2>1, ReportIs DEF TypeOK
<1>19. CASE ConnectionDrops /\ ~PollAttemptFails
  <2>1. CommandCut \in TaskStates
    BY <1>0, CommandCutIs
  <2> QED BY <1>0, <1>19, <1>a, <2>1, IdleIs DEF ConnectionDrops, ListenerCut, TypeOK, TaskStates
<1>20. CASE UNCHANGED vars
  BY <1>20 DEF vars, TypeOK
<1>21. PollCannotConnect \/ PollCollides \/ PollTimesOut => PollAttemptFails
  BY DEF PollCannotConnect, PollCollides, PollTimesOut
<1> QED
  BY <1>1, <1>2, <1>3, <1>4, <1>5, <1>6, <1>7, <1>8, <1>9, <1>10, <1>11, <1>12, <1>13, <1>14,
     <1>15, <1>16, <1>17, <1>18, <1>19, <1>20, <1>21
     DEF Next, ListenerStep, PollStep, CommandStep

-----------------------------------------------------------------------------
(* The steps.                                                              *)

\* Everything holds where the connection was closed.
LEMMA ClosedIsFine ==
  ASSUME IInv, conn' = "none", inbox' = <<>>, baseline' = None, signature' = NoSignature,
         listener' \in {"starting", "ended"}, commands' = commands,
         cmd.step = "idle" => cmd'.step = "idle"
  PROVE  Waiting' /\ Queued' /\ Polled' /\ Signed' /\ Followed'
<1>1. Waiting'
  BY DEF Waiting
<1>2. Queued'
  BY Empty DEF Queued, IInv
<1>3. Polled' /\ Signed' /\ Followed'
  BY KindsAre DEF Polled, Signed, Followed
<1> QED BY <1>1, <1>2, <1>3

\* A command begins, waits, or ends: nothing but cmd changes, and the inbox by a message.
LEMMA CommandIsFine ==
  ASSUME IInv, UNCHANGED <<family, truth, listener, poll, baseline, signature, shown>>,
         commands' # 0, commands' \in Nat,
         Tells(inbox', truth["state"]),
         conn = "streaming" => conn' = "streaming",
         conn' # "streaming" => OnlyAcks(inbox'),
         conn' \in {"none", "dead"} => inbox' = <<>>,
         listener = "receiving" => cmd'.step # "receiving"
  PROVE  Waiting' /\ Queued' /\ Polled' /\ Signed' /\ Followed'
<1>1. Waiting'
  BY DEF IInv, Waiting
<1>2. Queued'
  BY DEF IInv, Queued
<1>3. Polled' /\ Signed' /\ Followed'
  BY DEF IInv, Polled, Signed, Followed
<1> QED BY <1>1, <1>2, <1>3

LEMMA ListenerSubscribesFine ==
  ASSUME IInv, ListenerSubscribes
  PROVE  Waiting' /\ Queued' /\ Polled' /\ Signed' /\ Followed'
<1> DEFINE m == Reply(truth)
<1>1. TypeOK /\ listener = "starting" /\ signature = NoSignature
  BY DEF IInv, Signed, ListenerSubscribes
<1>2. /\ inbox \in Seq(Messages) /\ m \in Messages /\ m.kind = "reply" /\ m.doc = truth /\ ~IsNews(m)
      /\ m.kind # "ack"
  BY <1>1, ValuesAre, KindsAre
<1>3. /\ listener' \in {"receiving", "ended"} /\ (listener' = "receiving" => Receiving = {})
      /\ UNCHANGED <<family, truth, commands, poll, cmd, shown>>
      /\ conn' = "streaming" /\ signature' = NoSignature
  BY <1>1 DEF ListenerSubscribes, Send, OpenAndSend, Forget, cloudVars
<1>4. \/ conn \in Open /\ inbox' = Append(inbox, m) /\ baseline' = baseline
      \/ inbox' = <<m>> /\ baseline' = None
  BY DEF ListenerSubscribes, Send, OpenAndSend, Forget
<1> HIDE DEF m
<1>5. Waiting'
  BY <1>3 DEF Waiting, Receiving
<1>6. Tells(inbox', truth["state"]) /\ (NoAcks(inbox) => NoAcks(inbox'))
  BY <1>2, <1>4, Appended, Started DEF IInv, Queued
<1>7. Queued'
  BY <1>3, <1>6 DEF IInv, Queued
<1>8. Polled' /\ Signed'
  BY <1>1, <1>3, <1>4, KindsAre DEF IInv, Polled, Signed
<1>9. Followed'
  <2>1. CASE conn \in Open /\ inbox' = Append(inbox, m) /\ baseline' = baseline
    <3>1. Quiet(inbox', 0) => Quiet(inbox, 0)
      BY <1>2, <2>1, Appended
    <3>2. commands = 0 => conn = "streaming"
      BY <2>1 DEF IInv, Queued, Open
    <3> QED BY <1>1, <1>3, <2>1, <3>1, <3>2 DEF IInv, Followed
  <2>2. CASE inbox' = <<m>> /\ baseline' = None
    BY <2>2, KindsAre DEF Followed
  <2> QED BY <1>4, <2>1, <2>2
<1> QED BY <1>5, <1>7, <1>8, <1>9

\* A message without news is dropped, or the listener waits for a refresh.
LEMMA ListenerDropsFine ==
  ASSUME IInv, ListenerIgnores \/ ListenerFallsBack \/ ListenerTrips
  PROVE  Waiting' /\ Queued' /\ Polled' /\ Signed' /\ Followed'
<1>1. /\ listener = "receiving" /\ inbox # <<>> /\ inbox' = Tail(inbox)
      /\ listener' \in {"receiving", "refreshing"}
      /\ UNCHANGED <<family, truth, commands, conn, poll, cmd, baseline, signature, shown>>
      /\ ListenerIgnores => Take.kind # "delta" /\ listener' = "receiving"
      /\ ListenerFallsBack => baseline = None
      /\ ListenerTrips => baseline = Partial /\ listener' = "receiving"
  BY DEF ListenerIgnores, ListenerFallsBack, ListenerTrips, ListenerTakes, cloudVars
<1>2. inbox \in Seq(Messages) /\ TypeOK
  BY DEF IInv, TypeOK
<1>3. Waiting'
  BY <1>1 DEF IInv, Waiting
<1>4. /\ Tells(inbox', truth["state"]) /\ (OnlyAcks(inbox) => OnlyAcks(inbox'))
      /\ (NoAcks(inbox) => NoAcks(inbox'))
  BY <1>1, <1>2, Tailed DEF IInv, Queued
<1>5. conn = "streaming"
  BY <1>1 DEF IInv, Waiting
<1>6. Queued'
  BY <1>1, <1>4, <1>5 DEF IInv, Queued
<1>7. Polled'
  BY <1>1 DEF IInv, Polled
<1>8. Signed'
  BY <1>1 DEF IInv, Signed
<1>9. Followed'
  <2>1. CASE ListenerIgnores
    <3>1. ~IsNews(Head(inbox))
      BY <1>1, <2>1 DEF Take, IsNews
    <3>2. Quiet(inbox', 0) => Quiet(inbox, 0)
      BY <1>1, <1>2, <3>1, Tailed
    <3> QED BY <1>1, <2>1, <3>2 DEF IInv, Followed
  <2>2. CASE ListenerFallsBack \/ ListenerTrips
    BY <1>1, <2>2, KindsAre DEF Followed
  <2> QED BY <2>1, <2>2
<1> QED BY <1>3, <1>6, <1>7, <1>8, <1>9

\* A delta is merged: dropped as a repeat, or pushed.
LEMMA ListenerMergesFine ==
  ASSUME IInv, ListenerDedups \/ ListenerPushes
  PROVE  Waiting' /\ Queued' /\ Polled' /\ Signed' /\ Followed'
<1> DEFINE merged == Merge(baseline.doc, Take.doc)
<1>1. /\ inbox # <<>> /\ inbox' = Tail(inbox) /\ Take \in Messages /\ Take.kind = "delta"
      /\ baseline.kind = "whole" /\ listener = "receiving" /\ merged \in Docs
      /\ merged["state"] = IF "state" \in DOMAIN Take.doc THEN Take.doc["state"]
                           ELSE baseline.doc["state"]
  BY PushIs DEF IInv
<1>2. /\ UNCHANGED <<family, truth, commands, conn, listener, poll, cmd>>
      /\ \/ /\ UNCHANGED <<baseline, signature, shown>> /\ Signature(merged) = signature
         \/ /\ baseline' = Whole(merged) /\ shown' = Whole(merged) /\ signature' = Signature(merged)
  BY DEF ListenerDedups, ListenerPushes, Deduped, cloudVars
<1> HIDE DEF merged
<1>3. inbox \in Seq(Messages) /\ Take = Head(inbox) /\ (IsNews(Take) <=> "state" \in DOMAIN Take.doc)
  BY <1>1 DEF IInv, TypeOK, Take, IsNews
<1>4. /\ Tells(inbox', truth["state"]) /\ (OnlyAcks(inbox) => OnlyAcks(inbox'))
      /\ (NoAcks(inbox) => NoAcks(inbox')) /\ conn = "streaming"
  BY <1>1, <1>3, Tailed DEF IInv, Queued, Waiting
<1>5. Waiting' /\ Queued'
  BY <1>1, <1>2, <1>4 DEF IInv, Queued, Waiting
<1>6. baseline # None /\ baseline' # None /\ baseline'.kind = "whole"
  BY <1>1, <1>2, KindsAre
<1>7. Polled'
  BY <1>1, <1>2, <1>6 DEF IInv, Polled
<1>8. family = "plain" => Signature(merged) = [state |-> merged["state"]]
  BY <1>1, SignatureIs
<1>9. Signed'
  <2>1. CASE UNCHANGED <<baseline, signature, shown>>
    BY <1>2, <2>1 DEF IInv, Signed
  <2>2. CASE baseline' = Whole(merged) /\ shown' = Whole(merged) /\ signature' = Signature(merged)
    BY <1>1, <1>2, <1>6, <1>8, <2>2, KindsAre DEF Signed
  <2> QED BY <1>2, <2>1, <2>2
<1>10. Followed'
  <2> SUFFICES ASSUME family = "plain", commands = 0
               PROVE  /\ baseline' = shown'
                      /\ Quiet(inbox', 0) => shown'.doc["state"] = truth["state"]
    BY <1>2 DEF Followed
  <2>1. /\ baseline = shown
        /\ Quiet(inbox, 0) => shown.doc["state"] = truth["state"]
    BY <1>1, <1>4 DEF IInv, Followed
  <2>2. Quiet(inbox', 0) => merged["state"] = truth["state"]
    <3> SUFFICES ASSUME Quiet(inbox', 0) PROVE merged["state"] = truth["state"]
      OBVIOUS
    <3>1. CASE IsNews(Take)
      <4>1. Says(Head(inbox)) /\ Tells(inbox, truth["state"])
        BY <1>3, <3>1 DEF Says, IInv, Queued
      <4>2. Take.doc["state"] = truth["state"]
        BY <1>1, <1>3, <4>1, Tailed
      <4> QED BY <1>1, <1>3, <3>1, <4>2
    <3>2. CASE ~IsNews(Take)
      <4>1. Quiet(inbox, 0)
        BY <1>1, <1>3, <3>2, Tailed
      <4> QED BY <1>1, <1>3, <2>1, <3>2, <4>1
    <3> QED BY <3>1, <3>2
  <2>3. CASE baseline' = Whole(merged) /\ shown' = Whole(merged)
    BY <2>2, <2>3, KindsAre
  <2>4. CASE UNCHANGED <<baseline, signature, shown>> /\ Signature(merged) = signature
    <3>1. signature = [state |-> merged["state"]] /\ signature # NoSignature
      BY <1>8, <2>4, SignaturesDiffer
    <3>2. signature = [state |-> shown.doc["state"]]
      BY <1>1, <3>1 DEF IInv, Signed
    <3>3. shown.doc["state"] = merged["state"]
      BY <3>1, <3>2, SignaturesDiffer
    <3> QED BY <2>1, <2>2, <2>4, <3>3
  <2> QED BY <1>2, <2>3, <2>4
<1> QED BY <1>5, <1>7, <1>9, <1>10

LEMMA ListenerResumesFine ==
  ASSUME IInv, ListenerResumes
  PROVE  Waiting' /\ Queued' /\ Polled' /\ Signed' /\ Followed'
<1>1. /\ listener = "refreshing" /\ listener' \in {"receiving", "ended"}
      /\ listener' = "receiving" => Receiving = {}
      /\ UNCHANGED <<family, truth, commands, conn, inbox, poll, cmd, baseline, signature, shown>>
  BY DEF ListenerResumes, cloudVars
<1>2. signature = NoSignature /\ conn = "streaming"
  BY <1>1 DEF IInv, Signed, Waiting
<1>3. Waiting'
  BY <1>1, <1>2 DEF Waiting, Receiving
<1>4. Queued'
  BY <1>1 DEF IInv, Queued
<1>5. Polled' /\ Signed'
  BY <1>1, <1>2 DEF IInv, Polled, Signed
<1>6. Followed'
  BY <1>1 DEF IInv, Followed
<1> QED BY <1>3, <1>4, <1>5, <1>6

\* A poll opens the connection, or a poll or a command does.
LEMMA OpensFine ==
  ASSUME IInv, PollConnects \/ CommandConnects
  PROVE  Waiting' /\ Queued' /\ Polled' /\ Signed' /\ Followed'
<1>1. /\ conn \notin Open /\ baseline' = None /\ signature' = NoSignature
      /\ UNCHANGED <<family, truth, commands, listener, shown>>
  BY DEF PollConnects, CommandConnects, OpenAndSend, Forget, cloudVars
<1>2. listener \notin {"receiving", "refreshing"}
  BY <1>1 DEF IInv, Waiting, Open
<1>3. \/ inbox' = <<Reply(truth)>> /\ conn' = "streaming" /\ cmd' = cmd
      \/ inbox' = <<Ack>> /\ conn' = "open" /\ cmd.step # "idle"
  BY DEF PollConnects, CommandConnects, OpenAndSend
<1>4. /\ Reply(truth) \in Messages /\ Ack \in Messages /\ ~Says(Ack)
      /\ Reply(truth).doc = truth /\ Reply(truth).kind # "ack"
  BY ValuesAre, KindsAre DEF IInv
<1>5. Tells(inbox', truth["state"]) /\ (conn' # "streaming" => OnlyAcks(inbox'))
      /\ (cmd' = cmd => NoAcks(inbox') \/ cmd.step # "idle")
  BY <1>3, <1>4, Started
<1>6. Waiting'
  BY <1>1, <1>2 DEF Waiting
<1>7. Queued'
  BY <1>1, <1>3, <1>4, <1>5, Started DEF IInv, Queued
<1>8. Polled' /\ Signed' /\ Followed'
  BY <1>1, KindsAre DEF Polled, Signed, Followed
<1> QED BY <1>6, <1>7, <1>8

LEMMA PollBeginFine ==
  ASSUME IInv, PollBegin
  PROVE  Waiting' /\ Queued' /\ Polled' /\ Signed' /\ Followed'
<1>1. /\ poll'.step = "sending" /\ poll'.read = 1 /\ poll'.attempt = 1
      /\ UNCHANGED <<family, truth, commands, conn, inbox, listener, cmd, baseline, signature, shown>>
  BY DEF PollBegin, Idle, cloudVars
<1>2. Waiting' /\ Queued'
  BY <1>1 DEF IInv, Waiting, Queued
<1>3. Polled' /\ Signed' /\ Followed'
  BY <1>1 DEF IInv, Polled, Signed, Followed
<1> QED BY <1>2, <1>3

LEMMA PollSendsFine ==
  ASSUME IInv, PollSends
  PROVE  Waiting' /\ Queued' /\ Polled' /\ Signed' /\ Followed'
<1> DEFINE m == Reply(truth)
<1>1. /\ conn \in Open /\ Receiving = {} /\ poll.step = "sending" /\ poll' = [poll EXCEPT !.step = "receiving"]
      /\ conn' = "streaming" /\ inbox' = Append(inbox, m)
      /\ UNCHANGED <<family, truth, commands, listener, cmd, baseline, signature, shown>>
  BY DEF PollSends, Send, cloudVars
<1>2. /\ inbox \in Seq(Messages) /\ m \in Messages /\ m.kind = "reply" /\ m.doc = truth /\ ~IsNews(m)
      /\ m.kind # "ack" /\ poll \in TaskStates
  BY ValuesAre, KindsAre DEF IInv
<1> HIDE DEF m
<1>3. poll'.read = poll.read /\ poll'.attempt = poll.attempt
  BY <1>1, <1>2 DEF TaskStates
<1>4. Waiting'
  BY <1>1 DEF Waiting, Receiving
<1>5. /\ Tells(inbox', truth["state"]) /\ (NoAcks(inbox) => NoAcks(inbox'))
      /\ Quiet(inbox', 0) => Quiet(inbox, 0)
  BY <1>1, <1>2, Appended DEF IInv, Queued
<1>6. Queued'
  BY <1>1, <1>5 DEF IInv, Queued
<1>7. Polled' /\ Signed'
  BY <1>1, <1>3 DEF IInv, Polled, Signed
<1>8. commands = 0 => conn = "streaming"
  BY <1>1 DEF IInv, Queued, Open
<1>9. Followed'
  BY <1>1, <1>5, <1>8 DEF IInv, Followed
<1> QED BY <1>4, <1>6, <1>7, <1>9

LEMMA PollGivesUpFine ==
  ASSUME IInv, PollGivesUp
  PROVE  Waiting' /\ Queued' /\ Polled' /\ Signed' /\ Followed'
<1>1. /\ \/ poll.step = "sending" /\ conn \notin Open
         \/ poll.step # "idle" /\ poll.attempt = 2
      /\ poll'.step = "idle" /\ shown' = None
      /\ UNCHANGED <<family, truth, commands, conn, inbox, listener, cmd, baseline, signature>>
  BY IdleIs DEF PollGivesUp, cloudVars
<1>2. listener # "ended" /\ conn = "streaming" => baseline = None
  BY <1>1 DEF IInv, Polled, Open
<1>3. Waiting' /\ Queued'
  BY <1>1 DEF IInv, Waiting, Queued
<1>4. Polled'
  BY <1>1 DEF Polled
<1>5. Signed'
  BY <1>1, <1>2 DEF IInv, Waiting, Signed
<1>6. Followed'
  BY <1>1, <1>2, KindsAre DEF Followed
<1> QED BY <1>3, <1>4, <1>5, <1>6

\* A poll takes whatever comes next for its reply.
LEMMA PollTakesFine ==
  ASSUME IInv, PollTakes
  PROVE  Waiting' /\ Queued' /\ Polled' /\ Signed' /\ Followed'
<1>1. /\ poll.step = "receiving" /\ inbox # <<>> /\ inbox' = Tail(inbox)
      /\ baseline' = IF poll.read = 1 THEN Cached(Take) ELSE baseline
      /\ UNCHANGED <<family, truth, commands, conn, listener, cmd, signature>>
  BY DEF PollTakes, cloudVars
<1>2. \/ /\ Take.kind = "delta" /\ poll.read = 1 /\ shown' = shown
         /\ poll'.step = "sending" /\ poll'.read = 2 /\ poll'.attempt = 1
      \/ /\ ~(Take.kind = "delta" /\ poll.read = 1) /\ poll'.step = "idle"
         /\ shown' = IF Take.kind = "reply" THEN Whole(Take.doc) ELSE None
  BY IdleIs DEF PollTakes
<1>3. /\ inbox \in Seq(Messages) /\ Take = Head(inbox) /\ Take \in Messages
      /\ Take.kind \in {"reply", "delta", "ack"} /\ poll.read \in 1..2
  BY <1>1, Tailed, MessageIs DEF IInv, TypeOK, Take
<1>4. /\ Tells(inbox', truth["state"]) /\ (OnlyAcks(inbox) => OnlyAcks(inbox'))
      /\ (NoAcks(inbox) => NoAcks(inbox') /\ Take.kind # "ack")
  BY <1>1, <1>3, Tailed DEF IInv, Queued
<1>5. listener # "receiving"
  BY <1>1 DEF IInv, Waiting
<1>6. Waiting'
  BY <1>1, <1>5 DEF IInv, Waiting
<1>7. Queued'
  BY <1>1, <1>4 DEF IInv, Queued
<1>8. /\ poll.read = 1 /\ Take.kind = "delta" => baseline' = Partial
      /\ poll.read = 1 /\ Take.kind = "reply" => baseline' = Whole(Take.doc)
      /\ poll.read = 1 /\ Take.kind = "ack" => baseline' = baseline
      /\ poll.read # 1 => baseline' = baseline
  BY <1>1 DEF Cached
<1>9. Polled'
  BY <1>2, <1>8, KindsAre DEF Polled
<1>10. baseline # None => baseline' # None
  BY <1>3, <1>8, KindsAre
<1>11. Signed'
  BY <1>1, <1>5, <1>10 DEF IInv, Signed
<1>12. Followed'
  <2> SUFFICES ASSUME commands = 0, baseline'.kind = "whole"
               PROVE  /\ baseline' = shown'
                      /\ Quiet(inbox', 0) => shown'.doc["state"] = truth["state"]
    BY <1>1 DEF Followed
  <2>1. Take.kind # "ack"
    BY <1>4 DEF IInv, Queued
  <2>2. poll.read = 1
    BY <1>1, <1>3, <1>8 DEF IInv, Polled
  <2>3. Take.kind = "reply"
    BY <1>3, <1>8, <2>1, <2>2, KindsAre
  <2>4. baseline' = Whole(Take.doc) /\ shown' = Whole(Take.doc)
    BY <1>2, <1>8, <2>2, <2>3
  <2>5. Quiet(inbox', 0) => Take.doc["state"] = truth["state"]
    BY <1>1, <1>3, <2>3, Tailed DEF IInv, Queued, Says
  <2> QED BY <2>4, <2>5, KindsAre
<1> QED BY <1>6, <1>7, <1>9, <1>11, <1>12

\* The commands, but for one that opens or closes the connection.
LEMMA CommandsFine ==
  ASSUME IInv, IInv => TypeOK',
         CommandBegins \/ CommandSends \/ CommandTakes \/ CommandTimesOut
  PROVE  Waiting' /\ Queued' /\ Polled' /\ Signed' /\ Followed'
<1>1. commands' \in Nat /\ TypeOK
  BY RealtimeAssumption DEF IInv, TypeOK
<1>2. commands' # 0
  <2>1. CASE CommandBegins
    BY <1>1, <2>1, RealtimeAssumption DEF CommandBegins, TypeOK
  <2>2. CASE CommandSends \/ CommandTakes \/ CommandTimesOut
    BY <2>2 DEF CommandSends, CommandTakes, CommandTimesOut, IInv, Queued, cloudVars
  <2> QED BY <2>1, <2>2
<1>3. /\ UNCHANGED <<family, truth, listener, poll, baseline, signature, shown>>
      /\ conn = "streaming" => conn' = "streaming"
      /\ listener = "receiving" => cmd'.step # "receiving"
  <2>1. CASE CommandBegins
    BY <2>1 DEF CommandBegins, Idle
  <2>2. CASE CommandSends
    BY <2>2, IdleIs DEF CommandSends, Send, Receiving, cloudVars
  <2>3. CASE CommandTakes \/ CommandTimesOut
    BY <2>3, IdleIs DEF CommandTakes, CommandTimesOut, cloudVars
  <2> QED BY <2>1, <2>2, <2>3
<1>4. /\ Tells(inbox', truth["state"])
      /\ conn' # "streaming" => OnlyAcks(inbox')
      /\ conn' \in {"none", "dead"} => inbox' = <<>>
  <2>1. CASE inbox' = inbox /\ conn' = conn
    BY <2>1 DEF IInv, Queued
  <2>2. CASE CommandSends
    <3>1. inbox' = Append(inbox, Ack) /\ conn' = IF conn = "streaming" THEN conn ELSE "open"
      BY <2>2 DEF CommandSends, Send
    <3>2. inbox \in Seq(Messages) /\ Ack \in Messages /\ ~Says(Ack)
      BY <1>1, ValuesAre, KindsAre
    <3> QED BY <3>1, <3>2, Appended DEF IInv, Queued
  <2>3. CASE inbox # <<>> /\ inbox' = Tail(inbox) /\ conn' = conn
    <3>1. inbox \in Seq(Messages)
      BY <1>1, ValuesAre
    <3> QED BY <2>3, <3>1, Tailed DEF IInv, Queued
  <2> QED BY <2>1, <2>2, <2>3 DEF CommandBegins, CommandTakes, CommandTimesOut
<1> QED BY <1>1, <1>2, <1>3, <1>4, CommandIsFine

LEMMA RobotReportsFine ==
  ASSUME IInv, RobotReports
  PROVE  Waiting' /\ Queued' /\ Polled' /\ Signed' /\ Followed'
<1>1. /\ UNCHANGED <<family, commands, conn, listener, poll, cmd, baseline, signature, shown>>
      /\ \/ conn # "streaming" /\ inbox' = inbox
         \/ /\ conn = "streaming"
            /\ \E m \in Messages :
                 /\ inbox' = Append(inbox, m) /\ m.kind = "delta"
                 /\ IsNews(m) => m.doc["state"] = truth'["state"]
                 /\ ~IsNews(m) => truth["state"] = truth'["state"]
  BY ReportIs DEF IInv
<1>2. Waiting' /\ Polled' /\ Signed'
  BY <1>1 DEF IInv, Waiting, Polled, Signed
<1>3. CASE conn # "streaming" /\ inbox' = inbox
  <2>1. Queued'
    BY <1>1, <1>3, AcksTellNothing DEF IInv, Queued
  <2>2. Followed'
    BY <1>1, <1>3 DEF Followed
  <2> QED BY <1>2, <2>1, <2>2
<1>4. ASSUME conn = "streaming", NEW m \in Messages, inbox' = Append(inbox, m), m.kind = "delta",
             IsNews(m) => m.doc["state"] = truth'["state"],
             ~IsNews(m) => truth["state"] = truth'["state"]
      PROVE  Queued' /\ Followed'
  <2>1. inbox \in Seq(Messages) /\ (Says(m) <=> IsNews(m)) /\ m.kind # "ack"
    BY <1>4 DEF IInv, TypeOK, Says
  <2>2. Tells(inbox', truth'["state"])
    <3>1. CASE IsNews(m)
      BY <1>4, <2>1, <3>1, Appended
    <3>2. CASE ~IsNews(m)
      BY <1>4, <2>1, <3>2, Appended DEF IInv, Queued
    <3> QED BY <3>1, <3>2
  <2>3. /\ NoAcks(inbox) => NoAcks(inbox')
        /\ Quiet(inbox', 0) => Quiet(inbox, 0) /\ ~IsNews(m)
    BY <1>4, <2>1, Appended
  <2>4. Queued'
    BY <1>1, <1>4, <2>2, <2>3 DEF IInv, Queued
  <2>5. Followed'
    BY <1>1, <1>4, <2>3 DEF IInv, Followed
  <2> QED BY <2>4, <2>5
<1> QED BY <1>1, <1>2, <1>3, <1>4

\* The peer closes the connection, and no attempt of a poll fails with it.
LEMMA ConnectionDropsFine ==
  ASSUME IInv, ConnectionDrops, ~PollAttemptFails
  PROVE  Waiting' /\ Queued' /\ Polled' /\ Signed' /\ Followed'
<1>1. /\ conn' = "dead" /\ inbox' = <<>> /\ listener' = ListenerCut /\ cmd' = CommandCut
      /\ (poll'.step = "idle" \/ poll' = poll)
      /\ UNCHANGED <<family, truth, commands, baseline, signature>>
  BY IdleIs DEF ConnectionDrops, cloudVars
<1>2. listener' = IF listener = "starting" THEN "starting" ELSE "ended"
  BY <1>1 DEF ListenerCut
<1>3. cmd.step = "idle" => cmd'.step = "idle"
  BY <1>1, CommandCutIs, ValuesAre DEF IInv
<1>4. Waiting' /\ Followed'
  BY <1>1, <1>2 DEF Waiting, Followed
<1>5. Queued'
  BY <1>1, <1>3, Empty DEF IInv, Queued
<1>6. Polled' /\ Signed'
  BY <1>1, <1>2 DEF IInv, Polled, Signed
<1> QED BY <1>4, <1>5, <1>6

LEMMA Inductive == IInv /\ [Next]_vars => IInv'
<1> SUFFICES ASSUME IInv, [Next]_vars PROVE IInv'
  OBVIOUS
<1>0. TypeOK /\ TypeOK'
  BY NextTypes DEF IInv
<1> SUFFICES Waiting' /\ Queued' /\ Polled' /\ Signed' /\ Followed'
  BY <1>0 DEF IInv
<1>1. CASE PollAttemptFails
  <2>1. /\ conn' = "none" /\ inbox' = <<>> /\ baseline' = None /\ signature' = NoSignature
        /\ listener' \in {"starting", "ended"} /\ commands' = commands
        /\ cmd.step = "idle" => cmd'.step = "idle"
    BY <1>0, <1>1, FailedIs DEF cloudVars
  <2> QED BY <2>1, ClosedIsFine
<1>2. CASE CommandCannotConnect \/ ListenerCannotConnect
  <2>1. /\ conn' = "none" /\ inbox' = <<>> /\ baseline' = None /\ signature' = NoSignature
        /\ listener' \in {"starting", "ended"} /\ commands' = commands
        /\ cmd.step = "idle" => cmd'.step = "idle"
    BY <1>2 DEF CommandCannotConnect, ListenerCannotConnect, CloseConnection, Forget, ListenerCut,
       cloudVars
  <2> QED BY <2>1, ClosedIsFine
<1>3. CASE ListenerSubscribes
  BY <1>3, ListenerSubscribesFine
<1>4. CASE ListenerIgnores \/ ListenerFallsBack \/ ListenerTrips
  BY <1>4, ListenerDropsFine
<1>5. CASE ListenerDedups \/ ListenerPushes
  BY <1>5, ListenerMergesFine
<1>6. CASE ListenerResumes
  BY <1>6, ListenerResumesFine
<1>7. CASE PollConnects \/ CommandConnects
  BY <1>7, OpensFine
<1>8. CASE PollBegin
  BY <1>8, PollBeginFine
<1>9. CASE PollSends
  BY <1>9, PollSendsFine
<1>10. CASE PollGivesUp
  BY <1>10, PollGivesUpFine
<1>11. CASE PollTakes
  BY <1>11, PollTakesFine
<1>12. CASE CommandBegins \/ CommandSends \/ CommandTakes \/ CommandTimesOut
  BY <1>0, <1>12, CommandsFine
<1>13. CASE RobotReports
  BY <1>13, RobotReportsFine
<1>14. CASE ConnectionDrops /\ ~PollAttemptFails
  BY <1>14, ConnectionDropsFine
<1>15. CASE UNCHANGED vars
  <2>1. Waiting' /\ Queued' /\ Polled'
    BY <1>15 DEF vars, cloudVars, IInv, Waiting, Queued, Polled
  <2>2. Signed' /\ Followed'
    BY <1>15 DEF vars, cloudVars, IInv, Signed, Followed
  <2> QED BY <2>1, <2>2
<1>16. PollCannotConnect \/ PollCollides \/ PollTimesOut => PollAttemptFails
  BY DEF PollCannotConnect, PollCollides, PollTimesOut
<1> QED
  BY <1>1, <1>2, <1>3, <1>4, <1>5, <1>6, <1>7, <1>8, <1>9, <1>10, <1>11, <1>12, <1>13, <1>14,
     <1>15, <1>16 DEF Next, ListenerStep, PollStep, CommandStep

LEMMA Initially == Init => IInv
<1> SUFFICES ASSUME Init PROVE IInv
  OBVIOUS
<1>1. TypeOK
  BY RealtimeAssumption, Empty, IdleIs DEF Init, TypeOK, Baselines, TaskStates
<1>2. Waiting /\ Queued
  BY Empty, IdleIs DEF Init, Waiting, Queued
<1>3. Polled /\ Signed /\ Followed
  BY IdleIs, KindsAre DEF Init, Polled, Signed, Followed
<1> QED BY <1>1, <1>2, <1>3 DEF IInv

-----------------------------------------------------------------------------
(* What is shown.                                                          *)

LEMMA Invariance == Spec => []IInv
BY Initially, Inductive, PTL DEF Spec

\* The connection, the tasks on it and what they keep have their types: a baseline is
\* a whole document, the mark of another message, or nothing (_cache_ws_envelope).
THEOREM TypeCorrect == Spec => []TypeOK
<1>1. IInv => TypeOK
  BY DEF IInv
<1> QED BY <1>1, Invariance, PTL

\* For any number of changes and polls: a listener that runs and has a baseline misses
\* nothing. What is on display is the baseline, and the last message with news in the
\* inbox tells the robot's state (_websocket_listener, _apply_realtime_envelope).
THEOREM ListenerKeepsUp == Spec => []KeepsUp
<1>1. IInv => KeepsUp
  <2> SUFFICES ASSUME IInv, family = "plain", commands = 0, listener = "receiving",
                      baseline.kind = "whole"
               PROVE  /\ shown.kind = "whole"
                      /\ \A i \in 0..Len(inbox) : Latest(i) => StateAt(i) = truth["state"]
    BY DEF KeepsUp
  <2>1. /\ baseline = shown
        /\ Quiet(inbox, 0) => shown.doc["state"] = truth["state"]
        /\ Tells(inbox, truth["state"])
    BY DEF IInv, Waiting, Followed, Queued
  <2>2. ASSUME NEW i \in 0..Len(inbox), Latest(i)
        PROVE  StateAt(i) = truth["state"]
    <3>1. Quiet(inbox, i)
      BY <2>2 DEF Latest, NoNewsAfter, Quiet
    <3>2. CASE i = 0
      BY <2>1, <3>1, <3>2 DEF StateAt
    <3>3. CASE i # 0
      <4>1. i \in 1..Len(inbox) /\ Says(inbox[i])
        BY <2>2, <3>3 DEF Latest, Says, IInv, TypeOK
      <4> QED BY <2>1, <3>1, <3>3, <4>1 DEF Tells, StateAt
    <3> QED BY <3>2, <3>3
  <2> QED BY <2>1, <2>2
<1> QED BY <1>1, Invariance, PTL

\* What the dedup drops says the state that is on display: between two pushes no poll
\* comes that does not forget the signature (_state_signature, _close_websocket).
THEOREM DropsAreRepeats == Spec => DedupIsSound
<1> DEFINE Sound == ListenerDedups /\ family = "plain" =>
                      /\ shown.kind = "whole"
                      /\ Merge(baseline.doc, Take.doc)["state"] = shown.doc["state"]
<1>1. IInv => [Sound]_vars
  <2> SUFFICES ASSUME IInv, ListenerDedups, family = "plain"
               PROVE  /\ shown.kind = "whole"
                      /\ Merge(baseline.doc, Take.doc)["state"] = shown.doc["state"]
    OBVIOUS
  <2>1. Merge(baseline.doc, Take.doc) \in Docs /\ listener = "receiving"
    BY PushIs DEF IInv
  <2>2. signature = [state |-> Merge(baseline.doc, Take.doc)["state"]]
    BY <2>1, SignatureIs DEF ListenerDedups, Deduped
  <2>3. signature # NoSignature
    BY <2>2, SignaturesDiffer
  <2>4. shown.kind = "whole" /\ signature = [state |-> shown.doc["state"]]
    BY <2>1, <2>3 DEF IInv, Signed
  <2> QED BY <2>2, <2>4, SignaturesDiffer
<1> QED BY <1>1, Invariance, PTL DEF DedupIsSound

=============================================================================
