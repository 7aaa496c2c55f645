------------------------------ MODULE Realtime ------------------------------
(***************************************************************************)
(* The realtime path of one shadow-stream robot: the websocket listener,   *)
(* the cached baseline envelope, the dedup signature, and the polls and    *)
(* commands that share the listener's connection (client.py).              *)
(*                                                                         *)
(* The cloud answers a subscribe with the whole reported document and      *)
(* streams a delta on every change.  Nothing correlates a reply with its   *)
(* request: whoever calls receive() gets the next message.  aiohttp lets   *)
(* one task at a time wait in receive(); a second one gets a RuntimeError. *)
(*                                                                         *)
(* Opening and closing the connection are single steps here, and one poll  *)
(* and one command are in flight at a time.                                *)
(***************************************************************************)
EXTENDS Integers, Sequences

CONSTANTS
  Families,    \* device families, of {"plain", "cyclonext"}
  Values,      \* values of a field of the reported document
  MaxChanges,  \* bound: changes of the robot's state
  MaxCommands  \* bound: commands sent

ASSUME RealtimeAssumption ==
  /\ Families \subseteq {"plain", "cyclonext"}
  /\ MaxChanges \in Nat /\ MaxCommands \in Nat

VARIABLES
  family,     \* "cyclonext" keeps its state under equipment["robot.1"]
  truth,      \* the reported document in the cloud
  changes,    \* changes so far
  commands,   \* commands so far
  conn,       \* the shared connection
  inbox,      \* messages received on it and not yet taken
  listener,   \* where _websocket_listener is
  poll,       \* where the poll's get_device_status is
  cmd,        \* where the command's set_cleaner_state is
  baseline,   \* _last_ws_envelope: nothing, a whole document, or another message
  signature,  \* _last_applied_state_signature
  shown       \* the document on display

cloudVars == <<family, truth, changes, commands>>
vars == <<cloudVars, conn, inbox, listener, poll, cmd, baseline, signature, shown>>

-----------------------------------------------------------------------------
\* "state" stands for the fields the signature reads, "extra" for those the
\* entities show and the signature leaves out (canister, hours, temperature).
Fields == {"state", "extra"}
Docs == [Fields -> Values]
Deltas == UNION {[D -> Values] : D \in (SUBSET Fields) \ {{}}}

None    == [kind |-> "none"]
Whole(d) == [kind |-> "whole", doc |-> d]
Partial == [kind |-> "partial"]
Baselines == {None, Partial} \cup {Whole(d) : d \in Docs}

Reply(d) == [kind |-> "reply", doc |-> d]
Delta(d) == [kind |-> "delta", doc |-> d]
Ack      == [kind |-> "ack"]
Messages == {Reply(d) : d \in Docs} \cup {Delta(d) : d \in Deltas} \cup {Ack}

NoSignature == [none |-> TRUE]

\* "dead": closed by the peer, and still the client's connection.  Messages
\* stream once somebody subscribed.
Open == {"open", "streaming"}
Idle == [step |-> "idle", read |-> 1, attempt |-> 1]

\* The tasks that wait in receive().
Receiving ==
  (IF listener = "receiving" THEN {"listener"} ELSE {})
    \cup (IF poll.step = "receiving" THEN {"poll"} ELSE {})
    \cup (IF cmd.step = "receiving" THEN {"cmd"} ELSE {})

-----------------------------------------------------------------------------
\* _deep_merge_dict, on documents without nesting.
Merge(base, overlay) ==
  [f \in Fields |-> IF f \in DOMAIN overlay THEN overlay[f] ELSE base[f]]

\* Mutant of Signature: reads a key the family does not have.
SignatureOfNothing(d) == [nones |-> TRUE]

\* _state_signature of merged["equipment"]["robot"], which cyclonext does not
\* have: its signature is a tuple of Nones.
Signature(d) == IF family = "cyclonext" THEN [nones |-> TRUE] ELSE [state |-> d["state"]]

\* _cache_ws_envelope: whatever carries a payload becomes the baseline.
Cached(m) ==
  CASE m.kind = "reply" -> Whole(m.doc)
    [] m.kind = "delta" -> Partial
    [] OTHER -> baseline

\* What is left of the tasks whose connection closes: the listener's loop is over,
\* a command's response is missing and the command is sent once more.
ListenerCut == IF listener = "starting" THEN "starting" ELSE "ended"
CommandCut ==
  IF cmd.step # "receiving" THEN cmd
  ELSE IF cmd.attempt = 1 THEN [cmd EXCEPT !.step = "sending", !.attempt = 2] ELSE Idle

\* Mutant of Forget: baseline and signature outlive the connection.
ForgetNothing == UNCHANGED <<baseline, signature>>

\* The end of _close_websocket: the baseline and the signature go with the connection.
Forget == baseline' = None /\ signature' = NoSignature

CloseConnection ==
  /\ conn' = "none" /\ inbox' = <<>>
  /\ Forget
  /\ listener' = ListenerCut

\* _ensure_websocket_connection found no usable connection and opened one, after
\* closing what was left of the old one; the request sent on it is answered by m.
OpenAndSend(kind, m) ==
  /\ conn' = kind /\ inbox' = <<m>>
  /\ Forget

Send(kind, m) ==
  /\ conn' = IF conn = "streaming" THEN conn ELSE kind
  /\ inbox' = Append(inbox, m)

Take == Head(inbox)

-----------------------------------------------------------------------------
Init ==
  /\ family \in Families
  /\ truth \in Docs /\ changes = 0 /\ commands = 0
  /\ conn = "none" /\ inbox = <<>>
  /\ listener = "starting"
  /\ poll = Idle /\ cmd = Idle
  /\ baseline = None /\ signature = NoSignature
  /\ shown = None

-----------------------------------------------------------------------------
(* The listener task: started once, after the quick setup.                 *)

ListenerSubscribes ==
  /\ listener = "starting"
  /\ IF conn \in Open
     THEN Send("streaming", Reply(truth)) /\ UNCHANGED <<baseline, signature>>
     ELSE OpenAndSend("streaming", Reply(truth))
  /\ listener' = IF Receiving = {} THEN "receiving" ELSE "ended"
  /\ UNCHANGED <<cloudVars, poll, cmd, shown>>

\* The connection could not be opened: logged, and the task ends.
ListenerCannotConnect ==
  /\ listener = "starting" /\ conn \notin Open
  /\ conn' = "none" /\ inbox' = <<>>
  /\ Forget
  /\ listener' = "ended"
  /\ UNCHANGED <<cloudVars, poll, cmd, shown>>

ListenerTakes ==
  /\ listener = "receiving" /\ inbox # <<>>
  /\ inbox' = Tail(inbox)

\* _extract_ws_state_delta: replies and acknowledgements are not for it.
ListenerIgnores ==
  /\ ListenerTakes /\ Take.kind # "delta"
  /\ UNCHANGED <<cloudVars, conn, listener, poll, cmd, baseline, signature, shown>>

\* No baseline yet: ask the coordinator for a refresh.
ListenerFallsBack ==
  /\ ListenerTakes /\ Take.kind = "delta" /\ baseline = None
  /\ listener' = "refreshing"
  /\ UNCHANGED <<cloudVars, conn, poll, cmd, baseline, signature, shown>>

\* The refresh returned, now or when its poll had ended: receive again.
ListenerResumes ==
  /\ listener = "refreshing"
  /\ listener' = IF Receiving = {} THEN "receiving" ELSE "ended"
  /\ UNCHANGED <<cloudVars, conn, inbox, poll, cmd, baseline, signature, shown>>

\* A baseline of another shape has no payload["robot"] to put the merge in: the
\* KeyError is logged and the message is gone.
ListenerTrips ==
  /\ ListenerTakes /\ Take.kind = "delta" /\ baseline = Partial
  /\ UNCHANGED <<cloudVars, conn, listener, poll, cmd, baseline, signature, shown>>

Deduped(merged) == Signature(merged) = signature

ListenerDedups ==
  /\ ListenerTakes /\ Take.kind = "delta" /\ baseline.kind = "whole"
  /\ Deduped(Merge(baseline.doc, Take.doc))
  /\ UNCHANGED <<cloudVars, conn, listener, poll, cmd, baseline, signature, shown>>

\* The merged document becomes the baseline and is pushed to the entities.
ListenerPushes ==
  /\ ListenerTakes /\ Take.kind = "delta" /\ baseline.kind = "whole"
  /\ LET merged == Merge(baseline.doc, Take.doc) IN
     /\ ~Deduped(merged)
     /\ baseline' = Whole(merged)
     /\ signature' = Signature(merged)
     /\ shown' = Whole(merged)
  /\ UNCHANGED <<cloudVars, conn, listener, poll, cmd>>

-----------------------------------------------------------------------------
(* A poll: _update_other_robots over get_device_status.                    *)

\* Mutant of PollBegin: no polls while the listener is up.
PollBeginWithoutListener ==
  /\ poll.step = "idle" /\ listener # "receiving"
  /\ poll' = [Idle EXCEPT !.step = "sending"]
  /\ UNCHANGED <<cloudVars, conn, inbox, listener, cmd, baseline, signature, shown>>

PollBegin ==
  /\ poll.step = "idle"
  /\ poll' = [Idle EXCEPT !.step = "sending"]
  /\ UNCHANGED <<cloudVars, conn, inbox, listener, cmd, baseline, signature, shown>>

\* An attempt raised: the connection is closed and the request sent once more,
\* and after the second attempt the poll ends with a degraded result.
PollAttemptFails ==
  /\ CloseConnection
  /\ IF poll.attempt = 1
     THEN poll' = [poll EXCEPT !.step = "sending", !.attempt = 2] /\ UNCHANGED shown
     ELSE poll' = Idle /\ shown' = None
  /\ cmd' = CommandCut
  /\ UNCHANGED cloudVars

PollConnects ==
  /\ poll.step = "sending" /\ conn \notin Open
  /\ OpenAndSend("streaming", Reply(truth))
  /\ poll' = [poll EXCEPT !.step = "receiving"]
  /\ UNCHANGED <<cloudVars, listener, cmd, shown>>

PollCannotConnect ==
  /\ poll.step = "sending" /\ conn \notin Open
  /\ PollAttemptFails

PollSends ==
  /\ poll.step = "sending" /\ conn \in Open
  /\ Receiving = {}
  /\ Send("streaming", Reply(truth))
  /\ poll' = [poll EXCEPT !.step = "receiving"]
  /\ UNCHANGED <<cloudVars, listener, cmd, baseline, signature, shown>>

\* Somebody else is waiting in receive(): RuntimeError.
PollCollides ==
  /\ poll.step = "sending" /\ conn \in Open
  /\ Receiving # {}
  /\ PollAttemptFails

PollTimesOut ==
  /\ poll.step = "receiving"
  /\ PollAttemptFails

\* The 30 s of _ws_subscribe are up, in a second attempt or while the connection
\* is being opened: the poll is over and the connection is left as it is.
PollGivesUp ==
  /\ \/ poll.step = "sending" /\ conn \notin Open
     \/ poll.step # "idle" /\ poll.attempt = 2
  /\ poll' = Idle /\ shown' = None
  /\ UNCHANGED <<cloudVars, conn, inbox, listener, cmd, baseline, signature>>

\* The next message is taken for the reply.  A delta makes the read of the status
\* fail, and the first time the poll subscribes once more.
PollTakes ==
  /\ poll.step = "receiving" /\ inbox # <<>>
  /\ inbox' = Tail(inbox)
  /\ baseline' = IF poll.read = 1 THEN Cached(Take) ELSE baseline
  /\ IF Take.kind = "delta" /\ poll.read = 1
     THEN poll' = [step |-> "sending", read |-> 2, attempt |-> 1] /\ UNCHANGED shown
     ELSE /\ poll' = Idle
          /\ shown' = IF Take.kind = "reply" THEN Whole(Take.doc) ELSE None
  /\ UNCHANGED <<cloudVars, conn, listener, cmd, signature>>

-----------------------------------------------------------------------------
(* A command, or a clear of the desired state: set_cleaner_state.          *)

CommandBegins ==
  /\ cmd.step = "idle" /\ commands < MaxCommands
  /\ cmd' = [Idle EXCEPT !.step = "sending"]
  /\ commands' = commands + 1
  /\ UNCHANGED <<family, truth, changes, conn, inbox, listener, poll, baseline, signature, shown>>

CommandConnects ==
  /\ cmd.step = "sending" /\ conn \notin Open
  /\ OpenAndSend("open", Ack)
  /\ cmd' = [cmd EXCEPT !.step = "receiving"]
  /\ UNCHANGED <<cloudVars, listener, poll, shown>>

\* With another task in receive() the RuntimeError is swallowed: the command was
\* sent, its acknowledgement stays in the inbox.
CommandSends ==
  /\ cmd.step = "sending" /\ conn \in Open
  /\ Send("open", Ack)
  /\ cmd' = IF Receiving = {} THEN [cmd EXCEPT !.step = "receiving"] ELSE Idle
  /\ UNCHANGED <<cloudVars, listener, poll, baseline, signature, shown>>

\* Any message will do for the response; so will none.
CommandTakes ==
  /\ cmd.step = "receiving"
  /\ inbox' = IF inbox = <<>> THEN inbox ELSE Tail(inbox)
  /\ cmd' = Idle
  /\ UNCHANGED <<cloudVars, conn, listener, poll, baseline, signature, shown>>

CommandTimesOut ==
  /\ cmd.step = "receiving" \/ (cmd.step = "sending" /\ conn \notin Open)
  /\ cmd' = Idle
  /\ UNCHANGED <<cloudVars, conn, inbox, listener, poll, baseline, signature, shown>>

\* The connection cannot be opened: one retry, then the command is given up.
CommandCannotConnect ==
  /\ cmd.step = "sending" /\ conn \notin Open
  /\ CloseConnection
  /\ cmd' = IF cmd.attempt = 1 THEN [cmd EXCEPT !.attempt = 2] ELSE Idle
  /\ UNCHANGED <<cloudVars, poll, shown>>

-----------------------------------------------------------------------------
(* The cloud and the network.                                              *)

\* The robot reports: at least what changed is streamed to a subscriber.
RobotReports ==
  /\ changes < MaxChanges
  /\ \E d \in Docs, D \in (SUBSET Fields) \ {{}} :
       /\ \A f \in Fields \ D : d[f] = truth[f]
       /\ truth' = d
       /\ inbox' = IF conn = "streaming" THEN Append(inbox, Delta([f \in D |-> d[f]]))
                   ELSE inbox
  /\ changes' = changes + 1
  /\ UNCHANGED <<family, commands, conn, listener, poll, cmd, baseline, signature, shown>>

\* The peer closes the connection.  A poll that waits for its reply sees a CLOSE
\* message and ends, or the end of the stream and tries again.
ConnectionDrops ==
  /\ conn \in Open
  /\ \/ /\ conn' = "dead" /\ inbox' = <<>>
        /\ listener' = ListenerCut /\ cmd' = CommandCut
        /\ IF poll.step = "receiving" THEN poll' = Idle /\ shown' = None
           ELSE UNCHANGED <<poll, shown>>
        /\ UNCHANGED <<cloudVars, baseline, signature>>
     \/ poll.step = "receiving" /\ PollAttemptFails

-----------------------------------------------------------------------------
ListenerStep ==
  \/ ListenerSubscribes \/ ListenerCannotConnect \/ ListenerIgnores
  \/ ListenerFallsBack \/ ListenerResumes \/ ListenerTrips
  \/ ListenerDedups \/ ListenerPushes

PollStep ==
  \/ PollConnects \/ PollCannotConnect \/ PollSends \/ PollCollides
  \/ PollTimesOut \/ PollGivesUp \/ PollTakes

CommandStep ==
  \/ CommandConnects \/ CommandSends \/ CommandTakes \/ CommandTimesOut
  \/ CommandCannotConnect

Next ==
  \/ ListenerStep \/ PollBegin \/ PollStep \/ CommandBegins \/ CommandStep
  \/ RobotReports \/ ConnectionDrops

Spec == Init /\ [][Next]_vars

\* Tasks run, timers fire and the coordinator schedules the next poll; nothing is
\* assumed of the cloud, the network or the user.
Fairness == WF_vars(ListenerStep) /\ WF_vars(PollBegin) /\ WF_vars(PollStep) /\ WF_vars(CommandStep)
FairSpec == Spec /\ Fairness

-----------------------------------------------------------------------------
(* Types, and what the realtime path promises.                             *)

Tasks == {"idle", "sending", "receiving"}
TypeOK ==
  /\ family \in Families /\ truth \in Docs
  /\ changes \in 0..MaxChanges /\ commands \in 0..MaxCommands
  /\ conn \in {"none", "open", "streaming", "dead"} /\ inbox \in Seq(Messages)
  /\ listener \in {"starting", "receiving", "refreshing", "ended"}
  /\ {poll, cmd} \subseteq [step : Tasks, read : 1..2, attempt : 1..2]
  /\ baseline \in Baselines
  /\ signature \in {NoSignature, [nones |-> TRUE]} \cup [state : Values]
  /\ shown \in {None} \cup {Whole(d) : d \in Docs}

\* The state that stands for display and inbox together: at i, after which there is no
\* news.  0 is the display.
IsNews(m) == m.kind = "delta" /\ "state" \in DOMAIN m.doc
NoNewsAfter(i) == \A j \in i+1..Len(inbox) : ~IsNews(inbox[j])
Latest(i) == NoNewsAfter(i) /\ (i = 0 \/ IsNews(inbox[i]))
StateAt(i) == IF i = 0 THEN shown.doc["state"] ELSE inbox[i].doc["state"]

\* A listener that has a baseline and whose connection no command has read from
\* misses nothing: the state on display, brought forward by the messages still in
\* the inbox, is the robot's state, whatever polls did before or do meanwhile.
KeepsUp ==
  (family = "plain" /\ commands = 0 /\ listener = "receiving" /\ baseline.kind = "whole")
    => /\ shown.kind = "whole"
       /\ \A i \in 0..Len(inbox) : Latest(i) => StateAt(i) = truth["state"]

\* The dedup drops only repeats of the state on display.  Nothing but a push sets
\* the signature, so this is about polls never getting between two pushes.
DedupIsSound ==
  [][ListenerDedups /\ family = "plain" =>
       /\ shown.kind = "whole"
       /\ Merge(baseline.doc, Take.doc)["state"] = shown.doc["state"]]_vars

\* Once the robot has stopped changing, polls and pushes leave its document on
\* display, or nothing when a poll was degraded, although polls lag behind a queue
\* of earlier replies.
PollingConverges == <>[](shown \in {None, Whole(truth)})
=============================================================================
