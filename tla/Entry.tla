------------------------------- MODULE Entry -------------------------------
(***************************************************************************)
(* The config entries of the integration: the migration and the setup of   *)
(* an entry, its reload, and the flows that create entries and change      *)
(* their credentials (__init__.py, config_flow.py).                        *)
(*                                                                         *)
(* Home Assistant keeps the entries, holds one lock per entry around       *)
(* unload and setup, and runs the flows; several flows may be open at      *)
(* once, and each suspends while it asks the cloud which robots an account *)
(* owns.  The cloud's passwords and owners change at any time.             *)
(***************************************************************************)
EXTENDS Integers, Sequences

CONSTANTS
  Robots,       \* by their serial numbers, stripped
  Padded,       \* robots the cloud lists with white space around the serial number
  Accounts,
  Entries,      \* places for config entries; each also names the reauth flow of its entry
  Flows,        \* places for the flows a user starts
  None,         \* no robot, no entry
  OldEntries,   \* entries a former version may have left
  Titles, Presses,  \* former titles, and what the buttons are for
  FirstOwners,  \* on which accounts the robots may be listed at first
  MaxChanges,   \* bound: changes of a password or an owner
  MaxFlows,     \* bound: flows a user starts
  MaxRestarts   \* bound: restarts of Home Assistant

ASSUME EntryAssumption ==
  /\ Padded \subseteq Robots /\ FirstOwners \subseteq [Robots -> Accounts]
  /\ MaxChanges \in Nat /\ MaxFlows \in Nat /\ MaxRestarts \in Nat
  /\ Entries \cap Flows = {} /\ None \notin Entries \cup Robots

VARIABLES
  owner,      \* cloud: the account a robot is listed on
  password,   \* cloud: the password of an account, <<account, number>>
  entry,      \* the stored entries, None in a vacant place
  state,      \* what Home Assistant makes of an entry
  client,     \* what the AqualinkClient of an entry was built from
  reload,     \* entries a task waits to reload
  flow,       \* the flows
  changes, started, restarts,
  origin,     \* history: the buttons of an entry before its migration
  moved,      \* history: robots that have changed accounts
  missed      \* history: entries whose option was saved during the setup that runs, or ran

cloudVars == <<owner, password, changes>>
counters == <<started, restarts>>
history == <<origin, moved, missed>>
vars == <<cloudVars, entry, state, client, reload, flow, counters, history>>

-----------------------------------------------------------------------------
States == {"none", "notLoaded", "settingUp", "loaded", "retry", "authError",
           "error", "migrationError", "failedUnload"}
Steps == {"idle", "form", "discovering", "selecting", "reloading"}
FlowIds == Flows \cup Entries

NoFlow == [kind |-> "user", step |-> "idle", entry |-> None, username |-> None,
           password |-> None, known |-> {}, devices |-> {}]

Exists(e) == entry[e] # None
Present == {e \in Entries : Exists(e)}
Client(x) == [username |-> x.username, password |-> x.password, include |-> x.include]

Accepted(x) == password[x.username] = x.password
Devices(account) == {r \in Robots : owner[r] = account}

-----------------------------------------------------------------------------
(* Migration.  A button's unique id is a prefix, "serial" or a former title, and a
   command; the registry lists the buttons in the order of their creation. *)

Rewrite(buttons, i) ==
  LET target == [buttons[i] EXCEPT !.by = "serial"] IN
  IF \E j \in DOMAIN buttons : buttons[j] = target
  THEN buttons
  ELSE [buttons EXCEPT ![i] = target]

RewriteFirst(buttons, k) ==
  LET loop[i \in 0..k] == IF i = 0 THEN buttons ELSE Rewrite(loop[i - 1], i)
  IN  loop[k]

Migrate(x) ==
  [x EXCEPT !.version = 3,
            !.buttons = IF x.version = 1 /\ x.serial # None
                        THEN RewriteFirst(@, Len(@)) ELSE @]

\* Mutant of MigrateFails: the version is raised all the same.
MigrateFailsBumped(x) ==
  IF x.version = 1 /\ x.serial # None
  THEN {[x EXCEPT !.buttons = RewriteFirst(@, k), !.version = 2] : k \in 0..Len(x.buttons)}
  ELSE {}

\* An exception after the first k buttons: the entry stays at version 1.  One in the
\* step from version 2, in which api_key is dropped: it stays at version 2.
MigrateFails(x) ==
  (IF x.version = 1 /\ x.serial # None
   THEN {[x EXCEPT !.buttons = RewriteFirst(@, k)] : k \in 0..Len(x.buttons)}
   ELSE {}) \cup
  (IF x.version < 3 THEN {[Migrate(x) EXCEPT !.version = 2]} ELSE {})

-----------------------------------------------------------------------------
Init ==
  /\ owner \in FirstOwners
  /\ password = [a \in Accounts |-> <<a, 1>>]
  /\ LET e0 == CHOOSE e \in Entries : TRUE IN
     \E old \in OldEntries \cup {None} :
       entry = [e \in Entries |-> IF e = e0 THEN old ELSE None]
  /\ state = [e \in Entries |-> IF Exists(e) THEN "notLoaded" ELSE "none"]
  /\ client = [e \in Entries |-> None]
  /\ reload = {}
  /\ flow = [f \in FlowIds |-> NoFlow]
  /\ changes = 0 /\ started = 0 /\ restarts = 0
  /\ origin = [e \in Entries |-> IF Exists(e) THEN entry[e].buttons ELSE <<>>]
  /\ moved = {r \in Robots : \E e \in Present :
                entry[e].serial = r /\ owner[r] # entry[e].username}
  /\ missed = {}

-----------------------------------------------------------------------------
(* Setup.  The entry's lock is held from the start of a setup to its end. *)

\* Home Assistant migrates an entry of an older version, then async_setup_entry runs
\* from its first line to its first await.
SetupBegins(e) ==
  /\ state[e] \in {"notLoaded", "retry"}
  /\ entry' = [entry EXCEPT ![e] = Migrate(@)]
  /\ state' = [state EXCEPT ![e] = "settingUp"]
  /\ client' = [client EXCEPT ![e] = Client(entry[e])]
  /\ missed' = missed \ {e}
  /\ UNCHANGED <<cloudVars, reload, flow, counters, origin, moved>>

\* async_migrate_entry returns False: no setup until the next restart.
MigrationFails(e) ==
  /\ state[e] \in {"notLoaded", "retry"}
  /\ \E x \in MigrateFails(entry[e]) : entry' = [entry EXCEPT ![e] = x]
  /\ state' = [state EXCEPT ![e] = "migrationError"]
  /\ UNCHANGED <<cloudVars, client, reload, flow, counters, history>>

SetupEnds(e, outcome) ==
  /\ state[e] = "settingUp"
  /\ state' = [state EXCEPT ![e] = outcome]
  /\ client' = IF outcome = "loaded" THEN client ELSE [client EXCEPT ![e] = None]
  /\ UNCHANGED <<cloudVars, entry, reload, counters, history>>

\* _discover_device looks for a serial number as it is listed, stored ones are stripped.
\* Without a serial number it takes the first robot of the account.
Finds(account, serial) ==
  IF serial = None THEN Devices(account) # {} ELSE serial \in Devices(account) \ Padded

Listed(e) == Finds(client[e].username, entry[e].serial)

\* _authenticate, _discover_device, the first refresh and the platforms.
SetupSucceeds(e) ==
  /\ state[e] = "settingUp" /\ Accepted(client[e]) /\ Listed(e)
  /\ SetupEnds(e, "loaded")
  /\ UNCHANGED flow

\* Home Assistant opens a reauth flow unless one of the entry's flows is open.
AskReauth(e) ==
  flow' = IF \E f \in FlowIds : flow[f].step # "idle" /\ flow[f].entry = e
          THEN flow
          ELSE [flow EXCEPT ![e] = [NoFlow EXCEPT !.kind = "reauth", !.step = "form",
                                                  !.entry = e]]

\* AuthFailedError becomes ConfigEntryAuthFailed.
SetupRefused(e) ==
  /\ state[e] = "settingUp" /\ ~Accepted(client[e])
  /\ SetupEnds(e, "authError")
  /\ AskReauth(e)

\* DeviceNotFoundError becomes ConfigEntryError, which is final, where a serial
\* number was looked for; in the first refresh it asks for a retry.
SetupFindsNoDevice(e) ==
  /\ state[e] = "settingUp" /\ Accepted(client[e]) /\ ~Listed(e)
  /\ SetupEnds(e, IF entry[e].serial = None THEN "retry" ELSE "error")
  /\ UNCHANGED flow

\* Mutant of SetupFails: an unreachable cloud is a permanent failure.
SetupFailsForGood(e) == SetupEnds(e, "error") /\ UNCHANGED flow

\* Anything else becomes ConfigEntryNotReady.
SetupFails(e) == SetupEnds(e, "retry") /\ UNCHANGED flow

\* A refresh of the coordinator raises ConfigEntryAuthFailed.
PollRefused(e) ==
  /\ state[e] = "loaded" /\ ~Accepted(client[e])
  /\ AskReauth(e)
  /\ UNCHANGED <<cloudVars, entry, state, client, reload, counters, history>>

\* async_reload, once it has the lock: async_unload_entry with its cleanup; the setup is
\* SetupBegins.  Home Assistant refuses to reload what it cannot recover.
Reload(e) ==
  /\ e \in reload /\ state[e] # "settingUp"
  /\ reload' = reload \ {e}
  /\ IF state[e] \in {"migrationError", "failedUnload"}
     THEN UNCHANGED <<state, client>>
     ELSE /\ state' = [state EXCEPT ![e] = "notLoaded"]
          /\ client' = [client EXCEPT ![e] = None]
  /\ UNCHANGED <<cloudVars, entry, flow, counters, history>>

\* A platform does not unload: the coordinator is not cleaned up and stays.
UnloadFails(e) ==
  /\ e \in reload /\ state[e] = "loaded"
  /\ reload' = reload \ {e}
  /\ state' = [state EXCEPT ![e] = "failedUnload"]
  /\ UNCHANGED <<cloudVars, entry, client, flow, counters, history>>

-----------------------------------------------------------------------------
(* Flows. *)

Is(f, kind, step) == flow[f].kind = kind /\ flow[f].step = step
Close(f) == flow' = [flow EXCEPT ![f] = NoFlow]

UserStarts(f, kind, e) ==
  /\ flow[f].step = "idle" /\ started < MaxFlows
  /\ started' = started + 1
  /\ flow' = [flow EXCEPT ![f] = [NoFlow EXCEPT !.kind = kind, !.step = "form", !.entry = e]]
  /\ UNCHANGED <<cloudVars, entry, state, client, reload, restarts, history>>

\* The user fills in the form, with the password the account has at this time (a
\* wrong one is as good as a discovery that fails).  A reauth keeps the username.
Submit(f, account) ==
  /\ flow[f].step = "form"
  /\ flow[f].kind = "reauth" => account = entry[flow[f].entry].username
  /\ flow' = [flow EXCEPT ![f] =
       [@ EXCEPT !.step = "discovering", !.username = account,
                 !.password = password[account],
                 !.known = IF flow[f].kind # "user" THEN {}
                           ELSE {entry[e].serial : e \in {x \in Present :
                                   entry[x].username = account}} \ {None}]]
  /\ UNCHANGED <<cloudVars, entry, state, client, reload, counters, history>>

\* discover_devices answers.
Discovers(f) == flow[f].step = "discovering" /\ Accepted(flow[f])

\* invalid_auth or cannot_connect: the form is shown again.
DiscoveryFails(f) ==
  /\ flow[f].step = "discovering"
  /\ flow' = [flow EXCEPT ![f].step = "form"]
  /\ UNCHANGED <<cloudVars, entry, state, client, reload, counters, history>>

\* Mutant of Configured: _abort_if_unique_id_configured compares usernames as well.
ConfiguredOnAccount(f, r) ==
  \E e \in Present : entry[e].uniqueId = r /\ entry[e].username = flow[f].username

\* _abort_if_unique_id_configured aborts.
Configured(f, r) == \E e \in Present : entry[e].uniqueId = r

\* async_create_entry; Home Assistant adds the entry and sets it up.
CreateEntry(f, r) ==
  /\ Close(f)
  /\ IF Configured(f, r) THEN UNCHANGED <<entry, state>>
     ELSE /\ Present # Entries
          /\ LET e == CHOOSE x \in Entries \ Present : TRUE IN
             /\ entry' = [entry EXCEPT ![e] =
                  [version |-> 3, uniqueId |-> r, serial |-> r, username |-> flow[f].username,
                   password |-> flow[f].password, include |-> FALSE, buttons |-> <<>>]]
             /\ state' = [state EXCEPT ![e] = "notLoaded"]

\* async_step_user after its discovery: robots that are configured for the account
\* are left out, their serial numbers compared as they are listed; none left aborts or shows
\* the form again, one is taken, more are offered.
UserDiscovers(f) ==
  /\ Is(f, "user", "discovering") /\ Discovers(f)
  /\ LET devices == Devices(flow[f].username) \ (flow[f].known \ Padded) IN
     \/ /\ devices = {}
        /\ IF flow[f].known # {} THEN Close(f)
           ELSE flow' = [flow EXCEPT ![f].step = "form"]
        /\ UNCHANGED <<entry, state>>
     \/ \E r \in Robots : devices = {r} /\ CreateEntry(f, r)
     \/ /\ \A r \in Robots : devices # {r}
        /\ devices # {}
        /\ flow' = [flow EXCEPT ![f].step = "selecting", ![f].devices = devices]
        /\ UNCHANGED <<entry, state>>
  /\ UNCHANGED <<cloudVars, client, reload, counters, history>>

\* async_step_select_device.
UserSelects(f, r) ==
  /\ Is(f, "user", "selecting") /\ r \in flow[f].devices
  /\ CreateEntry(f, r)
  /\ UNCHANGED <<cloudVars, client, reload, counters, history>>

\* Mutant of AccountOwnsSerial: any account will do.
AccountOwnsAnything(account, serial) == TRUE

AccountOwnsSerial(account, serial) == serial = None \/ serial \in Devices(account)

\* Mutant of Save: only what listens to the entry, a loaded entry, is reloaded.
SaveForListener(e, x) ==
  /\ entry' = [entry EXCEPT ![e] = x]
  /\ reload' = IF state[e] = "loaded" THEN reload \cup {e} ELSE reload

\* async_update_entry and the reload the flow asks for itself.
Save(e, x) ==
  /\ entry' = [entry EXCEPT ![e] = x]
  /\ reload' = reload \cup {e}

WrongAccount(f) ==
  /\ flow[f].kind \in {"reauth", "reconfigure"} /\ Discovers(f)
  /\ ~AccountOwnsSerial(flow[f].username, entry[flow[f].entry].serial)
  /\ flow' = [flow EXCEPT ![f].step = "form"]
  /\ UNCHANGED <<cloudVars, entry, state, client, reload, counters, history>>

\* async_step_reauth_confirm: the password goes into the entry as it is now; the flow
\* stays open for the reload.
ReauthAccepted(f) ==
  LET e == flow[f].entry IN
  /\ flow[f].kind = "reauth" /\ Discovers(f)
  /\ AccountOwnsSerial(flow[f].username, entry[e].serial)
  /\ Save(e, [entry[e] EXCEPT !.password = flow[f].password])
  /\ flow' = [flow EXCEPT ![f].step = "reloading"]
  /\ UNCHANGED <<cloudVars, state, client, counters, history>>

ReauthEnds(f) ==
  /\ Is(f, "reauth", "reloading")
  /\ flow[f].entry \notin reload /\ state[flow[f].entry] \notin {"notLoaded", "settingUp"}
  /\ Close(f)
  /\ UNCHANGED <<cloudVars, entry, state, client, reload, counters, history>>

\* async_step_reconfigure.  The unique id is compared where there are both.
ReconfigureAccepted(f) ==
  LET e == flow[f].entry IN
  /\ flow[f].kind = "reconfigure" /\ Discovers(f)
  /\ AccountOwnsSerial(flow[f].username, entry[e].serial)
  /\ entry[e].serial # None /\ entry[e].uniqueId # None
       => entry[e].uniqueId = entry[e].serial
  /\ Save(e, [entry[e] EXCEPT !.username = flow[f].username,
                              !.password = flow[f].password])
  /\ Close(f)
  /\ UNCHANGED <<cloudVars, state, client, counters, history>>

\* The unique ids differ (wrong_robot), or Home Assistant finds another flow of the
\* robot in progress in async_set_unique_id.
ReconfigureAborts(f) ==
  LET e == flow[f].entry IN
  /\ flow[f].kind = "reconfigure" /\ Discovers(f)
  /\ AccountOwnsSerial(flow[f].username, entry[e].serial)
  /\ entry[e].serial # None /\ entry[e].uniqueId # None
  /\ entry[e].uniqueId = entry[e].serial => flow[e].step # "idle"
  /\ Close(f)
  /\ UNCHANGED <<cloudVars, entry, state, client, reload, counters, history>>

\* The options flow stores its toggle; the listener, which the last lines of the setup
\* add, reloads the entry.
SaveOption(e) ==
  /\ Exists(e) /\ started < MaxFlows /\ started' = started + 1
  /\ entry' = [entry EXCEPT ![e].include = ~@]
  /\ reload' = IF state[e] = "loaded" THEN reload \cup {e} ELSE reload
  /\ missed' = IF state[e] = "settingUp" THEN missed \cup {e} ELSE missed
  /\ UNCHANGED <<cloudVars, state, client, flow, restarts, origin, moved>>

UserLeaves(f) ==
  /\ f \in Flows /\ flow[f].step \in {"form", "selecting"}
  /\ Close(f)
  /\ UNCHANGED <<cloudVars, entry, state, client, reload, counters, history>>

-----------------------------------------------------------------------------
PasswordChanges(a) ==
  /\ changes < MaxChanges /\ changes' = changes + 1
  /\ password' = [password EXCEPT ![a] = <<a, @[2] + 1>>]
  /\ UNCHANGED <<owner, entry, state, client, reload, flow, counters, history>>

RobotMoves(r, a) ==
  /\ changes < MaxChanges /\ changes' = changes + 1
  /\ owner[r] # a /\ owner' = [owner EXCEPT ![r] = a]
  /\ moved' = moved \cup {r}
  /\ UNCHANGED <<password, entry, state, client, reload, flow, counters, origin, missed>>

Restart ==
  /\ restarts < MaxRestarts /\ restarts' = restarts + 1
  /\ state' = [e \in Entries |-> IF Exists(e) THEN "notLoaded" ELSE "none"]
  /\ client' = [e \in Entries |-> None]
  /\ reload' = {} /\ missed' = {}
  /\ flow' = [f \in FlowIds |-> NoFlow]
  /\ UNCHANGED <<cloudVars, entry, started, origin, moved>>

SetupStep(e) ==
  \/ SetupBegins(e) \/ SetupRefused(e) \/ SetupFindsNoDevice(e)
  \/ Reload(e)

Next ==
  \/ \E e \in Entries :
       \/ SetupStep(e) \/ SetupSucceeds(e) \/ MigrationFails(e) \/ SetupFails(e)
       \/ PollRefused(e) \/ UnloadFails(e) \/ SaveOption(e)
  \/ \E f \in Flows :
       UserStarts(f, "user", None) \/ \E e \in Present : UserStarts(f, "reconfigure", e)
  \/ \E f \in FlowIds :
       \/ \E a \in Accounts : Submit(f, a)
       \/ DiscoveryFails(f) \/ UserDiscovers(f) \/ WrongAccount(f) \/ ReauthAccepted(f)
       \/ ReauthEnds(f) \/ ReconfigureAccepted(f) \/ ReconfigureAborts(f) \/ UserLeaves(f)
       \/ \E r \in Robots : UserSelects(f, r)
  \/ \E a \in Accounts : PasswordChanges(a) \/ \E r \in Robots : RobotMoves(r, a)
  \/ Restart

Spec == Init /\ [][Next]_vars

\* Home Assistant sets up, retries and reloads; the cloud, asked again and again, is
\* reached at last.
FairSpec ==
  Spec /\ \A e \in Entries : WF_vars(SetupStep(e)) /\ SF_vars(SetupSucceeds(e))

-----------------------------------------------------------------------------
Passwords == Accounts \X (1..(1 + MaxChanges))
Buttons == [by : {"serial"} \cup Titles, cmd : Presses]

EntryRecords ==
  [version : 1..3, uniqueId : Robots \cup {None}, serial : Robots \cup {None},
   username : Accounts, password : Passwords, include : BOOLEAN, buttons : Seq(Buttons)]
Clients == [username : Accounts, password : Passwords, include : BOOLEAN]
FlowRecords ==
  [kind : {"user", "reauth", "reconfigure"}, step : Steps, entry : Entries \cup {None},
   username : Accounts \cup {None}, password : Passwords \cup {None},
   known : SUBSET Robots, devices : SUBSET Robots]

TypeOK ==
  /\ owner \in [Robots -> Accounts] /\ password \in [Accounts -> Passwords]
  /\ entry \in [Entries -> EntryRecords \cup {None}]
  /\ state \in [Entries -> States] /\ client \in [Entries -> Clients \cup {None}]
  /\ \A e \in Entries :
       /\ (state[e] = "none") = (entry[e] = None)
       /\ (client[e] = None) = (state[e] \notin {"settingUp", "loaded", "failedUnload"})
  /\ reload \subseteq Present
  /\ flow \in [FlowIds -> FlowRecords]
  /\ changes \in 0..MaxChanges /\ started \in 0..MaxFlows /\ restarts \in 0..MaxRestarts
  /\ moved \subseteq Robots /\ missed \subseteq Entries

\* Two entries have one robot only if one of them is from before unique ids and the
\* robot has changed accounts (or is listed with white space) since:
\* async_set_unique_id refuses a second entry, however many flows discovered the robot,
\* on whichever accounts, before the first was created, and those of the flow's account are
\* left out by their serial numbers, with or without a unique id.  An entry without a
\* serial number, which follows the first robot of its account, is exempt.
OneEntryPerRobot ==
  \A d, e \in Present :
    /\ d # e
    /\ entry[d].serial # None /\ entry[d].serial = entry[e].serial
    => /\ entry[d].uniqueId = None \/ entry[e].uniqueId = None
       /\ entry[d].serial \in moved \cup Padded

\* README.md: Reconfigure refuses an account that does not list the robot "rather than
\* accepting credentials that could never work".  A setup fails for good only where the
\* robot has changed accounts, whatever flows stored credentials at once and however
\* the cloud failed.  A padded serial number is the exception: the flows strip it, and
\* _discover_device, which does not, never finds it.
FailsForGoodOnlyIfMoved ==
  \A e \in Entries : state[e] = "error" => entry[e].serial \in moved \cup Padded

\* What runs is what is stored: a loaded entry that no reload is due for was set up
\* with the stored credentials and options, however saves, reloads and setups overlap.
\* An option saved during a setup is the exception: nothing listens until its end.
SettledEntryIsCurrent ==
  \A e \in Entries : state[e] = "loaded" /\ e \notin reload =>
    \/ client[e] = Client(entry[e])
    \/ e \in missed /\ [client[e] EXCEPT !.include = ~@] = Client(entry[e])

\* The buttons a migration owes: of those with one command the first becomes the
\* robot's, if none is yet.
Owed(buttons) ==
  [i \in DOMAIN buttons |->
     IF \E j \in DOMAIN buttons : /\ buttons[j].cmd = buttons[i].cmd
                                  /\ j < i \/ buttons[j].by = "serial"
     THEN buttons[i] ELSE [buttons[i] EXCEPT !.by = "serial"]]

\* An entry of a former version is well formed, has its serial number or nothing for
\* a unique id, and no button left to migrate unless it is of version 1.
ASSUME OldEntriesAssumption ==
  /\ OldEntries \subseteq EntryRecords /\ None \notin EntryRecords \cup Clients
  /\ \A x \in OldEntries : x.uniqueId \in {None, x.serial}
  /\ \A x \in OldEntries : x.version > 1 /\ x.serial # None => Owed(x.buttons) = x.buttons

\* async_migrate_entry's docstring: a failed migration leaves the entry at its version
\* and is retried.  However often it failed, and after however many buttons, an entry
\* past version 1 has the buttons of one migration that did not fail.
MigrationsAgree ==
  \A e \in Present : entry[e].version > 1 =>
    entry[e].buttons = IF entry[e].serial = None THEN origin[e] ELSE Owed(origin[e])

\* CHANGELOG.md: an outage at the start is retried, a changed password asks for
\* reauth.  Once a reload is due and the stored credentials are right and stay so, the
\* entry comes up, however often the cloud fails on the way.
Right(e) ==
  Exists(e) /\ Accepted(entry[e]) /\ Finds(entry[e].username, entry[e].serial)
RightCredentialsComeUp ==
  \A e \in Entries :
    e \in reload ~> ~Right(e) \/ state[e] \in {"loaded", "failedUnload", "migrationError"}
=============================================================================
