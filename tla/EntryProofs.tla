----------------------------- MODULE EntryProofs -----------------------------
(***************************************************************************)
(* Proofs about Entry, for any robots, accounts and entries, and any       *)
(* number of flows, changes and restarts.                                  *)
(***************************************************************************)
EXTENDS Entry, TLAPS, FiniteSetTheorems

-----------------------------------------------------------------------------
(* Induction over the natural numbers.  A function that takes each number  *)
(* outside S to its predecessor would take a finite set into itself, one   *)
(* to one and yet not onto it.                                             *)

LEMMA Induction ==
  ASSUME NEW S, 0 \in S, \A n \in Nat : n \in S => n + 1 \in S
  PROVE  Nat \subseteq S
<1> SUFFICES ASSUME NEW m \in Nat, m \notin S PROVE FALSE
  OBVIOUS
<1> DEFINE A == {n \in 0..m : n \notin S}
           f == [n \in A |-> n - 1]
<1>1. \A n \in A : n - 1 \in A
  <2> SUFFICES ASSUME NEW n \in A PROVE n - 1 \in A
    OBVIOUS
  <2>1. n # 0 /\ n \in 0..m /\ n \notin S
    OBVIOUS
  <2>2. n - 1 \in Nat /\ (n - 1) + 1 = n
    BY <2>1
  <2> QED BY <2>1, <2>2
<1>2. IsFiniteSet(A)
  <2>1. IsFiniteSet(0..m)
    BY FS_Interval
  <2>2. A \in SUBSET (0..m)
    OBVIOUS
  <2> HIDE DEF A
  <2> QED BY <2>1, <2>2, FS_Subset
<1>3. f \in Injection(A, A)
  <2>1. f \in [A -> A]
    BY <1>1
  <2>2. \A a, b \in A : f[a] = f[b] => a = b
    OBVIOUS
  <2> QED BY <2>1, <2>2 DEF Injection, IsInjective
<1>4. f \in Surjection(A, A)
  <2> HIDE DEF A, f
  <2> QED BY <1>2, <1>3, FS_Injection
<1>5. PICK n \in A : f[n] = m
  <2>1. m \in A
    OBVIOUS
  <2> QED BY <1>4, <2>1 DEF Surjection
<1> QED BY <1>5

-----------------------------------------------------------------------------
(* Migration: rewriting the buttons one by one gives what is owed, from    *)
(* wherever a failed migration stopped.                                    *)

\* The loop of RewriteFirst is defined, whatever the buttons are.
LEMMA LoopExists ==
  ASSUME NEW buttons
  PROVE  \A k \in Nat : \E g : g = [i \in 0..k |-> IF i = 0 THEN buttons ELSE Rewrite(g[i - 1], i)]
<1> DEFINE Runs(g, k) == g = [i \in 0..k |-> IF i = 0 THEN buttons ELSE Rewrite(g[i - 1], i)]
           S == {k \in Nat : \E g : Runs(g, k)}
<1>1. 0 \in S
  <2> DEFINE g == [i \in 0..0 |-> buttons]
  <2>1. Runs(g, 0)
    OBVIOUS
  <2> QED BY <2>1
<1>2. ASSUME NEW k \in Nat, k \in S PROVE k + 1 \in S
  <2>1. PICK g : Runs(g, k)
    BY <1>2
  <2> DEFINE h == [i \in 0..(k + 1) |-> IF i = k + 1 THEN Rewrite(g[k], k + 1) ELSE g[i]]
  <2>2. ASSUME NEW i \in 0..(k + 1)
        PROVE  h[i] = IF i = 0 THEN buttons ELSE Rewrite(h[i - 1], i)
    <3>1. CASE i = k + 1
      BY <3>1
    <3>2. CASE i # k + 1
      BY <3>2, <2>1
    <3> QED BY <3>1, <3>2
  <2>3. Runs(h, k + 1)
    BY <2>2
  <2> HIDE DEF h
  <2>4. \E x : Runs(x, k + 1)
    BY <2>3
  <2> QED BY <2>4
<1> HIDE DEF S
<1>3. Nat \subseteq S
  BY <1>1, <1>2, Induction
<1> QED BY <1>3 DEF S

\* How the buttons are once the first k of them are rewritten: each earlier command
\* has a button with the robot's prefix.
Ready(buttons, k) ==
  \A i \in DOMAIN buttons : i < k =>
    \E j \in DOMAIN buttons : buttons[j].cmd = buttons[i].cmd /\ buttons[j].by = "serial"

\* A button that a migration leaves as it is.
Served(buttons, i) ==
  \E j \in DOMAIN buttons : /\ buttons[j].cmd = buttons[i].cmd
                            /\ j < i \/ buttons[j].by = "serial"

Prefixed(button) == [button EXCEPT !.by = "serial"]

LEMMA OwedDef ==
  ASSUME NEW buttons, NEW i \in DOMAIN buttons
  PROVE  Owed(buttons)[i] = IF Served(buttons, i) THEN buttons[i] ELSE Prefixed(buttons[i])
BY DEF Owed, Served, Prefixed

LEMMA PrefixedIsButton ==
  ASSUME NEW button \in Buttons
  PROVE  LET target == Prefixed(button) IN
         /\ target \in Buttons /\ target.by = "serial" /\ target.cmd = button.cmd
         /\ \A b \in Buttons : b = target <=> b.by = "serial" /\ b.cmd = button.cmd
<1> DEFINE target == Prefixed(button)
<1>1. target = [by |-> "serial", cmd |-> button.cmd]
  BY DEF Prefixed, Buttons
<1>2. \A b \in Buttons : b = [by |-> b.by, cmd |-> b.cmd]
  BY DEF Buttons
<1> HIDE DEF target
<1>3. target \in Buttons /\ target.by = "serial" /\ target.cmd = button.cmd
  BY <1>1 DEF Buttons
<1>4. \A b \in Buttons : b.by = "serial" /\ b.cmd = button.cmd => b = target
  BY <1>1, <1>2
<1> QED BY <1>3, <1>4 DEF target

\* Rewriting the next button changes nothing of what is owed.
LEMMA RewriteOwesTheSame ==
  ASSUME NEW buttons \in Seq(Buttons), NEW k \in Nat, k \in DOMAIN buttons, Ready(buttons, k)
  PROVE  LET next == Rewrite(buttons, k) IN
         /\ next \in Seq(Buttons) /\ Len(next) = Len(buttons)
         /\ Owed(next) = Owed(buttons)
         /\ Ready(next, k + 1)
<1> DEFINE target == Prefixed(buttons[k])
           next == Rewrite(buttons, k)
<1>1. /\ buttons \in [1..Len(buttons) -> Buttons] /\ Len(buttons) \in Nat
      /\ DOMAIN buttons = 1..Len(buttons)
  OBVIOUS
<1>2. /\ target \in Buttons /\ target.by = "serial" /\ target.cmd = buttons[k].cmd
      /\ \A b \in Buttons : b = target <=> b.by = "serial" /\ b.cmd = buttons[k].cmd
  <2>1. buttons[k] \in Buttons
    BY <1>1
  <2> QED BY <2>1, PrefixedIsButton
<1>3. CASE \E j \in DOMAIN buttons : buttons[j] = target
  <2>1. next = buttons
    BY <1>3 DEF Rewrite, Prefixed
  <2>2. Ready(buttons, k + 1)
    BY <1>1, <1>2, <1>3 DEF Ready
  <2> QED BY <2>1, <2>2
<1>4. CASE ~\E j \in DOMAIN buttons : buttons[j] = target
  <2>1. next = [buttons EXCEPT ![k] = target]
    BY <1>4 DEF Rewrite, Prefixed
  <2>2. next \in Seq(Buttons) /\ Len(next) = Len(buttons) /\ DOMAIN next = DOMAIN buttons
    BY <1>1, <1>2, <2>1
  <2>3. \A j \in DOMAIN buttons : ~(buttons[j].cmd = buttons[k].cmd /\ buttons[j].by = "serial")
    BY <1>1, <1>2, <1>4
  <2>4. \A j \in DOMAIN buttons : j < k => buttons[j].cmd # buttons[k].cmd
    BY <2>3 DEF Ready
  <2>5. \A i \in DOMAIN buttons : next[i] = IF i = k THEN target ELSE buttons[i]
    BY <1>1, <2>1
  <2> HIDE DEF next, target
  <2>6. ASSUME NEW i \in DOMAIN buttons PROVE Owed(next)[i] = Owed(buttons)[i]
    <3>1. i \in 1..Len(buttons) /\ k \in 1..Len(buttons)
      BY <1>1
    <3>2. CASE i = k
      <4>1. Served(next, i) /\ next[i] = target
        BY <1>2, <2>2, <2>5, <3>2 DEF Served
      <4>2. ASSUME NEW j \in DOMAIN buttons, buttons[j].cmd = buttons[k].cmd
            PROVE  ~(j < k) /\ buttons[j].by # "serial"
        BY <2>3, <2>4, <4>2
      <4>3. ~Served(buttons, i)
        BY <3>2, <4>2 DEF Served
      <4> QED BY <2>2, <3>2, <4>1, <4>3, OwedDef DEF target
    <3>3. CASE i # k
      <4>1. next[i] = buttons[i]
        BY <2>5, <3>3
      <4>2. CASE buttons[i].cmd = buttons[k].cmd
        <5>1. k < i
          BY <1>1, <2>4, <3>1, <3>3, <4>2
        <5>2. Served(next, i) /\ Served(buttons, i)
          BY <1>2, <2>2, <2>5, <4>1, <4>2, <5>1 DEF Served
        <5> QED BY <2>2, <4>1, <5>2, OwedDef
      <4>3. CASE buttons[i].cmd # buttons[k].cmd
        <5>1. Served(next, i) <=> Served(buttons, i)
          BY <1>2, <2>2, <2>5, <4>1, <4>3 DEF Served
        <5> QED BY <2>2, <4>1, <5>1, OwedDef
      <4> QED BY <4>2, <4>3
    <3> QED BY <3>2, <3>3
  <2>7. Owed(next) = Owed(buttons)
    BY <2>2, <2>6 DEF Owed
  <2>8. Ready(next, k + 1)
    <3> SUFFICES ASSUME NEW i \in DOMAIN next, i < k + 1
                 PROVE  \E j \in DOMAIN next : next[j].cmd = next[i].cmd /\ next[j].by = "serial"
      BY DEF Ready
    <3>1. CASE i = k
      BY <1>2, <2>2, <2>5, <3>1
    <3>2. CASE i # k
      <4>1. i < k
        BY <1>1, <2>2, <3>2
      <4>2. PICK j \in DOMAIN buttons : buttons[j].cmd = buttons[i].cmd /\ buttons[j].by = "serial"
        BY <2>2, <4>1 DEF Ready
      <4> QED BY <1>2, <2>2, <2>5, <4>2, <3>2
    <3> QED BY <3>1, <3>2
  <2> QED BY <2>2, <2>7, <2>8 DEF next
<1> QED BY <1>3, <1>4

\* However far a migration gets, it owes what it owed; at the end it owes nothing.
LEMMA MigrationPaysWhatIsOwed ==
  ASSUME NEW buttons \in Seq(Buttons), NEW k \in 0..Len(buttons)
  PROVE  LET done == RewriteFirst(buttons, k) IN
         /\ done \in Seq(Buttons)
         /\ Owed(done) = Owed(buttons)
         /\ k = Len(buttons) => done = Owed(buttons)
<1> DEFINE Runs(g) == g = [i \in 0..k |-> IF i = 0 THEN buttons ELSE Rewrite(g[i - 1], i)]
           loop == CHOOSE g : Runs(g)
           Good(x, i) == /\ x \in Seq(Buttons) /\ Len(x) = Len(buttons)
                         /\ Owed(x) = Owed(buttons) /\ Ready(x, i + 1)
           S == {i \in Nat : i <= k => Good(loop[i], i)}
<1>1. Len(buttons) \in Nat /\ k \in Nat
  OBVIOUS
<1>2. Runs(loop)
  <2>1. \E g : Runs(g)
    BY <1>1, LoopExists
  <2> QED BY <2>1
<1>3. RewriteFirst(buttons, k) = loop[k]
  BY DEF RewriteFirst
<1> HIDE DEF loop
<1>4. \A i \in 0..k : loop[i] = IF i = 0 THEN buttons ELSE Rewrite(loop[i - 1], i)
  BY <1>2
<1>5. 0 \in S
  <2>1. loop[0] = buttons
    BY <1>1, <1>4
  <2>2. Ready(buttons, 1)
    BY DEF Ready
  <2> QED BY <2>1, <2>2
<1>6. ASSUME NEW i \in Nat, i \in S PROVE i + 1 \in S
  <2> SUFFICES ASSUME i + 1 <= k PROVE Good(loop[i + 1], i + 1)
    BY <1>1
  <2>1. Good(loop[i], i)
    BY <1>1, <1>6
  <2>2. loop[i + 1] = Rewrite(loop[i], i + 1)
    BY <1>1, <1>4
  <2>3. i + 1 \in DOMAIN loop[i]
    BY <1>1, <2>1
  <2> QED BY <2>1, <2>2, <2>3, RewriteOwesTheSame
<1> HIDE DEF S
<1>7. Good(loop[k], k)
  <2>1. k \in S
    BY <1>1, <1>5, <1>6, Induction
  <2> QED BY <2>1, <1>1 DEF S
<1>8. ASSUME k = Len(buttons) PROVE Owed(loop[k]) = loop[k]
  <2>1. /\ DOMAIN loop[k] = 1..Len(buttons)
        /\ loop[k] = [i \in 1..Len(buttons) |-> loop[k][i]]
    BY <1>7
  <2>2. ASSUME NEW i \in DOMAIN loop[k] PROVE Owed(loop[k])[i] = loop[k][i]
    <3>1. i < k + 1
      BY <1>1, <1>8, <2>1
    <3>2. Served(loop[k], i)
      BY <1>7, <3>1 DEF Ready, Served
    <3> QED BY <3>2, OwedDef
  <2>3. Owed(loop[k]) = [i \in DOMAIN loop[k] |-> Owed(loop[k])[i]]
    BY DEF Owed
  <2> QED BY <2>1, <2>2, <2>3
<1> QED BY <1>3, <1>7, <1>8

LEMMA MigrateKeeps ==
  ASSUME NEW x \in EntryRecords
  PROVE  /\ Migrate(x) \in EntryRecords /\ Client(Migrate(x)) = Client(x)
         /\ Migrate(x).serial = x.serial /\ Migrate(x).uniqueId = x.uniqueId
         /\ Migrate(x).username = x.username /\ Migrate(x).version = 3
         /\ Migrate(x).buttons = IF x.version = 1 /\ x.serial # None
                                 THEN Owed(x.buttons) ELSE x.buttons
<1>1. x.buttons \in Seq(Buttons) /\ Len(x.buttons) \in 0..Len(x.buttons)
  BY DEF EntryRecords
<1>2. /\ RewriteFirst(x.buttons, Len(x.buttons)) \in Seq(Buttons)
      /\ RewriteFirst(x.buttons, Len(x.buttons)) = Owed(x.buttons)
  BY <1>1, MigrationPaysWhatIsOwed
<1> DEFINE buttons == IF x.version = 1 /\ x.serial # None THEN Owed(x.buttons) ELSE x.buttons
<1>3. Migrate(x) = [x EXCEPT !.version = 3, !.buttons = buttons]
  BY <1>2 DEF Migrate
<1>4. buttons \in Seq(Buttons)
  BY <1>1, <1>2
<1> HIDE DEF buttons
<1>5. /\ Migrate(x) \in EntryRecords /\ Migrate(x).buttons = buttons
      /\ Migrate(x).serial = x.serial /\ Migrate(x).uniqueId = x.uniqueId
      /\ Migrate(x).username = x.username /\ Migrate(x).version = 3
      /\ Migrate(x).password = x.password /\ Migrate(x).include = x.include
  <2> DEFINE y == [x EXCEPT !.version = 3]
  <2>1. /\ y \in EntryRecords /\ y.buttons = x.buttons /\ y.version = 3
        /\ y.serial = x.serial /\ y.uniqueId = x.uniqueId /\ y.username = x.username
        /\ y.password = x.password /\ y.include = x.include
    BY DEF EntryRecords
  <2>2. Migrate(x) = [y EXCEPT !.buttons = buttons]
    BY <1>3
  <2> HIDE DEF y
  <2> QED BY <1>4, <2>1, <2>2 DEF EntryRecords
<1> QED BY <1>5 DEF Client, buttons

LEMMA MigrateFailsKeeps ==
  ASSUME NEW x \in EntryRecords, NEW y \in MigrateFails(x)
  PROVE  /\ y \in EntryRecords
         /\ y.serial = x.serial /\ y.uniqueId = x.uniqueId /\ y.username = x.username
         /\ Client(y) = Client(x)
         /\ x.serial = None => y.buttons = x.buttons
         /\ x.serial # None =>
              /\ Owed(y.buttons) = Owed(x.buttons)
              /\ y.version > 1 => y.buttons = IF x.version = 1 THEN Owed(x.buttons) ELSE x.buttons
<1>1. x.buttons \in Seq(Buttons) /\ Len(x.buttons) \in 0..Len(x.buttons)
  BY DEF EntryRecords
<1>2. CASE x.version = 1 /\ x.serial # None
           /\ \E k \in 0..Len(x.buttons) : y = [x EXCEPT !.buttons = RewriteFirst(@, k)]
  <2>1. PICK k \in 0..Len(x.buttons) : y = [x EXCEPT !.buttons = RewriteFirst(x.buttons, k)]
    BY <1>2
  <2>2. /\ RewriteFirst(x.buttons, k) \in Seq(Buttons)
        /\ Owed(RewriteFirst(x.buttons, k)) = Owed(x.buttons)
    BY <1>1, MigrationPaysWhatIsOwed
  <2> QED BY <1>2, <2>1, <2>2 DEF EntryRecords, Client
<1>3. CASE y = [Migrate(x) EXCEPT !.version = 2]
  <2>1. /\ Migrate(x) \in EntryRecords /\ Client(Migrate(x)) = Client(x)
        /\ Migrate(x).serial = x.serial /\ Migrate(x).uniqueId = x.uniqueId
        /\ Migrate(x).username = x.username
        /\ Migrate(x).buttons = IF x.version = 1 /\ x.serial # None
                                THEN Owed(x.buttons) ELSE x.buttons
    BY MigrateKeeps
  <2>2. /\ y \in EntryRecords /\ Client(y) = Client(Migrate(x))
        /\ y.serial = Migrate(x).serial /\ y.uniqueId = Migrate(x).uniqueId
        /\ y.username = Migrate(x).username /\ y.buttons = Migrate(x).buttons
    BY <1>3, <2>1 DEF EntryRecords, Client
  <2>3. Owed(Owed(x.buttons)) = Owed(x.buttons)
    BY <1>1, MigrationPaysWhatIsOwed
  <2>4. CASE x.version = 1 /\ x.serial # None
    BY <2>1, <2>2, <2>3, <2>4
  <2>5. CASE ~(x.version = 1 /\ x.serial # None)
    BY <2>1, <2>2, <2>5
  <2> QED BY <2>4, <2>5
<1> QED BY <1>2, <1>3 DEF MigrateFails

-----------------------------------------------------------------------------
(* The inductive invariant.                                                *)

\* Each change of a password counts.
PasswordsCount == \A a \in Accounts : password[a][2] <= 1 + changes

\* A reauth or reconfigure flow has its entry; a flow that has submitted its form has
\* credentials.
Sound(x) ==
  /\ x.kind # "user" => x.entry \in Present
  /\ x.step \in {"discovering", "selecting"} => x.username \in Accounts /\ x.password \in Passwords
FlowsAreSound == \A f \in FlowIds : Sound(flow[f])

TypeInv == TypeOK /\ PasswordsCount /\ FlowsAreSound

\* The robot is listed on the account, or has changed accounts.
Owns(account, r) == r = None \/ r \in moved \/ owner[r] = account

\* So it is for the account that an entry stores, the one its client uses, and
\* the one of a flow that offers robots.
AccountsOwn ==
  /\ \A e \in Present :
       /\ Owns(entry[e].username, entry[e].serial)
       /\ client[e] # None => Owns(client[e].username, entry[e].serial)
  /\ \A f \in FlowIds : flow[f].step = "selecting" =>
       \A r \in flow[f].devices : Owns(flow[f].username, r)

\* From its start, a setup uses what is stored, but for an option it missed or a
\* change that a reload is due for.
Current(e) ==
  \/ client[e] = Client(entry[e])
  \/ e \in missed /\ [client[e] EXCEPT !.include = ~@] = Client(entry[e])
SetupsAreCurrent ==
  \A e \in Entries : state[e] \in {"settingUp", "loaded"} /\ e \notin reload => Current(e)

\* However far migrations got, an entry owes its buttons what it always owed.
ButtonsAreOwed ==
  \A e \in Entries :
    /\ entry[e] = None => origin[e] = <<>>
    /\ entry[e] # None =>
         IF entry[e].serial = None THEN entry[e].buttons = origin[e]
         ELSE /\ Owed(entry[e].buttons) = Owed(origin[e])
              /\ entry[e].version > 1 => entry[e].buttons = Owed(origin[e])

\* An entry's unique id, if it has one, is its serial number.
IdsAreSerials == \A e \in Present : entry[e].uniqueId \in {None, entry[e].serial}

\* A robot whose entry has no unique id is left out by the flows of the account it is
\* listed on, by its serial number, unless it has moved or is padded.
LeftOut(e, f) ==
  LET r == entry[e].serial IN
  entry[e].uniqueId = None /\ r # None /\ r \notin moved \cup Padded =>
    /\ /\ flow[f].kind = "user" /\ flow[f].step = "discovering" /\ flow[f].username = owner[r]
       => r \in flow[f].known
    /\ flow[f].step = "selecting" => r \notin flow[f].devices
OldAreLeftOut == \A e \in Present, f \in FlowIds : LeftOut(e, f)

IInv ==
  /\ TypeInv /\ OneEntryPerRobot /\ AccountsOwn /\ IdsAreSerials /\ OldAreLeftOut
  /\ FailsForGoodOnlyIfMoved /\ SetupsAreCurrent /\ ButtonsAreOwed

-----------------------------------------------------------------------------
(* Types.                                                                  *)

USE DEF cloudVars, counters, history

LEMMA NoFlowIsFlow == NoFlow \in FlowRecords
BY DEF NoFlow, FlowRecords, Steps

\* An entry that is changed stays present, and so do all others.
LEMMA EntryReplaced ==
  ASSUME TypeOK, NEW e \in Entries, Exists(e), NEW x \in EntryRecords,
         entry' = [entry EXCEPT ![e] = x]
  PROVE  /\ entry' \in [Entries -> EntryRecords \cup {None}]
         /\ \A d \in Entries : (entry'[d] = None) = (entry[d] = None)
         /\ Present' = Present
BY OldEntriesAssumption DEF TypeOK, Present, Exists

\* An account is taken from a form.
LEMMA CredentialsAreTyped ==
  ASSUME TypeInv, NEW f \in FlowIds, flow[f].step \in {"discovering", "selecting"}
  PROVE  flow[f].username \in Accounts /\ flow[f].password \in Passwords
BY DEF TypeInv, FlowsAreSound, Sound

LEMMA InitType == Init => TypeInv
<1> SUFFICES ASSUME Init PROVE TypeInv
  OBVIOUS
<1>1. entry \in [Entries -> EntryRecords \cup {None}]
  BY OldEntriesAssumption DEF Init
<1>2. flow \in [FlowIds -> FlowRecords] /\ \A f \in FlowIds : flow[f] = NoFlow
  BY NoFlowIsFlow DEF Init
<1>3. password \in [Accounts -> Passwords] /\ PasswordsCount
  BY EntryAssumption DEF Init, Passwords, PasswordsCount, EntryAssumption
<1>4. owner \in [Robots -> Accounts]
  BY EntryAssumption DEF Init, EntryAssumption
<1>5. state \in [Entries -> States] /\ client \in [Entries -> Clients \cup {None}]
  BY DEF Init, States
<1>6. \A e \in Entries :
        /\ (state[e] = "none") = (entry[e] = None)
        /\ (client[e] = None) = (state[e] \notin {"settingUp", "loaded", "failedUnload"})
  BY DEF Init, Exists
<1>7. changes \in 0..MaxChanges /\ started \in 0..MaxFlows /\ restarts \in 0..MaxRestarts
  BY EntryAssumption DEF Init, EntryAssumption
<1>8. moved \subseteq Robots /\ missed \subseteq Entries /\ reload \subseteq Present
  BY DEF Init
<1>9. FlowsAreSound
  BY <1>2 DEF FlowsAreSound, Sound, NoFlow
<1> QED BY <1>1, <1>2, <1>3, <1>4, <1>5, <1>6, <1>7, <1>8, <1>9 DEF TypeInv, TypeOK

\* Steps that change neither entries nor flows nor what the cloud knows.
LEMMA SetupStepType ==
  ASSUME TypeInv, NEW e \in Entries,
         \/ SetupSucceeds(e) \/ SetupFindsNoDevice(e) \/ SetupFails(e) \/ Reload(e) \/ UnloadFails(e)
  PROVE  TypeInv'
<1>1. /\ UNCHANGED <<owner, password, changes, entry, started, restarts, origin, moved, missed, flow>>
      /\ reload' \subseteq reload
  BY DEF SetupSucceeds, SetupFindsNoDevice, SetupFails, Reload, UnloadFails, SetupEnds
<1>2. /\ state' \in [Entries -> States] /\ client' \in [Entries -> Clients \cup {None}]
      /\ \A d \in Entries :
           /\ (state'[d] = "none") = (entry[d] = None)
           /\ (client'[d] = None) = (state'[d] \notin {"settingUp", "loaded", "failedUnload"})
  <2>1. CASE \E outcome \in {"loaded", "retry", "error"} : SetupEnds(e, outcome)
    BY <2>1 DEF SetupEnds, TypeInv, TypeOK, States
  <2>2. CASE Reload(e)
    BY <2>2 DEF Reload, TypeInv, TypeOK, States, Present, Exists
  <2>3. CASE UnloadFails(e)
    BY <2>3 DEF UnloadFails, TypeInv, TypeOK, States
  <2> QED BY <2>1, <2>2, <2>3 DEF SetupSucceeds, SetupFindsNoDevice, SetupFails
<1> QED
  BY <1>1, <1>2 DEF TypeInv, TypeOK, PasswordsCount, FlowsAreSound, Sound, Present, Exists

\* One flow becomes x, a sound one.
LEMMA FlowReplaced ==
  ASSUME TypeInv, NEW f \in FlowIds, NEW x \in FlowRecords, Sound(x),
         flow' = [flow EXCEPT ![f] = x], Present \subseteq Present'
  PROVE  flow' \in [FlowIds -> FlowRecords] /\ FlowsAreSound'
<1>1. flow' \in [FlowIds -> FlowRecords]
  BY DEF TypeInv, TypeOK
<1>2. ASSUME NEW g \in FlowIds PROVE Sound(flow[g])'
  <2>1. flow'[g] \in {x, flow[g]}
    BY DEF TypeInv, TypeOK
  <2> QED BY <2>1 DEF TypeInv, FlowsAreSound, Sound
<1> QED BY <1>1, <1>2 DEF FlowsAreSound

\* What only flows change.
LEMMA FlowStepType ==
  ASSUME TypeInv, flow' \in [FlowIds -> FlowRecords], FlowsAreSound', started' \in 0..MaxFlows,
         UNCHANGED <<cloudVars, entry, state, client, reload, restarts, history>>
  PROVE  TypeInv'
BY DEF TypeInv, TypeOK, PasswordsCount, Present, Exists

LEMMA AskReauthType ==
  ASSUME TypeInv, NEW e \in Present, AskReauth(e), Present' = Present
  PROVE  flow' \in [FlowIds -> FlowRecords] /\ FlowsAreSound'
<1> DEFINE x == [NoFlow EXCEPT !.kind = "reauth", !.step = "form", !.entry = e]
<1>1. x \in FlowRecords /\ x.kind = "reauth" /\ x.entry = e /\ x.step = "form"
  BY DEF NoFlow, FlowRecords, Steps, Present
<1>2. Sound(x)
  BY <1>1 DEF Sound
<1>3. e \in FlowIds
  BY DEF FlowIds, Present
<1>4. CASE flow' = flow
  BY <1>4 DEF TypeInv, TypeOK, FlowsAreSound, Sound
<1>5. CASE flow' = [flow EXCEPT ![e] = x]
  <2> HIDE DEF x
  <2> QED BY <1>1, <1>2, <1>3, <1>5, FlowReplaced
<1> QED BY <1>4, <1>5 DEF AskReauth

LEMMA CloseType ==
  ASSUME TypeInv, NEW f \in FlowIds, Close(f), Present \subseteq Present'
  PROVE  flow' \in [FlowIds -> FlowRecords] /\ FlowsAreSound'
<1>1. Sound(NoFlow)
  BY DEF Sound, NoFlow
<1> QED BY <1>1, NoFlowIsFlow, FlowReplaced DEF Close

\* A flow goes on to a step and keeps all else.
LEMMA FlowStepsType ==
  ASSUME TypeInv, NEW f \in FlowIds, NEW step \in {"form", "reloading"},
         flow' = [flow EXCEPT ![f].step = step], Present' = Present
  PROVE  flow' \in [FlowIds -> FlowRecords] /\ FlowsAreSound'
<1> DEFINE x == [flow[f] EXCEPT !.step = step]
<1>1. x \in FlowRecords /\ x.kind = flow[f].kind /\ x.entry = flow[f].entry /\ x.step = step
  BY DEF TypeInv, TypeOK, FlowRecords, Steps
<1>2. Sound(x)
  BY <1>1 DEF Sound, TypeInv, FlowsAreSound
<1>3. flow' = [flow EXCEPT ![f] = x]
  OBVIOUS
<1> HIDE DEF x
<1> QED BY <1>1, <1>2, <1>3, FlowReplaced

LEMMA SubmitType ==
  ASSUME TypeInv, NEW f \in FlowIds, NEW account \in Accounts, Submit(f, account)
  PROVE  TypeInv'
<1> DEFINE known == IF flow[f].kind # "user" THEN {}
                    ELSE {entry[e].serial : e \in {y \in Present : entry[y].username = account}} \ {None}
           x == [flow[f] EXCEPT !.step = "discovering", !.username = account,
                                !.password = password[account], !.known = known]
<1>1. known \in SUBSET Robots
  BY DEF TypeInv, TypeOK, Present, Exists, EntryRecords
<1>2. password[account] \in Passwords
  BY DEF TypeInv, TypeOK
<1>3. flow' = [flow EXCEPT ![f] = x]
  BY DEF Submit
<1>4. flow[f] \in FlowRecords /\ Sound(flow[f])
  BY DEF TypeInv, TypeOK, FlowsAreSound
<1>5. x \in FlowRecords /\ Sound(x)
  <2> HIDE DEF known
  <2> DEFINE y == [flow[f] EXCEPT !.step = "discovering"]
             z == [y EXCEPT !.username = account]
             w == [z EXCEPT !.password = password[account]]
  <2>1. y \in FlowRecords /\ y.kind = flow[f].kind /\ y.entry = flow[f].entry /\ y.step = "discovering"
    BY <1>4 DEF FlowRecords, Steps
  <2> HIDE DEF y
  <2>2. /\ z \in FlowRecords /\ z.kind = y.kind /\ z.entry = y.entry /\ z.step = y.step
        /\ z.username = account
    BY <2>1 DEF FlowRecords
  <2> HIDE DEF z
  <2>3. /\ w \in FlowRecords /\ w.kind = z.kind /\ w.entry = z.entry /\ w.step = z.step
        /\ w.username = account /\ w.password = password[account]
    BY <1>2, <2>2 DEF FlowRecords
  <2> HIDE DEF w
  <2>4. x = [w EXCEPT !.known = known]
    BY DEF w, z, y
  <2> HIDE DEF x
  <2>5. /\ x \in FlowRecords /\ x.kind = w.kind /\ x.entry = w.entry /\ x.step = w.step
        /\ x.username = w.username /\ x.password = w.password
    BY <1>1, <2>3, <2>4 DEF FlowRecords
  <2> QED BY <1>2, <1>4, <2>1, <2>2, <2>3, <2>5 DEF Sound
<1>6. UNCHANGED <<cloudVars, entry, state, client, reload, counters, history>>
  BY DEF Submit
<1>7. Present' = Present
  BY <1>6 DEF Present, Exists
<1> HIDE DEF x
<1>8. flow' \in [FlowIds -> FlowRecords] /\ FlowsAreSound'
  BY <1>3, <1>5, <1>7, FlowReplaced
<1> QED BY <1>6, <1>8, FlowStepType DEF TypeInv, TypeOK

LEMMA UserStartsType ==
  ASSUME TypeInv, NEW f \in Flows, NEW kind \in {"user", "reconfigure"}, NEW e \in Present \cup {None},
         kind # "user" => e \in Present, UserStarts(f, kind, e)
  PROVE  TypeInv'
<1> DEFINE x == [NoFlow EXCEPT !.kind = kind, !.step = "form", !.entry = e]
<1>1. x \in FlowRecords /\ x.kind = kind /\ x.entry = e /\ x.step = "form"
  BY DEF NoFlow, FlowRecords, Steps, Present
<1>2. Sound(x)
  BY <1>1 DEF Sound
<1>3. /\ flow' = [flow EXCEPT ![f] = x] /\ started' = started + 1 /\ started < MaxFlows
      /\ UNCHANGED <<cloudVars, entry, state, client, reload, restarts, history>>
  BY DEF UserStarts
<1>4. Present' = Present /\ f \in FlowIds
  BY <1>3 DEF Present, Exists, FlowIds
<1> HIDE DEF x
<1>5. flow' \in [FlowIds -> FlowRecords] /\ FlowsAreSound'
  BY <1>1, <1>2, <1>3, <1>4, FlowReplaced
<1>6. started' \in 0..MaxFlows
  BY <1>3, EntryAssumption DEF TypeInv, TypeOK, EntryAssumption
<1> QED BY <1>3, <1>5, <1>6, FlowStepType

\* Flows that only go on or close.
LEMMA FlowEndType ==
  ASSUME TypeInv, NEW f \in FlowIds,
         DiscoveryFails(f) \/ WrongAccount(f) \/ ReauthEnds(f) \/ ReconfigureAborts(f) \/ UserLeaves(f)
  PROVE  TypeInv'
<1>1. UNCHANGED <<cloudVars, entry, state, client, reload, counters, history>>
  BY DEF DiscoveryFails, WrongAccount, ReauthEnds, ReconfigureAborts, UserLeaves
<1>2. Present' = Present
  BY <1>1 DEF Present, Exists
<1>3. flow' = [flow EXCEPT ![f].step = "form"] \/ Close(f)
  BY DEF DiscoveryFails, WrongAccount, ReauthEnds, ReconfigureAborts, UserLeaves
<1>4. flow' \in [FlowIds -> FlowRecords] /\ FlowsAreSound'
  BY <1>2, <1>3, FlowStepsType, CloseType
<1> QED BY <1>1, <1>4, FlowStepType DEF TypeInv, TypeOK

\* A migration, whether it succeeds or not.
LEMMA MigrationType ==
  ASSUME TypeInv, NEW e \in Entries, SetupBegins(e) \/ MigrationFails(e)
  PROVE  TypeInv'
<1>1. entry[e] \in EntryRecords /\ Exists(e)
  BY DEF SetupBegins, MigrationFails, TypeInv, TypeOK, Exists
<1>2. PICK x \in EntryRecords : entry' = [entry EXCEPT ![e] = x]
  BY <1>1, MigrateKeeps, MigrateFailsKeeps DEF SetupBegins, MigrationFails
<1>3. /\ entry' \in [Entries -> EntryRecords \cup {None}]
      /\ \A d \in Entries : (entry'[d] = None) = (entry[d] = None)
      /\ Present' = Present
  BY <1>1, <1>2, EntryReplaced DEF TypeInv
<1>4. Client(entry[e]) \in Clients /\ Client(entry[e]) # None
  BY <1>1, OldEntriesAssumption DEF Client, Clients, EntryRecords
<1>5. /\ state' \in [Entries -> States] /\ client' \in [Entries -> Clients \cup {None}]
      /\ \A d \in Entries :
           /\ (state'[d] = "none") = (entry[d] = None)
           /\ (client'[d] = None) = (state'[d] \notin {"settingUp", "loaded", "failedUnload"})
  BY <1>4 DEF SetupBegins, MigrationFails, TypeInv, TypeOK, States
<1>6. UNCHANGED <<cloudVars, reload, flow, counters, origin, moved>> /\ missed' \subseteq missed
  BY DEF SetupBegins, MigrationFails
<1> QED
  BY <1>3, <1>5, <1>6 DEF TypeInv, TypeOK, PasswordsCount, FlowsAreSound, Sound

\* A refused setup or poll asks for reauth.
LEMMA RefusedType ==
  ASSUME TypeInv, NEW e \in Entries, SetupRefused(e) \/ PollRefused(e)
  PROVE  TypeInv'
<1>1. e \in Present /\ AskReauth(e)
  BY DEF SetupRefused, PollRefused, TypeInv, TypeOK, Present, Exists
<1>2. UNCHANGED <<cloudVars, entry, reload, counters, history>>
  BY DEF SetupRefused, PollRefused, SetupEnds
<1>3. Present' = Present
  BY <1>2 DEF Present, Exists
<1>4. flow' \in [FlowIds -> FlowRecords] /\ FlowsAreSound'
  BY <1>1, <1>3, AskReauthType
<1>5. /\ state' \in [Entries -> States] /\ client' \in [Entries -> Clients \cup {None}]
      /\ \A d \in Entries :
           /\ (state'[d] = "none") = (entry[d] = None)
           /\ (client'[d] = None) = (state'[d] \notin {"settingUp", "loaded", "failedUnload"})
  BY DEF SetupRefused, PollRefused, SetupEnds, TypeInv, TypeOK, States
<1> QED BY <1>2, <1>3, <1>4, <1>5 DEF TypeInv, TypeOK, PasswordsCount

\* An entry is stored anew; a reload of it may be due.
LEMMA StoredType ==
  ASSUME TypeInv, NEW e \in Present, NEW x \in EntryRecords,
         entry' = [entry EXCEPT ![e] = x], reload' \subseteq reload \cup {e},
         started' \in 0..MaxFlows, missed' \subseteq missed \cup {e},
         flow' \in [FlowIds -> FlowRecords], Present' = Present => FlowsAreSound',
         UNCHANGED <<cloudVars, state, client, restarts, origin, moved>>
  PROVE  TypeInv'
<1>1. /\ entry' \in [Entries -> EntryRecords \cup {None}]
      /\ \A d \in Entries : (entry'[d] = None) = (entry[d] = None)
      /\ Present' = Present
  BY EntryReplaced DEF TypeInv, Present
<1> QED BY <1>1 DEF TypeInv, TypeOK, PasswordsCount, Present

\* The entry of a flow that is not the user's, and what it stores.
LEMMA AcceptedType ==
  ASSUME TypeInv, NEW f \in FlowIds, ReauthAccepted(f) \/ ReconfigureAccepted(f)
  PROVE  TypeInv'
<1> DEFINE e == flow[f].entry
           r == [entry[e] EXCEPT !.password = flow[f].password]
           c == [entry[e] EXCEPT !.username = flow[f].username, !.password = flow[f].password]
<1>1. e \in Present /\ entry[e] \in EntryRecords
  BY DEF ReauthAccepted, ReconfigureAccepted, TypeInv, TypeOK, FlowsAreSound, Sound, Present, Exists
<1>2. flow[f].username \in Accounts /\ flow[f].password \in Passwords
  BY CredentialsAreTyped DEF ReauthAccepted, ReconfigureAccepted, Discovers
<1>3. r \in EntryRecords
  BY <1>1, <1>2 DEF EntryRecords
<1>4. c \in EntryRecords
  <2> DEFINE y == [entry[e] EXCEPT !.username = flow[f].username]
  <2>1. y \in EntryRecords
    BY <1>1, <1>2 DEF EntryRecords
  <2>2. c = [y EXCEPT !.password = flow[f].password]
    OBVIOUS
  <2> HIDE DEF y, c
  <2> QED BY <1>2, <2>1, <2>2 DEF EntryRecords
<1>5. UNCHANGED <<cloudVars, state, client, counters, history>> /\ reload' = reload \cup {e}
  BY DEF ReauthAccepted, ReconfigureAccepted, Save
<1>6. entry' = [entry EXCEPT ![e] = r] \/ entry' = [entry EXCEPT ![e] = c]
  BY DEF ReauthAccepted, ReconfigureAccepted, Save
<1>7. flow' = [flow EXCEPT ![f].step = "reloading"] \/ Close(f)
  BY DEF ReauthAccepted, ReconfigureAccepted
<1> HIDE DEF e, r, c
<1>8. PICK x \in EntryRecords : entry' = [entry EXCEPT ![e] = x]
  BY <1>3, <1>4, <1>6
<1>9. Present' = Present
  BY <1>1, <1>8, EntryReplaced DEF TypeInv, Present
<1>10. flow' \in [FlowIds -> FlowRecords] /\ FlowsAreSound'
  BY <1>7, <1>9, FlowStepsType, CloseType
<1>11. started' \in 0..MaxFlows
  BY <1>5 DEF TypeInv, TypeOK
<1> QED BY <1>1, <1>5, <1>8, <1>10, <1>11, StoredType

LEMMA SaveOptionType ==
  ASSUME TypeInv, NEW e \in Entries, SaveOption(e)
  PROVE  TypeInv'
<1> DEFINE x == [entry[e] EXCEPT !.include = ~@]
<1>1. e \in Present /\ entry[e] \in EntryRecords
  BY DEF SaveOption, TypeInv, TypeOK, Present, Exists
<1>2. x \in EntryRecords
  BY <1>1 DEF EntryRecords
<1>3. entry' = [entry EXCEPT ![e] = x]
  BY DEF SaveOption
<1> HIDE DEF x
<1>4. started' \in 0..MaxFlows
  BY EntryAssumption DEF SaveOption, TypeInv, TypeOK, EntryAssumption
<1>5. /\ reload' \subseteq reload \cup {e} /\ missed' \subseteq missed \cup {e}
      /\ UNCHANGED <<cloudVars, state, client, flow, restarts, origin, moved>>
  BY DEF SaveOption
<1>6. flow' \in [FlowIds -> FlowRecords] /\ (Present' = Present => FlowsAreSound')
  BY <1>5 DEF TypeInv, TypeOK, FlowsAreSound, Sound
<1> QED BY <1>1, <1>2, <1>3, <1>4, <1>5, <1>6, StoredType

\* What becomes of the entries when a flow creates one.
LEMMA Created ==
  ASSUME TypeInv, NEW f \in FlowIds, flow[f].step \in {"discovering", "selecting"},
         NEW r \in Robots, CreateEntry(f, r)
  PROVE  \/ UNCHANGED <<entry, state>>
         \/ /\ ~Configured(f, r)
            /\ \E e \in Entries, x \in EntryRecords :
                 /\ entry[e] = None /\ entry' = [entry EXCEPT ![e] = x]
                 /\ state' = [state EXCEPT ![e] = "notLoaded"]
                 /\ x.uniqueId = r /\ x.serial = r /\ x.username = flow[f].username
                 /\ x.buttons = <<>>
<1> SUFFICES ASSUME ~Configured(f, r), ~UNCHANGED <<entry, state>>
             PROVE  \E e \in Entries, x \in EntryRecords :
                      /\ entry[e] = None /\ entry' = [entry EXCEPT ![e] = x]
                      /\ state' = [state EXCEPT ![e] = "notLoaded"]
                      /\ x.uniqueId = r /\ x.serial = r /\ x.username = flow[f].username
                      /\ x.buttons = <<>>
  BY DEF CreateEntry
<1> DEFINE x == [version |-> 3, uniqueId |-> r, serial |-> r, username |-> flow[f].username,
                 password |-> flow[f].password, include |-> FALSE, buttons |-> <<>>]
<1>1. Present # Entries /\ entry' = [entry EXCEPT ![CHOOSE y \in Entries \ Present : TRUE] = x]
      /\ state' = [state EXCEPT ![CHOOSE y \in Entries \ Present : TRUE] = "notLoaded"]
  BY DEF CreateEntry
<1>2. (CHOOSE y \in Entries \ Present : TRUE) \in Entries \ Present
  BY <1>1 DEF Present
<1>3. flow[f].username \in Accounts /\ flow[f].password \in Passwords
  BY CredentialsAreTyped
<1>4. <<>> \in Seq(Buttons)
  OBVIOUS
<1>5. x \in EntryRecords
  BY <1>3, <1>4 DEF EntryRecords
<1>6. x.uniqueId = r /\ x.serial = r /\ x.username = flow[f].username /\ x.buttons = <<>>
  OBVIOUS
<1> HIDE DEF x
<1>7. PICK d \in Entries \ Present : d = CHOOSE y \in Entries \ Present : TRUE
  BY <1>2
<1> QED BY <1>1, <1>5, <1>6, <1>7 DEF Present, Exists

LEMMA CreateType ==
  ASSUME TypeInv, NEW f \in FlowIds, flow[f].step \in {"discovering", "selecting"},
         NEW r \in Robots, CreateEntry(f, r),
         UNCHANGED <<cloudVars, client, reload, counters, history>>
  PROVE  TypeInv'
<1>1. CASE UNCHANGED <<entry, state>>
  <2>1. Present' = Present
    BY <1>1 DEF Present, Exists
  <2>2. flow' \in [FlowIds -> FlowRecords] /\ FlowsAreSound'
    BY <2>1, CloseType DEF CreateEntry
  <2> QED BY <1>1, <2>2, FlowStepType DEF TypeInv, TypeOK
<1>2. CASE ~UNCHANGED <<entry, state>>
  <2>1. PICK e \in Entries, x \in EntryRecords :
          /\ entry[e] = None /\ entry' = [entry EXCEPT ![e] = x]
          /\ state' = [state EXCEPT ![e] = "notLoaded"]
    BY <1>2, Created
  <2>2. x # None
    BY OldEntriesAssumption
  <2>3. /\ entry' \in [Entries -> EntryRecords \cup {None}]
        /\ \A d \in Entries : d # e => entry'[d] = entry[d]
        /\ entry'[e] = x
    BY <2>1 DEF TypeInv, TypeOK
  <2>4. Present \subseteq Present'
    BY <2>1, <2>3 DEF Present, Exists
  <2>5. flow' \in [FlowIds -> FlowRecords] /\ FlowsAreSound'
    BY <2>4, CloseType DEF CreateEntry
  <2>6. /\ state' \in [Entries -> States]
        /\ \A d \in Entries :
             /\ (state'[d] = "none") = (entry'[d] = None)
             /\ (client[d] = None) = (state'[d] \notin {"settingUp", "loaded", "failedUnload"})
    BY <2>1, <2>2, <2>3 DEF TypeInv, TypeOK, States
  <2> QED BY <2>3, <2>4, <2>5, <2>6 DEF TypeInv, TypeOK, PasswordsCount
<1> QED BY <1>1, <1>2

LEMMA UserDiscoversType ==
  ASSUME TypeInv, NEW f \in FlowIds, UserDiscovers(f)
  PROVE  TypeInv'
<1> DEFINE devices == Devices(flow[f].username) \ (flow[f].known \ Padded)
           x == [flow[f] EXCEPT !.step = "selecting", !.devices = devices]
<1>1. flow[f].step = "discovering" /\ UNCHANGED <<cloudVars, client, reload, counters, history>>
  BY DEF UserDiscovers, Discovers
<1>2. CASE \E r \in Robots : CreateEntry(f, r)
  BY <1>1, <1>2, CreateType
<1>3. CASE UNCHANGED <<entry, state>>
  <2>1. Present' = Present
    BY <1>3 DEF Present, Exists
  <2>2. \/ Close(f) \/ flow' = [flow EXCEPT ![f].step = "form"]
        \/ flow' = [flow EXCEPT ![f] = x]
        \/ \E r \in Robots : CreateEntry(f, r)
    BY DEF UserDiscovers
  <2>3. devices \in SUBSET Robots
    BY DEF Devices
  <2>4. x \in FlowRecords /\ Sound(x)
    <3> DEFINE y == [flow[f] EXCEPT !.step = "selecting"]
    <3>1. flow[f] \in FlowRecords /\ Sound(flow[f])
      BY DEF TypeInv, TypeOK, FlowsAreSound
    <3>2. /\ y \in FlowRecords /\ y.kind = flow[f].kind /\ y.entry = flow[f].entry
          /\ y.username = flow[f].username /\ y.password = flow[f].password /\ y.step = "selecting"
      BY <3>1 DEF FlowRecords, Steps
    <3>3. x = [y EXCEPT !.devices = devices]
      OBVIOUS
    <3> HIDE DEF y, x, devices
    <3>4. /\ x \in FlowRecords /\ x.kind = y.kind /\ x.entry = y.entry
          /\ x.username = y.username /\ x.password = y.password /\ x.step = y.step
      BY <2>3, <3>2, <3>3 DEF FlowRecords
    <3> QED BY <1>1, <3>1, <3>2, <3>4 DEF Sound
  <2> HIDE DEF x
  <2>5. flow' \in [FlowIds -> FlowRecords] /\ FlowsAreSound'
    BY <2>1, <2>2, <2>4, FlowReplaced, FlowStepsType, CloseType DEF CreateEntry
  <2> QED BY <1>1, <1>3, <2>5, FlowStepType DEF TypeInv, TypeOK
<1> QED BY <1>2, <1>3 DEF UserDiscovers

LEMMA UserSelectsType ==
  ASSUME TypeInv, NEW f \in FlowIds, NEW r \in Robots, UserSelects(f, r)
  PROVE  TypeInv'
BY CreateType DEF UserSelects, Is

LEMMA CloudType ==
  ASSUME TypeInv, NEW a \in Accounts, PasswordChanges(a) \/ \E r \in Robots : RobotMoves(r, a)
  PROVE  TypeInv'
<1>1. /\ changes < MaxChanges /\ changes' = changes + 1
      /\ UNCHANGED <<entry, state, client, reload, flow, counters, origin, missed>>
  BY DEF PasswordChanges, RobotMoves
<1>2. changes' \in 0..MaxChanges /\ changes \in 0..MaxChanges /\ MaxChanges \in Nat
  BY <1>1, EntryAssumption DEF TypeInv, TypeOK, EntryAssumption
<1>3. owner' \in [Robots -> Accounts] /\ moved' \subseteq Robots
  BY DEF PasswordChanges, RobotMoves, TypeInv, TypeOK
<1>4. \A b \in Accounts : password[b] = <<password[b][1], password[b][2]>>
                          /\ password[b][1] \in Accounts /\ password[b][2] \in 1..(1 + MaxChanges)
  BY DEF TypeInv, TypeOK, Passwords
<1>5. password' \in [Accounts -> Passwords] /\ PasswordsCount'
  <2>1. CASE UNCHANGED password
    BY <1>1, <1>2, <1>4, <2>1 DEF TypeInv, TypeOK, PasswordsCount
  <2>2. CASE password' = [password EXCEPT ![a] = <<a, @[2] + 1>>]
    <3>1. password[a][2] + 1 \in 1..(1 + MaxChanges) /\ password[a][2] + 1 <= 1 + changes'
      BY <1>1, <1>2, <1>4 DEF TypeInv, PasswordsCount
    <3>2. <<a, password[a][2] + 1>> \in Passwords
      BY <3>1 DEF Passwords
    <3>3. \A b \in Accounts : password'[b] = IF b = a THEN <<a, password[a][2] + 1>> ELSE password[b]
      BY <2>2 DEF TypeInv, TypeOK
    <3>4. password' \in [Accounts -> Passwords]
      BY <2>2, <3>2 DEF TypeInv, TypeOK
    <3>5. ASSUME NEW b \in Accounts PROVE password'[b][2] <= 1 + changes'
      BY <1>1, <1>2, <1>4, <3>1, <3>3 DEF TypeInv, PasswordsCount
    <3> QED BY <3>4, <3>5 DEF PasswordsCount
  <2> QED BY <2>1, <2>2 DEF PasswordChanges, RobotMoves
<1> QED
  BY <1>1, <1>2, <1>3, <1>5 DEF TypeInv, TypeOK, FlowsAreSound, Sound, Present, Exists

LEMMA RestartType ==
  ASSUME TypeInv, Restart
  PROVE  TypeInv'
<1>1. /\ flow' \in [FlowIds -> FlowRecords]
      /\ \A f \in FlowIds : flow'[f] = NoFlow
  BY NoFlowIsFlow DEF Restart
<1>2. FlowsAreSound'
  BY <1>1 DEF FlowsAreSound, Sound, NoFlow
<1>3. restarts' \in 0..MaxRestarts
  BY EntryAssumption DEF Restart, TypeInv, TypeOK, EntryAssumption
<1>4. /\ state' \in [Entries -> States] /\ client' \in [Entries -> Clients \cup {None}]
      /\ \A e \in Entries :
           /\ (state'[e] = "none") = (entry[e] = None)
           /\ (client'[e] = None) = (state'[e] \notin {"settingUp", "loaded", "failedUnload"})
  BY DEF Restart, States, Exists
<1>5. /\ UNCHANGED <<cloudVars, entry, started, origin, moved>> /\ reload' = {} /\ missed' = {}
  BY DEF Restart
<1> QED BY <1>1, <1>2, <1>3, <1>4, <1>5 DEF TypeInv, TypeOK, PasswordsCount, Present, Exists

LEMMA NextType == TypeInv /\ [Next]_vars => TypeInv'
<1> SUFFICES ASSUME TypeInv, [Next]_vars PROVE TypeInv'
  OBVIOUS
<1>1. ASSUME NEW e \in Entries,
             \/ SetupStep(e) \/ SetupSucceeds(e) \/ MigrationFails(e) \/ SetupFails(e)
             \/ PollRefused(e) \/ UnloadFails(e) \/ SaveOption(e)
      PROVE  TypeInv'
  BY <1>1, SetupStepType, MigrationType, RefusedType, SaveOptionType DEF SetupStep
<1>2. ASSUME NEW f \in Flows,
             UserStarts(f, "user", None) \/ \E e \in Present : UserStarts(f, "reconfigure", e)
      PROVE  TypeInv'
  BY <1>2, UserStartsType
<1>3. ASSUME NEW f \in FlowIds,
             \/ \E a \in Accounts : Submit(f, a)
             \/ DiscoveryFails(f) \/ UserDiscovers(f) \/ WrongAccount(f) \/ ReauthAccepted(f)
             \/ ReauthEnds(f) \/ ReconfigureAccepted(f) \/ ReconfigureAborts(f) \/ UserLeaves(f)
             \/ \E r \in Robots : UserSelects(f, r)
      PROVE  TypeInv'
  BY <1>3, SubmitType, FlowEndType, UserDiscoversType, AcceptedType, UserSelectsType
<1>4. ASSUME NEW a \in Accounts, PasswordChanges(a) \/ \E r \in Robots : RobotMoves(r, a)
      PROVE  TypeInv'
  BY <1>4, CloudType
<1>5. CASE Restart
  BY <1>5, RestartType
<1>6. CASE UNCHANGED vars
  BY <1>6 DEF vars, TypeInv, TypeOK, PasswordsCount, FlowsAreSound, Sound, Present, Exists
<1> QED BY <1>1, <1>2, <1>3, <1>4, <1>5, <1>6 DEF Next

-----------------------------------------------------------------------------
(* What a step does to an entry, to its client and to a flow.              *)

Keeps(e) ==
  /\ (entry'[e] = None) = (entry[e] = None)
  /\ entry[e] # None =>
       /\ entry'[e].serial = entry[e].serial /\ entry'[e].uniqueId = entry[e].uniqueId
       /\ \/ entry'[e].username = entry[e].username
          \/ \E f \in FlowIds : flow[f].entry = e /\ ReconfigureAccepted(f)
       /\ \/ entry'[e].buttons = entry[e].buttons /\ entry'[e].version = entry[e].version
          \/ entry'[e] = Migrate(entry[e])
          \/ entry'[e] \in MigrateFails(entry[e])
       /\ Client(entry'[e]) = Client(entry[e]) \/ e \in reload' \/ SaveOption(e)

\* A flow offers the robots that its account lists and that are not left out.
Creates(f, r) ==
  /\ \/ /\ flow[f].kind = "user" /\ flow[f].step = "discovering"
        /\ r \in Devices(flow[f].username) \ (flow[f].known \ Padded)
     \/ flow[f].step = "selecting" /\ r \in flow[f].devices
  /\ CreateEntry(f, r)
  /\ UNCHANGED <<cloudVars, client, reload, counters, history>>

LEMMA EntryStep ==
  ASSUME TypeInv, [Next]_vars
  PROVE  \/ \A e \in Entries : Keeps(e)
         \/ \E f \in FlowIds, r \in Robots : Creates(f, r)
<1>1. CASE UNCHANGED entry
  BY <1>1 DEF Keeps
<1>2. ASSUME NEW d \in Entries, NEW x \in EntryRecords, entry[d] \in EntryRecords,
             entry' = [entry EXCEPT ![d] = x],
             x.serial = entry[d].serial, x.uniqueId = entry[d].uniqueId,
             \/ x.username = entry[d].username
             \/ \E f \in FlowIds : flow[f].entry = d /\ ReconfigureAccepted(f),
             \/ x.buttons = entry[d].buttons /\ x.version = entry[d].version
             \/ x = Migrate(entry[d]) \/ x \in MigrateFails(entry[d]),
             Client(x) = Client(entry[d]) \/ d \in reload' \/ SaveOption(d)
      PROVE  \A e \in Entries : Keeps(e)
  <2> TAKE e \in Entries
  <2>1. CASE e = d
    <3>1. entry'[e] = x /\ x # None /\ entry[e] # None
      BY <1>2, <2>1, OldEntriesAssumption DEF TypeInv, TypeOK
    <3> QED BY <1>2, <2>1, <3>1 DEF Keeps
  <2>2. CASE e # d
    <3>1. entry'[e] = entry[e]
      BY <1>2, <2>2 DEF TypeInv, TypeOK
    <3> QED BY <3>1 DEF Keeps
  <2> QED BY <2>1, <2>2
<1>3. \A e \in Entries : Exists(e) => entry[e] \in EntryRecords
  BY DEF TypeInv, TypeOK, Exists
<1>4. ASSUME NEW d \in Entries, SetupBegins(d) PROVE \A e \in Entries : Keeps(e)
  <2>1. entry[d] \in EntryRecords /\ entry' = [entry EXCEPT ![d] = Migrate(entry[d])]
    BY <1>3, <1>4 DEF SetupBegins, TypeInv, TypeOK, Exists
  <2> QED BY <1>2, <2>1, MigrateKeeps
<1>5. ASSUME NEW d \in Entries, MigrationFails(d) PROVE \A e \in Entries : Keeps(e)
  <2>1. entry[d] \in EntryRecords
    BY <1>3, <1>5 DEF MigrationFails, TypeInv, TypeOK, Exists
  <2>2. PICK x \in MigrateFails(entry[d]) : entry' = [entry EXCEPT ![d] = x]
    BY <1>5 DEF MigrationFails
  <2> QED BY <1>2, <2>1, <2>2, MigrateFailsKeeps
<1>6. ASSUME NEW d \in Entries, SaveOption(d) PROVE \A e \in Entries : Keeps(e)
  <2> DEFINE x == [entry[d] EXCEPT !.include = ~@]
  <2>1. entry[d] \in EntryRecords /\ entry' = [entry EXCEPT ![d] = x]
    BY <1>3, <1>6 DEF SaveOption
  <2>2. /\ x \in EntryRecords /\ x.serial = entry[d].serial /\ x.uniqueId = entry[d].uniqueId
        /\ x.username = entry[d].username /\ x.buttons = entry[d].buttons
        /\ x.version = entry[d].version
    BY <2>1 DEF EntryRecords
  <2> HIDE DEF x
  <2> QED BY <1>2, <1>6, <2>1, <2>2
<1>7. ASSUME NEW f \in FlowIds, ReauthAccepted(f) \/ ReconfigureAccepted(f)
      PROVE  \A e \in Entries : Keeps(e)
  <2> DEFINE d == flow[f].entry
             r == [entry[d] EXCEPT !.password = flow[f].password]
             y == [entry[d] EXCEPT !.username = flow[f].username]
             c == [entry[d] EXCEPT !.username = flow[f].username, !.password = flow[f].password]
  <2>1. d \in Present /\ d \in Entries /\ entry[d] \in EntryRecords
    BY <1>3, <1>7 DEF ReauthAccepted, ReconfigureAccepted, TypeInv, FlowsAreSound, Sound, Present
  <2>2. flow[f].username \in Accounts /\ flow[f].password \in Passwords
    BY <1>7, CredentialsAreTyped DEF ReauthAccepted, ReconfigureAccepted, Discovers
  <2>3. d \in reload'
    BY <1>7 DEF ReauthAccepted, ReconfigureAccepted, Save
  <2>4. CASE ReauthAccepted(f)
    <3>1. entry' = [entry EXCEPT ![d] = r]
      BY <2>4 DEF ReauthAccepted, Save
    <3>2. /\ r \in EntryRecords /\ r.serial = entry[d].serial /\ r.uniqueId = entry[d].uniqueId
          /\ r.username = entry[d].username /\ r.buttons = entry[d].buttons
          /\ r.version = entry[d].version
      BY <2>1, <2>2 DEF EntryRecords
    <3> HIDE DEF r, d
    <3> QED BY <1>2, <2>1, <2>3, <3>1, <3>2
  <2>5. CASE ReconfigureAccepted(f)
    <3>1. entry' = [entry EXCEPT ![d] = c]
      BY <2>5 DEF ReconfigureAccepted, Save
    <3>2. /\ y \in EntryRecords /\ y.serial = entry[d].serial /\ y.uniqueId = entry[d].uniqueId
          /\ y.buttons = entry[d].buttons /\ y.version = entry[d].version
      BY <2>1, <2>2 DEF EntryRecords
    <3>3. c = [y EXCEPT !.password = flow[f].password]
      OBVIOUS
    <3>4. flow[f].entry = d
      OBVIOUS
    <3> HIDE DEF y, c, d
    <3>5. /\ c \in EntryRecords /\ c.serial = y.serial /\ c.uniqueId = y.uniqueId
          /\ c.buttons = y.buttons /\ c.version = y.version
      BY <2>2, <3>2, <3>3 DEF EntryRecords
    <3> QED BY <1>2, <2>1, <2>3, <2>5, <3>1, <3>2, <3>4, <3>5
  <2> QED BY <1>7, <2>4, <2>5
<1>8. ASSUME NEW f \in FlowIds, UserDiscovers(f)
      PROVE  UNCHANGED entry \/ \E r \in Robots : Creates(f, r)
  <2> SUFFICES ASSUME ~UNCHANGED entry PROVE \E r \in Robots : Creates(f, r)
    OBVIOUS
  <2>1. PICK r \in Robots : /\ Devices(flow[f].username) \ (flow[f].known \ Padded) = {r}
                            /\ CreateEntry(f, r)
    BY <1>8 DEF UserDiscovers
  <2>2. r \in Devices(flow[f].username) \ (flow[f].known \ Padded)
    BY <2>1
  <2>3. /\ flow[f].kind = "user" /\ flow[f].step = "discovering"
        /\ UNCHANGED <<cloudVars, client, reload, counters, history>>
    BY <1>8 DEF UserDiscovers, Discovers, Is
  <2> QED BY <2>1, <2>2, <2>3 DEF Creates
<1>9. ASSUME NEW f \in FlowIds, NEW r \in Robots, UserSelects(f, r)
      PROVE  Creates(f, r)
  BY <1>9 DEF UserSelects, Creates, Is
<1>10. ASSUME NEW e \in Entries,
              \/ SetupStep(e) \/ SetupSucceeds(e) \/ MigrationFails(e) \/ SetupFails(e)
              \/ PollRefused(e) \/ UnloadFails(e) \/ SaveOption(e)
       PROVE  UNCHANGED entry \/ SetupBegins(e) \/ MigrationFails(e) \/ SaveOption(e)
  BY <1>10 DEF SetupStep, SetupRefused, SetupFindsNoDevice, Reload, SetupSucceeds, SetupFails,
               PollRefused, UnloadFails, SetupEnds
<1>11. ASSUME NEW f \in FlowIds,
              \/ \E a \in Accounts : Submit(f, a)
              \/ DiscoveryFails(f) \/ WrongAccount(f)
              \/ ReauthEnds(f) \/ ReconfigureAborts(f) \/ UserLeaves(f)
              \/ UserStarts(f, "user", None) \/ \E e \in Present : UserStarts(f, "reconfigure", e)
       PROVE  UNCHANGED entry
  BY <1>11 DEF Submit, DiscoveryFails, WrongAccount, ReauthEnds, ReconfigureAborts, UserLeaves,
               UserStarts
<1>12. ASSUME \/ \E a \in Accounts : PasswordChanges(a) \/ \E r \in Robots : RobotMoves(r, a)
              \/ Restart \/ UNCHANGED vars
       PROVE  UNCHANGED entry
  BY <1>12 DEF PasswordChanges, RobotMoves, Restart, vars
<1>13. \A f \in Flows : f \in FlowIds
  BY DEF FlowIds
<1> QED
  BY <1>1, <1>4, <1>5, <1>6, <1>7, <1>8, <1>9, <1>10, <1>11, <1>12, <1>13 DEF Next

\* Only a setup that finds no device fails for good; only a setup that begins builds a
\* client; what runs keeps its client and what is due or missed.
LEMMA SetupStepOf ==
  ASSUME TypeInv, [Next]_vars, NEW e \in Entries
  PROVE  /\ state'[e] = "error" => state[e] = "error" \/ SetupFindsNoDevice(e)
         /\ client'[e] # None => client'[e] = client[e] \/ SetupBegins(e)
         /\ state'[e] \in {"settingUp", "loaded"} =>
              \/ SetupBegins(e)
              \/ /\ state[e] \in {"settingUp", "loaded"} /\ client'[e] = client[e]
                 /\ e \in missed => e \in missed'
                 /\ e \in reload => e \in reload'
                 /\ SaveOption(e) => e \in missed' \cup reload'
<1> DEFINE Goal ==
       /\ state'[e] = "error" => state[e] = "error" \/ SetupFindsNoDevice(e)
       /\ client'[e] # None => client'[e] = client[e] \/ SetupBegins(e)
       /\ state'[e] \in {"settingUp", "loaded"} =>
            \/ SetupBegins(e)
            \/ /\ state[e] \in {"settingUp", "loaded"} /\ client'[e] = client[e]
               /\ e \in missed => e \in missed'
               /\ e \in reload => e \in reload'
               /\ SaveOption(e) => e \in missed' \cup reload'
<1>1. state \in [Entries -> States] /\ client \in [Entries -> Clients \cup {None}]
  BY DEF TypeInv, TypeOK
<1>2. SaveOption(e) /\ UNCHANGED state /\ state'[e] \in {"settingUp", "loaded"}
        => e \in missed' \cup reload'
  BY DEF SaveOption
<1>3. SaveOption(e) => UNCHANGED state
  BY DEF SaveOption
<1>4. ASSUME UNCHANGED <<state, client>>, missed \subseteq missed', reload \subseteq reload'
      PROVE  Goal
  BY <1>2, <1>4
<1>5. ASSUME NEW d \in Entries, SetupBegins(d) PROVE Goal
  <2>1. CASE d = e
    BY <1>1, <1>5, <2>1 DEF SetupBegins
  <2>2. CASE d # e
    BY <1>1, <1>2, <1>3, <1>5, <2>2 DEF SetupBegins
  <2> QED BY <2>1, <2>2
<1>6. ASSUME NEW d \in Entries, MigrationFails(d) PROVE Goal
  BY <1>1, <1>2, <1>3, <1>6 DEF MigrationFails
<1>7. ASSUME NEW d \in Entries, SetupSucceeds(d) \/ SetupRefused(d) \/ SetupFails(d) PROVE Goal
  BY <1>1, <1>2, <1>3, <1>7 DEF SetupSucceeds, SetupRefused, SetupFails, SetupEnds
<1>8. ASSUME NEW d \in Entries, SetupFindsNoDevice(d) PROVE Goal
  <2>1. CASE d = e
    BY <1>1, <1>8, <2>1 DEF SetupFindsNoDevice, SetupEnds
  <2>2. CASE d # e
    BY <1>1, <1>2, <1>3, <1>8, <2>2 DEF SetupFindsNoDevice, SetupEnds
  <2> QED BY <2>1, <2>2
<1>9. ASSUME NEW d \in Entries, Reload(d) PROVE Goal
  BY <1>1, <1>2, <1>3, <1>9 DEF Reload
<1>10. ASSUME NEW d \in Entries, UnloadFails(d) PROVE Goal
  BY <1>1, <1>2, <1>3, <1>10 DEF UnloadFails
<1>11. ASSUME NEW d \in Entries, PollRefused(d) \/ SaveOption(d) PROVE Goal
  BY <1>4, <1>11 DEF PollRefused, SaveOption
<1>12. ASSUME NEW f \in FlowIds,
              \/ \E a \in Accounts : Submit(f, a)
              \/ DiscoveryFails(f) \/ WrongAccount(f) \/ ReauthAccepted(f)
              \/ ReauthEnds(f) \/ ReconfigureAccepted(f) \/ ReconfigureAborts(f) \/ UserLeaves(f)
              \/ UserStarts(f, "user", None) \/ \E d \in Present : UserStarts(f, "reconfigure", d)
       PROVE  Goal
  BY <1>4, <1>12 DEF Submit, DiscoveryFails, WrongAccount, ReauthAccepted, ReauthEnds,
       ReconfigureAccepted, ReconfigureAborts, UserLeaves, UserStarts, Save
<1>13. ASSUME NEW f \in FlowIds, UserDiscovers(f) \/ \E r \in Robots : UserSelects(f, r)
       PROVE  Goal
  <2>1. UNCHANGED <<client, reload, missed>>
    BY <1>13 DEF UserDiscovers, UserSelects
  <2>2. UNCHANGED state \/ \E d \in Entries : state' = [state EXCEPT ![d] = "notLoaded"]
    <3>1. ASSUME NEW r \in Robots, CreateEntry(f, r)
          PROVE  UNCHANGED state \/ \E d \in Entries : state' = [state EXCEPT ![d] = "notLoaded"]
      BY <1>13, <3>1, Created DEF UserDiscovers, UserSelects, Discovers, Is
    <3> QED BY <1>13, <3>1 DEF UserDiscovers, UserSelects
  <2>3. state'[e] = state[e] \/ state'[e] = "notLoaded"
    BY <1>1, <2>2
  <2> QED BY <1>2, <1>3, <2>1, <2>3
<1>14. ASSUME NEW a \in Accounts, PasswordChanges(a) \/ \E r \in Robots : RobotMoves(r, a)
       PROVE  Goal
  BY <1>4, <1>14 DEF PasswordChanges, RobotMoves
<1>15. CASE Restart
  BY <1>15 DEF Restart
<1>16. CASE UNCHANGED vars
  BY <1>4, <1>16 DEF vars
<1>17. \A f \in Flows : f \in FlowIds
  BY DEF FlowIds
<1>18. ASSUME NEW d \in Entries,
              \/ SetupStep(d) \/ SetupSucceeds(d) \/ MigrationFails(d) \/ SetupFails(d)
              \/ PollRefused(d) \/ UnloadFails(d) \/ SaveOption(d)
       PROVE  Goal
  BY <1>5, <1>6, <1>7, <1>8, <1>9, <1>10, <1>11, <1>18 DEF SetupStep
<1>19. ASSUME NEW f \in Flows,
              UserStarts(f, "user", None) \/ \E d \in Present : UserStarts(f, "reconfigure", d)
       PROVE  Goal
  BY <1>12, <1>17, <1>19
<1>20. ASSUME NEW f \in FlowIds,
              \/ \E a \in Accounts : Submit(f, a)
              \/ DiscoveryFails(f) \/ UserDiscovers(f) \/ WrongAccount(f) \/ ReauthAccepted(f)
              \/ ReauthEnds(f) \/ ReconfigureAccepted(f) \/ ReconfigureAborts(f) \/ UserLeaves(f)
              \/ \E r \in Robots : UserSelects(f, r)
       PROVE  Goal
  BY <1>12, <1>13, <1>20
<1>21. CASE Next
  BY <1>14, <1>15, <1>18, <1>19, <1>20, <1>21 DEF Next
<1> QED BY <1>16, <1>21

\* A user's flow that asks the cloud leaves out the robots of its account's entries.
Asks(f) ==
  /\ flow'[f].step = "discovering"
  /\ flow'[f].kind = "user" =>
       \A e \in Present : entry[e].username = flow'[f].username /\ entry[e].serial # None =>
         entry[e].serial \in flow'[f].known
  /\ UNCHANGED <<owner, moved, entry>>

\* What a flow then offers.
Offers(f) ==
  /\ flow[f].kind = "user" /\ flow[f].step = "discovering"
  /\ flow'[f].step = "selecting" /\ flow'[f].username = flow[f].username
  /\ flow'[f].devices \subseteq Devices(flow[f].username) \ (flow[f].known \ Padded)
  /\ UNCHANGED <<owner, moved>>

\* A flow is as it was, or asks, or offers what it found.
LEMMA FlowStepOf ==
  ASSUME TypeInv, [Next]_vars, NEW f \in FlowIds, flow'[f].step \in {"discovering", "selecting"}
  PROVE  flow'[f] = flow[f] \/ Asks(f) \/ Offers(f)
<1>1. flow \in [FlowIds -> FlowRecords]
  BY DEF TypeInv, TypeOK
<1>2. ASSUME NEW g \in FlowIds, NEW x, x.step \notin {"discovering", "selecting"}, flow' = [flow EXCEPT ![g] = x]
      PROVE  flow'[f] = flow[f]
  BY <1>1, <1>2
<1>3. ASSUME NEW g \in FlowIds, Close(g) PROVE flow'[f] = flow[f]
  BY <1>2, <1>3 DEF Close, NoFlow
<1>4. ASSUME NEW g \in FlowIds, NEW step \in {"form", "reloading"},
             flow' = [flow EXCEPT ![g].step = step]
      PROVE  flow'[f] = flow[f]
  <2>1. [flow[g] EXCEPT !.step = step].step = step
    BY <1>1 DEF FlowRecords
  <2> QED BY <1>2, <1>4, <2>1
<1>5. ASSUME NEW e \in Entries, AskReauth(e) PROVE flow'[f] = flow[f]
  <2>1. [NoFlow EXCEPT !.kind = "reauth", !.step = "form", !.entry = e].step = "form"
    BY DEF NoFlow
  <2>2. e \in FlowIds
    BY DEF FlowIds
  <2> QED BY <1>2, <1>5, <2>1, <2>2 DEF AskReauth
<1>6. ASSUME NEW g \in FlowIds, NEW a \in Accounts, Submit(g, a)
      PROVE  flow'[f] = flow[f] \/ Asks(f)
  <2> DEFINE known == IF flow[g].kind # "user" THEN {}
                      ELSE {entry[e].serial : e \in {y \in Present : entry[y].username = a}} \ {None}
             x == [flow[g] EXCEPT !.step = "discovering", !.username = a,
                                  !.password = password[a], !.known = known]
  <2>1. flow' = [flow EXCEPT ![g] = x]
    BY <1>6 DEF Submit
  <2>2. /\ x.step = "discovering" /\ x.kind = flow[g].kind /\ x.username = a
        /\ x.known = known
    <3> HIDE DEF known
    <3>1. DOMAIN flow[g] = {"kind", "step", "entry", "username", "password", "known", "devices"}
      BY <1>1 DEF FlowRecords
    <3> QED BY <3>1
  <2>3. ASSUME flow[g].kind = "user"
        PROVE  \A e \in Present : entry[e].username = a /\ entry[e].serial # None =>
                 entry[e].serial \in known
    BY <2>3
  <2>4. UNCHANGED <<owner, moved, entry>>
    BY <1>6 DEF Submit
  <2> HIDE DEF x, known
  <2>5. CASE f = g
    <3>1. flow'[f] = x
      BY <1>1, <2>1, <2>5
    <3> QED BY <2>2, <2>3, <2>4, <2>5, <3>1 DEF Asks
  <2>6. CASE f # g
    BY <1>1, <2>1, <2>6
  <2> QED BY <2>5, <2>6
<1>7. ASSUME NEW g \in Flows,
             UserStarts(g, "user", None) \/ \E e \in Present : UserStarts(g, "reconfigure", e)
      PROVE  flow'[f] = flow[f]
  <2>1. PICK kind, e : UserStarts(g, kind, e)
    BY <1>7
  <2>2. [NoFlow EXCEPT !.kind = kind, !.step = "form", !.entry = e].step = "form"
    BY DEF NoFlow
  <2>3. g \in FlowIds
    BY DEF FlowIds
  <2> QED BY <1>2, <2>1, <2>2, <2>3 DEF UserStarts
<1>8. ASSUME NEW g \in FlowIds, UserDiscovers(g) PROVE flow'[f] = flow[f] \/ Offers(f)
  <2> DEFINE devices == Devices(flow[g].username) \ (flow[g].known \ Padded)
             x == [flow[g] EXCEPT !.step = "selecting", !.devices = devices]
  <2>1. UNCHANGED <<owner, moved>> /\ flow[g].kind = "user" /\ flow[g].step = "discovering"
    BY <1>8 DEF UserDiscovers, Is
  <2>2. \/ Close(g) \/ flow' = [flow EXCEPT ![g].step = "form"] \/ flow' = [flow EXCEPT ![g] = x]
    BY <1>8 DEF UserDiscovers, CreateEntry
  <2>3. x.username = flow[g].username /\ x.step = "selecting" /\ x.devices = devices
    <3> DEFINE y == [flow[g] EXCEPT !.step = "selecting"]
    <3>1. y \in FlowRecords /\ y.username = flow[g].username /\ y.step = "selecting"
      BY <1>1 DEF FlowRecords, Steps
    <3>2. x = [y EXCEPT !.devices = devices]
      OBVIOUS
    <3> HIDE DEF x, y, devices
    <3> QED BY <3>1, <3>2 DEF FlowRecords
  <2> HIDE DEF x
  <2>4. flow' = [flow EXCEPT ![g] = x] => flow'[f] = flow[f] \/ (f = g /\ flow'[f] = x)
    BY <1>1
  <2>5. CASE f = g /\ flow'[f] = x
    BY <2>1, <2>3, <2>5 DEF Offers
  <2> QED BY <1>3, <1>4, <2>2, <2>4, <2>5
<1>9. ASSUME NEW e \in Entries,
             \/ SetupStep(e) \/ SetupSucceeds(e) \/ MigrationFails(e) \/ SetupFails(e)
             \/ PollRefused(e) \/ UnloadFails(e) \/ SaveOption(e)
      PROVE  flow'[f] = flow[f]
  <2>1. flow' = flow \/ AskReauth(e)
    BY <1>9 DEF SetupStep, SetupBegins, SetupRefused, SetupFindsNoDevice, Reload, SetupSucceeds,
                MigrationFails, SetupFails, PollRefused, UnloadFails, SaveOption
  <2> QED BY <1>5, <2>1
<1>10. ASSUME NEW g \in FlowIds,
              \/ DiscoveryFails(g) \/ WrongAccount(g) \/ ReauthAccepted(g) \/ ReauthEnds(g)
              \/ ReconfigureAccepted(g) \/ ReconfigureAborts(g) \/ UserLeaves(g)
              \/ \E r \in Robots : UserSelects(g, r)
       PROVE  flow'[f] = flow[f]
  <2>1. \/ Close(g) \/ flow' = [flow EXCEPT ![g].step = "form"]
        \/ flow' = [flow EXCEPT ![g].step = "reloading"]
    BY <1>10 DEF DiscoveryFails, WrongAccount, ReauthAccepted, ReauthEnds, ReconfigureAccepted,
                 ReconfigureAborts, UserLeaves, UserSelects, CreateEntry
  <2> QED BY <1>3, <1>4, <2>1
<1>11. ASSUME NEW a \in Accounts, PasswordChanges(a) \/ \E r \in Robots : RobotMoves(r, a)
       PROVE  flow'[f] = flow[f]
  BY <1>11 DEF PasswordChanges, RobotMoves
<1>12. ~Restart
  BY DEF Restart, NoFlow
<1>13. CASE UNCHANGED vars
  BY <1>13 DEF vars
<1> QED
  BY <1>6, <1>7, <1>8, <1>9, <1>10, <1>11, <1>12, <1>13 DEF Next

-----------------------------------------------------------------------------
(* The other parts of the invariant.                                       *)

\* A created entry is the only one that changes, and takes a vacant place.
LEMMA CreatedEntry ==
  ASSUME TypeInv, NEW f \in FlowIds, NEW r \in Robots, Creates(f, r)
  PROVE  \/ UNCHANGED entry
         \/ \E d \in Entries :
              /\ entry[d] = None /\ d \in Present'
              /\ entry'[d].uniqueId = r /\ entry'[d].serial = r
              /\ entry'[d].username = flow[f].username /\ entry'[d].buttons = <<>>
              /\ state'[d] = "notLoaded"
              /\ \A e \in Entries : e # d => entry'[e] = entry[e]
              /\ \A e \in Present : entry[e].uniqueId # r
<1> SUFFICES ASSUME ~UNCHANGED entry
             PROVE  \E d \in Entries :
                      /\ entry[d] = None /\ d \in Present'
                      /\ entry'[d].uniqueId = r /\ entry'[d].serial = r
                      /\ entry'[d].username = flow[f].username /\ entry'[d].buttons = <<>>
                      /\ state'[d] = "notLoaded"
                      /\ \A e \in Entries : e # d => entry'[e] = entry[e]
                      /\ \A e \in Present : entry[e].uniqueId # r
  OBVIOUS
<1>1. flow[f].step \in {"discovering", "selecting"} /\ CreateEntry(f, r)
  BY DEF Creates
<1>2. /\ ~Configured(f, r)
      /\ \E d \in Entries, x \in EntryRecords :
           /\ entry[d] = None /\ entry' = [entry EXCEPT ![d] = x]
           /\ state' = [state EXCEPT ![d] = "notLoaded"]
           /\ x.uniqueId = r /\ x.serial = r /\ x.username = flow[f].username
           /\ x.buttons = <<>>
  BY <1>1, Created
<1>3. PICK d \in Entries, x \in EntryRecords :
        /\ entry[d] = None /\ entry' = [entry EXCEPT ![d] = x]
        /\ state' = [state EXCEPT ![d] = "notLoaded"]
        /\ x.uniqueId = r /\ x.serial = r /\ x.username = flow[f].username
        /\ x.buttons = <<>>
  BY <1>2
<1>4. entry'[d] = x /\ state'[d] = "notLoaded" /\ \A e \in Entries : e # d => entry'[e] = entry[e]
  BY <1>3 DEF TypeInv, TypeOK
<1>5. d \in Present'
  BY <1>4, OldEntriesAssumption DEF Present, Exists
<1>6. \A e \in Present : entry[e].uniqueId # r
  BY <1>2 DEF Configured
<1> QED BY <1>3, <1>4, <1>5, <1>6

LEMMA InitInv == Init => IInv
<1> SUFFICES ASSUME Init PROVE IInv
  OBVIOUS
<1>1. TypeInv
  BY InitType
<1>2. PICK d \in Entries \cup {None} : \A e \in Entries : e # d => entry[e] = None
  <2> DEFINE e0 == CHOOSE e \in Entries : TRUE
  <2>1. \A e \in Entries : e # e0 => entry[e] = None
    BY DEF Init
  <2>2. CASE Entries = {}
    BY <2>2
  <2>3. CASE Entries # {}
    <3>1. e0 \in Entries
      BY <2>3
    <3> HIDE DEF e0
    <3> QED BY <2>1, <3>1
  <2> QED BY <2>2, <2>3
<1>3. OneEntryPerRobot
  BY <1>2 DEF OneEntryPerRobot, Present, Exists
<1>4. /\ client = [e \in Entries |-> None]
      /\ \A e \in Entries : state[e] \in {"notLoaded", "none"}
      /\ \A f \in FlowIds : flow[f].step = "idle"
  BY DEF Init, NoFlow
<1>5. AccountsOwn
  <2>1. \A e \in Present : Owns(entry[e].username, entry[e].serial)
    <3>1. \A e \in Present : entry[e].serial \in Robots \cup {None}
      BY <1>1 DEF TypeInv, TypeOK, EntryRecords, Present, Exists
    <3> QED BY <3>1 DEF Init, Owns
  <2> QED BY <1>4, <2>1 DEF AccountsOwn, Present
<1>6. FailsForGoodOnlyIfMoved /\ SetupsAreCurrent
  BY <1>4 DEF FailsForGoodOnlyIfMoved, SetupsAreCurrent
<1>7. ButtonsAreOwed
  <2>1. \A e \in Entries : origin[e] = IF entry[e] # None THEN entry[e].buttons ELSE <<>>
    BY DEF Init, Exists
  <2>2. \A e \in Entries : entry[e] # None => entry[e] \in OldEntries
    BY DEF Init
  <2> QED BY <2>1, <2>2, OldEntriesAssumption DEF ButtonsAreOwed
<1>8. IdsAreSerials
  <2>1. \A e \in Present : entry[e] \in OldEntries
    BY DEF Init, Present, Exists
  <2> QED BY <2>1, OldEntriesAssumption DEF IdsAreSerials
<1>9. OldAreLeftOut
  BY <1>4 DEF OldAreLeftOut, LeftOut
<1> QED BY <1>1, <1>3, <1>5, <1>6, <1>7, <1>8, <1>9 DEF IInv

\* Only a robot that moves changes what the cloud lists.
LEMMA CloudStep ==
  ASSUME [Next]_vars
  PROVE  UNCHANGED <<owner, moved>> \/ \E s \in Robots, a \in Accounts : RobotMoves(s, a)
<1>1. ASSUME NEW e \in Entries,
             \/ SetupStep(e) \/ SetupSucceeds(e) \/ MigrationFails(e) \/ SetupFails(e)
             \/ PollRefused(e) \/ UnloadFails(e) \/ SaveOption(e)
      PROVE  UNCHANGED <<owner, moved>>
  BY <1>1 DEF SetupStep, SetupBegins, SetupRefused, SetupFindsNoDevice, Reload, SetupSucceeds,
              MigrationFails, SetupFails, PollRefused, UnloadFails, SaveOption, SetupEnds
<1>2. ASSUME NEW f \in FlowIds,
             \/ \E a \in Accounts : Submit(f, a)
             \/ DiscoveryFails(f) \/ UserDiscovers(f) \/ WrongAccount(f) \/ ReauthAccepted(f)
             \/ ReauthEnds(f) \/ ReconfigureAccepted(f) \/ ReconfigureAborts(f) \/ UserLeaves(f)
             \/ \E s \in Robots : UserSelects(f, s)
             \/ UserStarts(f, "user", None) \/ \E d \in Present : UserStarts(f, "reconfigure", d)
      PROVE  UNCHANGED <<owner, moved>>
  BY <1>2 DEF Submit, DiscoveryFails, UserDiscovers, WrongAccount, ReauthAccepted, ReauthEnds,
              ReconfigureAccepted, ReconfigureAborts, UserLeaves, UserSelects, UserStarts
<1>3. (\E a \in Accounts : PasswordChanges(a)) \/ Restart \/ UNCHANGED vars
        => UNCHANGED <<owner, moved>>
  BY DEF PasswordChanges, Restart, vars
<1>4. \A f \in Flows : f \in FlowIds
  BY DEF FlowIds
<1> QED BY <1>1, <1>2, <1>3, <1>4 DEF Next

LEMMA NextIdsAreSerials ==
  ASSUME TypeInv, IdsAreSerials, [Next]_vars
  PROVE  IdsAreSerials'
<1> SUFFICES ASSUME NEW e \in Entries, entry'[e] # None
             PROVE  entry'[e].uniqueId \in {None, entry'[e].serial}
  BY DEF IdsAreSerials, Present, Exists
<1>1. CASE \A d \in Entries : Keeps(d)
  BY <1>1 DEF Keeps, IdsAreSerials, Present, Exists
<1>2. ASSUME NEW f \in FlowIds, NEW r \in Robots, Creates(f, r)
      PROVE  entry'[e].uniqueId \in {None, entry'[e].serial}
  <2>1. CASE entry'[e] = entry[e]
    BY <2>1 DEF IdsAreSerials, Present, Exists
  <2>2. CASE entry'[e] # entry[e]
    BY <1>2, <2>2, CreatedEntry
  <2> QED BY <2>1, <2>2
<1> QED BY <1>1, <1>2, EntryStep

\* The robot of a created entry has no other entry, or one without a unique id on
\* an account that it has left.
LEMMA CreatedIsNew ==
  ASSUME TypeInv, IdsAreSerials, OldAreLeftOut, NEW f \in FlowIds, NEW r \in Robots,
         Creates(f, r), \A e \in Present : entry[e].uniqueId # r,
         NEW d \in Present, entry[d].serial = r
  PROVE  entry[d].uniqueId = None /\ r \in moved \cup Padded
<1>1. entry[d].uniqueId = None /\ r # None
  BY EntryAssumption DEF IdsAreSerials, EntryAssumption
<1>2. LeftOut(d, f)
  BY DEF OldAreLeftOut
<1> QED BY <1>1, <1>2 DEF LeftOut, Creates, Devices

LEMMA NextOneEntryPerRobot ==
  ASSUME TypeInv, OneEntryPerRobot, IdsAreSerials, OldAreLeftOut, [Next]_vars
  PROVE  OneEntryPerRobot'
<1>1. moved \subseteq moved'
  BY CloudStep DEF RobotMoves
<1>2. CASE \A e \in Entries : Keeps(e)
  BY <1>1, <1>2 DEF OneEntryPerRobot, Keeps, Present, Exists
<1>3. ASSUME NEW f \in FlowIds, NEW r \in Robots, Creates(f, r) PROVE OneEntryPerRobot'
  <2>1. CASE UNCHANGED entry
    BY <1>1, <2>1 DEF OneEntryPerRobot, Present, Exists
  <2>2. CASE ~UNCHANGED entry
    <3>1. PICK d \in Entries :
            /\ entry'[d].serial = r
            /\ \A e \in Entries : e # d => entry'[e] = entry[e]
            /\ \A e \in Present : entry[e].uniqueId # r
      BY <1>3, <2>2, CreatedEntry
    <3>2. ASSUME NEW e \in Present', e # d, entry'[e].serial = r
          PROVE  entry'[e].uniqueId = None /\ r \in moved' \cup Padded
      <4>1. e \in Present /\ entry'[e] = entry[e]
        BY <3>1, <3>2 DEF Present, Exists
      <4> QED BY <1>1, <1>3, <3>1, <3>2, <4>1, CreatedIsNew
    <3> SUFFICES ASSUME NEW a \in Present', NEW b \in Present', a # b,
                        entry'[a].serial # None, entry'[a].serial = entry'[b].serial
                 PROVE  /\ entry'[a].uniqueId = None \/ entry'[b].uniqueId = None
                        /\ entry'[a].serial \in moved' \cup Padded
      BY DEF OneEntryPerRobot
    <3>3. CASE a = d
      BY <3>1, <3>2, <3>3
    <3>4. CASE b = d
      BY <3>1, <3>2, <3>4
    <3>5. CASE a # d /\ b # d
      <4>1. entry'[a] = entry[a] /\ entry'[b] = entry[b] /\ a \in Present /\ b \in Present
        BY <3>1, <3>5 DEF Present, Exists
      <4> QED BY <1>1, <4>1 DEF OneEntryPerRobot
    <3> QED BY <3>3, <3>4, <3>5
  <2> QED BY <2>1, <2>2
<1> QED BY <1>2, <1>3, EntryStep

\* A robot that leaves an account has moved.
LEMMA OwnsStays ==
  ASSUME TypeInv, [Next]_vars, NEW account, NEW r, Owns(account, r)
  PROVE  Owns(account, r)'
<1>1. CASE UNCHANGED <<owner, moved>>
  BY <1>1 DEF Owns
<1>2. ASSUME NEW s \in Robots, NEW a \in Accounts, RobotMoves(s, a) PROVE Owns(account, r)'
  BY <1>2 DEF Owns, RobotMoves, TypeInv, TypeOK
<1> QED BY <1>1, <1>2, CloudStep

LEMMA NextAccountsOwn ==
  ASSUME TypeInv, TypeInv', AccountsOwn, [Next]_vars
  PROVE  AccountsOwn'
<1>1. ASSUME NEW e \in Entries, entry'[e] # None
      PROVE  /\ Owns(entry[e].username, entry[e].serial)'
             /\ client'[e] # None => Owns(client[e].username, entry[e].serial)'
  <2>1. CASE \A d \in Entries : Keeps(d)
    <3>1. e \in Present /\ entry'[e].serial = entry[e].serial
      BY <1>1, <2>1 DEF Keeps, Present, Exists
    <3>2. /\ Owns(entry[e].username, entry[e].serial)
          /\ client[e] # None => Owns(client[e].username, entry[e].serial)
      BY <3>1 DEF AccountsOwn
    <3>3. \E a : a = entry[e].username
      OBVIOUS
    <3> DEFINE r == entry[e].serial
    <3>4. \A a : Owns(a, r) => r = None \/ r \in moved' \/ owner'[r] = a
      <4> SUFFICES ASSUME NEW a, Owns(a, r) PROVE r = None \/ r \in moved' \/ owner'[r] = a
        OBVIOUS
      <4>1. PICK s : s = r
        OBVIOUS
      <4>2. Owns(a, s)
        BY <4>1
      <4>3. Owns(a, s)'
        BY <4>2, OwnsStays
      <4> QED BY <4>1, <4>3 DEF Owns
    <3>5. /\ Owns(entry[e].username, r) => entry'[e].username # entry[e].username
                                             \/ Owns(entry[e].username, entry[e].serial)'
      BY <3>1, <3>4 DEF Owns
    <3>6. ASSUME NEW f \in FlowIds, flow[f].entry = e, ReconfigureAccepted(f)
          PROVE  Owns(entry[e].username, entry[e].serial)'
      <4>1. entry'[e].username = flow[f].username
        <5> DEFINE y == [entry[e] EXCEPT !.username = flow[f].username]
        <5>1. entry[e] \in EntryRecords /\ entry' = [entry EXCEPT ![e] = [y EXCEPT !.password = flow[f].password]]
          BY <3>1, <3>6 DEF ReconfigureAccepted, Save, TypeInv, TypeOK, Present, Exists
        <5>2. y.username = flow[f].username /\ DOMAIN y = DOMAIN entry[e]
          BY <5>1 DEF EntryRecords
        <5> HIDE DEF y
        <5>3. [y EXCEPT !.password = flow[f].password].username = y.username
          BY <5>1, <5>2 DEF EntryRecords
        <5> QED BY <5>1, <5>2, <5>3 DEF TypeInv, TypeOK
      <4>2. r = None \/ owner[r] = flow[f].username
        BY <3>6 DEF ReconfigureAccepted, AccountOwnsSerial, Devices
      <4>3. UNCHANGED owner
        BY <3>6 DEF ReconfigureAccepted
      <4> QED BY <3>1, <4>1, <4>2, <4>3 DEF Owns
    <3>7. Owns(entry[e].username, entry[e].serial)'
      BY <2>1, <3>1, <3>2, <3>5, <3>6 DEF Keeps, Present, Exists
    <3>8. ASSUME client'[e] # None PROVE Owns(client[e].username, entry[e].serial)'
      <4>1. CASE client'[e] = client[e]
        BY <3>1, <3>2, <3>4, <3>8, <4>1 DEF Owns
      <4>2. CASE SetupBegins(e)
        <5>1. client'[e].username = entry[e].username
          BY <4>2 DEF SetupBegins, Client, TypeInv, TypeOK
        <5> QED BY <3>1, <3>2, <3>4, <5>1 DEF Owns
      <4> QED BY <3>8, <4>1, <4>2, SetupStepOf
    <3> QED BY <3>7, <3>8
  <2>2. ASSUME NEW f \in FlowIds, NEW r \in Robots, Creates(f, r)
        PROVE  /\ Owns(entry[e].username, entry[e].serial)'
               /\ client'[e] # None => Owns(client[e].username, entry[e].serial)'
    <3>1. UNCHANGED <<owner, moved, client>>
      BY <2>2 DEF Creates
    <3>2. CASE entry'[e] = entry[e]
      BY <1>1, <3>1, <3>2 DEF AccountsOwn, Owns, Present, Exists
    <3>3. CASE entry'[e] # entry[e]
      <4>1. /\ entry[e] = None /\ entry'[e].serial = r
            /\ entry'[e].username = flow[f].username
        BY <2>2, <3>3, CreatedEntry
      <4>2. Owns(flow[f].username, r)
        BY <2>2 DEF Creates, AccountsOwn, Owns, Devices
      <4>3. client[e] = None
        BY <4>1 DEF TypeInv, TypeOK
      <4> QED BY <3>1, <4>1, <4>2, <4>3 DEF Owns
    <3> QED BY <3>2, <3>3
  <2> QED BY <2>1, <2>2, EntryStep
<1>2. ASSUME NEW f \in FlowIds, flow'[f].step = "selecting", NEW r \in flow'[f].devices
      PROVE  Owns(flow[f].username, r)'
  <2>1. CASE flow'[f] = flow[f]
    <3>1. Owns(flow[f].username, r)
      BY <1>2, <2>1 DEF AccountsOwn
    <3>2. PICK a : a = flow[f].username
      OBVIOUS
    <3>3. Owns(a, r)'
      BY <3>1, <3>2, OwnsStays
    <3> QED BY <2>1, <3>2, <3>3 DEF Owns
  <2>2. CASE Offers(f)
    BY <1>2, <2>2 DEF Offers, Owns, Devices
  <2>3. ~Asks(f)
    BY <1>2 DEF Asks
  <2> QED BY <1>2, <2>1, <2>2, <2>3, FlowStepOf
<1> QED BY <1>1, <1>2 DEF AccountsOwn, Present, Exists

\* A robot that stays on its account is left out by the account's flows from the time
\* they ask the cloud.
LEMMA NextOldAreLeftOut ==
  ASSUME TypeInv, AccountsOwn, OldAreLeftOut, [Next]_vars
  PROVE  OldAreLeftOut'
<1> SUFFICES ASSUME NEW e \in Entries, entry'[e] # None, NEW f \in FlowIds,
                    entry'[e].uniqueId = None, NEW r, r = entry'[e].serial,
                    r # None, r \notin moved' \cup Padded
             PROVE  /\ /\ flow'[f].kind = "user" /\ flow'[f].step = "discovering"
                       /\ flow'[f].username = owner'[r]
                       => r \in flow'[f].known
                    /\ flow'[f].step = "selecting" => r \notin flow'[f].devices
  BY DEF OldAreLeftOut, LeftOut, Present, Exists
<1>1. e \in Present /\ entry[e].serial = r /\ entry[e].uniqueId = None
  <2>1. CASE \A d \in Entries : Keeps(d)
    BY <2>1 DEF Keeps, Present, Exists
  <2>2. ASSUME NEW g \in FlowIds, NEW s \in Robots, Creates(g, s) PROVE entry'[e] = entry[e]
    <3>1. None \notin Robots
      BY EntryAssumption DEF EntryAssumption
    <3> QED BY <2>2, <3>1, CreatedEntry
  <2> QED BY <2>1, <2>2, EntryStep DEF Present, Exists
<1>2. r \in Robots
  BY <1>1 DEF TypeInv, TypeOK, Present, Exists, EntryRecords
<1>3. r \notin moved /\ owner'[r] = owner[r]
  <2>1. CASE UNCHANGED <<owner, moved>>
    BY <2>1
  <2>2. ASSUME NEW s \in Robots, NEW a \in Accounts, RobotMoves(s, a)
        PROVE  r \notin moved /\ owner'[r] = owner[r]
    BY <1>2, <2>2 DEF RobotMoves, TypeInv, TypeOK
  <2> QED BY <2>1, <2>2, CloudStep
<1>4. LeftOut(e, f)
  BY <1>1 DEF OldAreLeftOut
<1>5. CASE flow'[f] = flow[f]
  BY <1>1, <1>3, <1>4, <1>5 DEF LeftOut
<1>6. CASE Asks(f)
  <2>1. entry[e].username = owner[r]
    BY <1>1, <1>3 DEF AccountsOwn, Owns
  <2> QED BY <1>1, <1>3, <1>6, <2>1 DEF Asks
<1>7. CASE Offers(f)
  BY <1>1, <1>3, <1>4, <1>7 DEF Offers, LeftOut, Devices
<1> QED BY <1>5, <1>6, <1>7, FlowStepOf

LEMMA NextFailsForGood ==
  ASSUME TypeInv, TypeInv', AccountsOwn, FailsForGoodOnlyIfMoved, [Next]_vars
  PROVE  FailsForGoodOnlyIfMoved'
<1> SUFFICES ASSUME NEW e \in Entries, state'[e] = "error"
             PROVE  entry'[e].serial \in moved' \cup Padded
  BY DEF FailsForGoodOnlyIfMoved
<1>1. entry'[e] # None
  BY DEF TypeInv, TypeOK
<1>2. state[e] = "error" \/ SetupFindsNoDevice(e)
  BY SetupStepOf
<1>3. entry[e] # None
  BY <1>2 DEF TypeInv, TypeOK, SetupFindsNoDevice
<1>4. entry'[e].serial = entry[e].serial
  <2>1. CASE \A d \in Entries : Keeps(d)
    BY <1>3, <2>1 DEF Keeps
  <2>2. ASSUME NEW f \in FlowIds, NEW r \in Robots, Creates(f, r)
        PROVE  entry'[e] = entry[e]
    BY <1>3, <2>2, CreatedEntry
  <2> QED BY <2>1, <2>2, EntryStep
<1>5. CASE state[e] = "error"
  <2>1. moved \subseteq moved'
    BY CloudStep DEF RobotMoves
  <2> QED BY <1>4, <1>5, <2>1 DEF FailsForGoodOnlyIfMoved
<1>6. CASE SetupFindsNoDevice(e)
  <2>1. UNCHANGED <<owner, moved>> /\ ~Listed(e) /\ client[e] # None
    BY <1>6 DEF SetupFindsNoDevice, SetupEnds, TypeInv, TypeOK
  <2>2. entry[e].serial # None
    BY <1>6 DEF SetupFindsNoDevice, SetupEnds, TypeInv, TypeOK
  <2>3. entry[e].serial \in Robots
    BY <1>3, <2>2 DEF TypeInv, TypeOK, EntryRecords
  <2>4. Owns(client[e].username, entry[e].serial)
    BY <1>3, <2>1 DEF AccountsOwn, Present, Exists
  <2> QED BY <1>4, <2>1, <2>2, <2>3, <2>4 DEF Listed, Finds, Devices, Owns
<1> QED BY <1>2, <1>5, <1>6

LEMMA NextSetupsAreCurrent ==
  ASSUME TypeInv, TypeInv', SetupsAreCurrent, [Next]_vars
  PROVE  SetupsAreCurrent'
<1> SUFFICES ASSUME NEW e \in Entries, state'[e] \in {"settingUp", "loaded"}, e \notin reload'
             PROVE  Current(e)'
  BY DEF SetupsAreCurrent
<1>1. CASE SetupBegins(e)
  <2>1. entry[e] \in EntryRecords
    BY <1>1 DEF SetupBegins, TypeInv, TypeOK
  <2>2. client'[e] = Client(entry[e]) /\ entry'[e] = Migrate(entry[e])
    BY <1>1 DEF SetupBegins, TypeInv, TypeOK
  <2>3. Client(Migrate(entry[e])) = Client(entry[e])
    BY <2>1, MigrateKeeps
  <2> QED BY <2>2, <2>3 DEF Current, Client
<1>2. CASE ~SetupBegins(e)
  <2>1. /\ state[e] \in {"settingUp", "loaded"} /\ client'[e] = client[e]
        /\ e \in missed => e \in missed'
        /\ e \notin reload
        /\ SaveOption(e) => e \in missed'
    BY <1>2, SetupStepOf
  <2>2. Current(e) /\ entry[e] \in EntryRecords /\ client[e] \in Clients
    BY <2>1 DEF SetupsAreCurrent, TypeInv, TypeOK
  <2>3. CASE Client(entry'[e]) = Client(entry[e])
    <3>1. CASE client[e] = Client(entry[e])
      BY <2>1, <2>3, <3>1 DEF Current, Client
    <3>2. CASE e \in missed /\ [client[e] EXCEPT !.include = ~@] = Client(entry[e])
      BY <2>1, <2>3, <3>2 DEF Current, Client
    <3> QED BY <2>2, <3>1, <3>2 DEF Current
  <2>4. CASE SaveOption(e)
    <3>1. entry'[e] = [entry[e] EXCEPT !.include = ~@]
      BY <2>4 DEF SaveOption, TypeInv, TypeOK
    <3>2. /\ entry'[e].username = entry[e].username /\ entry'[e].password = entry[e].password
          /\ entry'[e].include = ~entry[e].include
      BY <2>2, <3>1 DEF EntryRecords
    <3>3. e \in missed'
      BY <2>1, <2>4
    <3>4. CASE client[e] = Client(entry[e])
      BY <2>1, <2>2, <3>2, <3>3, <3>4 DEF Current, Client, EntryRecords
    <3>5. CASE [client[e] EXCEPT !.include = ~@] = Client(entry[e])
      BY <2>1, <2>2, <3>2, <3>3, <3>5 DEF Current, Client, EntryRecords, Clients
    <3> QED BY <2>2, <3>4, <3>5 DEF Current
  <2>5. Client(entry'[e]) = Client(entry[e]) \/ SaveOption(e)
    <3>1. entry[e] # None
      BY <2>2, OldEntriesAssumption
    <3>2. CASE \A d \in Entries : Keeps(d)
      BY <3>1, <3>2 DEF Keeps
    <3>3. ASSUME NEW f \in FlowIds, NEW r \in Robots, Creates(f, r)
          PROVE  entry'[e] = entry[e]
      BY <3>1, <3>3, CreatedEntry
    <3> QED BY <3>2, <3>3, EntryStep
  <2> QED BY <2>3, <2>4, <2>5
<1> QED BY <1>1, <1>2

LEMMA NextButtonsAreOwed ==
  ASSUME TypeInv, TypeInv', ButtonsAreOwed, [Next]_vars
  PROVE  ButtonsAreOwed'
<1>1. UNCHANGED origin
  BY DEF Next, SetupStep, SetupBegins, SetupRefused, SetupFindsNoDevice, Reload, SetupSucceeds,
         MigrationFails, SetupFails, PollRefused, UnloadFails, SaveOption, SetupEnds, Submit,
         DiscoveryFails, UserDiscovers, WrongAccount, ReauthAccepted, ReauthEnds,
         ReconfigureAccepted, ReconfigureAborts, UserLeaves, UserSelects, UserStarts,
         PasswordChanges, RobotMoves, Restart, vars
<1>2. ASSUME NEW e \in Entries, entry'[e] = entry[e]
      PROVE  /\ entry'[e] = None => origin[e] = <<>>
             /\ entry'[e] # None =>
                  IF entry'[e].serial = None THEN entry'[e].buttons = origin[e]
                  ELSE /\ Owed(entry'[e].buttons) = Owed(origin[e])
                       /\ entry'[e].version > 1 => entry'[e].buttons = Owed(origin[e])
  BY <1>2 DEF ButtonsAreOwed
<1> SUFFICES ASSUME NEW e \in Entries
             PROVE  /\ entry'[e] = None => origin[e] = <<>>
                    /\ entry'[e] # None =>
                         IF entry'[e].serial = None THEN entry'[e].buttons = origin[e]
                         ELSE /\ Owed(entry'[e].buttons) = Owed(origin[e])
                              /\ entry'[e].version > 1 => entry'[e].buttons = Owed(origin[e])
  BY <1>1 DEF ButtonsAreOwed
<1>3. CASE Keeps(e)
  <2>1. CASE entry[e] = None
    BY <2>1, <1>3 DEF ButtonsAreOwed, Keeps
  <2>2. CASE entry[e] # None
    <3> DEFINE x == entry[e]
               y == entry'[e]
    <3>1. x \in EntryRecords /\ x # None /\ y # None /\ y.serial = x.serial
      BY <1>3, <2>2 DEF TypeInv, TypeOK, Keeps
    <3>2. IF x.serial = None THEN x.buttons = origin[e]
          ELSE /\ Owed(x.buttons) = Owed(origin[e])
               /\ x.version > 1 => x.buttons = Owed(origin[e])
      BY <2>2 DEF ButtonsAreOwed
    <3>3. \/ y.buttons = x.buttons /\ y.version = x.version
          \/ y = Migrate(x) \/ y \in MigrateFails(x)
      BY <1>3, <2>2 DEF Keeps
    <3> HIDE DEF x, y
    <3>4. IF y.serial = None THEN y.buttons = origin[e]
          ELSE /\ Owed(y.buttons) = Owed(origin[e])
               /\ y.version > 1 => y.buttons = Owed(origin[e])
      <4>1. CASE y.buttons = x.buttons /\ y.version = x.version
        BY <3>1, <3>2, <4>1
      <4>2. CASE y = Migrate(x)
        <5>1. x.version \in 1..3 /\ x.buttons \in Seq(Buttons)
          BY <3>1 DEF EntryRecords
        <5>2. y.buttons = IF x.version = 1 /\ x.serial # None THEN Owed(x.buttons) ELSE x.buttons
          BY <3>1, <4>2, MigrateKeeps
        <5>3. CASE x.version = 1 /\ x.serial # None
          <6>1. Owed(Owed(x.buttons)) = Owed(x.buttons)
            <7>1. Len(x.buttons) \in 0..Len(x.buttons)
              BY <5>1
            <7> QED BY <5>1, <7>1, MigrationPaysWhatIsOwed
          <6> QED BY <3>1, <3>2, <5>2, <5>3, <6>1
        <5>4. CASE ~(x.version = 1 /\ x.serial # None)
          BY <3>1, <3>2, <5>1, <5>2, <5>4
        <5> QED BY <5>3, <5>4
      <4>3. CASE y \in MigrateFails(x)
        <5>1. x.version \in 1..3
          BY <3>1 DEF EntryRecords
        <5>2. /\ x.serial = None => y.buttons = x.buttons
              /\ x.serial # None =>
                   /\ Owed(y.buttons) = Owed(x.buttons)
                   /\ y.version > 1 =>
                        y.buttons = IF x.version = 1 THEN Owed(x.buttons) ELSE x.buttons
          BY <3>1, <4>3, MigrateFailsKeeps
        <5> QED BY <3>1, <3>2, <5>1, <5>2
      <4> QED BY <3>3, <4>1, <4>2, <4>3
    <3> QED BY <3>1, <3>4 DEF y
  <2> QED BY <2>1, <2>2
<1>4. ASSUME NEW f \in FlowIds, NEW r \in Robots, Creates(f, r), entry'[e] # entry[e]
      PROVE  IF entry'[e].serial = None THEN entry'[e].buttons = origin[e]
             ELSE /\ Owed(entry'[e].buttons) = Owed(origin[e])
                  /\ entry'[e].version > 1 => entry'[e].buttons = Owed(origin[e])
  <2>1. entry[e] = None /\ entry'[e].buttons = <<>>
    BY <1>4, CreatedEntry
  <2>2. origin[e] = <<>>
    BY <2>1 DEF ButtonsAreOwed
  <2>3. Owed(<<>>) = <<>>
    BY DEF Owed
  <2> QED BY <2>1, <2>2, <2>3
<1>5. ASSUME NEW f \in FlowIds, NEW r \in Robots, Creates(f, r), entry'[e] # entry[e]
      PROVE  entry'[e] # None
  BY <1>5, CreatedEntry DEF Present, Exists
<1> QED BY <1>2, <1>3, <1>4, <1>5, EntryStep

-----------------------------------------------------------------------------
(* The theorems.                                                           *)

LEMMA Invariance == Spec => []IInv
<1>1. IInv /\ [Next]_vars => IInv'
  <2> SUFFICES ASSUME IInv, [Next]_vars PROVE IInv'
    OBVIOUS
  <2>1. TypeInv /\ TypeInv'
    BY NextType DEF IInv
  <2> QED
    BY <2>1, NextOneEntryPerRobot, NextIdsAreSerials, NextOldAreLeftOut, NextAccountsOwn,
       NextFailsForGood, NextSetupsAreCurrent, NextButtonsAreOwed DEF IInv
<1> QED BY <1>1, InitInv, PTL DEF Spec

\* The stored entries, what Home Assistant makes of them, the clients and the flows have
\* their types, whatever flows, setups and reloads overlap: a reload is due only for an
\* entry that exists, and an entry has a client from the start of its setup to the end
\* of what runs (async_setup_entry, its failures, _cleanup_failed_setup).
THEOREM TypeCorrect == Spec => []TypeOK
<1>1. IInv => TypeOK
  BY DEF IInv, TypeInv
<1> QED BY <1>1, Invariance, PTL

\* A robot gets a second entry only if the first is from before unique ids and the robot
\* has changed accounts or is listed padded, for any number of flows, entries and
\* accounts: _abort_if_unique_id_configured is asked in the step that creates the entry,
\* and async_step_user leaves out the serial numbers of its account's entries.
THEOREM OneEntry == Spec => []OneEntryPerRobot
<1>1. IInv => OneEntryPerRobot
  BY DEF IInv
<1> QED BY <1>1, Invariance, PTL

\* A setup fails for good only where the robot has left an account or its serial number
\* is listed padded: whatever the flows stored, async_step_reconfigure and
\* async_step_reauth_confirm checked that the account lists the robot, and what a flow
\* offers its account listed.
THEOREM FailsForGood == Spec => []FailsForGoodOnlyIfMoved
<1>1. IInv => FailsForGoodOnlyIfMoved
  BY DEF IInv
<1> QED BY <1>1, Invariance, PTL

\* What is loaded and has no reload due was set up with what is stored, but for an
\* option saved during the setup, which async_setup_entry's listener, added in its last
\* lines, misses.
THEOREM SettledIsCurrent == Spec => []SettledEntryIsCurrent
<1>1. IInv => SettledEntryIsCurrent
  BY DEF IInv, SetupsAreCurrent, SettledEntryIsCurrent, Current
<1> QED BY <1>1, Invariance, PTL

\* However often async_migrate_entry failed, and after however many buttons, the buttons
\* of an entry past version 1 are those of one migration that did not fail.
THEOREM MigrationsAgreeAlways == Spec => []MigrationsAgree
<1>1. IInv => MigrationsAgree
  BY DEF IInv, ButtonsAreOwed, MigrationsAgree, Present, Exists
<1> QED BY <1>1, Invariance, PTL
=============================================================================
