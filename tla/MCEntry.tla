------------------------------ MODULE MCEntry ------------------------------
(* Instances of Entry for TLC. *)
EXTENDS Entry, TLC

CONSTANTS r1, r2, a1, a2

Old(version, uniqueId, serial, buttons) ==
  [version |-> version, uniqueId |-> uniqueId, serial |-> serial, username |-> a1,
   password |-> <<a1, 1>>, include |-> FALSE, buttons |-> buttons]

Button(by, cmd) == [by |-> by, cmd |-> cmd]

\* An entry renamed once, one of the first releases, without a serial number or a unique
\* id, and one from before unique ids.
MCOldEntries == {
  Old(1, r1, r1, <<Button("title1", "stop"), Button("title2", "stop"), Button("title2", "forward")>>),
  Old(1, None, None, <<Button("title1", "stop")>>),
  Old(3, None, r1, <<Button("serial", "stop")>>)}

\* Both robots on one account, or one on each.
MCFirstOwners == {[r \in Robots |-> a1], [r \in Robots |-> IF r = r1 THEN a1 ELSE a2]}

=============================================================================
