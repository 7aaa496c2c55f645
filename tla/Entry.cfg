SPECIFICATION FairSpec
CONSTANTS
  r1 = r1
  r2 = r2
  a1 = a1
  a2 = a2
  Robots = {r1, r2}
  Padded = {r2}
  Accounts = {a1, a2}
  Entries = {e1, e2}
  Flows = {u1, u2}
  None = None
  OldEntries <- MCOldEntries
  Titles = {"title1", "title2"}
  Presses = {"stop", "forward"}
  FirstOwners <- MCFirstOwners
  MaxChanges = 1
  MaxFlows = 2
  MaxRestarts = 1
INVARIANTS OneEntryPerRobot FailsForGoodOnlyIfMoved SettledEntryIsCurrent MigrationsAgree
PROPERTIES RightCredentialsComeUp
CHECK_DEADLOCK FALSE
