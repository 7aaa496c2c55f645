SPECIFICATION FairSpec
CONSTANTS
  Families = {"plain", "cyclonext"}
  Values = {v1, v2}
  MaxChanges = 2
  MaxCommands = 1
INVARIANTS KeepsUp
PROPERTIES DedupIsSound PollingConverges
