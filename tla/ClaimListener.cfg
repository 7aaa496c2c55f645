SPECIFICATION Spec
CONSTANTS
  Families = {"plain", "cyclonext"}
  Values = {v1, v2}
  MaxChanges = 3
  MaxCommands = 0
PROPERTIES ListenerOutlivesPolls
