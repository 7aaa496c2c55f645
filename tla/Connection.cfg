SPECIFICATION Spec
CONSTANTS
  Polls = {poll}
  Commands = {command}
  Tries = 2
  Attempts = 2
  Threshold = 3
  MaxBegins = 3
  MaxFaults = 2
CHECK_DEADLOCK FALSE
INVARIANTS NothingOrphaned OfflineIsReal SentOnce UnloadCloses
PROPERTIES EveryStepAdvances
