SPECIFICATION ClaimsSpec
CONSTANTS
  p1 = p1
  Polls = {p1}
  Readings <- MCReadings
  LongOutage = 1
  StopResetMaxAge = 1
  CommandWindow = 2
  MaxTime = 3
  MaxSkew = 0
  MaxFailures = 1
INVARIANTS
  OutageIsNoticed
