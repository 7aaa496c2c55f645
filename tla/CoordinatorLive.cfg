SPECIFICATION FairSpec
CONSTANTS
  Polls = {p1}
  Readings <- MCReadings
  LongOutage = 1
  StopResetMaxAge = 0
  CommandWindow = 0
  MaxTime = 2
  MaxSkew = 0
  MaxFailures = 1
PROPERTIES
  RecoversFromOutage
  RestReauthIsRequested
