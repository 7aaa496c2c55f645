SPECIFICATION Spec
CONSTANTS
  p1 = p1
  p2 = p2
  Polls = {p1, p2}
  Readings <- MCReadings
  LongOutage = 1
  StopResetMaxAge = 1
  CommandWindow = 1
  MaxTime = 3
  MaxSkew = 1
  MaxFailures = 1
SYMMETRY PollSymmetry
INVARIANTS
  TypeOK
  OutageFieldsAgree
  UnavailableOnlyAfterThreshold
  OneTracebackPerOutage
  ShowsLastGoodData
  FastWhileActive
PROPERTIES
  KeepsAvailabilityPromise
