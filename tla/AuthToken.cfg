SPECIFICATION FairSpec
CONSTANTS
  Tasks = {t1, t2}
  Kinds = {"discovery", "i2dPoll", "i2dCommand", "features", "shadowPoll", "shadowCommand"}
  MaxRequests = 2
  MaxExpiries = 1
INVARIANTS LoginsCollapse
PROPERTIES RetryUsesNewerToken RequestsEnd
CHECK_DEADLOCK FALSE
