SPECIFICATION FairSpec
CONSTANTS
  Tab = {t1}
  Lanes = 3
  Session = {s1}
  Ops = {"refresh", "updateUser"}
  WebLocks = FALSE
  Faults = {"lose", "close", "revoke"}
  MaxCalls = 4
  None = None
CHECK_DEADLOCK FALSE
PROPERTIES
  ServerKeepsPromise
  EveryCallReturns
