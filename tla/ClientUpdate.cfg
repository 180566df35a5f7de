SPECIFICATION Spec
CONSTANTS
  Tab = {t1, t2}
  Lanes = 1
  Session = {s1}
  Ops = {"refresh", "updateUser"}
  WebLocks = TRUE
  Faults = {}
  MaxCalls = 2
  None = None
SYMMETRY Symmetry
CHECK_DEADLOCK FALSE
PROPERTIES
  CredentialsUnchanged
