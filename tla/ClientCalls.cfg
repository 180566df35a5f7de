SPECIFICATION Spec
CONSTANTS
  Tab = {t1, t2}
  Lanes = 1
  Session = {s1, s2}
  Ops = {"refresh", "signIn", "signOut"}
  WebLocks = TRUE
  Faults = {"lose"}
  MaxCalls = 4
  None = None
SYMMETRY Symmetry
CHECK_DEADLOCK FALSE
INVARIANTS
  TypeOK
  NoHonestReplay
  NewestTokenKept
