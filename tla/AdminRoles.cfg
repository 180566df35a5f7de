SPECIFICATION Spec
CONSTANTS
  u1 = u1
  u2 = u2
  User = {u1, u2}
  Role = {1, 2, 3}
  System = {1}
  Handler = {h1, h2}
  Trusted = Trusted
  None = None
  Seeds <- Seeds1
  Offered <- Offered1
  MaxRank = 2
  MaxCalls = 2
CHECK_DEADLOCK FALSE
INVARIANTS TypeOK NoShortCycle
PROPERTIES SystemRoleKept EditsAreEntitled
