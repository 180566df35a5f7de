SPECIFICATION Spec
CONSTANTS
  u1 = u1
  u2 = u2
  User = {u1, u2}
  Role = {1, 2, 3, 4}
  System = {}
  Handler = {h1, h2}
  Trusted = Trusted
  None = None
  Seeds <- Seeds2
  Offered <- Offered2
  MaxRank = 0
  MaxCalls = 2
CHECK_DEADLOCK FALSE
INVARIANT Acyclic
