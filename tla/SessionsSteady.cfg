SPECIFICATION SteadySpec
CONSTANTS
  User = {u1}
  Session = {s1}
  Token = {t1, t2, t3}
  Req = {r1, r2}
  Ttl = 1
  MaxTime = 2
  None = None
PROPERTIES
  ReplayIsContained
  ImplementsFamily
