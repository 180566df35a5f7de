SPECIFICATION Spec
CONSTANTS
  User = {u1, u2}
  Session = {s1, s2}
  Identity = {i1, i2}
  State = {x1}
  Code = {c1, c2}
  Subject = {b1, b2}
  Address = {a1}
  Req = {r1, r2}
  AutoLinkPolicies = {TRUE, FALSE}
  MaxCalls = 4
  None = None
SYMMETRY Symmetry
CHECK_DEADLOCK FALSE
INVARIANTS TypeOK SingleUse IdentitiesUnique FlowsKeepTheirUser
PROPERTIES LastMethodStays LinksAreAuthorized
