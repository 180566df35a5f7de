SPECIFICATION Spec
CONSTANTS
  u1 = u1 s1 = s1 b1 = b1 pk = pk sk = sk r1 = r1 None = None
  User = {u1}
  Session = {s1}
  Bearer = {b1}
  Key = {pk, sk}
  Req = {r1}
  Secret = {sk}
  Scoped = {sk}
  Scope = {"org"}
  Resource = {"auth.users", "auth", "invoice"}
  Action = {"manage", "read", "pay"}
  Global = "global"
  MaxChanges = 2
  Owner <- MCOwner
  SessionOf <- MCSessionOf
  Manage <- MCManage
  Family <- MCFamily
  Grantable <- MCGrantable
  Requirements <- MCRequirements
  Lapsing = {pk, b1, s1}
INVARIANTS AuthorityIsFresh ChecksAgree
PROPERTIES EveryRequestAnswered
