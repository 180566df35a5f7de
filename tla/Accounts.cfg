SPECIFICATION Spec
CONSTANTS
  User = {u1}
  Session = {s1, s2}
  Token = {o1, o2}
  Address = {a1, a2}
  Password = {p1, p2}
  Ops = {"signUp", "signIn", "ask", "verify", "resetPassword", "updateUser", "confirmEmailChange", "changePassword"}
  Req = {r1, r2}
  ConfirmationPolicies = {TRUE, FALSE}
  MaxCalls = 3
  MaxAttempts = 2
  None = None
SYMMETRY Symmetry
ACTION_CONSTRAINTS SensibleRequests SensiblePatches
CHECK_DEADLOCK FALSE
INVARIANTS TypeOK NoStalePassword ConfirmedIsProven NoProofWasted
PROPERTIES ChangesAreProven InactiveStayOut ImplementsProofTokens
