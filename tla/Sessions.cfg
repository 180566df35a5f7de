SPECIFICATION Spec
CONSTANTS
  User = {u1}
  Session = {s1, s2}
  Token = {t1, t2, t3}
  Req = {r1, r2}
  Ttl = 2
  MaxTime = 2
  None = None
SYMMETRY Symmetry
INVARIANTS
  TypeOK
  LineageIntact
  NoTokenOutlivesSession
  DeletedUserHasNoSession
  AnswersAreTrue
PROPERTIES
  NoReplayBrushedOff
  NoTokenForInactive
