SPECIFICATION Spec
CONSTANTS
  Runner = {r1, r2}
  Verifier = {v1}
  None = None
  Package <- Releases
  Alterable <- Touched
  MaxStarts = 3
CHECK_DEADLOCK FALSE
INVARIANTS DriftIsSeen HistoryIsTrue HistoryIsAPrefix SuccessIsComplete VerifiedIsComplete
PROPERTIES RunsEnd
