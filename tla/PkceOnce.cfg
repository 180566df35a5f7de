SPECIFICATION Spec
CONSTANTS
  Tab = {t1, t2}
  Transaction = {x1, x2}
  Capacity = 4
  None = None
CHECK_DEADLOCK FALSE
INVARIANTS ConsumedOnce
