SPECIFICATION MCSpec
CONSTANTS
  None = None
  u1 = u1
  u2 = u2
  Threads = {a, b, c}
  MaxDepth = 2
INVARIANTS GateIsSound StorageOutlivesUse HandlesAreValid
PROPERTIES ClosingDrains WorkersReport
CHECK_DEADLOCK FALSE
