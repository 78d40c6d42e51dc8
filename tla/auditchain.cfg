SPECIFICATION Spec
CONSTANTS
  Actor = {a1}
  Worker = {w1, w2}
  None = None
  Minute = 0
  Day = 3
  LimitsUsed <- Loose
  MaxTime = 0
  MaxCalls = 3
  MaxChanges = 2
  MaxFaults = 1
SYMMETRY Symmetry
CHECK_DEADLOCK FALSE
INVARIANTS
  ChainVerifies
