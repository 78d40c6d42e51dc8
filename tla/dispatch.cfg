SPECIFICATION Spec
CONSTANTS
  Actor = {a1}
  Worker = {w1, w2}
  None = None
  Minute = 0
  Day = 2
  LimitsUsed <- Tight
  MaxTime = 2
  MaxCalls = 3
  MaxChanges = 2
  MaxFaults = 1
SYMMETRY Symmetry
CHECK_DEADLOCK FALSE
INVARIANTS
  TypeOK
  FrozenStops
  RateBound
  TurnedAwayOnlyWhenFull
  AnswersAreOnRecord
  ChainIntact
