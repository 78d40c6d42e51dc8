SPECIFICATION Spec
CONSTANTS
  Id = {i1, i2}
  Token = {t1, t2, t3}
  Worker = {w1, w2}
  None = None
  MaxCrashes = 2
SYMMETRY Symmetry
INVARIANTS
  TypeOK
  DeadTokensAreRefused
  IssuedTokensWork
  RunsAsIssued
  OneTokenEach
