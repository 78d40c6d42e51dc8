SPECIFICATION Spec
CONSTANTS
  Admin = {a1, a2}
  Loop = Loop
  OAuthClient = {c1, c2}
  EnvClient = None
  Google = FALSE
  p1 = p1
  p2 = p2
  on = on
  off = off
  Policy = {p1, p2}
  Defaults = Defaults
  Cache <- MCCache
  None = None
  Cut = Cut
  Garbled = Garbled
  Demo = Demo
  NotConnected = NotConnected
  MaxOps = 4
  MaxTokens = 2
  MaxFaults = 1
  MaxRestarts = 1
SYMMETRY Symmetry
CHECK_DEADLOCK FALSE
INVARIANTS
  TypeOK
  BackendIsFromFiles
  DisconnectHolds
  TokenFileIsWhole
  PolicyIsChosen
