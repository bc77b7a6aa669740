SPECIFICATION Spec
CONSTANTS
  Servers = {files, search}
  Breaker = 2
  HardCap = 4
  SessionCap = 3
  MaxStrays = 1
INVARIANTS BreakerTrips CapsBoundCalls UpHasSession
SYMMETRY Symmetry
CHECK_DEADLOCK FALSE
