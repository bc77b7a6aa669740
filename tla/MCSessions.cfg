SPECIFICATION Spec
CHECK_DEADLOCK FALSE
CONSTANTS
  Ids = {a, b}
  a = a
  b = b
  MaxAsked = 2
  MaxRecords = 3
  MaxAged = 1
  MaxInParts = 1
  MaxBroken = 1
SYMMETRY Symmetry
INVARIANTS
  Resumable
  LedgerFollows
  EphemeralLeavesNothing
