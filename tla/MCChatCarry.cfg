SPECIFICATION Spec
CONSTANTS
  Budget = 3
  DoneRounds = 2
  StuckSettled = 2
  StuckThrash = 2
  StuckPrints = 2
  MaxCrashes = 2
  ListCap = 2
  Nothing = Nothing
  Calls = Calls
  Outcomes <- Rounds
  Workers = {w1}
  Files = {f1}
  Old <- OldTurn
  Scripts <- Cleared
INVARIANTS CarryIsPrevious
CHECK_DEADLOCK FALSE
