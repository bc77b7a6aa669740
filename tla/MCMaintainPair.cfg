SPECIFICATION Spec
CONSTANTS
  Runs = {r1, r2}
  User = User
  Base = Base
  NoRun = NoRun
  MaxBranch = 2
  Missing = Missing
  Torn = Torn
  DraftOnTestFailure = TRUE
  ReadyOnGreen = TRUE
  TestCommands = {TRUE}
  WatchFlags = {FALSE}
  Faults = {"crash", "refused", "lost"}
PROPERTIES OnlyHolderWrites TestedIsWhatShips LockIsReleased
CHECK_DEADLOCK FALSE
