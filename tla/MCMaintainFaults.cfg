SPECIFICATION PersistentSpec
CONSTANTS
  Runs = {r1}
  User = User
  Base = Base
  NoRun = NoRun
  MaxBranch = 1
  Missing = Missing
  Torn = Torn
  DraftOnTestFailure = TRUE
  ReadyOnGreen = TRUE
  TestCommands = {TRUE, FALSE}
  WatchFlags = {TRUE, FALSE}
  Faults = {"refused", "lost", "status", "crash", "torn", "no_url", "served", "moved", "resumed"}
INVARIANTS IncompleteNeverReady LedgerTracksTheWorld
PROPERTIES FailingTestsStayDraft EventuallyOpened
CHECK_DEADLOCK FALSE
