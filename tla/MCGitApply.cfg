SPECIFICATION Spec
CONSTANTS
  NumSteps = 3
  Files = {f1, f2}
  Faults = {"git", "listing", "raise", "interrupt"}
INVARIANTS BranchIsKept NothingLeftBehind AbortRestores
PROPERTIES OperatorFilesSurvive RefinesPlanGate
CHECK_DEADLOCK FALSE
