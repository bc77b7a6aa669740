SPECIFICATION Spec
CONSTANTS
  Calls = {read, look, write, bad}
  Reads = {read}
  Writes = {write}
  Rejected = {bad}
  None = None
  Cut = Cut
  MaxSteps = 4
  MaxCalls = 2
  CountMax = 3
  KeepRecent = 1
  IdleMax = 2
  RepeatMax = 2
  TruncatedMax = 1
  EmptyMax = 1
  Specs = {"none", "zero", "min"}
  Needed = 2
  Nudges = {"write_pressure", "early_bail", "action_density_gate"}
  PressureStep = 1
  PressureCalls = 1
  BailStep = 1
  BailCalls = 1
  ProbeCount = 2
  DensityStep = 1
  DensityCalls = 2
  DensityWait = 1
  HabituationKinds = 3
  HabituationStep = 2
INVARIANTS ExitsAreEarned ZeroCallsMeansNone
  UnmetIsReprompted NewResultsArriveWhole
PROPERTIES ObservationsReopen
CHECK_DEADLOCK FALSE
