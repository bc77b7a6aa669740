SPECIFICATION LockSpec
CONSTANTS
  Procs = {p1, p2, p3}
  Pids = {a, b, c}
  NoProc = NoProc
  NoPid = NoPid
INVARIANTS RecordNamesHolder
PROPERTIES RefinesMutex
