SPECIFICATION Spec
CONSTANTS
  Readme = readme
  Source = source
  Test = test
  Files = {readme, source, test}
  Framing = {readme}
  Versions = {v1, v2}
  Born = {readme, source}
  Pack <- InPairs
  MaxDeltaChunks = 1
  ChurnPercent = 50
  Gone = Gone
  MaxHeads = 3
  MaxEdits = 2
INVARIANTS EveryFileIsPlanned CacheIsCurrent
SYMMETRY Contents
