SPECIFICATION Spec
CONSTANTS
  Readme = readme
  Source = source
  Test = test
  Files = {readme, source}
  Framing = {readme}
  Versions = {v1}
  Born = {readme, source}
  Pack <- InPairs
  MaxDeltaChunks = 1
  ChurnPercent = 50
  Gone = Gone
  MaxHeads = 3
  MaxEdits = 3
INVARIANT NothingIsLeftOut
