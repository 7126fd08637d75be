SPECIFICATION Spec
CONSTANTS
  b1 = b1
  b2 = b2
  None = None
  Asset <- MCIndex
  Index <- MCIndex
  Bytes <- MCOneContent
  Pinned <- MCPinned
  Manifests <- MCManifests
  Concurrency = 2
  MaxConcurrency = 32
  MaxRuns = 1
  MaxFaults = 1
INVARIANTS
  FailureLeavesUnfinished
CHECK_DEADLOCK FALSE
