SPECIFICATION FairSpec
CONSTANTS
  b1 = b1
  b2 = b2
  None = None
  Torn = Torn
  Unhashed = Unhashed
  Single = Single
  ManifestPath = 3
  Asset <- MCIndex
  Index <- MCIndex
  Bytes <- MCBytes
  Versions <- MCVersions
  Hashless <- MCHashless
  Filters <- MCFilters
  Declarations <- MCCoordinates
  Concurrency = 2
  MaxConcurrency = 32
  MaxRuns = 2
  MaxFaults = 1
  MaxChanges = 1
INVARIANTS
  ExitZeroIsComplete
  NoTempLeft
PROPERTIES
  PresentIsKept
  ImplementsContract
  PullTerminates
  PullConverges
\* Nobody has to run pull again.
CHECK_DEADLOCK FALSE
