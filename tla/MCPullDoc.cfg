SPECIFICATION Spec
CONSTANTS
  b1 = b1
  b2 = b2
  None = None
  Torn = Torn
  Unhashed = Unhashed
  Single = Single
  ManifestPath = 3
  Asset <- MCIndex
  Index <- MCIndex
  Bytes <- MCBytes
  Versions <- MCVersions
  Hashless <- MCHashless
  Filters <- MCFilters
  Declarations <- MCDeclarations
  Concurrency = 2
  MaxConcurrency = 32
  MaxRuns = 1
  MaxFaults = 0
  MaxChanges = 0
INVARIANTS
  PullsWhatIsDeclared
CHECK_DEADLOCK FALSE
