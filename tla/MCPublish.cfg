SPECIFICATION FairSpec
CONSTANTS
  b1 = b1
  b2 = b2
  None = None
  Asset <- MCIndex
  Index <- MCIndex
  Bytes <- MCBytes
  Pinned <- MCPinned
  Manifests <- MCManifests
  Concurrency = 2
  MaxConcurrency = 32
  MaxRuns = 3
  MaxFaults = 3
INVARIANTS
  TypeOK
  DocumentMatchesStore
  PublishedIsWhole
  FreshPublishIsExact
  FailureIsResumable
  OriginDescribesBytes
PROPERTIES
  PublishedIsImmutable
  ImplementsLifecycle
  RunTerminates
  ResumeCompletes
\* Nobody has to run publish again.
CHECK_DEADLOCK FALSE
