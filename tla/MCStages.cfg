SPECIFICATION Spec
CONSTANTS
  a1 = a1
  a2 = a2
  b1 = b1
  b2 = b2
  dev = dev
  staging = staging
  prod = prod
  w1 = w1
  w2 = w2
  None = None
  Asset <- MCAsset
  Bytes <- MCBytes
  Repo <- MCRepo
  Roots <- MCRoots
  Worker <- MCWorker
  MaxCommands = 3
  MaxLinks = 3
SYMMETRY MCSymmetry
INVARIANTS
  TypeOK
  RecordsMatchStore
  ChainEndsHere
PROPERTIES
  RmAsksEveryRepository
  PublishedIsImmutable
  EveryRepositoryKeepsLifecycle
\* The last command may be over.
CHECK_DEADLOCK FALSE
