SPECIFICATION Spec
CONSTANTS
  a1 = a1
  a2 = a2
  b1 = b1
  b2 = b2
  dev = dev
  staging = staging
  prod = prod
  w1 = w1
  w2 = w2
  None = None
  Asset <- MCAsset
  Bytes <- MCBytes
  Repo <- MCRepo
  Roots <- MCRoots
  Worker <- MCWorker
  MaxCommands = 2
  MaxLinks = 3
SYMMETRY MCSymmetry
INVARIANTS
  ChainStartsAtPublish
CHECK_DEADLOCK FALSE
