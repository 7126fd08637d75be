\* As in MCReads: a version that does not exist passes a diff.
SPECIFICATION Spec

CONSTANTS
  Limit = 2
  Hole = "hole"
  Entry <- MCEntry
  MaxChanges = 1
  Container <- MCContainer
  MaxPages = 2
  Malformed <- MCMalformed
  Targets <- MCTargets
  Depths <- MCDepths
  Name = {"a", "b"}
  Bytes = {"x", "y"}
  None = "none"
  Unhashed = ""
  Situations <- MCSituations
  Deepest = 1
  Repo = {"R", "S"}
  Package = {"P"}
  Version = {"1"}
  Absent = "absent"
  MaxCommands = 4

INVARIANT ZeroMeansIdentical

CHECK_DEADLOCK FALSE
