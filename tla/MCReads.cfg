\* Pages, lookups, walks and comparisons, two at a time, with one change by
\* others, and sessions of four cob use commands in two nested directories.
SPECIFICATION FairSpec

CONSTANTS
  Limit = 2
  Hole = "hole"
  Entry <- MCEntry
  MaxChanges = 1
  Container <- MCContainer
  MaxPages = 2
  Malformed <- MCMalformed
  Targets <- MCTargets
  Depths <- MCDepths
  Name = {"a", "b"}
  Bytes = {"x", "y"}
  None = "none"
  Unhashed = ""
  Situations <- MCSituations
  Deepest = 1
  Repo = {"R", "S"}
  Package = {"P"}
  Version = {"1"}
  Absent = "absent"
  MaxCommands = 4

INVARIANTS
  TypeOK
  ListingIsWhole
  AbsenceIsReal
  WalkAccountsForEverything
  DiffVerdictHolds
  NearestPointerWins

PROPERTY
  ReadTerminates

CHECK_DEADLOCK FALSE
