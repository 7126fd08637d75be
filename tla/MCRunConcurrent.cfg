SPECIFICATION FairSpec
CONSTANTS
  Index <- MCIndex
  Requests <- MCRequests
  MaxConcurrency = 3
INVARIANTS
  Bounded
  ResultsSound
PROPERTIES
  FailureStopsTheRest
  Returns
\* The process goes on after the call: a finished call has no next step.
CHECK_DEADLOCK FALSE
