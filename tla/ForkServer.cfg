\* run_target, the fork server and the child, in all three modes.
SPECIFICATION FairSpec
CONSTANTS
  MaxCnt = 2
  MaxRuns = 3
INVARIANTS
  TypeOK
  Framing
  GivenUpForCause
  TraceIsOfThisRun
PROPERTIES
  Implements
  RunReturns
\* The session ends after MaxRuns runs, an interrupt or a fatal error.
CHECK_DEADLOCK FALSE
