SPECIFICATION FairSpec
CONSTANTS
  Setups <- MCSetups
  REPORT_PERIOD = 1
  INTEGRITY_PERIOD = 2
  MaxFaults = 2
  MaxCycles = 1
INVARIANTS MessagesExpected ShutdownMeansDone VisitedAll IntegrityKept
PROPERTY AllGone
