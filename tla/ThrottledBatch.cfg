SPECIFICATION FairSpec
CONSTANTS
  N = 4
  Repeat = 4
  Width = 5
  MayMiss = {2, 4}
  WaitAll = TRUE
  MaxFailures = 2
INVARIANTS RoundRobin WidthHeld NoneForgotten
PROPERTY SubmitsAll
CHECK_DEADLOCK FALSE
