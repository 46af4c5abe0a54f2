SPECIFICATION FairSpec
CONSTANTS
  Interval = 2
  StaleFactor = 3
  Dirs = {d1, d2}
  KillCap = 2
  MaxLag = 2
  AgeCap = 8
INVARIANTS ScratchRemoved OrphanEnds DeadJobGoesQuiet LiveJobNotStale
PROPERTIES ExitLineStays CleanupEnds LoopEnds ImplementsJobLife
CHECK_DEADLOCK FALSE
