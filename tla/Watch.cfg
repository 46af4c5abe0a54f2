SPECIFICATION FairWatch
CONSTANTS
  Interval = 1
  StaleFactor = 3
  j1 = j1
  j2 = j2
  Jobs <- MCJobs
  MaxRuns <- MCMaxRuns
INVARIANTS WatchTypeOK OverMeansOver ZeroMeansSuccess
PROPERTY FollowReturns
CHECK_DEADLOCK FALSE
