SPECIFICATION FairSpec
CONSTANTS
  Tasks = {t1, t2}
  Callers = {c1}
  Codes = {0, 1}
  MaxServers = 2
INVARIANT SettledTrue
PROPERTY TaskReported
CHECK_DEADLOCK FALSE
