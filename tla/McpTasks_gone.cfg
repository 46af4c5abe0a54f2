SPECIFICATION Spec
CONSTANTS
  Tasks = {t1}
  Callers = {c1}
  Codes = {0}
  MaxServers = 1
INVARIANT GoneMeansNoCode
CHECK_DEADLOCK FALSE
