SPECIFICATION Spec
CONSTANTS
  Procs = {p1}
  Names = {n1}
  Configs = {c1}
  NoConfig = NoConfig
  Verbs = {"run", "update"}
  Parallel = 1
  Archives = {}
  Elsewhere = {}
  MaxVersion = 2
  MaxRuns = 3
CHECK_DEADLOCK FALSE
PROPERTY
  CachedMeansCurrent
