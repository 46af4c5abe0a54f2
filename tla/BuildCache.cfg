SPECIFICATION FairSpec
CONSTANTS
  Procs = {p1}
  Names = {n1, n2}
  Configs = {c1}
  NoConfig = NoConfig
  Verbs = {"run", "force", "update"}
  Parallel = 2
  Archives = {n2}
  Elsewhere = {n2}
  MaxVersion = 2
  MaxRuns = 3
CHECK_DEADLOCK FALSE
INVARIANT
  FileIsMemory
PROPERTIES
  CurrentUnlessMoved
  SkipsInBin
  CommandEnds
