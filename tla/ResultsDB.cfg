SPECIFICATION Spec
CONSTANTS
  Procs = {p1, p2}
  LastJob = 2
  MetricsOf <- MCMetricsOf
  Databases <- MCDatabases
  MaxRuns = 2
  MaxCommands = 3
SYMMETRY Sym
INVARIANTS MetricsMatch ParseCurrent DedupLasts
PROPERTY LastRowStays
CHECK_DEADLOCK FALSE
