CONSTANTS
  f1 = f1
  f2 = f2
  Formats = {f1, f2}
  NoFormat = NoFormat
  Works <- MCWorks
  NoWork = NoWork
  NoJob = NoJob
  MaxJobs = 3
  MaxSessions = 2
  MaxBatch = 2
  PoolSize = 1
  Disciplines = {TRUE, FALSE}
SPECIFICATION Spec
INVARIANTS
  Safety
PROPERTIES
  DrainCompletes
CHECK_DEADLOCK FALSE
