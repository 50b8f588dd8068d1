CONSTANTS
  f1 = f1
  f2 = f2
  Formats = {f1, f2}
  NoFormat = NoFormat
  Works <- MCWorks
  NoWork = NoWork
  NoJob = NoJob
  MaxJobs = 3
  MaxSessions = 1
  MaxBatch = 2
  PoolSize = 1
  Disciplines = {FALSE}
SPECIFICATION Spec
PROPERTY StopReturns
CHECK_DEADLOCK FALSE
