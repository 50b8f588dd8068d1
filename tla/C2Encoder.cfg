CONSTANTS
  Works = {"frame"}
  NoWork = NoWork
  NoJob = NoJob
  MaxJobs = 4
  MaxSessions = 2
  MaxBatch = 2
  Disciplines = {TRUE, FALSE}
SPECIFICATION EncoderSpec
INVARIANTS
  EncoderSafety
PROPERTIES
  EncoderDrainCompletes
CHECK_DEADLOCK FALSE
