CONSTANTS
  f1 = f1
  f2 = f2
  Formats = {f1, f2}
  NoFormat = NoFormat
  Chunks <- MCChunks
  NoChunk = NoChunk
  NoHandle = NoHandle
  Profiles <- MCProfiles
  PoolSize = 2
  SplitsUnits = FALSE
SPECIFICATION Spec
INVARIANTS
  SlotsDescribeFrames
PROPERTIES
  ServiceSpec
  RetryIsHarmless
CHECK_DEADLOCK FALSE
