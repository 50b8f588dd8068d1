CONSTANTS
  f1 = f1
  f2 = f2
  Formats = {f1, f2}
  NoFormat = NoFormat
  Chunks <- MCChunks
  NoChunk = NoChunk
  NoHandle = NoHandle
  Profiles <- MCProfiles
  PoolSize = 4
SPECIFICATION Spec
INVARIANTS
  TypeOK
  Safety
  ReferencesUsable
PROPERTIES
  ServiceSpec
  RefusedChunkIsAccepted
CHECK_DEADLOCK FALSE
