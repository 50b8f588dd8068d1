CONSTANTS
  f1 = f1
  f2 = f2
  Formats = {f1, f2}
  NoFormat = NoFormat
  RoomFor <- MCRoomFor
  Slots = {1, 2}
  StreamKinds = {TRUE, FALSE}
  Chunks <- MCChunks
  NoChunk = NoChunk
  NoHandle = NoHandle
  Profiles <- MCProfiles
  PoolSize = 4
SPECIFICATION Spec
INVARIANTS
  Safety
PROPERTIES
  RequestIsExact
  ServiceSpec
  RefusedChunkIsAccepted
CHECK_DEADLOCK FALSE
