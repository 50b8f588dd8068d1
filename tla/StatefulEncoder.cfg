CONSTANTS
  I32Max = 2000
  NumOutput = 1
  NumCapture = 2
  TimestampLimit = 100
  Codecs = {"H264"}
  Devices <- MCDevices
  Limit = 30
  TuningSets <- MCTunings
  Initial <- MCInitial
  MaxInFlight = 2
  MaxFrames = 3
  MaxTunes = 2
SPECIFICATION Spec
INVARIANTS
  OwnMetadata
  TunedForFrame
PROPERTIES
  ServiceSpec
  DrainReturns
CHECK_DEADLOCK FALSE
