SPECIFICATION Spec
CONSTANTS
  Spses <- MCSpses
  Ppses <- MCPpses
  Slices <- MCSlices
  Vpses <- Vps265
  Predictions <- MCPredictions
  Configs <- MCConfigs
  Followed <- MCFollowed
  MaxSets = 2
  Careful = TRUE
  ObuHeaders <- MCObuHeaders
  SequenceHeaders <- MCSequenceHeaders
  Frames <- MCFrames
  Refilled <- MCRefilled
  Groups <- MCGroups
  Hints <- MCHints
  Av1Configs <- MCAv1Configs
  ForcedAt <- MCForcedAt
  OneTileOnly = TRUE
  Vp8Frames <- MCVp8Frames
  Vp9Chunks <- MCVp9Chunks
  CoeffPlaces = {1, 2}
  MvPlaces = {1}
  Vp9Slots = {0, 1}
  Segments = {0, 1}
  MaxChunks = 3
  RefusesSuperframes = FALSE
INVARIANTS
  ReadAsWritten
  PredictedSetIsMoved
  PartsCoverPicture
  BuiltSetsAreTaken
  ReferencesAreNearest
  StreamDecidesHeaders
CHECK_DEADLOCK FALSE
