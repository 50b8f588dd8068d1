CONSTANTS
  NoPicture = NoPicture
  MaxFrameNum = 4
  LongTermIdx = {0, 1}
  MaxPoc = 4
  Streams <- MCStreams
SPECIFICATION Spec
INVARIANTS
  Safety
  OutputInOrder
  BumpsAsTheStandard
  ReferencesAsMarked
CHECK_DEADLOCK FALSE
