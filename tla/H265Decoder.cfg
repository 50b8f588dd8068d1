CONSTANTS
  NoPicture = NoPicture
  NoSet = NoSet
  Streams <- MCStreams
SPECIFICATION Spec
INVARIANTS
  EveryPictureOnce
  OutputInOrder
  ReferencesAsMeant
CHECK_DEADLOCK FALSE
