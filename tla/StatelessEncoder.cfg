CONSTANTS
  Codecs = {"H264", "H265", "AV1"}
  Limits = {2, 3}
  Values = {"low", "high"}
  Initial = "low"
  Uses <- MCUses
  MaxCalls <- MCMaxCalls
SPECIFICATION Spec
INVARIANTS
  TypeOK
  Safety
  TuningsOnTimeIfCareful
PROPERTIES
  KeyframesInTime
  LastFrameIfCareful
  ServiceSpec
  DrainReturns
