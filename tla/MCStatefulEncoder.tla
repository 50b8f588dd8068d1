-------------------------- MODULE MCStatefulEncoder --------------------------
(* Instances of StatefulEncoder for TLC.                                   *)
EXTENDS StatefulEncoder

Tuning(rc, framerate, high) ==
  [rate_control |-> rc, framerate |-> framerate, min_quality |-> 0, max_quality |-> high]

MCInitial == Tuning([mode |-> "ConstantBitrate", target |-> 200], 30, 60)

(* A bit rate that is valid but too large for its control, and a variable  *)
(* one, at other frame rates.                                              *)
MCTunings ==
  {MCInitial,
   Tuning([mode |-> "ConstantBitrate", target |-> 3000], 60, 60),
   Tuning([mode |-> "VariableBitrate", avg_bitrate |-> 200, max_bitrate |-> 400], 60, 40)}

MCControls == {"output framerate", "capture framerate", "bitrate mode", "bitrate",
               "peak bitrate", "min qp", "max qp", "gop size", "header mode",
               "force keyframe"}

(* A device with all controls, one without a variable bit rate, and one    *)
(* that refuses to force key frames.                                       *)
MCDevices ==
  {[supported |-> MCControls, refused |-> {}],
   [supported |-> MCControls \ {"peak bitrate"}, refused |-> {}],
   [supported |-> MCControls, refused |-> {"force keyframe"}]}

MCDevice == {[supported |-> MCControls, refused |-> {}]}
MCOneTuning == {MCInitial}
=============================================================================
