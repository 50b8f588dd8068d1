------------------------------ MODULE V4L2Encoder ------------------------------
(***************************************************************************)
(* V4L2Backend (src/backend/v4l2/encoder.rs), the backend of the stateful  *)
(* encoder, and the device behind it.  Frames go to the device in OUTPUT   *)
(* buffers and come back coded in CAPTURE buffers; both queues have a      *)
(* fixed number of buffers, which are free, queued or done.  The backend   *)
(* knows a coded frame by its timestamp.                                   *)
(*                                                                         *)
(* The device is external.  It codes frames in order, when it has a        *)
(* CAPTURE buffer to fill, and copies the timestamp.  It gives back the    *)
(* OUTPUT buffer with, or before, the coded frame.  After Stop it marks    *)
(* the last coded frame, or an empty buffer behind it, as the last one.    *)
(***************************************************************************)
EXTENDS Integers, FiniteSets, SequencesExt

CONSTANTS
  NumOutput, NumCapture,   (* Buffers of the queues; 16 in the code.       *)
  TimestampLimit,          (* Stands for 2^63.                             *)
  I32Max                   (* The largest value of a control.              *)

ASSUME QueuesAssumption == NumOutput \in Nat \ {0} /\ NumCapture \in Nat \ {0}

-----------------------------------------------------------------------------
(* The controls programmed on the device for a set of tunings              *)
(* (src/encoder/stateful/*/v4l2.rs), in the order they are written.  A     *)
(* device lacks some and refuses to set others; a value may not fit the    *)
(* i32 of its control.  What was written before a failure stays written.   *)

(* A function with some of its values set.                                 *)
With(f, values) ==
  [n \in DOMAIN f \cup DOMAIN values |-> IF n \in DOMAIN values THEN values[n] ELSE f[n]]

OutOfRange == -1
CtrlI32(value) == IF value <= I32Max THEN value ELSE OutOfRange

(* RateControl, and the bit rate modes of V4L2.                             *)
RateModes == {"VariableBitrate", "ConstantBitrate", "ConstantQuality"}

VideoBitrateMode(rc) ==
  CASE rc.mode = "VariableBitrate" -> 0
    [] rc.mode = "ConstantBitrate" -> 1
    [] rc.mode = "ConstantQuality" -> 2

(* RateControl::validate: the average of a variable bit rate is positive   *)
(* and at most its peak.                                                   *)
Validate(rc) ==
  rc.mode = "VariableBitrate" => rc.avg_bitrate > 0 /\ rc.max_bitrate >= rc.avg_bitrate

(* A write sets a cluster of controls at once.  One that is required fails *)
(* on a device that lacks a control of it, another one is skipped there.   *)
ApplyCtrl(name, value) == [values |-> [n \in {name} |-> value], required |-> FALSE]
RequireCtrls(values) == [values |-> values, required |-> TRUE]

(* The frame rate is set on both queues: S_PARM never fails the caller.    *)
ApplyParm(framerate) ==
  <<ApplyCtrl("output framerate", framerate), ApplyCtrl("capture framerate", 1000)>>

RateWrites(rc) ==
  CASE rc.mode = "ConstantBitrate" ->
         <<ApplyCtrl("bitrate mode", VideoBitrateMode(rc)),
           ApplyCtrl("bitrate", CtrlI32(rc.target))>>
    [] rc.mode = "VariableBitrate" ->
         <<RequireCtrls([n \in {"bitrate mode", "bitrate", "peak bitrate"} |->
             CASE n = "bitrate mode" -> VideoBitrateMode(rc)
               [] n = "bitrate"      -> CtrlI32(rc.avg_bitrate)
               [] n = "peak bitrate" -> CtrlI32(rc.max_bitrate)])>>
    [] rc.mode = "ConstantQuality" ->
         <<ApplyCtrl("bitrate mode", VideoBitrateMode(rc)),
           ApplyCtrl("constant quality", CtrlI32(rc.qp))>>

Clamp(x, low, high) == IF x < low THEN low ELSE IF x > high THEN high ELSE x

QualityRange(codec) ==
  CASE codec \in {"H264", "H265"} -> <<1, 51>>
    [] codec = "VP8"              -> <<0, 127>>
    [] codec = "VP9"              -> <<0, 255>>

TuningWrites(codec, t) ==
  LET low  == QualityRange(codec)[1]
      high == QualityRange(codec)[2]
  IN  <<ApplyCtrl("min qp", Clamp(t.min_quality, low, high)),
        ApplyCtrl("max qp", Clamp(t.max_quality, low, high))>>

(* All a change of tunings writes.                                         *)
Writes(codec, t) ==
  ApplyParm(t.framerate) \o RateWrites(t.rate_control) \o TuningWrites(codec, t)

(* What the encoder of a codec writes before its first tunings: the period *)
(* of key frames, then the codec's own controls.                           *)
NewWrites(codec, limit) ==
  <<ApplyCtrl("gop size", limit)>>
    \o (IF codec = "H264" THEN <<ApplyCtrl("i period", limit)>> ELSE <<>>)
    \o (IF codec \in {"H264", "H265"} THEN <<ApplyCtrl("prepend parameter sets", 1)>> ELSE <<>>)
    \o <<ApplyCtrl("profile", 1)>>
    \o (IF codec \in {"H264", "H265"} THEN <<ApplyCtrl("level", 1)>> ELSE <<>>)

(* One write: a device sets the controls it has, or refuses.               *)
Rejects(device, write) ==
  LET names == DOMAIN write.values IN
  \/ \E n \in names : write.values[n] = OutOfRange
  \/ names \cap device.refused # {}
  \/ write.required /\ ~(names \subseteq device.supported)

Has(device, write) == DOMAIN write.values \subseteq device.supported

Write(device, controls, write) ==
  IF Has(device, write) THEN With(controls, write.values) ELSE controls

(* The writes in their order, up to the first that is refused.             *)
Apply(device, controls, writes) ==
  LET done[n \in 0..Len(writes)] ==
        IF n = 0 THEN controls ELSE Write(device, done[n - 1], writes[n])
      refused == {i \in 1..Len(writes) : Rejects(device, writes[i])}
  IN  [controls |-> done[IF refused = {} THEN Len(writes) ELSE Min(refused) - 1],
       ok |-> refused = {}]

(* The controls a device has after new and create.                         *)
Created(device, codec, limit, t) ==
  Apply(device, [n \in {} |-> 0],
        NewWrites(codec, limit) \o Writes(codec, t) \o <<ApplyCtrl("header mode", 1)>>)

-----------------------------------------------------------------------------
VARIABLES
  codec, device,
  controls,              (* On the device.                                 *)
  output_queue,          (* Frames the device has still to code.           *)
  output_done,           (* OUTPUT buffers it is done with.                *)
  capture_free,          (* CAPTURE buffers that are not queued.           *)
  capture_done,          (* CAPTURE buffers it has filled.                 *)
  stopped,               (* "no", "draining" or "last": Stop, LAST sent.   *)
  currently_processed,   (* By timestamp: request id and metadata.         *)
  current_tunings,
  mixed                  (* History: has a change of tunings failed?       *)

capture_vars == <<capture_free, capture_done>>
output_vars == <<output_queue, output_done>>
control_vars == <<controls, current_tunings, mixed>>
backend_vars == <<codec, device, control_vars, output_vars, capture_vars, stopped,
                  currently_processed>>

NumQueuedCapture == NumCapture - capture_free - Len(capture_done)
NumFreeOutput == NumOutput - Len(output_queue) - output_done

-----------------------------------------------------------------------------
(* A u64 that went through a timeval.                                      *)
Copied(timestamp) == IF timestamp < TimestampLimit THEN timestamp ELSE 0

(* new and create for one of the devices that take the tunings.            *)
Create(tunings, devices, codecs, limit) ==
  /\ device \in devices
  /\ codec \in codecs
  /\ Validate(tunings.rate_control)
  /\ Created(device, codec, limit, tunings).ok
  /\ controls = Created(device, codec, limit, tunings).controls
  /\ current_tunings = tunings
  /\ output_queue = <<>> /\ output_done = 0
  /\ capture_free = NumCapture /\ capture_done = <<>>
  /\ stopped = "no"
  /\ currently_processed = [t \in {} |-> 0]
  /\ mixed = FALSE

-----------------------------------------------------------------------------
(* The device.                                                             *)
Coded(frame, last) == [frame |-> frame, last |-> last, empty |-> FALSE]
EmptyLast == [last |-> TRUE, empty |-> TRUE]

DeviceCodes ==
  /\ output_queue # <<>>
  /\ NumQueuedCapture > 0
  /\ \E last \in BOOLEAN :
       /\ last => stopped = "draining" /\ Len(output_queue) = 1
       /\ capture_done' = Append(capture_done, Coded(Head(output_queue), last))
       /\ stopped' = IF last THEN "last" ELSE stopped
  /\ output_queue' = Tail(output_queue)
  /\ output_done' = output_done + 1
  /\ UNCHANGED <<codec, device, control_vars, capture_free, currently_processed>>

DeviceEnds ==
  /\ stopped = "draining"
  /\ output_queue = <<>>
  /\ NumQueuedCapture > 0
  /\ capture_done' = Append(capture_done, EmptyLast)
  /\ stopped' = "last"
  /\ UNCHANGED <<codec, device, control_vars, output_vars, capture_free, currently_processed>>

Device == DeviceCodes \/ DeviceEnds

-----------------------------------------------------------------------------
(* The backend.                                                            *)

(* What the poller waits for: the only event it has enabled.               *)
CaptureReady == capture_done # <<>>

(* All free CAPTURE buffers are queued.                                    *)
QueueCapture ==
  /\ capture_free' = 0
  /\ UNCHANGED capture_done

(* The oldest filled CAPTURE buffer, which is free again.  It holds no     *)
(* frame, one that is being processed, or one the backend does not know.   *)
Outcome ==
  CASE ~CaptureReady -> "none"
    [] CaptureReady /\ Head(capture_done).empty -> "none"
    [] OTHER ->
       IF Copied(Head(capture_done).frame.timestamp) \in DOMAIN currently_processed
         THEN "output" ELSE "failed"

Output ==
  LET frame == Head(capture_done).frame
      entry == currently_processed[Copied(frame.timestamp)]
  IN  [request_id |-> entry.request_id, meta |-> entry.meta, bitstream |-> frame.id]

DequeueCapture ==
  /\ IF CaptureReady
       THEN capture_done' = Tail(capture_done) /\ capture_free' = capture_free + 1
       ELSE UNCHANGED capture_vars
  /\ currently_processed' =
       IF Outcome = "output"
         THEN [t \in DOMAIN currently_processed
                       \ {Copied(Head(capture_done).frame.timestamp)} |->
                 currently_processed[t]]
         ELSE currently_processed

DrainOutputQueue == output_done' = 0

(* The device gets the tunings of the request unless it has them.          *)
Tuned(tunings) ==
  IF tunings = current_tunings
    THEN [controls |-> controls, ok |-> TRUE]
    ELSE Apply(device, controls, Writes(codec, tunings))

Accepts(request) ==
  /\ Validate(request.tunings.rate_control)
  /\ Tuned(request.tunings).ok
  /\ request.meta.force_keyframe => "force keyframe" \notin device.refused

(* Mutant: the tunings of the device are not noted.                        *)
ApplyTuningsUnnoted(request) ==
  /\ controls' = Tuned(request.tunings).controls
  /\ mixed' = (mixed \/ ~Tuned(request.tunings).ok)
  /\ UNCHANGED current_tunings

ApplyTunings(request) ==
  /\ controls' = Tuned(request.tunings).controls
  /\ current_tunings' =
       IF Tuned(request.tunings).ok THEN request.tunings ELSE current_tunings
  /\ mixed' = (mixed \/ ~Tuned(request.tunings).ok)

(* consume_request, after handle_buffers and with an OUTPUT buffer free: a *)
(* request that fails is gone.                                             *)
HandleRequest(request) ==
  /\ ApplyTunings(request)
  /\ IF Accepts(request)
       THEN /\ output_queue' =
                 Append(output_queue, [id |-> request.request_id,
                   timestamp |-> request.meta.timestamp, tunings |-> request.tunings,
                   controls |-> controls'])
            /\ currently_processed' = With(currently_processed, [t \in {request.meta.timestamp} |->
                 [request_id |-> request.request_id, meta |-> request.meta]])
       ELSE UNCHANGED <<output_queue, currently_processed>>

EncoderStop == stopped' = "draining"
EncoderStart == stopped' = "no"
=============================================================================
