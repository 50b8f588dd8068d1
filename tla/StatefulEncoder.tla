---------------------------- MODULE StatefulEncoder ----------------------------
(***************************************************************************)
(* StatefulEncoder (src/encoder/stateful.rs) over its V4L2 backend: frames *)
(* wait in a queue until the backend has an OUTPUT buffer for them, and    *)
(* are then known by their request id until their coded frame comes back.  *)
(* A call runs in small steps, pc says where in it the encoder is, call    *)
(* which one it is; the device works on in between.                        *)
(*                                                                         *)
(* The client makes any calls, but keeps at most MaxInFlight frames in the *)
(* encoder; the timestamps of its frames differ and are below 2^63.  It    *)
(* gives the encoder up when a drain fails after Stop, as the C2 worker    *)
(* does: the device is not started again then.                             *)
(***************************************************************************)
EXTENDS V4L2Encoder

CONSTANTS
  Codecs, Devices,
  Limit,            (* Of the prediction structure: the key frame period.  *)
  TuningSets,       (* The tunings the client uses; ...                    *)
  Initial,          (* ... those it creates the encoder with.              *)
  MaxInFlight,      (* Frames the client leaves in the encoder.            *)
  MaxFrames, MaxTunes   (* Bounds on the calls of encode and tune.         *)

ASSUME StatefulEncoderAssumption ==
  /\ MaxFrames \in Nat
  /\ TimestampLimit \in Nat
  /\ MaxFrames <= TimestampLimit
  /\ \A t \in TuningSets \cup {Initial} : t.rate_control.mode \in RateModes

VARIABLES
  pc, call,
  queue,
  request_counter,
  tunings,
  coded_queue,
  processing,
  drained,          (* Outputs drain has collected so far.                 *)
  num_tunes,
  failed            (* History: has a call failed?                         *)

encoder_vars == <<queue, request_counter, tunings, coded_queue, processing, drained, num_tunes>>
vars == <<pc, call, failed, encoder_vars, backend_vars>>

Init ==
  /\ Create(Initial, Devices, Codecs, Limit)
  /\ pc = "idle" /\ call = "none"
  /\ queue = <<>> /\ request_counter = 0
  /\ tunings = Initial
  /\ coded_queue = <<>> /\ processing = {} /\ drained = <<>>
  /\ num_tunes = 0
  /\ failed = FALSE

Stay == UNCHANGED <<pc, call, failed>>
Goto(next) == pc' = next /\ UNCHANGED <<call, failed>>
Return == pc' = "idle" /\ call' = "none" /\ UNCHANGED failed
Fails == pc' = "idle" /\ call' = "none" /\ failed' = TRUE
GivesUp == pc' = "over" /\ call' = "none" /\ failed' = TRUE

-----------------------------------------------------------------------------
(* The client's calls, up to their first step.                             *)
CallTune(new) ==
  /\ pc = "idle"
  /\ num_tunes < MaxTunes
  /\ Validate(new.rate_control)
  /\ tunings' = new
  /\ num_tunes' = num_tunes + 1
  /\ Stay
  /\ UNCHANGED <<queue, request_counter, coded_queue, processing, drained,
                 backend_vars>>

CallEncode(force) ==
  /\ pc = "idle"
  /\ request_counter < MaxFrames
  /\ Len(queue) + Cardinality(processing) < MaxInFlight
  /\ queue' = Append(queue, [request_id |-> request_counter, tunings |-> tunings,
       meta |-> [timestamp |-> request_counter, force_keyframe |-> force]])
  /\ request_counter' = request_counter + 1
  /\ pc' = "process" /\ call' = "encode" /\ UNCHANGED failed
  /\ UNCHANGED <<tunings, coded_queue, processing, drained, num_tunes, backend_vars>>

CallPoll ==
  /\ pc = "idle"
  /\ pc' = IF queue # <<>> \/ processing # {} THEN "process" ELSE "pop"
  /\ call' = "poll" /\ UNCHANGED failed
  /\ UNCHANGED <<encoder_vars, backend_vars>>

CallDrain ==
  /\ pc = "idle"
  /\ pc' = "drain" /\ call' = "drain" /\ UNCHANGED failed
  /\ UNCHANGED <<encoder_vars, backend_vars>>

-----------------------------------------------------------------------------
(* process: what the backend has finished is taken first, then it gets the *)
(* frames that wait, as many as it takes.                                  *)
(* Mutant: the request id of a coded frame is kept.                        *)
HandleOutputsKeeping(outputs) ==
  /\ UNCHANGED processing
  /\ coded_queue' = coded_queue \o outputs

HandleOutputs(outputs) ==
  /\ processing' = processing \ {output.request_id : output \in Range(outputs)}
  /\ coded_queue' = coded_queue \o outputs

PollBackend ==
  /\ pc = "process"
  /\ IF processing = {}
       THEN Goto("submit") /\ UNCHANGED <<encoder_vars, backend_vars>>
       ELSE /\ DequeueCapture
            /\ CASE Outcome = "output" -> HandleOutputs(<<Output>>) /\ Stay
                 [] Outcome = "none"   -> Goto("submit") /\ UNCHANGED <<processing, coded_queue>>
                 [] Outcome = "failed" -> Fails /\ UNCHANGED <<processing, coded_queue>>
            /\ UNCHANGED <<queue, request_counter, tunings, drained, num_tunes, codec,
                           device, control_vars, output_vars, stopped>>

(* Where process leads, with the frames the backend did not take.          *)
Processed ==
  CASE call = "encode" -> Return
    [] call = "poll"   -> Goto("pop")
    [] call = "drain"  -> Goto(IF queue = <<>> THEN "drain" ELSE "sync")

(* Mutant: CAPTURE buffers are queued only for an idle device.             *)
SubmitIfIdle ==
  /\ pc = "submit"
  /\ IF queue = <<>>
       THEN Processed /\ UNCHANGED capture_vars
       ELSE /\ IF processing = {} THEN QueueCapture ELSE UNCHANGED capture_vars
            /\ Goto("consume")
  /\ UNCHANGED <<encoder_vars, codec, device, control_vars, output_vars, stopped,
                 currently_processed>>

Submit ==
  /\ pc = "submit"
  /\ IF queue = <<>>
       THEN Processed /\ UNCHANGED capture_vars
       ELSE QueueCapture /\ Goto("consume")
  /\ UNCHANGED <<encoder_vars, codec, device, control_vars, output_vars, stopped,
                 currently_processed>>

ConsumeRequest ==
  /\ pc = "consume"
  /\ DrainOutputQueue
  /\ IF NumOutput = Len(output_queue)
       THEN /\ Processed
            /\ UNCHANGED <<queue, processing, control_vars, output_queue, currently_processed>>
       ELSE /\ HandleRequest(Head(queue))
            /\ queue' = Tail(queue)
            /\ IF Accepts(Head(queue))
                 THEN /\ processing' = processing \cup {Head(queue).request_id}
                      /\ Goto("submit")
                 ELSE UNCHANGED processing /\ Fails
  /\ UNCHANGED <<request_counter, tunings, coded_queue, drained, num_tunes, codec, device,
                 capture_vars, stopped>>

Pop ==
  /\ pc = "pop"
  /\ coded_queue' = (IF coded_queue = <<>> THEN <<>> ELSE Tail(coded_queue))
  /\ Return
  /\ UNCHANGED <<queue, request_counter, tunings, processing, drained, num_tunes, backend_vars>>

-----------------------------------------------------------------------------
(* drain: all waiting frames go to the backend, which is drained then.     *)
(* Mutant: the frames that wait are forgotten.                             *)
DrainBackendOnly ==
  /\ pc = "drain"
  /\ IF DOMAIN currently_processed = {}
       THEN Return /\ UNCHANGED stopped
       ELSE EncoderStop /\ Goto("await")
  /\ UNCHANGED <<encoder_vars, codec, device, control_vars, output_vars, capture_vars,
                 currently_processed>>

Drain ==
  /\ pc = "drain"
  /\ CASE queue # <<>> -> Goto("process") /\ UNCHANGED stopped
       [] queue = <<>> /\ DOMAIN currently_processed = {} -> Return /\ UNCHANGED stopped
       [] OTHER -> EncoderStop /\ Goto("await")
  /\ UNCHANGED <<encoder_vars, codec, device, control_vars, output_vars, capture_vars,
                 currently_processed>>

Sync ==
  /\ pc = "sync"
  /\ CaptureReady
  /\ Goto("drain")
  /\ UNCHANGED <<encoder_vars, backend_vars>>

PollDevice ==
  /\ pc = "await"
  /\ CaptureReady
  /\ Goto("handle")
  /\ UNCHANGED <<encoder_vars, backend_vars>>

HandleBuffers ==
  /\ pc = "handle"
  /\ QueueCapture
  /\ DrainOutputQueue
  /\ Goto("collect")
  /\ UNCHANGED <<encoder_vars, codec, device, control_vars, output_queue, stopped,
                 currently_processed>>

Collect ==
  /\ pc = "collect"
  /\ DequeueCapture
  /\ IF Outcome = "failed"
       THEN drained' = <<>> /\ GivesUp
       ELSE /\ drained' = (IF Outcome = "output" THEN Append(drained, Output) ELSE drained)
            /\ Goto(IF DOMAIN currently_processed' = {} THEN "last" ELSE "await")
  /\ UNCHANGED <<queue, request_counter, tunings, coded_queue, processing, num_tunes, codec,
                 device, control_vars, output_vars, stopped>>

(* The buffer marked as the last one, if it has come.                     *)
DequeueLast ==
  /\ pc = "last"
  /\ DequeueCapture
  /\ IF Outcome = "failed"
       THEN drained' = <<>> /\ GivesUp
       ELSE /\ drained' = (IF Outcome = "output" THEN Append(drained, Output) ELSE drained)
            /\ Goto("start")
  /\ UNCHANGED <<queue, request_counter, tunings, coded_queue, processing, num_tunes, codec,
                 device, control_vars, output_vars, stopped>>

DrainEnds ==
  /\ pc = "start"
  /\ EncoderStart
  /\ HandleOutputs(drained)
  /\ drained' = <<>>
  /\ Return
  /\ UNCHANGED <<queue, request_counter, tunings, num_tunes, codec, device, control_vars,
                 output_vars, capture_vars, currently_processed>>

(* Stop, Start or the poller may fail; what drain has collected is lost    *)
(* with it.                                                                *)
StopFails ==
  /\ pc = "drain"
  /\ queue = <<>> /\ DOMAIN currently_processed # {}
  /\ Fails
  /\ UNCHANGED <<encoder_vars, backend_vars>>

SyncFails ==
  /\ pc = "sync"
  /\ Fails
  /\ UNCHANGED <<encoder_vars, backend_vars>>

DrainFails ==
  /\ pc \in {"await", "start"}
  /\ drained' = <<>>
  /\ GivesUp
  /\ UNCHANGED <<queue, request_counter, tunings, coded_queue, processing, num_tunes, backend_vars>>

-----------------------------------------------------------------------------
Calls == (\E t \in TuningSets : CallTune(t)) \/ (\E force \in BOOLEAN : CallEncode(force))
           \/ CallPoll \/ CallDrain

Runs == PollBackend \/ Submit \/ ConsumeRequest \/ Pop \/ Drain \/ Sync \/ PollDevice
          \/ HandleBuffers \/ Collect \/ DequeueLast \/ DrainEnds

Errors == StopFails \/ SyncFails \/ DrainFails

DeviceRuns == Device /\ Stay /\ UNCHANGED encoder_vars

Next == Calls \/ Runs \/ Errors \/ DeviceRuns

(* A call that can go on does, and so does the device; no error has to     *)
(* happen.                                                                 *)
Spec == Init /\ [][Next]_vars /\ WF_vars(Runs) /\ WF_vars(DeviceRuns)

-----------------------------------------------------------------------------
Ids(frames) == [i \in DOMAIN frames |-> frames[i].id + 1]
RequestIds(requests) == [i \in DOMAIN requests |-> requests[i].request_id + 1]
Bitstreams(outputs) == [i \in DOMAIN outputs |-> outputs[i].bitstream + 1]

(* Two of the filled buffers may hold no frame: the last one of a drain,   *)
(* and in front of all one that came too late for the drain before.        *)
NotStale(buffers) == IF buffers # <<>> /\ Head(buffers).empty THEN Tail(buffers) ELSE buffers
NumCoded(buffers) ==
  IF buffers # <<>> /\ buffers[Len(buffers)].empty THEN Len(buffers) - 1 ELSE Len(buffers)
CodedIds(buffers) == [i \in 1..NumCoded(buffers) |-> buffers[i].frame.id + 1]

(* The stateful encoder keeps what VideoEncoder promises (EncoderService): *)
(* frames come out coded once, in the order they went in, and drain leaves *)
(* none behind, however its calls interleave with the device, with stalls  *)
(* of the OUTPUT queue and with requests that fail.                        *)
Service == INSTANCE EncoderService WITH
  accepted <- request_counter,
  encoding <- CodedIds(NotStale(capture_done)) \o Ids(output_queue) \o RequestIds(queue),
  coded    <- Bitstreams(coded_queue \o drained),
  draining <- call = "drain",
  failed   <- failed
ServiceSpec == Service!Spec

(* Every coded frame comes with its own metadata, and the encoder counts a *)
(* frame as being processed exactly while the backend does, until a failed *)
(* drain loses frames.                                                     *)
OwnMetadata ==
  /\ \A output \in Range(coded_queue \o drained) :
       /\ output.request_id = output.bitstream
       /\ output.meta.timestamp = output.bitstream
  /\ pc # "over" =>
       processing = {entry.request_id : entry \in Range(currently_processed)}
                      \cup {output.request_id : output \in Range(drained)}

(* The device has the controls a frame's tunings ask for when it gets the  *)
(* frame, unless a change of tunings has failed before: handle_request     *)
(* writes them only when they differ from those of the frame before.       *)
TunedForFrame ==
  mixed \/ \A frame \in Range(output_queue) :
             frame.controls = Apply(device, frame.controls, Writes(codec, frame.tunings)).controls

(* Every drain returns, which the device can only see to while it has a    *)
(* CAPTURE buffer to fill.  They are queued again when a frame is given to *)
(* the device, or in drain, after a coded frame has come: that is enough   *)
(* as long as the client leaves no more frames in the encoder than the     *)
(* CAPTURE queue has buffers.                                              *)
DrainReturns == call = "drain" ~> call = "none"
=============================================================================
