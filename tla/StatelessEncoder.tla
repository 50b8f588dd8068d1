--------------------------- MODULE StatelessEncoder ---------------------------
(***************************************************************************)
(* StatelessEncoder (src/encoder/stateless.rs): the predictor, the queues  *)
(* of the promises the backend has not kept yet, and the coded frames poll *)
(* has not returned.  A call runs in small steps: pc says where in it the  *)
(* encoder is, call which one it is.                                       *)
(*                                                                         *)
(* The backend codes each frame and reconstructs it, in its own time.      *)
(* Only the oldest promise of a queue is ever looked at, so is_ready is a  *)
(* choice made when it is asked, and a blocking sync a step the encoder    *)
(* can always take.  encode_slice and sync may fail.  What fails before    *)
(* it changes anything (import_picture, tune with tunings the stream does  *)
(* not allow) is left out.                                                 *)
(*                                                                         *)
(* Clients: "worker" is the loop of simple_encode_loop and of the C2       *)
(* encoder worker: tune at most once, encode, poll until nothing comes.    *)
(* The other one makes calls in any order.                                 *)
(***************************************************************************)
EXTENDS LowDelay

CONSTANTS
  Uses,        (* Pairs of a blocking mode (TRUE, FALSE) and a client      *)
               (* ("worker", "any").                                       *)
  MaxCalls     (* Bound on the calls of encode and tune, for each client.  *)

VARIABLES
  pc, call,
  output_queue,   (* Ids of the submitted frames, by pending bitstream ... *)
  recon_queue,    (* ... and as the references they will become.           *)
  coded_queue,
  predictor_frame_count,
  blocking,
  client,
  must_poll,      (* "worker": poll has not come back empty yet; ...       *)
  tuned,          (* ... tune has been called since the last encode.       *)
  num_frames,
  wanted,         (* History: what tune has asked for last.                *)
  failed          (* History: has a call failed?                           *)

queue_vars == <<output_queue, recon_queue, coded_queue>>
client_vars ==
  <<blocking, client, must_poll, tuned, num_frames, wanted>>
vars == <<pc, call, predictor_vars, queue_vars, predictor_frame_count,
          client_vars, failed>>

Init ==
  /\ LowDelayInit
  /\ pc = "idle" /\ call = "none"
  /\ output_queue = <<>>
  /\ recon_queue = <<>>
  /\ coded_queue = <<>>
  /\ predictor_frame_count = 0
  /\ \E use \in Uses : blocking = use[1] /\ client = use[2]
  /\ must_poll = FALSE
  /\ tuned = FALSE
  /\ wanted = tunings
  /\ num_frames = 0
  /\ failed = FALSE

Goto(next) == pc' = next /\ UNCHANGED call
Return == pc' = "idle" /\ call' = "none"

-----------------------------------------------------------------------------
(* The client's calls, up to their first step.                             *)
Disciplined == ~failed /\ (client = "worker" => ~must_poll)

CallTune(value) ==
  /\ pc = "idle"
  /\ Disciplined
  /\ client = "worker" => ~tuned
  /\ num_frames + wanted.n < MaxCalls[client]
  /\ wanted' = [value |-> value, n |-> wanted.n + 1]
  /\ Tune(wanted')
  /\ tuned' = (client = "worker")
  /\ UNCHANGED <<pc, call, queue_vars, predictor_frame_count, blocking, client,
                 must_poll, num_frames, failed>>

CallEncode(force) ==
  /\ pc = "idle"
  /\ Disciplined
  /\ num_frames + wanted.n < MaxCalls[client]
  /\ pc' = "predict" /\ call' = "encode"
  /\ num_frames' = num_frames + 1
  /\ NewFrame([id |-> num_frames', force_keyframe |-> force, asked |-> wanted])
  /\ predictor_frame_count' = predictor_frame_count + 1
  /\ must_poll' = (client = "worker")
  /\ tuned' = FALSE
  /\ UNCHANGED <<queue_vars, blocking, client, wanted, failed>>

CallPoll ==
  /\ pc = "idle"
  /\ pc' = "outputs" /\ call' = "poll"
  /\ UNCHANGED <<predictor_vars, queue_vars, predictor_frame_count, client_vars,
                 failed>>

(* A coded frame is returned at once; else the oldest promise, if there is *)
(* one, is waited for.                                                     *)
CallPollBlocking ==
  /\ pc = "idle"
  /\ client = "any"
  /\ \/ /\ coded_queue # <<>>
        /\ coded_queue' = Tail(coded_queue)
        /\ UNCHANGED <<pc, call>>
     \/ /\ coded_queue = <<>>
        /\ pc' = (IF output_queue = <<>> THEN "outputs" ELSE "first")
        /\ call' = "poll"
        /\ UNCHANGED coded_queue
  /\ UNCHANGED <<predictor_vars, output_queue, recon_queue,
                 predictor_frame_count, client_vars, failed>>

CallDrain ==
  /\ pc = "idle"
  /\ client = "worker" => Disciplined
  /\ pc' = "drain" /\ call' = "drain"
  /\ must_poll' = (client = "worker")
  /\ UNCHANGED <<predictor_vars, queue_vars, predictor_frame_count, blocking,
                 client, tuned, num_frames, wanted, failed>>

-----------------------------------------------------------------------------
(* Where requests lead: to the backend; without (more of) them, encode     *)
(* returns; poll_pending polls on if it has executed some, else it breaks. *)
Proceed(next) ==
  CASE requests' # <<>> -> Goto("execute")
    [] OTHER            -> IF call = "encode" THEN Return ELSE Goto(next)

Predict ==
  /\ pc = "predict"
  /\ \/ RequestKeyframe /\ Goto("predict")
     \/ RequestInterframe /\ Proceed("polled")
     \/ AwaitReference /\ Proceed("polled")
     \/ QueueEmpty /\ Proceed("polled")
  /\ UNCHANGED <<queue_vars, predictor_frame_count, client_vars, failed>>

Submitted(request) ==
  /\ output_queue' = Append(output_queue, request.id)
  /\ recon_queue' = Append(recon_queue, [id |-> request.id, order |-> request.order])

Execute ==
  /\ pc = "execute"
  /\ requests # <<>>
  /\ requests' = Tail(requests)
  /\ predictor_frame_count' = predictor_frame_count - 1
  /\ Submitted(Head(requests))
  /\ Proceed("recons")
  /\ UNCHANGED <<config, queue, references, counter, poc_base, sets,
                 update_params_sets, tuning_vars, history, coded_queue,
                 client_vars, failed>>

-----------------------------------------------------------------------------
(* OutputQueue::poll and poll_pending                                      *)
(* Mutant: drain does not block.                                           *)
WaitsIfBlocking == blocking

Waits == blocking \/ call = "drain"

PollOutput ==
  /\ pc \in {"first", "outputs"}
  /\ output_queue # <<>>
  /\ output_queue' = Tail(output_queue)
  /\ coded_queue' = Append(coded_queue, Head(output_queue))
  /\ Goto("outputs")
  /\ UNCHANGED <<predictor_vars, recon_queue, predictor_frame_count, client_vars,
                 failed>>

NoOutput ==
  /\ pc = "outputs"
  /\ Waits => output_queue = <<>>
  /\ Goto("recons")
  /\ UNCHANGED <<predictor_vars, queue_vars, predictor_frame_count, client_vars,
                 failed>>

PollRecon ==
  /\ pc = "recons"
  /\ recon_queue # <<>>
  /\ recon_queue' = Tail(recon_queue)
  /\ Reconstructed(Head(recon_queue))
  /\ Goto("predict")
  /\ UNCHANGED <<output_queue, coded_queue, predictor_frame_count, client_vars,
                 failed>>

NoRecon ==
  /\ pc = "recons"
  /\ Waits => recon_queue = <<>>
  /\ Goto("polled")
  /\ UNCHANGED <<predictor_vars, queue_vars, predictor_frame_count, client_vars,
                 failed>>

(* poll_pending is done: poll takes a coded frame, drain goes on.          *)
Polled ==
  /\ pc = "polled"
  /\ IF call = "poll" THEN Return ELSE Goto("drain")
  /\ IF call = "poll"
       THEN /\ must_poll' = (must_poll /\ coded_queue # <<>>)
            /\ coded_queue' = IF coded_queue = <<>> THEN <<>> ELSE Tail(coded_queue)
       ELSE UNCHANGED <<must_poll, coded_queue>>
  /\ UNCHANGED <<predictor_vars, output_queue, recon_queue, predictor_frame_count,
                 blocking, client, tuned, num_frames, wanted, failed>>

-----------------------------------------------------------------------------
(* The two loops of drain.                                                 *)
Held == predictor_frame_count > 0 \/ recon_queue # <<>>

DrainPolls ==
  /\ pc = "drain"
  /\ output_queue # <<>> \/ recon_queue # <<>>
  /\ Goto("outputs")
  /\ UNCHANGED <<predictor_vars, queue_vars, predictor_frame_count, client_vars,
                 failed>>

DrainEnds ==
  /\ pc = "drain"
  /\ ~Held /\ output_queue = <<>>
  /\ Return
  /\ UNCHANGED <<predictor_vars, queue_vars, predictor_frame_count, client_vars,
                 failed>>

-----------------------------------------------------------------------------
(* One failure (a bound: what it does to the encoder stays).               *)
Fails ==
  /\ ~failed
  /\ Return
  /\ failed' = TRUE
  /\ UNCHANGED client_vars

(* The frame left the predictor; the requests behind it are dropped.       *)
ExecuteFails ==
  /\ pc = "execute"
  /\ requests # <<>>
  /\ requests' = <<>>
  /\ predictor_frame_count' = predictor_frame_count - 1
  /\ Fails
  /\ UNCHANGED <<config, queue, references, counter, poc_base, sets,
                 update_params_sets, tuning_vars, history, queue_vars>>

OutputFails ==
  /\ pc \in {"first", "outputs"}
  /\ output_queue # <<>>
  /\ output_queue' = Tail(output_queue)
  /\ Fails
  /\ UNCHANGED <<predictor_vars, recon_queue, coded_queue, predictor_frame_count>>

ReconFails ==
  /\ pc = "recons"
  /\ recon_queue # <<>>
  /\ recon_queue' = Tail(recon_queue)
  /\ Fails
  /\ UNCHANGED <<predictor_vars, output_queue, coded_queue, predictor_frame_count>>

(* LowDelay::drain: it does not expect to hold frames.  After a failure it *)
(* is called for the frames that were dropped but stay counted.            *)
PredictorDrainFails ==
  /\ pc = "drain"
  /\ predictor_frame_count > 0 /\ output_queue = <<>> /\ recon_queue = <<>>
  /\ Return
  /\ failed' = TRUE
  /\ UNCHANGED <<predictor_vars, queue_vars, predictor_frame_count, client_vars>>

-----------------------------------------------------------------------------
Step ==
  \/ Predict \/ Execute \/ PollOutput \/ NoOutput \/ PollRecon
  \/ NoRecon \/ Polled \/ DrainPolls \/ DrainEnds \/ PredictorDrainFails

Failure == ExecuteFails \/ OutputFails \/ ReconFails

Client ==
  \/ \E value \in Values : CallTune(value)
  \/ \E force \in BOOLEAN : CallEncode(force)
  \/ CallPoll \/ CallPollBlocking \/ CallDrain

Next == Step \/ Failure \/ Client

Spec == Init /\ [][Next]_vars /\ WF_vars(Step)

-----------------------------------------------------------------------------
TypeOK ==
  /\ LowDelayTypeOK
  /\ pc \in {"idle", "predict", "execute", "first", "outputs", "recons",
             "polled", "drain"}
  /\ call \in {"none", "encode", "poll", "drain"}
  /\ (pc = "idle") = (call = "none")
  /\ output_queue \in Seq(Nat)
  /\ recon_queue \in Seq(Reference)
  /\ coded_queue \in Seq(Nat)
  /\ predictor_frame_count \in Nat
  /\ num_frames \in Nat
  /\ wanted \in Tuning
  /\ failed \in BOOLEAN

(* predictor_frame_count is the number of frames that have not reached the *)
(* backend: drain counts on it (StatelessEncoder, execute).                *)
FramesAreCounted ==
  ~failed => predictor_frame_count = Len(queue) + Len(requests)

(* "LowDelay will not hold any frames, therefore the drain function shall  *)
(* never be called" (LowDelay::drain, which fails): while the predictor    *)
(* holds frames something is in flight that will make it go on.            *)
PredictorIsNeverDrained ==
  pc = "drain" /\ Held /\ ~failed => output_queue # <<>> \/ recon_queue # <<>>

(* A key frame starts the stream and every intra period, and no other      *)
(* frame is one unless the client forces it; in H.264 a forced key frame   *)
(* starts a period (next_request, request_keyframe).                       *)
PeriodStarts(n) ==
  IF codec = "H264" THEN last_key = 0 \/ last_key + limit = n
                    ELSE (n - 1) % limit = 0
KeyframesInTime ==
  [][latest' # latest =>
       latest'.key = (latest'.force_keyframe \/ PeriodStarts(latest'.id))]_vars

(* "frames relying solely on the last frame" (PredictionStructure): an     *)
(* inter frame is predicted from the frame before it, under the number     *)
(* that frame has (H.264 frame_num and H.265 picture order count without   *)
(* gaps, AV1 ref_order_hint).  It does not hold of an encoder that does    *)
(* not block: see the README.                                              *)
FromLastFrame(last, request) ==
  ~request.key =>
    /\ request.refs = <<[id |-> last.id, order |-> last.order]>>
    /\ request.order = last.order + 1
PredictedFromLastFrame ==
  [][latest' # latest => FromLastFrame(latest, latest')]_vars

(* ... when the encoder blocks and its client polls as the C2 worker does. *)
Careful == client = "worker" /\ blocking
LastFrameIfCareful ==
  [][latest' # latest /\ Careful => FromLastFrame(latest, latest')]_vars

(* "the requested frames prior tuning request are encoded using previous   *)
(* tunings" (tunings_queue): tunings never reach a frame that was given to *)
(* encode before they were asked for, whatever waits in the queue.         *)
TuningsNeverEarly == latest.tunings.n <= latest.asked.n

(* "the bitrate changes when requested" (tunings_queue): a frame is coded  *)
(* with the tunings that were asked for last before it.                    *)
TuningsOnTime == latest.tunings.value = latest.asked.value
TuningsOnTimeIfCareful == Careful => TuningsOnTime

(* H.264: the stream holds the parameter sets a frame is coded with by the *)
(* time the frame comes, and no others since (update_params_sets).         *)
ParameterSetsWritten == codec = "H264" => latest.sets = written

(* What encoder and predictor hold is counted, never stuck, coded with no  *)
(* tunings from its future and under the parameter sets of the stream.     *)
Safety == FramesAreCounted /\ PredictorIsNeverDrained /\ TuningsNeverEarly /\ ParameterSetsWritten

(* drain returns: the loop of drain and those of poll_pending end, as the  *)
(* backend keeps its promises.                                             *)
DrainReturns == call = "drain" ~> call = "none"

(* The encoder keeps what VideoEncoder promises (EncoderService): frames   *)
(* come out once and in order, and drain leaves none behind.               *)
Ids(frames) == [i \in DOMAIN frames |-> frames[i].id]
Service == INSTANCE EncoderService WITH
  accepted <- num_frames,
  encoding <- output_queue \o Ids(requests) \o Ids(queue),
  coded    <- coded_queue,
  draining <- call = "drain",
  failed   <- failed
ServiceSpec == Service!Spec
=============================================================================
