--------------------------- MODULE C2EncoderWorker ---------------------------
(***************************************************************************)
(* The encoder's worker thread (src/c2_wrapper/c2_encoder.rs).  It waits   *)
(* ten milliseconds for a job event; without one it polls the encoder for  *)
(* coded frames, with one it takes exactly one job.                        *)
(*                                                                         *)
(* The encoder is what VideoEncoder (src/encoder.rs) promises: frames come *)
(* out coded in the order they went in, at any time after encode and at    *)
(* the latest when drain returns.  The preparation of a frame (copy into   *)
(* an aligned buffer, tunings) is a part of encode that may fail.          *)
(*                                                                         *)
(* What the decoder's worker has as well bears the name of the encoder, so *)
(* that one module can speak of both.                                      *)
(***************************************************************************)
EXTENDS C2Wrapper

VARIABLES
  in_flight_queue,  (* Jobs given to the encoder.                          *)
  encoding,         (* Encoder: ids of the frames it works on ...          *)
  coded,            (* ... and of the bitstreams poll has not returned.    *)
  done              (* History: <<job id, id of its bitstream>>.           *)

encoder_vars == <<job, in_flight_queue, encoding, coded, done>>
all_vars == <<c2_vars, encoder_vars>>

EncoderInit ==
  /\ C2Init
  /\ in_flight_queue = <<>>
  /\ encoding = <<>>
  /\ coded = <<>>
  /\ done = <<>>

-----------------------------------------------------------------------------
EncoderNew ==
  /\ worker = "new"
  /\ worker' = "loop"
  /\ in_flight_queue' = <<>>
  /\ encoding' = <<>>
  /\ coded' = <<>>
  /\ settled' = settled \cup Ids(in_flight_queue)
  /\ UNCHANGED <<state, work_queue, awaiting_job_event, component, submission,
                 num_jobs, session, eos, disciplined, job, done>>

(* Ten milliseconds pass without an event.                                 *)
Timeout ==
  /\ worker = "wait"
  /\ awaiting_job_event = 0
  /\ worker' = "poll"
  /\ UNCHANGED <<state, work_queue, awaiting_job_event, component_vars,
                 encoder_vars>>

Wake ==
  /\ worker = "wait"
  /\ awaiting_job_event > 0
  /\ awaiting_job_event' = awaiting_job_event - 1
  /\ worker' = "pop"
  /\ UNCHANGED <<state, work_queue, component_vars, encoder_vars>>

EncoderPop ==
  /\ worker = "pop"
  /\ work_queue # <<>>
  /\ job' = Head(work_queue)
  /\ work_queue' = Tail(work_queue)
  /\ worker' = "encode"
  /\ UNCHANGED <<state, awaiting_job_event, component_vars, in_flight_queue,
                 encoding, coded, done>>

(* expect("Missing job from work queue!")                                  *)
MissingJob ==
  /\ worker = "pop"
  /\ work_queue = <<>>
  /\ worker' = "panicked"
  /\ UNCHANGED <<state, work_queue, awaiting_job_event, component_vars,
                 encoder_vars>>

(* Mutant: the job is recorded in front of those in flight.                *)
EncodeFirst ==
  /\ worker = "encode"
  /\ job.drain = "NoDrain"
  /\ in_flight_queue' = <<job>> \o in_flight_queue
  /\ encoding' = Append(encoding, job.id)
  /\ worker' = "poll"
  /\ job' = NoJob
  /\ UNCHANGED <<state, work_queue, awaiting_job_event, component_vars, coded,
                 done>>

Encode ==
  /\ worker = "encode"
  /\ job.drain = "NoDrain"
  /\ in_flight_queue' = Append(in_flight_queue, job)
  /\ encoding' = Append(encoding, job.id)
  /\ worker' = "poll"
  /\ job' = NoJob
  /\ UNCHANGED <<state, work_queue, awaiting_job_event, component_vars, coded,
                 done>>

(* Mutant: the loop is left without a drain of the encoder.                *)
StopEncoder ==
  /\ worker = "encode"
  /\ job.drain # "NoDrain"
  /\ state' = IF job.drain = "EOSDrain" THEN "C2Stopped" ELSE state
  /\ worker' = "poll"
  /\ settled' = settled \cup {job.id}
  /\ job' = NoJob
  /\ UNCHANGED <<work_queue, awaiting_job_event, component, submission,
                 num_jobs, session, eos, disciplined, in_flight_queue, encoding, coded,
                 done>>

DrainEncoder ==
  /\ worker = "encode"
  /\ job.drain # "NoDrain"
  /\ coded' = coded \o encoding
  /\ encoding' = <<>>
  /\ state' = IF job.drain = "EOSDrain" THEN "C2Stopped" ELSE state
  /\ worker' = "poll"
  /\ settled' = settled \cup {job.id}
  /\ job' = NoJob
  /\ UNCHANGED <<work_queue, awaiting_job_event, component, submission,
                 num_jobs, session, eos, disciplined, in_flight_queue, done>>

(* An error of the encoder, or of what prepares the frame for it, ends the *)
(* loop at once.                                                           *)
EncoderFail ==
  /\ worker = "encode"
  /\ state' = "C2Error"
  /\ worker' = "ended"
  /\ settled' = settled \cup {job.id}
  /\ job' = NoJob
  /\ UNCHANGED <<work_queue, awaiting_job_event, component, submission,
                 num_jobs, session, eos, disciplined, in_flight_queue, encoding, coded,
                 done>>

(* poll_complete_frames, a frame at a time.                                *)
PollFrame ==
  /\ worker = "poll"
  /\ coded # <<>>
  /\ done' = Append(done, <<Head(in_flight_queue).id, Head(coded)>>)
  /\ in_flight_queue' = Tail(in_flight_queue)
  /\ coded' = Tail(coded)
  /\ UNCHANGED <<c2_vars, job, encoding>>

PollNothing ==
  /\ worker = "poll"
  /\ coded = <<>>
  /\ worker' = "loop"
  /\ UNCHANGED <<state, work_queue, awaiting_job_event, component_vars,
                 encoder_vars>>

PollFails ==
  /\ worker = "poll"
  /\ encoding # <<>>
  /\ state' = "C2Error"
  /\ worker' = "loop"
  /\ UNCHANGED <<work_queue, awaiting_job_event, component_vars, encoder_vars>>

(* The encoder works on its own.                                           *)
FrameCoded ==
  /\ Alive
  /\ encoding # <<>>
  /\ coded' = Append(coded, Head(encoding))
  /\ encoding' = Tail(encoding)
  /\ UNCHANGED <<c2_vars, job, in_flight_queue, done>>

EncoderWorker ==
  \/ EncoderNew \/ Timeout \/ Wake \/ EncoderPop \/ MissingJob \/ Encode \/ DrainEncoder
  \/ PollFrame \/ PollNothing
  \/ LoopTest /\ UNCHANGED encoder_vars

EncoderFailure ==
  \/ EncoderFail \/ PollFails
  \/ NewFails /\ UNCHANGED encoder_vars

EncoderComponentStep == Component /\ UNCHANGED encoder_vars

EncoderNext == EncoderWorker \/ EncoderFailure \/ EncoderComponentStep \/ FrameCoded

EncoderFairness ==
  /\ WF_all_vars(EncoderWorker)
  /\ WF_all_vars((Extend \/ Write \/ TakeBack \/ Join) /\ UNCHANGED encoder_vars)

EncoderSpec == EncoderInit /\ [][EncoderNext]_all_vars /\ EncoderFairness

-----------------------------------------------------------------------------
EncoderTypeOK ==
  /\ C2TypeOK
  /\ worker \in {"none", "new", "loop", "wait", "pop", "encode", "poll",
                 "panicked", "ended"}
  /\ job \in Job \cup {NoJob}
  /\ in_flight_queue \in Seq(Job)
  /\ encoding \in Seq(Nat)
  /\ coded \in Seq(Nat)
  /\ done \in Seq(Nat \X Nat)

(* The 1:1 relation of jobs and wake-up events process_loop relies on: an  *)
(* event for every job in the queue, written, about to be written by queue *)
(* or drain, or just read.  A flush, a batch of jobs, and the event stop   *)
(* leaves for the next session break it.                                   *)
OneEventPerJob ==
  disciplined /\ session = 1 /\ state = "C2Running" =>
    Len(work_queue) = awaiting_job_event
      + (IF component = "write" THEN 1 ELSE 0) + (IF worker = "pop" THEN 1 ELSE 0)

(* The worker finds the job an event announced                             *)
(* (expect "Missing job from work queue!").  This does not hold after a    *)
(* flush, or a queue of several jobs: see the README.                      *)
FindsJob == worker # "panicked"

(* Every job comes back with the bitstream of its own frame, once.         *)
OwnBitstream ==
  /\ \A i \in DOMAIN done : done[i][1] = done[i][2]
  /\ \A i, j \in DOMAIN done : i < j => done[i][1] < done[j][1]

(* A job is somewhere until it has come back, or a drain, a flush, a stop  *)
(* or an error has settled it; an error leaves what is in flight there     *)
(* (in_flight_queue, process_loop).                                        *)
JobsAccountedFor ==
  \A n \in 1..num_jobs :
    \/ n \in Ids(work_queue) \cup Ids(submission) \cup Ids(in_flight_queue) \cup settled
    \/ job # NoJob /\ job.id = n
    \/ \E i \in DOMAIN done : done[i][1] = n

(* Every job is announced, is somewhere, and comes back as its own.        *)
EncoderSafety == EncoderTypeOK /\ OneEventPerJob /\ OwnBitstream /\ JobsAccountedFor

(* drain(EOSDrain) ends the worker thread, and but for an error every job  *)
(* has come back by then.                                                  *)
EncoderDrainCompletes ==
  disciplined /\ session = 1 /\ eos /\ component = "idle" /\ Alive ~>
    ~Alive /\ (state # "C2Error" => in_flight_queue = <<>>)
=============================================================================
