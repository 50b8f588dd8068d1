--------------------------- MODULE C2DecoderWorker ---------------------------
(***************************************************************************)
(* The decoder's worker thread (src/c2_wrapper/c2_decoder.rs): it sleeps   *)
(* on two descriptors, the job event and the decoder's, submits the queued *)
(* bitstreams to the decoder and hands the decoded frames to the component.*)
(*                                                                         *)
(* The decoder is StatelessDecoder's, for a stream of key frames: a job's  *)
(* work is its format and the number of decode calls that consume it       *)
(* (decode may process a part of the bitstream only).  The worker has      *)
(* taken every event when it calls decode for the first time after a       *)
(* refusal, so a resolution change never finds frames still queued.        *)
(***************************************************************************)
EXTENDS C2Wrapper, StatelessDecoder

CONSTANTS
  PoolSize      (* Output frames alloc_cb can hand out.                    *)

ASSUME C2DecoderAssumption ==
  /\ Works \subseteq [format : Formats, units : Nat \ {0}]
  /\ \A w \in Works : w.units > 1 => [w EXCEPT !.units = @ - 1] \in Works
  /\ PoolSize \in Nat \ {0}

VARIABLES
  decoded,      (* History: the <<job id, units left>> of every frame.     *)
  held,         (* Frames the component has and will give back.            *)
  pool_start,   (* Frames above this number are of the current pool.       *)
  refused       (* History: a decode call was refused since the queue was  *)
                (* last empty.                                             *)

output_vars == <<decoded, held, pool_start>>
vars == <<c2_vars, decoder_vars, job, output_vars, refused>>

Init ==
  /\ C2Init
  /\ DecoderInit
  /\ decoded = <<>>
  /\ held = {}
  /\ pool_start = 0
  /\ refused = FALSE

-----------------------------------------------------------------------------
(* new, with a decoder of its own.                                         *)
New ==
  /\ worker = "new"
  /\ worker' = "loop"
  /\ decoding_state' = State("AwaitingStreamInfo")
  /\ ready_queue' = <<>>
  /\ ready_poll_fd' = FALSE
  /\ awaiting_format_event' = FALSE
  /\ accepted_format' = NoFormat
  /\ backend_format' = NoFormat
  /\ client_thread' = "running"
  /\ UNCHANGED <<state, work_queue, awaiting_job_event, component_vars, job,
                 output_vars, refused>>

(* Epoll::wait with room for one event and no timeout: with both           *)
(* descriptors readable it reports either.                                 *)
WakeForDecoder ==
  /\ worker = "wait"
  /\ PollIn
  /\ worker' = "pop"
  /\ UNCHANGED <<state, work_queue, awaiting_job_event, component_vars,
                 decoder_vars, job, output_vars, refused>>

WakeForJob ==
  /\ worker = "wait"
  /\ awaiting_job_event > 0
  /\ awaiting_job_event' = awaiting_job_event - 1
  /\ worker' = "pop"
  /\ UNCHANGED <<state, work_queue, component_vars, decoder_vars, job,
                 output_vars, refused>>

Pop ==
  /\ worker = "pop"
  /\ IF work_queue = <<>>
       THEN worker' = "check" /\ refused' = FALSE /\ UNCHANGED <<work_queue, job>>
       ELSE /\ worker' = "decode"
            /\ job' = Head(work_queue)
            /\ work_queue' = Tail(work_queue)
            /\ UNCHANGED refused
  /\ UNCHANGED <<state, awaiting_job_event, component_vars, decoder_vars,
                 output_vars>>

(* Mutant: the end of the stream does not stop the loop.                   *)
DrainOnly ==
  /\ worker = "decode"
  /\ job.drain # "NoDrain"
  /\ decoding_state' = State("Reset")
  /\ settled' = settled \cup {job.id}
  /\ worker' = "check"
  /\ job' = NoJob
  /\ UNCHANGED <<state, work_queue, awaiting_job_event, component, submission,
                 num_jobs, session, eos, disciplined, ready_queue, ready_poll_fd,
                 awaiting_format_event, accepted_format, backend_format,
                 client_thread, output_vars, refused>>

(* A drain job: flush, and for the end of the stream the state changes     *)
(* before the events are looked at.                                        *)
DrainDecoder ==
  /\ worker = "decode"
  /\ job.drain # "NoDrain"
  /\ decoding_state' = State("Reset")
  /\ state' = IF job.drain = "EOSDrain" THEN "C2Stopped" ELSE state
  /\ settled' = settled \cup {job.id}
  /\ worker' = "check"
  /\ job' = NoJob
  /\ UNCHANGED <<work_queue, awaiting_job_event, component, submission,
                 num_jobs, session, eos, disciplined, ready_queue, ready_poll_fd,
                 awaiting_format_event, accepted_format, backend_format,
                 client_thread, output_vars, refused>>

DecodeCall == worker = "decode" /\ job.drain = "NoDrain"

PoolFrames == {h.id : h \in ToSet(ready_queue)} \cup held
CanAlloc == Cardinality({n \in PoolFrames : n > pool_start}) < PoolSize

Handle == [id |-> Len(decoded) + 1, format |-> job.work.format]

(* The unprocessed part of a bitstream goes back to the front.             *)
Resubmit == work_queue' = <<[job EXCEPT !.work.units = @ - 1]>> \o work_queue

Decode ==
  /\ DecodeCall
  /\ job.work.format = accepted_format
  /\ CanAlloc
  /\ decoding_state' = State("Decoding")
  /\ PushReady(<<Handle>>)
  /\ decoded' = Append(decoded, <<job.id, job.work.units>>)
  /\ IF job.work.units > 1 THEN Resubmit ELSE UNCHANGED work_queue
  /\ worker' = "pop"
  /\ job' = NoJob
  /\ UNCHANGED <<state, awaiting_job_event, component_vars,
                 awaiting_format_event, accepted_format, backend_format,
                 client_thread, held, pool_start, refused>>

(* Mutant: a refused job is not put back.                                  *)
PutBackNothing ==
  /\ job' = NoJob
  /\ worker' = "check"
  /\ refused' = TRUE
  /\ UNCHANGED <<work_queue, state, awaiting_job_event, component_vars,
                 output_vars>>

PutBack ==
  /\ work_queue' = <<job>> \o work_queue
  /\ job' = NoJob
  /\ worker' = "check"
  /\ refused' = TRUE
  /\ UNCHANGED <<state, awaiting_job_event, component_vars, output_vars>>

(* CheckEvents: a resolution change begins ...                             *)
StartDrc ==
  /\ DecodeCall
  /\ job.work.format # accepted_format
  /\ InState("Decoding")
  /\ decoding_state' = State("FlushingForDRC")
  /\ awaiting_format_event' = TRUE
  /\ PutBack
  /\ UNCHANGED <<ready_queue, ready_poll_fd, accepted_format, backend_format,
                 client_thread>>

(* ... or the format is announced.                                         *)
NewSequence ==
  /\ DecodeCall
  /\ job.work.format # accepted_format
  /\ ~InState("Decoding")
  /\ AwaitFormatChange(job.work.format)
  /\ PutBack
  /\ UNCHANGED <<ready_queue, ready_poll_fd, accepted_format, client_thread>>

NotEnoughOutputBuffers ==
  /\ DecodeCall
  /\ job.work.format = accepted_format
  /\ ~CanAlloc
  /\ decoding_state' = State("Decoding")
  /\ PutBack
  /\ UNCHANGED <<ready_queue, ready_poll_fd, awaiting_format_event,
                 accepted_format, backend_format, client_thread>>

(* Any other error, of decode or of flush.                                 *)
Fail ==
  /\ worker = "decode"
  /\ state' = "C2Error"
  /\ worker' = "check"
  /\ settled' = settled \cup {job.id}
  /\ job' = NoJob
  /\ UNCHANGED <<work_queue, awaiting_job_event, component, submission,
                 num_jobs, session, eos, disciplined, decoder_vars, output_vars, refused>>

(* check_events, one event at a time.                                      *)
CheckFrame ==
  /\ worker = "check"
  /\ FrameReady
  /\ held' = held \cup {Head(ready_queue).id}
  /\ UNCHANGED <<c2_vars, decoding_state, awaiting_format_event,
                 accepted_format, backend_format, job, decoded, pool_start,
                 refused>>

CheckFormat ==
  /\ worker = "check"
  /\ FormatChanged
  /\ pool_start' = Len(decoded)
  /\ UNCHANGED <<c2_vars, ready_queue, ready_poll_fd, backend_format, job,
                 decoded, held, refused>>

CheckNothing ==
  /\ worker = "check"
  /\ NoEvent
  /\ worker' = "loop"
  /\ UNCHANGED <<state, work_queue, awaiting_job_event, component_vars,
                 decoder_vars, job, output_vars, refused>>

Worker ==
  \/ New \/ WakeForDecoder \/ WakeForJob \/ Pop \/ DrainDecoder \/ Decode
  \/ StartDrc \/ NewSequence \/ NotEnoughOutputBuffers
  \/ CheckFrame \/ CheckFormat \/ CheckNothing
  \/ LoopTest /\ UNCHANGED <<decoder_vars, job, output_vars, refused>>

Failure ==
  \/ Fail
  \/ NewFails /\ UNCHANGED <<decoder_vars, job, output_vars, refused>>

ComponentStep ==
  Component /\ UNCHANGED <<decoder_vars, job, output_vars, refused>>

(* The component is done with a frame: it is back in the pool, and no      *)
(* descriptor tells the worker.                                            *)
Release(n) ==
  /\ held' = held \ {n}
  /\ UNCHANGED <<c2_vars, decoder_vars, job, decoded, pool_start,
                 refused>>

Next ==
  \/ Worker
  \/ Failure
  \/ ComponentStep
  \/ \E n \in held : Release(n)

(* Threads run, calls that were begun go on, and frames are given back.    *)
Fairness ==
  /\ WF_vars(Worker)
  /\ WF_vars((Extend \/ Write \/ TakeBack \/ Join)
               /\ UNCHANGED <<decoder_vars, job, output_vars, refused>>)
  /\ \A n \in 1..MaxJobs : WF_vars(n \in held /\ Release(n))

Spec == Init /\ [][Next]_vars /\ Fairness

-----------------------------------------------------------------------------
TypeOK ==
  /\ C2TypeOK
  /\ DecoderTypeOK([id : Nat, format : Formats])
  /\ worker \in {"none", "new", "loop", "wait", "pop", "decode", "check", "ended"}
  /\ job \in Job \cup {NoJob}
  /\ worker = "decode" <=> job # NoJob
  /\ decoded \in Seq(Nat \X Nat)
  /\ held \in SUBSET Nat
  /\ pool_start \in Nat
  /\ refused \in BOOLEAN

(* No job is lost between the two threads, across refusals, partial        *)
(* decodes and flushes: it waits in the queue or in a thread's hand, or it *)
(* was decoded to its end, or settled otherwise (queue, flush, stop,       *)
(* process_loop).                                                          *)
NoJobLost ==
  \A n \in 1..num_jobs :
    \/ n \in Ids(work_queue) \cup Ids(submission) \cup settled
    \/ job # NoJob /\ job.id = n
    \/ <<n, 1>> \in ToSet(decoded)

(* Bitstreams are decoded in the order they were queued in, each part of   *)
(* them once, whatever was refused, resubmitted or flushed in between.     *)
DecodedInOrder ==
  \A i, j \in DOMAIN decoded : i < j =>
    \/ decoded[i][1] < decoded[j][1]
    \/ decoded[i][1] = decoded[j][1] /\ decoded[i][2] > decoded[j][2]

(* The worker does not go to sleep over a job nobody has refused: then a   *)
(* wake-up is there, or on its way.                                        *)
NoWakeUpLost ==
  worker = "wait" /\ work_queue # <<>> /\ ~refused =>
    awaiting_job_event > 0 \/ PollIn \/ component = "write"

(* What was queued in a session is not decoded in a later one.             *)
SessionsAreSeparate == disciplined /\ job # NoJob => job.session = session

(* A component that stops when the worker thread has ended can start       *)
(* again, whatever error has ended the worker and whenever it is set.      *)
StopLasts == disciplined /\ worker = "none" => state = "C2Stopped"

(* The same of every component.  It does not hold for one that stops while *)
(* the worker runs: see the README.                                        *)
EveryStopLasts == worker = "none" => state = "C2Stopped"

(* Jobs go through the two threads whole, in order, in their own session,  *)
(* with the worker awake, and so on to the next session (queue, flush,     *)
(* stop, process_loop).                                                    *)
Safety ==
  TypeOK /\ NoJobLost /\ DecodedInOrder /\ NoWakeUpLost /\ SessionsAreSeparate /\ StopLasts

(* drain(EOSDrain) ends the worker thread with every frame delivered, or   *)
(* leaves it asleep over a job that was refused (JobsAreTaken).            *)
DrainCompletes ==
  disciplined /\ eos /\ component = "idle" ~>
    \/ worker \in {"ended", "none"} /\ ready_queue = <<>>
    \/ worker = "wait" /\ work_queue # <<>> /\ refused

(* A queued job is taken, unless the session ends.  This does not hold     *)
(* where the format changes: see the README.                               *)
JobsAreTaken ==
  state = "C2Running" /\ work_queue # <<>>
    ~> state # "C2Running" \/ work_queue = <<>>
=============================================================================
