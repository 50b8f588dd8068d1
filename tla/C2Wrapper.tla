------------------------------ MODULE C2Wrapper ------------------------------
(***************************************************************************)
(* The Codec2 wrapper (src/c2_wrapper.rs): a component thread that calls   *)
(* start, queue, flush, drain and stop, and a worker thread that takes     *)
(* jobs from the queue they share.  This module has the shared state and   *)
(* the component's calls; C2DecoderWorker and C2EncoderWorker add the      *)
(* loop of the worker.                                                     *)
(*                                                                         *)
(* A call is several steps, one per lock it takes or event it writes; the  *)
(* worker runs between them.  A call that is refused (error_cb, BadState)  *)
(* changes nothing, so only the calls that are accepted appear.            *)
(***************************************************************************)
EXTENDS Integers, Sequences, FiniteSets, SequencesExt

CONSTANTS
  Works,        (* What a job can ask the worker to do.                    *)
  NoWork,       (* ... a drain job asks for nothing else.                  *)
  NoJob,        (* The worker has no job in its hand.                      *)
  MaxJobs,      (* Jobs queued in a behaviour, drains included: a bound.   *)
  MaxSessions,  (* Calls of start in a behaviour: a bound.                 *)
  MaxBatch,     (* Jobs in one call of queue: a bound.                     *)
  Disciplines   (* The kinds of component there are: see disciplined.      *)

ASSUME C2Assumption ==
  /\ NoWork \notin Works
  /\ MaxJobs \in Nat
  /\ MaxSessions \in Nat
  /\ MaxBatch \in Nat \ {0}
  /\ Disciplines \subseteq BOOLEAN

VARIABLES
  disciplined,        (* Constant in a behaviour.  TRUE: the component is    *)
                      (* used as the ccdec and ccenc tools do: one job to  *)
                      (* a call, no flush, nothing after drain(EOSDrain),  *)
                      (* and stop only when the worker thread has ended.   *)
  state,              (* Shared, under a lock: C2State.                    *)
  work_queue,         (* Shared, under a lock.                             *)
  awaiting_job_event, (* The count of a semaphore event descriptor.        *)
  worker,             (* Where the worker thread is; "none" and "ended"    *)
                      (* are a thread joined and a thread that returned.   *)
  job,                (* ... and the job in its hand.                      *)
  component,          (* Where the component thread is in its call.        *)
  submission,         (* ... and the jobs it is about to queue.            *)
  num_jobs,
  session,            (* The number of calls of start.                     *)
  eos,                (* drain(EOSDrain) was called in this session.       *)
  settled             (* History: ids of the jobs flush returned, stop     *)
                      (* dropped, or the worker drained or failed on.      *)

component_vars == <<disciplined, component, submission, num_jobs, session, eos,
                    settled>>
c2_vars == <<state, work_queue, awaiting_job_event, worker, component_vars>>

DrainModes == {"NoDrain", "NoEOSDrain", "EOSDrain"}
Job == [id : Nat, session : Nat, drain : DrainModes, work : Works \cup {NoWork}]

ASSUME C2JobAssumption == NoJob \notin Job

C2Init ==
  /\ disciplined \in Disciplines
  /\ state = "C2Stopped"
  /\ work_queue = <<>>
  /\ awaiting_job_event = 0
  /\ worker = "none"
  /\ job = NoJob
  /\ component = "idle"
  /\ submission = <<>>
  /\ num_jobs = 0
  /\ session = 0
  /\ eos = FALSE
  /\ settled = {}

Alive == worker \notin {"none", "ended"}
Ids(jobs) == {jobs[i].id : i \in DOMAIN jobs}

-----------------------------------------------------------------------------
(* The component's calls.                                                  *)

(* start spawns a worker.  The code looks at the state only; here the      *)
(* worker of the session before has ended as well: one worker is modelled. *)
Start ==
  /\ component = "idle"
  /\ session < MaxSessions
  /\ state = "C2Stopped"
  /\ ~Alive
  /\ state' = "C2Running"
  /\ worker' = "new"
  /\ session' = session + 1
  /\ eos' = FALSE
  /\ UNCHANGED <<disciplined, work_queue, awaiting_job_event, component, submission,
                 num_jobs, settled>>

Call == component = "idle" /\ state = "C2Running" /\ (disciplined => ~eos)

Submit(jobs) ==
  /\ Call
  /\ num_jobs + Len(jobs) <= MaxJobs
  /\ component' = "extend"
  /\ submission' = jobs
  /\ num_jobs' = num_jobs + Len(jobs)
  /\ UNCHANGED <<disciplined, state, work_queue, awaiting_job_event, worker, session,
                 settled>>

NewJob(k, mode, work) ==
  [id |-> num_jobs + k, session |-> session, drain |-> mode, work |-> work]

Queue(works) ==
  /\ Submit([k \in DOMAIN works |-> NewJob(k, "NoDrain", works[k])])
  /\ UNCHANGED eos

Drain(mode) ==
  /\ Submit(<<NewJob(1, mode, NoWork)>>)
  /\ eos' = (eos \/ mode = "EOSDrain")

(* The rest of queue and drain: extend or push_back, then write(1).        *)
(* A worker that panicked held the lock of the queue: from then on every   *)
(* call that takes it panics too, and never gets any further here.         *)
Extend ==
  /\ component = "extend"
  /\ worker # "panicked"
  /\ work_queue' = work_queue \o submission
  /\ component' = "write"
  /\ submission' = <<>>
  /\ UNCHANGED <<disciplined, state, awaiting_job_event, worker, num_jobs, session, eos,
                 settled>>

Write ==
  /\ component = "write"
  /\ awaiting_job_event' = awaiting_job_event + 1
  /\ component' = "idle"
  /\ UNCHANGED <<disciplined, state, work_queue, worker, submission, num_jobs, session, eos,
                 settled>>

Flush ==
  /\ Call
  /\ ~disciplined
  /\ component' = "flush"
  /\ UNCHANGED <<disciplined, state, work_queue, awaiting_job_event, worker, submission,
                 num_jobs, session, eos, settled>>

TakeBack ==
  /\ component = "flush"
  /\ worker # "panicked"
  /\ settled' = settled \cup Ids(work_queue)
  /\ work_queue' = <<>>
  /\ component' = "idle"
  /\ UNCHANGED <<disciplined, state, awaiting_job_event, worker, submission, num_jobs,
                 session, eos>>

(* A bound: a second stop in a row, which would only raise the event count *)
(* again, is not modelled.                                                 *)
Stop ==
  /\ component = "idle"
  /\ worker # "none"
  /\ disciplined => worker = "ended"
  /\ state' = "C2Stopped"
  /\ component' = "join"
  /\ UNCHANGED <<disciplined, work_queue, awaiting_job_event, worker, submission, num_jobs,
                 session, eos, settled>>

(* The worker is gone once join returns: the rest of stop is one step.     *)
Join ==
  /\ component = "join"
  /\ ~Alive
  /\ settled' = settled \cup Ids(work_queue)
  /\ work_queue' = <<>>
  /\ awaiting_job_event' = awaiting_job_event + 1
  /\ worker' = "none"
  /\ component' = "idle"
  /\ UNCHANGED <<disciplined, state, submission, num_jobs, session, eos>>

(* The jobs of one call of queue share a single event.                     *)
Component ==
  \/ Start
  \/ \E n \in IF disciplined THEN {1} ELSE 1..MaxBatch, work \in Works :
       Queue([k \in 1..n |-> work])
  \/ \E mode \in DrainModes \ {"NoDrain"} : Drain(mode)
  \/ Extend \/ Write
  \/ Flush \/ TakeBack
  \/ Stop \/ Join

-----------------------------------------------------------------------------
(* What both workers do with the shared state.                             *)

(* W::new fails: the thread ends.                                          *)
NewFails ==
  /\ worker = "new"
  /\ state' = "C2Error"
  /\ worker' = "ended"
  /\ UNCHANGED <<work_queue, awaiting_job_event, component_vars>>

(* The head of process_loop's while.                                       *)
LoopTest ==
  /\ worker = "loop"
  /\ worker' = IF state = "C2Running" THEN "wait" ELSE "ended"
  /\ UNCHANGED <<state, work_queue, awaiting_job_event, component_vars>>

-----------------------------------------------------------------------------
C2TypeOK ==
  /\ disciplined \in Disciplines
  /\ state \in {"C2Running", "C2Stopped", "C2Error"}
  /\ work_queue \in Seq(Job)
  /\ awaiting_job_event \in Nat
  /\ component \in {"idle", "extend", "write", "flush", "join"}
  /\ submission \in Seq(Job)
  /\ num_jobs \in Nat
  /\ session \in Nat
  /\ eos \in BOOLEAN
  /\ settled \in SUBSET Nat

(* A call of stop returns.                                                 *)
StopReturns == component = "join" ~> component = "idle"
=============================================================================
