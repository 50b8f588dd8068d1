------------------------------- MODULE C2Proofs -------------------------------
(***************************************************************************)
(* Theorems of C2EncoderWorker and C2DecoderWorker, for every set of works *)
(* and formats, any number of jobs and sessions, every pool and both kinds *)
(* of component: the threads may interleave in any way.                    *)
(*                                                                         *)
(* First comes what both rest on, the component's calls and sequences of   *)
(* jobs; then the encoder's worker, then the decoder's.  The encoder never *)
(* looks at what a job asks for: no proof about it uses                    *)
(* C2DecoderAssumption, which gives a bitstream its shape.                 *)
(***************************************************************************)
EXTENDS C2DecoderWorker, C2EncoderWorker, FiniteSetTheorems, SequenceTheorems, TLAPS

-----------------------------------------------------------------------------
(* What the proofs need of the component and of sequences of jobs,         *)
(* whatever worker takes them.                                             *)

(* A job that is no drain brings a bitstream.                              *)
GoodJob == {j \in Job : j.drain = "NoDrain" => j.work \in Works}

Numbered(s, n) == \A i \in 1..Len(s) : s[i].id \in 1..n
InOrder(s) == \A i, k \in 1..Len(s) : i < k => s[i].id < s[k].id

(* The jobs of one call: bitstreams, or one job of any kind.               *)
OneBatch(s) == Len(s) = 1 \/ \A i \in 1..Len(s) : s[i].drain = "NoDrain"

(* The types of the shared state, and what the component's place in a call *)
(* says of it.                                                             *)
Shared ==
  /\ disciplined \in Disciplines
  /\ state \in {"C2Running", "C2Stopped", "C2Error"}
  /\ work_queue \in Seq(GoodJob)
  /\ awaiting_job_event \in Nat
  /\ component \in {"idle", "extend", "write", "flush", "join"}
  /\ submission \in Seq(GoodJob)
  /\ num_jobs \in Nat
  /\ session \in Nat
  /\ eos \in BOOLEAN
  /\ settled \in SUBSET Nat
  /\ component # "extend" => submission = <<>>
  /\ component = "join" => state # "C2Running"

-----------------------------------------------------------------------------
(* Sequences of jobs.                                                      *)

LEMMA JobFields ==
  /\ GoodJob \subseteq Job
  /\ \A j \in GoodJob : /\ j.id \in Nat /\ j.session \in Nat /\ j.drain \in DrainModes
                        /\ j.drain = "NoDrain" => j.work \in Works
  BY DEF GoodJob, Job

(* A job in front of a sequence.                                           *)
LEMMA InFront ==
  ASSUME NEW j \in GoodJob, NEW s \in Seq(GoodJob)
  PROVE  /\ <<j>> \o s \in Seq(GoodJob)
         /\ <<j>> \o s # <<>>
         /\ Len(<<j>> \o s) = Len(s) + 1
         /\ (<<j>> \o s)[1] = j
         /\ \A i \in 1..Len(s) : (<<j>> \o s)[i + 1] = s[i]
         /\ \A i \in 1..(Len(s) + 1) :
              i = 1 \/ (i - 1 \in 1..Len(s) /\ (<<j>> \o s)[i] = s[i - 1])
<1>1. <<j>> \in Seq(GoodJob) /\ Len(<<j>>) = 1 /\ <<j>>[1] = j
  OBVIOUS
<1>2. Len(s) \in Nat
  BY LenProperties
<1>3. /\ <<j>> \o s \in Seq(GoodJob)
      /\ Len(<<j>> \o s) = Len(<<j>>) + Len(s)
      /\ \A i \in 1..(Len(<<j>>) + Len(s)) : (<<j>> \o s)[i] =
           IF i <= Len(<<j>>) THEN <<j>>[i] ELSE s[i - Len(<<j>>)]
  BY <1>1, ConcatProperties
<1>4. <<j>> \o s # <<>>
  BY <1>1, <1>2, <1>3, EmptySeq
<1>5. QED BY <1>1, <1>2, <1>3, <1>4

LEMMA HeadInFront ==
  ASSUME NEW s \in Seq(GoodJob), s # <<>>
  PROVE  /\ Head(s) \in GoodJob /\ Tail(s) \in Seq(GoodJob)
         /\ s = <<Head(s)>> \o Tail(s)
<1>1. /\ Head(s) \in GoodJob /\ Tail(s) \in Seq(GoodJob)
      /\ Len(Tail(s)) = Len(s) - 1
      /\ \A i \in 1..Len(Tail(s)) : Tail(s)[i] = s[i + 1]
  BY HeadTailProperties
<1>2. Len(s) \in Nat \ {0} /\ Head(s) = s[1]
  BY EmptySeq
<1> DEFINE t == <<Head(s)>> \o Tail(s)
<1>3. t \in Seq(GoodJob) /\ Len(t) = Len(s) /\ \A i \in 1..Len(s) : s[i] = t[i]
  BY <1>1, <1>2, InFront
<1>4. QED BY <1>1, <1>3, SeqEqual

(* A job before another job and a sequence.                                *)
LEMMA Regroup ==
  ASSUME NEW j \in GoodJob, NEW s \in Seq(GoodJob), NEW t \in Seq(GoodJob)
  PROVE  (<<j>> \o s) \o t = <<j>> \o (s \o t)
<1>1. <<j>> \in Seq(GoodJob)
  OBVIOUS
<1>2. QED BY <1>1, ConcatAssociative

LEMMA IdsInFront ==
  ASSUME NEW j \in GoodJob, NEW s \in Seq(GoodJob)
  PROVE  Ids(<<j>> \o s) = {j.id} \cup Ids(s)
<1> DEFINE t == <<j>> \o s
<1>1. /\ t \in Seq(GoodJob) /\ Len(t) = Len(s) + 1 /\ t[1] = j
      /\ \A i \in 1..Len(s) : t[i + 1] = s[i]
      /\ \A i \in 1..(Len(s) + 1) : i = 1 \/ (i - 1 \in 1..Len(s) /\ t[i] = s[i - 1])
  BY InFront
<1>2. DOMAIN s = 1..Len(s) /\ DOMAIN t = 1..Len(t) /\ Len(s) \in Nat
  BY <1>1, LenProperties
<1> HIDE DEF t
<1>3. Ids(t) \subseteq {j.id} \cup Ids(s)
  <2> SUFFICES ASSUME NEW i \in DOMAIN t PROVE t[i].id \in {j.id} \cup Ids(s)
    BY DEF Ids
  <2>1. CASE i = 1
    BY <1>1, <2>1
  <2>2. CASE i # 1
    <3>1. i - 1 \in DOMAIN s /\ t[i] = s[i - 1]
      BY <1>1, <1>2, <2>2
    <3>2. QED BY <3>1 DEF Ids
  <2>3. QED BY <2>1, <2>2
<1>4. {j.id} \cup Ids(s) \subseteq Ids(t)
  <2>1. 1 \in DOMAIN t /\ \A i \in DOMAIN s : i + 1 \in DOMAIN t
    BY <1>1, <1>2
  <2>2. QED BY <1>1, <1>2, <2>1 DEF Ids
<1>5. QED BY <1>3, <1>4 DEF t

LEMMA IdsOfConcat ==
  ASSUME NEW s \in Seq(GoodJob), NEW t \in Seq(GoodJob)
  PROVE  Ids(s \o t) = Ids(s) \cup Ids(t)
<1> DEFINE u == s \o t
<1>1. /\ u \in Seq(GoodJob) /\ Len(u) = Len(s) + Len(t)
      /\ \A i \in 1..(Len(s) + Len(t)) : u[i] = IF i <= Len(s) THEN s[i] ELSE t[i - Len(s)]
  BY ConcatProperties
<1>2. /\ DOMAIN s = 1..Len(s) /\ DOMAIN t = 1..Len(t) /\ DOMAIN u = 1..Len(u)
      /\ Len(s) \in Nat /\ Len(t) \in Nat
  BY <1>1, LenProperties
<1> HIDE DEF u
<1>3. Ids(u) \subseteq Ids(s) \cup Ids(t)
  <2> SUFFICES ASSUME NEW i \in DOMAIN u PROVE u[i].id \in Ids(s) \cup Ids(t)
    BY DEF Ids
  <2>1. CASE i <= Len(s)
    BY <1>1, <1>2, <2>1 DEF Ids
  <2>2. CASE i > Len(s)
    <3>1. i - Len(s) \in DOMAIN t /\ u[i] = t[i - Len(s)]
      BY <1>1, <1>2, <2>2
    <3>2. QED BY <3>1 DEF Ids
  <2>3. QED BY <1>1, <1>2, <2>1, <2>2
<1>4. Ids(s) \subseteq Ids(u)
  BY <1>1, <1>2 DEF Ids
<1>5. Ids(t) \subseteq Ids(u)
  <2> SUFFICES ASSUME NEW i \in 1..Len(t) PROVE t[i].id \in Ids(u)
    BY <1>2 DEF Ids
  <2>1. i + Len(s) \in DOMAIN u /\ u[i + Len(s)] = t[i]
    BY <1>1, <1>2
  <2>2. QED BY <2>1 DEF Ids
<1>6. QED BY <1>3, <1>4, <1>5 DEF u

LEMMA NoIds == Ids(<<>>) = {}
  BY DEF Ids

-----------------------------------------------------------------------------
(* What a call of queue or drain submits.                                  *)

LEMMA NewJobType ==
  ASSUME num_jobs \in Nat, session \in Nat, NEW k \in Nat, NEW mode \in DrainModes,
         NEW work \in Works \cup {NoWork}, mode = "NoDrain" => work \in Works
  PROVE  /\ NewJob(k, mode, work) \in GoodJob
         /\ NewJob(k, mode, work).id = num_jobs + k
         /\ NewJob(k, mode, work).session = session
         /\ NewJob(k, mode, work).drain = mode
  BY DEF NewJob, GoodJob, Job

(* The jobs of one call of queue, and the one of drain.                    *)
LEMMA QueuedJobs ==
  ASSUME num_jobs \in Nat, session \in Nat, NEW n \in Nat, NEW work \in Works,
         NEW jobs, jobs = [k \in DOMAIN [i \in 1..n |-> work] |-> NewJob(k, "NoDrain", [i \in 1..n |-> work][k])]
  PROVE  /\ jobs \in Seq(GoodJob) /\ Len(jobs) = n
         /\ \A k \in 1..n : /\ jobs[k].id = num_jobs + k
                            /\ jobs[k].session = session /\ jobs[k].drain = "NoDrain"
<1>1. jobs = [k \in 1..n |-> NewJob(k, "NoDrain", work)]
  OBVIOUS
<1>2. \A k \in 1..n :
        /\ NewJob(k, "NoDrain", work) \in GoodJob
        /\ NewJob(k, "NoDrain", work).id = num_jobs + k
        /\ NewJob(k, "NoDrain", work).session = session
        /\ NewJob(k, "NoDrain", work).drain = "NoDrain"
  BY NewJobType DEF DrainModes
<1>3. jobs \in [1..n -> GoodJob]
  BY <1>1, <1>2
<1>4. jobs \in Seq(GoodJob)
  BY <1>3, SeqDef
<1>5. Len(jobs) \in Nat /\ 1..Len(jobs) = 1..n
  BY <1>3, <1>4, LenProperties
<1>6. Len(jobs) = n
  <2>1. Len(jobs) \in 1..Len(jobs) \/ Len(jobs) = 0
    BY <1>5
  <2>2. n \in 1..n \/ n = 0
    OBVIOUS
  <2>3. QED BY <1>5, <2>1, <2>2
<1>7. QED BY <1>1, <1>2, <1>4, <1>6

LEMMA DrainJob ==
  ASSUME num_jobs \in Nat, session \in Nat, NEW mode \in DrainModes \ {"NoDrain"},
         NEW jobs, jobs = <<NewJob(1, mode, NoWork)>>
  PROVE  /\ jobs \in Seq(GoodJob) /\ Len(jobs) = 1
         /\ jobs[1].id = num_jobs + 1
         /\ jobs[1].session = session /\ jobs[1].drain = mode
<1>1. /\ NewJob(1, mode, NoWork) \in GoodJob
      /\ NewJob(1, mode, NoWork).id = num_jobs + 1
      /\ NewJob(1, mode, NoWork).session = session
      /\ NewJob(1, mode, NoWork).drain = mode
  BY NewJobType
<1>2. QED BY <1>1

(* What a component submits: jobs with the next numbers, of this session,  *)
(* in one batch.                                                           *)
Submits ==
  /\ component = "idle" /\ state = "C2Running" /\ (disciplined => ~eos)
  /\ component' = "extend"
  /\ submission' \in Seq(GoodJob)
  /\ num_jobs' = num_jobs + Len(submission')
  /\ \A i \in 1..Len(submission') :
       /\ submission'[i].id = num_jobs + i
       /\ submission'[i].session = session
  /\ OneBatch(submission')
  /\ disciplined => Len(submission') = 1 /\ (submission'[1].drain = "EOSDrain" => eos')
  /\ eos' \in BOOLEAN
  /\ UNCHANGED <<disciplined, state, work_queue, awaiting_job_event, worker, session, settled>>

LEMMA QueueSubmits ==
  ASSUME num_jobs \in Nat, session \in Nat, eos \in BOOLEAN,
         NEW n \in IF disciplined THEN {1} ELSE 1..MaxBatch, NEW work \in Works,
         Queue([k \in 1..n |-> work])
  PROVE  Submits
<1>1. n \in Nat /\ (disciplined => n = 1)
  BY C2Assumption
<1>2. submission' = [k \in DOMAIN [i \in 1..n |-> work] |-> NewJob(k, "NoDrain", [i \in 1..n |-> work][k])]
  BY DEF Queue, Submit
<1>3. /\ submission' \in Seq(GoodJob) /\ Len(submission') = n
      /\ \A k \in 1..n : /\ submission'[k].id = num_jobs + k
                         /\ submission'[k].session = session /\ submission'[k].drain = "NoDrain"
  BY <1>1, <1>2, QueuedJobs
<1>4. OneBatch(submission')
  BY <1>3 DEF OneBatch
<1>5. num_jobs' = num_jobs + Len(submission')
  BY <1>2 DEF Queue, Submit
<1>6. /\ component = "idle" /\ state = "C2Running" /\ (disciplined => ~eos)
      /\ component' = "extend" /\ eos' = eos
      /\ UNCHANGED <<disciplined, state, work_queue, awaiting_job_event, worker, session, settled>>
  BY DEF Queue, Submit, Call
<1>7. disciplined => Len(submission') = 1 /\ (submission'[1].drain = "EOSDrain" => eos')
  <2>1. disciplined => 1 \in 1..n
    BY <1>1
  <2>2. QED BY <1>1, <1>3, <2>1
<1>8. QED BY <1>3, <1>4, <1>5, <1>6, <1>7 DEF Submits

LEMMA DrainSubmits ==
  ASSUME num_jobs \in Nat, session \in Nat, eos \in BOOLEAN,
         NEW mode \in DrainModes \ {"NoDrain"}, Drain(mode)
  PROVE  Submits
<1>1. submission' = <<NewJob(1, mode, NoWork)>>
  BY DEF Drain, Submit
<1>2. /\ submission' \in Seq(GoodJob) /\ Len(submission') = 1
      /\ submission'[1].id = num_jobs + 1
      /\ submission'[1].session = session /\ submission'[1].drain = mode
  BY <1>1, DrainJob
<1>3. \A i \in 1..Len(submission') : i = 1
  BY <1>2
<1>4. OneBatch(submission')
  BY <1>2 DEF OneBatch
<1>5. num_jobs' = num_jobs + Len(submission')
  BY <1>1 DEF Drain, Submit
<1>6. /\ component = "idle" /\ state = "C2Running" /\ (disciplined => ~eos)
      /\ component' = "extend" /\ eos' = (eos \/ mode = "EOSDrain")
      /\ UNCHANGED <<disciplined, state, work_queue, awaiting_job_event, worker, session, settled>>
  BY DEF Drain, Submit, Call
<1>7. eos' \in BOOLEAN /\ (mode = "EOSDrain" => eos')
  BY <1>6
<1>8. QED BY <1>2, <1>3, <1>4, <1>5, <1>6, <1>7 DEF Submits

-----------------------------------------------------------------------------
(* The component's calls keep the types of the state they share.           *)

LEMMA IdsAreNumbers ==
  ASSUME NEW s \in Seq(GoodJob)
  PROVE  Ids(s) \subseteq Nat
<1>1. \A i \in DOMAIN s : s[i] \in GoodJob
  BY LenProperties, ElementOfSeq
<1>2. QED BY <1>1, JobFields DEF Ids

(* The component's half of a step.                                         *)
LEMMA ComponentShape ==
  ASSUME Shared, Component
  PROVE  /\ Shared'
         /\ worker' = worker \/ (~Alive /\ worker' \in {"none", "new"})
<1> USE DEF Shared
<1>1. CASE Start
  <2>1. session' \in Nat
    BY <1>1 DEF Start
  <2>2. Shared'
    BY <1>1, <2>1 DEF Start
  <2>3. QED BY <1>1, <2>2 DEF Start
<1>2. CASE Submits
  <2>1. Len(submission') \in Nat /\ submission' \in Seq(GoodJob)
    BY <1>2, LenProperties DEF Submits
  <2>2. QED BY <1>2, <2>1 DEF Submits
<1>3. ASSUME NEW n \in IF disciplined THEN {1} ELSE 1..MaxBatch, NEW work \in Works,
             Queue([k \in 1..n |-> work])
      PROVE  Submits
  BY <1>3, QueueSubmits
<1>4. ASSUME NEW mode \in DrainModes \ {"NoDrain"}, Drain(mode) PROVE Submits
  BY <1>4, DrainSubmits
<1>5. CASE Extend
  <2>1. work_queue' = work_queue \o submission /\ submission' = <<>>
    BY <1>5 DEF Extend
  <2>2. work_queue' \in Seq(GoodJob) /\ submission' \in Seq(GoodJob)
    BY <2>1, ConcatProperties
  <2>3. QED BY <1>5, <2>2 DEF Extend
<1>6. CASE Write
  BY <1>6 DEF Write
<1>7. CASE Flush
  BY <1>7 DEF Flush, Call
<1>8. CASE TakeBack
  <2>1. Ids(work_queue) \subseteq Nat
    BY IdsAreNumbers
  <2>2. work_queue' = <<>> /\ <<>> \in Seq(GoodJob)
    BY <1>8 DEF TakeBack
  <2>3. QED BY <1>8, <2>1, <2>2 DEF TakeBack
<1>9. CASE Stop
  BY <1>9 DEF Stop
<1>10. CASE Join
  <2>1. Ids(work_queue) \subseteq Nat
    BY IdsAreNumbers
  <2>2. work_queue' = <<>> /\ <<>> \in Seq(GoodJob)
    BY <1>10 DEF Join
  <2>3. settled' \in SUBSET Nat
    BY <1>10, <2>1 DEF Join
  <2>4. awaiting_job_event' \in Nat
    BY <1>10 DEF Join
  <2>5. Shared'
    BY <1>10, <2>2, <2>3, <2>4 DEF Join
  <2>6. QED BY <1>10, <2>5 DEF Join
<1>11. QED BY <1>1, <1>2, <1>3, <1>4, <1>5, <1>6, <1>7, <1>8, <1>9, <1>10 DEF Component

-----------------------------------------------------------------------------
(* The worker of the encoder.                                              *)

(* The places a job goes through, as the sets of the ids that are there.   *)
Firsts(d) == {d[i][1] : i \in DOMAIN d}
DoneIds == Firsts(done)
HandIds == IF job = NoJob THEN {} ELSE {job.id}

Before(S, T) == \A x \in S, y \in T : x < y

(* From the job that came back last to the one submitted last, the ids     *)
(* grow from place to place.                                               *)
Chain(D, F, H, Q, S, n) ==
  /\ D \cup F \cup H \cup Q \cup S \subseteq 1..n
  /\ Before(D, F) /\ Before(D, H) /\ Before(D, Q) /\ Before(D, S)
  /\ Before(F, H) /\ Before(F, Q) /\ Before(F, S)
  /\ Before(H, Q) /\ Before(H, S)
  /\ Before(Q, S)

(* The frames in the encoder, in the order in which they come back.        *)
Frames == coded \o encoding

(* ------------------------------ invariants ----------------------------- *)

EncoderOwn ==
  /\ worker \in {"none", "new", "loop", "wait", "pop", "encode", "poll",
                 "panicked", "ended"}
  /\ job \in GoodJob \cup {NoJob}
  /\ worker = "encode" <=> job # NoJob
  /\ in_flight_queue \in Seq(GoodJob)
  /\ encoding \in Seq(Nat)
  /\ coded \in Seq(Nat)
  /\ done \in Seq(Nat \X Nat)

EncoderShape == Shared /\ EncoderOwn

EncoderOrder ==
  /\ Chain(DoneIds, Ids(in_flight_queue), HandIds, Ids(work_queue), Ids(submission), num_jobs)
  /\ InOrder(in_flight_queue)
  /\ InOrder(work_queue)
  /\ InOrder(submission)

(* A job is in one of the places, or settled.                              *)
EncoderKnown ==
  1..num_jobs \subseteq
    DoneIds \cup Ids(in_flight_queue) \cup HandIds \cup Ids(work_queue) \cup Ids(submission)
      \cup settled

(* The worker's record of what is in flight is what the encoder has.       *)
Paired ==
  /\ Len(in_flight_queue) = Len(Frames)
  /\ \A i \in 1..Len(Frames) : in_flight_queue[i].id = Frames[i]

(* A careful component submits jobs one by one.  In its first session a    *)
(* worker that waits for a job or has one has not been told to stop.       *)
Careful ==
  /\ session = 0 => /\ state = "C2Stopped" /\ component = "idle" /\ worker = "none"
                    /\ work_queue = <<>> /\ awaiting_job_event = 0
  /\ disciplined => /\ component # "flush"
                    /\ component = "extend" => Len(submission) = 1
  /\ disciplined /\ session = 1 =>
       /\ worker \in {"wait", "pop", "encode"} => state = "C2Running"
       /\ worker # "panicked"

EncoderIInv ==
  EncoderShape /\ EncoderOrder /\ EncoderKnown /\ Paired /\ Careful /\ OneEventPerJob /\ OwnBitstream

-----------------------------------------------------------------------------
(* Jobs that go from place to place.                                       *)

LEMMA ChainShrinks ==
  ASSUME NEW D, NEW F, NEW H, NEW Q, NEW S, NEW n, Chain(D, F, H, Q, S, n),
         NEW F2 \in SUBSET F, NEW H2 \in SUBSET H, NEW Q2 \in SUBSET Q, NEW S2 \in SUBSET S
  PROVE  Chain(D, F2, H2, Q2, S2, n)
  BY DEF Chain, Before

LEMMA ChainPops ==
  ASSUME NEW D, NEW F, NEW x, NEW Q, NEW S, NEW n, Chain(D, F, {}, {x} \cup Q, S, n),
         Before({x}, Q)
  PROVE  Chain(D, F, {x}, Q, S, n)
  BY DEF Chain, Before

LEMMA ChainEncodes ==
  ASSUME NEW D, NEW F, NEW H, NEW Q, NEW S, NEW n, Chain(D, F, H, Q, S, n)
  PROVE  Chain(D, F \cup H, {}, Q, S, n)
  BY DEF Chain, Before

LEMMA ChainComesBack ==
  ASSUME NEW D, NEW x, NEW F, NEW H, NEW Q, NEW S, NEW n, Chain(D, {x} \cup F, H, Q, S, n),
         Before({x}, F)
  PROVE  Chain(D \cup {x}, F, H, Q, S, n)
  BY DEF Chain, Before

LEMMA ChainQueues ==
  ASSUME NEW D, NEW F, NEW H, NEW Q, NEW S, NEW n, Chain(D, F, H, Q, S, n)
  PROVE  Chain(D, F, H, Q \cup S, {}, n)
  BY DEF Chain, Before

LEMMA ChainSubmits ==
  ASSUME NEW D, NEW F, NEW H, NEW Q, NEW n \in Nat, Chain(D, F, H, Q, {}, n),
         NEW m \in Nat, n <= m, NEW S \in SUBSET ((n + 1)..m)
  PROVE  Chain(D, F, H, Q, S, m)
<1>1. \A x \in 1..n : x \in 1..m /\ x < n + 1
  OBVIOUS
<1>2. \A y \in S : y \in 1..m /\ n + 1 <= y
  OBVIOUS
<1>3. \A x \in 1..n, y \in S : x < y
  <2> SUFFICES ASSUME NEW x \in 1..n, NEW y \in S PROVE x < y
    OBVIOUS
  <2>1. y \in Nat /\ n + 1 <= y /\ x \in Nat /\ x <= n
    BY <1>2
  <2>2. QED BY <2>1
<1>4. D \subseteq 1..n /\ F \subseteq 1..n /\ H \subseteq 1..n /\ Q \subseteq 1..n
  BY DEF Chain
<1>5. D \cup F \cup H \cup Q \cup S \subseteq 1..m
  BY <1>1, <1>2, <1>4
<1>6. Before(D, S) /\ Before(F, S) /\ Before(H, S) /\ Before(Q, S)
  BY <1>3, <1>4 DEF Before
<1>7. QED BY <1>5, <1>6 DEF Chain

-----------------------------------------------------------------------------
(* Sequences of jobs that grow, and of the frames they bring.              *)

LEMMA TakeFirst ==
  ASSUME NEW s \in Seq(GoodJob), s # <<>>, InOrder(s)
  PROVE  /\ Head(s) \in GoodJob /\ Tail(s) \in Seq(GoodJob)
         /\ Ids(s) = {Head(s).id} \cup Ids(Tail(s))
         /\ Before({Head(s).id}, Ids(Tail(s)))
         /\ InOrder(Tail(s))
<1> DEFINE j == Head(s)
           t == Tail(s)
<1>1. j \in GoodJob /\ t \in Seq(GoodJob) /\ s = <<j>> \o t
  BY HeadInFront
<1>2. Ids(s) = {j.id} \cup Ids(t)
  <2>1. Ids(<<j>> \o t) = {j.id} \cup Ids(t)
    BY <1>1, IdsInFront
  <2>2. QED BY <1>1, <2>1
<1>3. /\ Len(t) \in Nat /\ Len(s) = Len(t) + 1 /\ s[1] = j
      /\ \A i \in 1..Len(t) : t[i] = s[i + 1]
  BY HeadTailProperties, LenProperties, EmptySeq
<1>4. DOMAIN t = 1..Len(t)
  BY <1>1, LenProperties
<1> HIDE DEF j, t
<1>5. Before({j.id}, Ids(t))
  <2>1. \A i \in 1..Len(t) : 1 \in 1..Len(s) /\ i + 1 \in 1..Len(s) /\ 1 < i + 1
    BY <1>3
  <2>2. \A i \in 1..Len(t) : s[1].id < s[i + 1].id
    BY <2>1 DEF InOrder
  <2>3. QED BY <1>3, <1>4, <2>2 DEF Before, Ids
<1>6. InOrder(t)
  <2> SUFFICES ASSUME NEW i \in 1..Len(t), NEW k \in 1..Len(t), i < k PROVE t[i].id < t[k].id
    BY DEF InOrder
  <2>1. i + 1 \in 1..Len(s) /\ k + 1 \in 1..Len(s) /\ i + 1 < k + 1
    BY <1>3
  <2>2. s[i + 1].id < s[k + 1].id
    BY <2>1 DEF InOrder
  <2>3. QED BY <1>3, <2>2
<1>7. QED BY <1>1, <1>2, <1>5, <1>6 DEF j, t

LEMMA OrderOfConcat ==
  ASSUME NEW s \in Seq(GoodJob), NEW t \in Seq(GoodJob), InOrder(s), InOrder(t),
         Before(Ids(s), Ids(t))
  PROVE  s \o t \in Seq(GoodJob) /\ InOrder(s \o t)
<1> DEFINE u == s \o t
<1>1. /\ u \in Seq(GoodJob) /\ Len(u) = Len(s) + Len(t)
      /\ \A i \in 1..(Len(s) + Len(t)) : u[i] = IF i <= Len(s) THEN s[i] ELSE t[i - Len(s)]
  BY ConcatProperties
<1>2. /\ DOMAIN s = 1..Len(s) /\ DOMAIN t = 1..Len(t)
      /\ Len(s) \in Nat /\ Len(t) \in Nat
  BY LenProperties
<1> HIDE DEF u
<1>3. \A i \in 1..Len(u) :
        \/ i <= Len(s) /\ i \in 1..Len(s) /\ u[i] = s[i]
        \/ i > Len(s) /\ i - Len(s) \in 1..Len(t) /\ u[i] = t[i - Len(s)]
  BY <1>1, <1>2
<1>4. InOrder(u)
  <2> SUFFICES ASSUME NEW i \in 1..Len(u), NEW k \in 1..Len(u), i < k PROVE u[i].id < u[k].id
    BY DEF InOrder
  <2>1. CASE i \in 1..Len(s) /\ u[i] = s[i] /\ k \in 1..Len(s) /\ u[k] = s[k]
    BY <2>1 DEF InOrder
  <2>2. CASE i \in 1..Len(s) /\ u[i] = s[i] /\ k - Len(s) \in 1..Len(t) /\ u[k] = t[k - Len(s)]
    <3>1. s[i].id \in Ids(s) /\ t[k - Len(s)].id \in Ids(t)
      BY <1>2, <2>2 DEF Ids
    <3>2. QED BY <2>2, <3>1 DEF Before
  <2>3. CASE /\ i > Len(s) /\ i - Len(s) \in 1..Len(t) /\ u[i] = t[i - Len(s)]
             /\ k - Len(s) \in 1..Len(t) /\ u[k] = t[k - Len(s)]
    <3>1. i - Len(s) < k - Len(s)
      BY <1>1, <1>2
    <3>2. QED BY <2>3, <3>1 DEF InOrder
  <2>4. QED BY <1>1, <1>2, <1>3, <2>1, <2>2, <2>3
<1>5. QED BY <1>1, <1>4 DEF u

LEMMA NoneInOrder == InOrder(<<>>)
<1>1. Len(<<>>) = 0
  BY EmptySeq
<1>2. QED BY <1>1 DEF InOrder

LEMMA PutLast ==
  ASSUME NEW s \in Seq(GoodJob), NEW j \in GoodJob, InOrder(s), Before(Ids(s), {j.id})
  PROVE  /\ Append(s, j) \in Seq(GoodJob)
         /\ Ids(Append(s, j)) = Ids(s) \cup {j.id}
         /\ InOrder(Append(s, j))
<1> DEFINE t == <<j>>
<1>1. t \in Seq(GoodJob) /\ Len(t) = 1 /\ t[1] = j
  OBVIOUS
<1>2. Append(s, j) = s \o t
  BY AppendIsConcat
<1>3. Ids(t) = {j.id}
  <2>1. DOMAIN t = {1}
    BY <1>1
  <2>2. QED BY <1>1, <2>1 DEF Ids
<1>4. InOrder(t)
  BY <1>1 DEF InOrder
<1> HIDE DEF t
<1>5. QED BY <1>1, <1>2, <1>3, <1>4, OrderOfConcat, IdsOfConcat

(* What comes back is what went in: the encoder hands frames over at the   *)
(* head of encoding, in order.                                             *)
LEMMA FramesMove ==
  ASSUME NEW c \in Seq(Nat), NEW e \in Seq(Nat), e # <<>>
  PROVE  /\ Append(c, Head(e)) \in Seq(Nat) /\ Tail(e) \in Seq(Nat)
         /\ Append(c, Head(e)) \o Tail(e) = c \o e
<1> DEFINE h == <<Head(e)>>
<1>1. Head(e) \in Nat /\ Tail(e) \in Seq(Nat)
  BY HeadTailProperties
<1>2. h \in Seq(Nat) /\ Append(c, Head(e)) = c \o h
  BY <1>1, AppendIsConcat
<1>3. h \o Tail(e) = e
  <2>1. /\ Len(Tail(e)) = Len(e) - 1
        /\ \A i \in 1..Len(Tail(e)) : Tail(e)[i] = e[i + 1]
    BY HeadTailProperties
  <2>2. Len(h) = 1 /\ h[1] = e[1] /\ Len(e) \in Nat \ {0}
    BY EmptySeq
  <2>3. /\ h \o Tail(e) \in Seq(Nat) /\ Len(h \o Tail(e)) = Len(h) + Len(Tail(e))
        /\ \A i \in 1..(Len(h) + Len(Tail(e))) :
             (h \o Tail(e))[i] = IF i <= Len(h) THEN h[i] ELSE Tail(e)[i - Len(h)]
    BY <1>1, <1>2, ConcatProperties
  <2> DEFINE t == h \o Tail(e)
  <2>4. t \in Seq(Nat) /\ Len(t) = Len(e)
    BY <2>1, <2>2, <2>3
  <2>5. \A i \in 1..Len(e) : t[i] = e[i]
    BY <2>1, <2>2, <2>3
  <2> HIDE DEF t
  <2>6. t = e
    BY <2>4, <2>5, SeqEqual
  <2>7. QED BY <2>6 DEF t
<1>4. (c \o h) \o Tail(e) = c \o (h \o Tail(e))
  BY <1>1, <1>2, ConcatAssociative
<1> HIDE DEF h
<1>5. c \o h \in Seq(Nat)
  BY <1>2, ConcatProperties
<1>6. QED BY <1>1, <1>2, <1>3, <1>4, <1>5

LEMMA FramesGrow ==
  ASSUME NEW c \in Seq(Nat), NEW e \in Seq(Nat), NEW x \in Nat
  PROVE  Append(e, x) \in Seq(Nat) /\ c \o Append(e, x) = Append(c \o e, x)
<1>1. <<x>> \in Seq(Nat) /\ c \o e \in Seq(Nat)
  BY ConcatProperties
<1>2. Append(e, x) = e \o <<x>> /\ Append(c \o e, x) = (c \o e) \o <<x>>
  BY <1>1, AppendIsConcat
<1>3. (c \o e) \o <<x>> = c \o (e \o <<x>>)
  BY <1>1, ConcatAssociative
<1>4. e \o <<x>> \in Seq(Nat)
  BY <1>1, ConcatProperties
<1>5. QED BY <1>2, <1>3, <1>4

LEMMA FramesComeBack ==
  ASSUME NEW c \in Seq(Nat), NEW e \in Seq(Nat), c # <<>>
  PROVE  /\ Tail(c) \in Seq(Nat)
         /\ c \o e # <<>>
         /\ (c \o e)[1] = Head(c)
         /\ Len(Tail(c) \o e) = Len(c \o e) - 1
         /\ \A i \in 1..Len(Tail(c) \o e) : (Tail(c) \o e)[i] = (c \o e)[i + 1]
<1>1. /\ Tail(c) \in Seq(Nat) /\ Len(Tail(c)) = Len(c) - 1
      /\ \A i \in 1..Len(Tail(c)) : Tail(c)[i] = c[i + 1]
  BY HeadTailProperties
<1>2. Len(c) \in Nat \ {0} /\ Len(e) \in Nat /\ Head(c) = c[1]
  BY EmptySeq, LenProperties
<1> DEFINE u == c \o e
           t == Tail(c) \o e
<1>3. /\ u \in Seq(Nat) /\ Len(u) = Len(c) + Len(e)
      /\ \A i \in 1..(Len(c) + Len(e)) : u[i] = IF i <= Len(c) THEN c[i] ELSE e[i - Len(c)]
  BY ConcatProperties
<1>4. /\ t \in Seq(Nat) /\ Len(t) = Len(Tail(c)) + Len(e)
      /\ \A i \in 1..(Len(Tail(c)) + Len(e)) :
           t[i] = IF i <= Len(Tail(c)) THEN Tail(c)[i] ELSE e[i - Len(Tail(c))]
  BY <1>1, ConcatProperties
<1>5. u # <<>>
  BY <1>2, <1>3, EmptySeq
<1> HIDE DEF u, t
<1>6. u[1] = Head(c)
  BY <1>2, <1>3
<1>7. Len(t) = Len(u) - 1
  BY <1>1, <1>2, <1>3, <1>4
<1>8. \A i \in 1..Len(t) : t[i] = u[i + 1]
  <2> SUFFICES ASSUME NEW i \in 1..Len(t) PROVE t[i] = u[i + 1]
    OBVIOUS
  <2>1. CASE i <= Len(Tail(c))
    <3>1. i \in 1..Len(Tail(c)) /\ i + 1 \in 1..Len(u) /\ i + 1 <= Len(c)
      BY <1>1, <1>2, <1>3, <1>4, <2>1
    <3>2. t[i] = Tail(c)[i]
      BY <1>1, <1>2, <1>4, <2>1
    <3>3. u[i + 1] = c[i + 1]
      BY <1>2, <1>3, <3>1
    <3>4. QED BY <1>1, <3>1, <3>2, <3>3
  <2>2. CASE i > Len(Tail(c))
    <3>1. i - Len(Tail(c)) = (i + 1) - Len(c)
      BY <1>1, <1>2, <1>4
    <3>2. i + 1 \in 1..Len(u) /\ i + 1 > Len(c)
      BY <1>1, <1>2, <1>3, <1>4, <2>2
    <3>3. t[i] = e[i - Len(Tail(c))]
      BY <1>1, <1>2, <1>4, <2>2
    <3>4. u[i + 1] = e[(i + 1) - Len(c)]
      BY <1>2, <1>3, <3>2, SMTT(30)
    <3>5. QED BY <3>1, <3>3, <3>4
  <2>3. QED BY <1>1, <1>2, <1>4, <2>1, <2>2
<1>9. QED BY <1>1, <1>5, <1>6, <1>7, <1>8 DEF u, t

(* A job comes back behind those before it.                                *)
OwnFrames(d) == \A i \in DOMAIN d : d[i][1] = d[i][2]
Growing(d) == \A i, k \in DOMAIN d : i < k => d[i][1] < d[k][1]

LEMMA DoneGrows ==
  ASSUME NEW d \in Seq(Nat \X Nat), NEW x \in Nat, OwnFrames(d), Growing(d), Before(Firsts(d), {x})
  PROVE  LET u == Append(d, <<x, x>>) IN
         u \in Seq(Nat \X Nat) /\ OwnFrames(u) /\ Growing(u) /\ Firsts(u) = Firsts(d) \cup {x}
<1> DEFINE u == Append(d, <<x, x>>)
<1>1. /\ u \in Seq(Nat \X Nat) /\ Len(u) = Len(d) + 1
      /\ \A i \in 1..Len(d) : u[i] = d[i]
      /\ u[Len(d) + 1] = <<x, x>>
  BY AppendProperties
<1>2. /\ DOMAIN d = 1..Len(d) /\ DOMAIN u = 1..Len(u) /\ Len(d) \in Nat
  BY <1>1, LenProperties
<1> HIDE DEF u
<1>3. \A i \in DOMAIN u : (i \in DOMAIN d /\ u[i] = d[i]) \/ (i = Len(d) + 1 /\ u[i] = <<x, x>>)
  <2> SUFFICES ASSUME NEW i \in 1..(Len(d) + 1)
               PROVE  (i \in 1..Len(d) /\ u[i] = d[i]) \/ (i = Len(d) + 1 /\ u[i] = <<x, x>>)
    BY <1>1, <1>2
  <2>1. i \in 1..Len(d) \/ i = Len(d) + 1
    BY <1>2
  <2>2. QED BY <1>1, <2>1
<1>4. OwnFrames(u)
  BY <1>3 DEF OwnFrames
<1>5. Growing(u)
  <2> SUFFICES ASSUME NEW i \in DOMAIN u, NEW k \in DOMAIN u, i < k PROVE u[i][1] < u[k][1]
    BY DEF Growing
  <2>1. i \in DOMAIN d /\ u[i] = d[i]
    <3>1. i \in 1..(Len(d) + 1) /\ k \in 1..(Len(d) + 1)
      BY <1>1, <1>2
    <3>2. i \in 1..Len(d)
      BY <1>2, <3>1
    <3>3. QED BY <1>1, <1>2, <3>2
  <2>2. CASE k \in DOMAIN d /\ u[k] = d[k]
    BY <2>1, <2>2 DEF Growing
  <2>3. CASE u[k] = <<x, x>>
    <3>1. d[i][1] \in Firsts(d)
      BY <2>1 DEF Firsts
    <3>2. d[i][1] < x
      BY <3>1 DEF Before
    <3>3. QED BY <2>1, <2>3, <3>2
  <2>4. QED BY <1>3, <2>2, <2>3
<1>6. Firsts(u) \subseteq Firsts(d) \cup {x}
  BY <1>3 DEF Firsts
<1>7. Firsts(d) \cup {x} \subseteq Firsts(u)
  <2>1. (\A i \in DOMAIN d : i \in DOMAIN u /\ u[i] = d[i]) /\ Len(d) + 1 \in DOMAIN u
    BY <1>1, <1>2
  <2>2. Firsts(d) \subseteq Firsts(u)
    BY <2>1 DEF Firsts
  <2>3. u[Len(d) + 1][1] = x
    BY <1>1
  <2>4. QED BY <2>1, <2>2, <2>3 DEF Firsts
<1>8. QED BY <1>1, <1>4, <1>5, <1>6, <1>7 DEF u

-----------------------------------------------------------------------------
(* The worker and the component keep the types of their state.             *)

LEMMA EncoderInitIInv == EncoderInit => EncoderIInv
<1> SUFFICES ASSUME EncoderInit PROVE EncoderIInv
  OBVIOUS
<1>1. /\ <<>> \in Seq(GoodJob) /\ <<>> \in Seq(Nat) /\ <<>> \in Seq(Nat \X Nat)
      /\ Len(<<>>) = 0 /\ <<>> \o <<>> = <<>> /\ DOMAIN <<>> = {}
  OBVIOUS
<1>2. Shared /\ EncoderOwn
  BY <1>1 DEF EncoderInit, C2Init, Shared, EncoderOwn
<1>3. DoneIds = {} /\ HandIds = {} /\ Ids(<<>>) = {} /\ InOrder(<<>>)
  BY <1>1, NoneInOrder, NoIds DEF EncoderInit, C2Init, DoneIds, Firsts, HandIds
<1>4. EncoderOrder
  BY <1>3 DEF EncoderInit, C2Init, EncoderOrder, Chain, Before
<1>5. Paired
  BY <1>1 DEF EncoderInit, Paired, Frames
<1>6. Careful
  BY DEF EncoderInit, C2Init, Careful
<1>7. OneEventPerJob
  BY DEF EncoderInit, C2Init, OneEventPerJob
<1>8. OwnBitstream
  BY <1>1 DEF EncoderInit, OwnBitstream
<1>9. EncoderKnown
  BY DEF EncoderInit, C2Init, EncoderKnown
<1>10. QED BY <1>2, <1>4, <1>5, <1>6, <1>7, <1>8, <1>9 DEF EncoderIInv, EncoderShape

(* What is coded comes back as the job that is in flight longest.          *)
LEMMA InFlight ==
  ASSUME EncoderShape, Paired
  PROVE  /\ Frames \in Seq(Nat)
         /\ coded # <<>> => /\ in_flight_queue # <<>>
                            /\ Head(in_flight_queue) \in GoodJob
                            /\ Head(in_flight_queue).id = Head(coded)
                            /\ Head(coded) \in Nat
<1>1. in_flight_queue \in Seq(GoodJob) /\ coded \in Seq(Nat) /\ encoding \in Seq(Nat)
  BY DEF EncoderShape, EncoderOwn
<1>2. Frames \in Seq(Nat)
  BY <1>1, ConcatProperties DEF Frames
<1>3. ASSUME coded # <<>>
      PROVE  /\ in_flight_queue # <<>>
             /\ Head(in_flight_queue) \in GoodJob
             /\ Head(in_flight_queue).id = Head(coded)
             /\ Head(coded) \in Nat
  <2>1. Frames # <<>> /\ Frames[1] = Head(coded)
    BY <1>1, <1>3, FramesComeBack DEF Frames
  <2>2. Len(Frames) \in Nat \ {0}
    BY <1>2, <2>1, EmptySeq
  <2>3. Len(in_flight_queue) = Len(Frames) /\ in_flight_queue[1].id = Frames[1]
    BY <2>2 DEF Paired
  <2>4. in_flight_queue # <<>>
    BY <1>1, <2>2, <2>3, EmptySeq
  <2>5. Head(in_flight_queue) = in_flight_queue[1] /\ Head(in_flight_queue) \in GoodJob
    BY <1>1, <2>4, HeadTailProperties
  <2>6. QED BY <2>1, <2>3, <2>4, <2>5, <1>1, <1>3, HeadTailProperties
<1>4. QED BY <1>2, <1>3

LEMMA IdOfJob ==
  ASSUME EncoderShape, worker = "encode"
  PROVE  job \in GoodJob /\ job.id \in Nat /\ HandIds = {job.id}
  BY JobFields DEF EncoderShape, EncoderOwn, HandIds

LEMMA EncoderShapeStep ==
  ASSUME EncoderShape, Paired, [EncoderNext]_all_vars
  PROVE  EncoderShape'
<1> USE DEF EncoderShape
<1>1. CASE EncoderNew
  <2>1. Ids(in_flight_queue) \subseteq Nat
    BY IdsAreNumbers DEF EncoderOwn
  <2>2. Shared'
    BY <1>1, <2>1 DEF EncoderNew, Shared
  <2>3. <<>> \in Seq(GoodJob) /\ <<>> \in Seq(Nat)
    OBVIOUS
  <2>4. EncoderOwn'
    BY <1>1, <2>3 DEF EncoderNew, EncoderOwn
  <2>5. QED BY <2>2, <2>4
<1>2. CASE Timeout
  BY <1>2 DEF Timeout, Shared, EncoderOwn, component_vars, encoder_vars
<1>3. CASE Wake
  <2>1. awaiting_job_event' \in Nat
    BY <1>3 DEF Wake, Shared
  <2>2. QED BY <1>3, <2>1 DEF Wake, Shared, EncoderOwn, component_vars, encoder_vars
<1>4. CASE EncoderPop
  <2>1. Head(work_queue) \in GoodJob /\ Tail(work_queue) \in Seq(GoodJob)
    BY <1>4, HeadInFront DEF EncoderPop, Shared
  <2>2. Head(work_queue) # NoJob
    BY <2>1, JobFields, C2JobAssumption
  <2>3. Shared'
    BY <1>4, <2>1 DEF EncoderPop, Shared, component_vars
  <2>4. EncoderOwn'
    BY <1>4, <2>1, <2>2 DEF EncoderPop, EncoderOwn
  <2>5. QED BY <2>3, <2>4
<1>5. CASE MissingJob
  BY <1>5 DEF MissingJob, Shared, EncoderOwn, component_vars, encoder_vars
<1>6. CASE Encode
  <2>1. job \in GoodJob /\ job.id \in Nat
    BY <1>6, IdOfJob DEF Encode
  <2>2. in_flight_queue' \in Seq(GoodJob)
    BY <1>6, <2>1, AppendProperties DEF Encode, EncoderOwn
  <2>3. encoding' \in Seq(Nat)
    BY <1>6, <2>1, AppendProperties DEF Encode, EncoderOwn
  <2>4. EncoderOwn'
    BY <1>6, <2>2, <2>3 DEF Encode, EncoderOwn
  <2>5. Shared'
    BY <1>6 DEF Encode, Shared, component_vars
  <2>6. QED BY <2>4, <2>5
<1>7. CASE DrainEncoder
  <2>1. job.id \in Nat
    BY <1>7, IdOfJob DEF DrainEncoder
  <2>2. coded' \in Seq(Nat) /\ encoding' \in Seq(Nat)
    BY <1>7, ConcatProperties DEF DrainEncoder, EncoderOwn
  <2>3. EncoderOwn'
    BY <1>7, <2>2 DEF DrainEncoder, EncoderOwn
  <2>4. settled' \in SUBSET Nat
    BY <1>7, <2>1 DEF DrainEncoder, Shared
  <2>5. state' \in {"C2Running", "C2Stopped", "C2Error"} /\ (component = "join" => state' # "C2Running")
    BY <1>7 DEF DrainEncoder, Shared
  <2>6. Shared'
    BY <1>7, <2>4, <2>5 DEF DrainEncoder, Shared
  <2>7. QED BY <2>3, <2>6
<1>8. CASE PollFrame
  <2>1. /\ Head(in_flight_queue).id \in Nat /\ Head(coded) \in Nat
        /\ in_flight_queue # <<>> /\ coded # <<>>
    BY <1>8, InFlight DEF PollFrame
  <2>2. in_flight_queue' \in Seq(GoodJob) /\ coded' \in Seq(Nat)
    BY <1>8, <2>1, HeadTailProperties DEF PollFrame, EncoderOwn
  <2>3. <<Head(in_flight_queue).id, Head(coded)>> \in Nat \X Nat
    BY <2>1
  <2>4. done' \in Seq(Nat \X Nat)
    BY <1>8, <2>3, AppendProperties DEF PollFrame, EncoderOwn
  <2>5. EncoderOwn'
    BY <1>8, <2>2, <2>4 DEF PollFrame, EncoderOwn, c2_vars
  <2>6. Shared'
    BY <1>8 DEF PollFrame, Shared, c2_vars, component_vars
  <2>7. QED BY <2>5, <2>6
<1>9. CASE PollNothing
  BY <1>9 DEF PollNothing, Shared, EncoderOwn, component_vars, encoder_vars
<1>10. CASE LoopTest /\ UNCHANGED encoder_vars
  BY <1>10 DEF LoopTest, Shared, EncoderOwn, component_vars, encoder_vars
<1>11. CASE EncoderFail
  <2>1. job.id \in Nat
    BY <1>11, IdOfJob DEF EncoderFail
  <2>2. settled' \in SUBSET Nat
    BY <1>11, <2>1 DEF EncoderFail, Shared
  <2>3. Shared'
    BY <1>11, <2>2 DEF EncoderFail, Shared
  <2>4. EncoderOwn'
    BY <1>11 DEF EncoderFail, EncoderOwn
  <2>5. QED BY <2>3, <2>4
<1>12. CASE PollFails
  BY <1>12 DEF PollFails, Shared, EncoderOwn, component_vars, encoder_vars
<1>13. CASE NewFails /\ UNCHANGED encoder_vars
  BY <1>13 DEF NewFails, Shared, EncoderOwn, component_vars, encoder_vars
<1>14. CASE EncoderComponentStep
  <2>1. Shared' /\ (worker' = worker \/ (~Alive /\ worker' \in {"none", "new"}))
    BY <1>14, ComponentShape DEF EncoderComponentStep
  <2>2. EncoderOwn'
    BY <1>14, <2>1 DEF EncoderComponentStep, EncoderOwn, Alive, encoder_vars
  <2>3. QED BY <2>1, <2>2
<1>15. CASE FrameCoded
  <2>1. coded' \in Seq(Nat) /\ encoding' \in Seq(Nat)
    BY <1>15, FramesMove DEF FrameCoded, EncoderOwn
  <2>2. EncoderOwn'
    BY <1>15, <2>1 DEF FrameCoded, EncoderOwn, c2_vars
  <2>3. Shared'
    BY <1>15 DEF FrameCoded, Shared, c2_vars, component_vars
  <2>4. QED BY <2>2, <2>3
<1>16. CASE UNCHANGED all_vars
  BY <1>16 DEF all_vars, Shared, EncoderOwn, c2_vars, component_vars, encoder_vars
<1>17. QED BY <1>1, <1>2, <1>3, <1>4, <1>5, <1>6, <1>7, <1>8, <1>9, <1>10, <1>11, <1>12, <1>13,
              <1>14, <1>15, <1>16 DEF EncoderNext, EncoderWorker, EncoderFailure

-----------------------------------------------------------------------------
(* What the encoder works on is what is in flight.                         *)

LEMMA PairedStep ==
  ASSUME EncoderShape, Paired, [EncoderNext]_all_vars
  PROVE  Paired'
<1>1. /\ in_flight_queue \in Seq(GoodJob) /\ coded \in Seq(Nat) /\ encoding \in Seq(Nat)
      /\ Frames \in Seq(Nat)
      /\ Len(in_flight_queue) = Len(Frames) /\ Len(Frames) \in Nat
      /\ \A i \in 1..Len(Frames) : in_flight_queue[i].id = Frames[i]
  BY InFlight, LenProperties DEF EncoderShape, EncoderOwn, Paired
<1>2. CASE EncoderNew
  <2>1. Len(in_flight_queue') = 0 /\ Frames' = <<>> /\ Len(Frames') = 0
    BY <1>2 DEF EncoderNew, Frames
  <2>2. QED BY <2>1 DEF Paired
<1>3. CASE Encode
  <2>1. job \in GoodJob /\ job.id \in Nat
    BY <1>3, IdOfJob DEF Encode
  <2>2. Frames' = Append(Frames, job.id)
    BY <1>1, <1>3, <2>1, FramesGrow DEF Encode, Frames
  <2>3. /\ Len(Frames') = Len(Frames) + 1 /\ Frames'[Len(Frames) + 1] = job.id
        /\ \A i \in 1..Len(Frames) : Frames'[i] = Frames[i]
    BY <1>1, <2>1, <2>2, AppendProperties
  <2>4. in_flight_queue' = Append(in_flight_queue, job)
    BY <1>3 DEF Encode
  <2>5. /\ Len(in_flight_queue') = Len(Frames) + 1 /\ in_flight_queue'[Len(Frames) + 1] = job
        /\ \A i \in 1..Len(Frames) : in_flight_queue'[i] = in_flight_queue[i]
    BY <1>1, <2>1, <2>4, AppendProperties
  <2>6. ASSUME NEW i \in 1..Len(Frames') PROVE in_flight_queue'[i].id = Frames'[i]
    <3>1. i \in 1..Len(Frames) \/ i = Len(Frames) + 1
      BY <1>1, <2>3
    <3>2. QED BY <1>1, <2>3, <2>5, <3>1
  <2>7. QED BY <2>3, <2>5, <2>6 DEF Paired
<1>4. CASE DrainEncoder
  <2>1. coded \o encoding \in Seq(Nat)
    BY <1>1, ConcatProperties
  <2>2. Frames' = Frames /\ in_flight_queue' = in_flight_queue
    BY <1>4, <2>1, ConcatEmptySeq DEF DrainEncoder, Frames
  <2>3. QED BY <1>1, <2>2 DEF Paired
<1>5. CASE PollFrame
  <2>1. in_flight_queue # <<>> /\ coded # <<>>
    BY <1>5, InFlight DEF PollFrame
  <2>2. Frames' = Tail(coded) \o encoding /\ in_flight_queue' = Tail(in_flight_queue)
    BY <1>5 DEF PollFrame, Frames
  <2>3. /\ Len(Frames') = Len(Frames) - 1
        /\ \A i \in 1..Len(Frames') : Frames'[i] = Frames[i + 1]
    BY <1>1, <2>1, <2>2, FramesComeBack DEF Frames
  <2>4. /\ Len(in_flight_queue') = Len(in_flight_queue) - 1
        /\ \A i \in 1..Len(in_flight_queue') : in_flight_queue'[i] = in_flight_queue[i + 1]
    BY <1>1, <2>1, <2>2, HeadTailProperties
  <2>5. ASSUME NEW i \in 1..Len(Frames') PROVE in_flight_queue'[i].id = Frames'[i]
    <3>1. i + 1 \in 1..Len(Frames)
      BY <1>1, <2>3
    <3>2. i \in 1..Len(in_flight_queue')
      BY <1>1, <2>3, <2>4
    <3>3. QED BY <1>1, <2>3, <2>4, <3>1, <3>2
  <2>6. QED BY <1>1, <2>3, <2>4, <2>5 DEF Paired
<1>6. CASE FrameCoded
  <2>1. Frames' = Frames /\ in_flight_queue' = in_flight_queue
    BY <1>1, <1>6, FramesMove DEF FrameCoded, Frames
  <2>2. QED BY <1>1, <2>1 DEF Paired
<1>7. CASE UNCHANGED <<in_flight_queue, coded, encoding>>
  BY <1>7 DEF Paired, Frames
<1>8. CASE Timeout \/ Wake \/ EncoderPop \/ MissingJob \/ PollNothing \/ EncoderFail \/ PollFails
  BY <1>7, <1>8 DEF Timeout, Wake, EncoderPop, MissingJob, PollNothing, EncoderFail, PollFails, encoder_vars
<1>9. CASE \/ LoopTest /\ UNCHANGED encoder_vars
           \/ NewFails /\ UNCHANGED encoder_vars
           \/ EncoderComponentStep
           \/ UNCHANGED all_vars
  BY <1>7, <1>9 DEF EncoderComponentStep, all_vars, encoder_vars
<1>10. QED BY <1>2, <1>3, <1>4, <1>5, <1>6, <1>8, <1>9 DEF EncoderNext, EncoderWorker, EncoderFailure

-----------------------------------------------------------------------------
(* The jobs keep their order from place to place, and none is lost.        *)

Places == EncoderOrder /\ EncoderKnown /\ OwnBitstream

(* Steps that move no job.                                                 *)
Still ==
  UNCHANGED <<done, in_flight_queue, job, work_queue, submission, num_jobs, settled>>

LEMMA StillPlaces ==
  ASSUME Places, Still
  PROVE  Places'
  BY DEF Places, Still, EncoderOrder, EncoderKnown, OwnBitstream, DoneIds, HandIds

LEMMA NewPlaces ==
  ASSUME EncoderShape, Places, EncoderNew
  PROVE  Places'
<1>1. /\ in_flight_queue' = <<>> /\ settled' = settled \cup Ids(in_flight_queue)
      /\ UNCHANGED <<work_queue, submission, num_jobs, job, done>>
  BY DEF EncoderNew
<1>2. /\ Ids(in_flight_queue') = {} /\ InOrder(in_flight_queue')
      /\ DoneIds' = DoneIds /\ HandIds' = HandIds
  BY <1>1, NoIds, NoneInOrder DEF DoneIds, HandIds
<1>3. EncoderOrder'
  <2>1. Chain(DoneIds, {}, HandIds, Ids(work_queue), Ids(submission), num_jobs)
    BY ChainShrinks DEF Places, EncoderOrder
  <2>2. QED BY <1>1, <1>2, <2>1 DEF Places, EncoderOrder
<1>4. EncoderKnown'
  BY <1>1, <1>2 DEF Places, EncoderKnown
<1>5. OwnBitstream'
  BY <1>1 DEF Places, OwnBitstream
<1>6. QED BY <1>3, <1>4, <1>5 DEF Places

LEMMA PopPlaces ==
  ASSUME EncoderShape, Places, EncoderPop
  PROVE  Places'
<1> DEFINE h == Head(work_queue)
           t == Tail(work_queue)
<1>1. /\ work_queue # <<>> /\ job' = h /\ work_queue' = t
      /\ UNCHANGED <<submission, num_jobs, settled, in_flight_queue, done>>
  BY DEF EncoderPop, component_vars
<1>2. /\ h \in GoodJob /\ t \in Seq(GoodJob)
      /\ Ids(work_queue) = {h.id} \cup Ids(t) /\ Before({h.id}, Ids(t)) /\ InOrder(t)
  BY <1>1, TakeFirst DEF EncoderShape, Shared, Places, EncoderOrder
<1>3. h # NoJob
  BY <1>2, JobFields, C2JobAssumption
<1>4. HandIds = {}
  BY DEF EncoderPop, EncoderShape, EncoderOwn, HandIds
<1>5. HandIds' = {h.id} /\ DoneIds' = DoneIds
  BY <1>1, <1>3 DEF HandIds, DoneIds
<1> HIDE DEF h, t
<1>6. EncoderOrder'
  <2>1. Chain(DoneIds, Ids(in_flight_queue), {}, {h.id} \cup Ids(t), Ids(submission), num_jobs)
    BY <1>2, <1>4 DEF Places, EncoderOrder
  <2>2. Chain(DoneIds, Ids(in_flight_queue), {h.id}, Ids(t), Ids(submission), num_jobs)
    BY <1>2, <2>1, ChainPops
  <2>3. QED BY <1>1, <1>2, <1>5, <2>2 DEF Places, EncoderOrder
<1>7. EncoderKnown'
  <2>1. 1..num_jobs \subseteq
          DoneIds \cup Ids(in_flight_queue) \cup ({h.id} \cup Ids(t)) \cup Ids(submission) \cup settled
    BY <1>2, <1>4 DEF Places, EncoderKnown
  <2>2. QED BY <1>1, <1>5, <2>1 DEF EncoderKnown
<1>8. OwnBitstream'
  BY <1>1 DEF Places, OwnBitstream
<1>9. QED BY <1>6, <1>7, <1>8 DEF Places

LEMMA EncodePlaces ==
  ASSUME EncoderShape, Places, Encode
  PROVE  Places'
<1>1. /\ in_flight_queue' = Append(in_flight_queue, job) /\ job' = NoJob
      /\ UNCHANGED <<work_queue, submission, num_jobs, settled, done>>
  BY DEF Encode, component_vars
<1>2. job \in GoodJob /\ HandIds = {job.id}
  BY IdOfJob DEF Encode
<1>3. HandIds' = {} /\ DoneIds' = DoneIds
  BY <1>1 DEF HandIds, DoneIds
<1>4. Chain(DoneIds, Ids(in_flight_queue), {job.id}, Ids(work_queue), Ids(submission), num_jobs)
  BY <1>2 DEF Places, EncoderOrder
<1>5. Before(Ids(in_flight_queue), {job.id})
  BY <1>4 DEF Chain
<1>6. Ids(in_flight_queue') = Ids(in_flight_queue) \cup {job.id} /\ InOrder(in_flight_queue')
  BY <1>1, <1>2, <1>5, PutLast DEF EncoderShape, EncoderOwn, Places, EncoderOrder
<1>7. EncoderOrder'
  <2>1. Chain(DoneIds, Ids(in_flight_queue) \cup {job.id}, {}, Ids(work_queue), Ids(submission),
              num_jobs)
    BY <1>4, ChainEncodes
  <2>2. QED BY <1>1, <1>3, <1>6, <2>1 DEF Places, EncoderOrder
<1>8. EncoderKnown'
  BY <1>1, <1>2, <1>3, <1>6 DEF Places, EncoderKnown
<1>9. OwnBitstream'
  BY <1>1 DEF Places, OwnBitstream
<1>10. QED BY <1>7, <1>8, <1>9 DEF Places

(* A drain, or a failure, settles the job in the worker's hand.            *)
LEMMA SettledPlaces ==
  ASSUME EncoderShape, Places, DrainEncoder \/ EncoderFail
  PROVE  Places'
<1>1. /\ job' = NoJob /\ settled' = settled \cup {job.id} /\ worker = "encode"
      /\ UNCHANGED <<work_queue, submission, num_jobs, in_flight_queue, done>>
  BY DEF DrainEncoder, EncoderFail
<1>2. HandIds = {job.id}
  BY <1>1, IdOfJob
<1>3. HandIds' = {} /\ DoneIds' = DoneIds
  BY <1>1 DEF HandIds, DoneIds
<1>4. EncoderOrder'
  <2>1. Chain(DoneIds, Ids(in_flight_queue), {}, Ids(work_queue), Ids(submission), num_jobs)
    BY ChainShrinks DEF Places, EncoderOrder
  <2>2. QED BY <1>1, <1>3, <2>1 DEF Places, EncoderOrder
<1>5. EncoderKnown'
  BY <1>1, <1>2, <1>3 DEF Places, EncoderKnown
<1>6. OwnBitstream'
  BY <1>1 DEF Places, OwnBitstream
<1>7. QED BY <1>4, <1>5, <1>6 DEF Places

LEMMA PollPlaces ==
  ASSUME EncoderShape, Paired, Places, PollFrame
  PROVE  Places'
<1> DEFINE x == Head(coded)
           t == Tail(in_flight_queue)
<1>1. /\ done' = Append(done, <<Head(in_flight_queue).id, x>>)
      /\ in_flight_queue' = t
      /\ UNCHANGED <<job, work_queue, submission, num_jobs, settled>>
  BY DEF PollFrame, c2_vars, component_vars
<1>2. /\ in_flight_queue # <<>> /\ Head(in_flight_queue).id = x /\ x \in Nat
  BY InFlight DEF PollFrame
<1>3. /\ t \in Seq(GoodJob)
      /\ Ids(in_flight_queue) = {x} \cup Ids(t) /\ Before({x}, Ids(t)) /\ InOrder(t)
  BY <1>2, TakeFirst DEF EncoderShape, EncoderOwn, Places, EncoderOrder
<1>4. done' = Append(done, <<x, x>>)
  BY <1>1, <1>2
<1> HIDE DEF x, t
<1>5. Chain(DoneIds, {x} \cup Ids(t), HandIds, Ids(work_queue), Ids(submission), num_jobs)
  BY <1>3 DEF Places, EncoderOrder
<1>6. Before(Firsts(done), {x})
  BY <1>5 DEF Chain, Before, DoneIds
<1>7. OwnFrames(done) /\ Growing(done)
  BY DEF Places, OwnBitstream, OwnFrames, Growing
<1>8. OwnFrames(done') /\ Growing(done') /\ DoneIds' = DoneIds \cup {x}
  BY <1>2, <1>4, <1>6, <1>7, DoneGrows DEF EncoderShape, EncoderOwn, DoneIds
<1>9. HandIds' = HandIds
  BY <1>1 DEF HandIds
<1>10. EncoderOrder'
  <2>1. Chain(DoneIds \cup {x}, Ids(t), HandIds, Ids(work_queue), Ids(submission), num_jobs)
    BY <1>3, <1>5, ChainComesBack
  <2>2. QED BY <1>1, <1>3, <1>8, <1>9, <2>1 DEF Places, EncoderOrder
<1>11. EncoderKnown'
  BY <1>1, <1>3, <1>8, <1>9 DEF Places, EncoderKnown
<1>12. OwnBitstream'
  BY <1>8 DEF OwnBitstream, OwnFrames, Growing
<1>13. QED BY <1>10, <1>11, <1>12 DEF Places

LEMMA SubmitPlaces ==
  ASSUME EncoderShape, Places, Submits, UNCHANGED encoder_vars
  PROVE  Places'
<1> DEFINE n == num_jobs
           m == num_jobs'
<1>1. /\ submission = <<>> /\ n \in Nat
      /\ submission' \in Seq(GoodJob) /\ m = n + Len(submission')
      /\ \A i \in 1..Len(submission') : submission'[i].id = n + i
      /\ UNCHANGED <<work_queue, settled, in_flight_queue, job, done>>
  BY DEF Submits, EncoderShape, Shared, encoder_vars
<1>2. Len(submission') \in Nat /\ DOMAIN submission' = 1..Len(submission')
  BY <1>1, LenProperties
<1>3. m \in Nat /\ n <= m
  BY <1>1, <1>2
<1>4. Ids(submission') = (n + 1)..m
  <2>1. ASSUME NEW i \in 1..Len(submission') PROVE submission'[i].id \in (n + 1)..m
    <3>1. submission'[i].id = n + i
      BY <1>1
    <3>2. n + i \in (n + 1)..m
      BY <1>1, <1>2
    <3>3. QED BY <3>1, <3>2
  <2>2. ASSUME NEW x \in (n + 1)..m PROVE x \in Ids(submission')
    <3>1. x - n \in 1..Len(submission') /\ n + (x - n) = x
      BY <1>1, <1>2
    <3>2. submission'[x - n].id = x
      BY <1>1, <3>1
    <3>3. QED BY <1>2, <3>1, <3>2 DEF Ids
  <2>3. QED BY <1>2, <2>1, <2>2 DEF Ids
<1>5. HandIds' = HandIds /\ DoneIds' = DoneIds /\ Ids(submission) = {}
  BY <1>1, NoIds DEF HandIds, DoneIds
<1>6. InOrder(submission')
  <2> SUFFICES ASSUME NEW i \in 1..Len(submission'), NEW k \in 1..Len(submission'), i < k
               PROVE  submission'[i].id < submission'[k].id
    BY DEF InOrder
  <2>1. submission'[i].id = n + i /\ submission'[k].id = n + k
    BY <1>1
  <2>2. n + i < n + k
    BY <1>1, <1>2
  <2>3. QED BY <2>1, <2>2
<1>7. Chain(DoneIds, Ids(in_flight_queue), HandIds, Ids(work_queue), {}, n)
  BY <1>5 DEF Places, EncoderOrder
<1> HIDE DEF n, m
<1>8. Chain(DoneIds, Ids(in_flight_queue), HandIds, Ids(work_queue), Ids(submission'), m)
  BY <1>1, <1>3, <1>4, <1>7, ChainSubmits
<1>9. EncoderOrder'
  BY <1>1, <1>5, <1>6, <1>8 DEF Places, EncoderOrder, m
<1>10. EncoderKnown'
  <2>1. 1..m \subseteq 1..n \cup Ids(submission')
    BY <1>1, <1>3, <1>4
  <2>2. 1..n \subseteq DoneIds \cup Ids(in_flight_queue) \cup HandIds \cup Ids(work_queue) \cup settled
    BY <1>5 DEF Places, EncoderKnown, n
  <2>3. QED BY <1>1, <1>5, <2>1, <2>2 DEF EncoderKnown, m
<1>11. OwnBitstream'
  BY <1>1 DEF Places, OwnBitstream
<1>12. QED BY <1>9, <1>10, <1>11 DEF Places

LEMMA ExtendPlaces ==
  ASSUME EncoderShape, Places, Extend, UNCHANGED encoder_vars
  PROVE  Places'
<1>1. /\ work_queue' = work_queue \o submission /\ submission' = <<>>
      /\ work_queue \in Seq(GoodJob) /\ submission \in Seq(GoodJob)
      /\ UNCHANGED <<num_jobs, settled, in_flight_queue, job, done>>
  BY DEF Extend, EncoderShape, Shared, encoder_vars
<1>2. HandIds' = HandIds /\ DoneIds' = DoneIds /\ Ids(submission') = {} /\ InOrder(submission')
  BY <1>1, NoIds, NoneInOrder DEF HandIds, DoneIds
<1>3. Before(Ids(work_queue), Ids(submission))
  BY DEF Places, EncoderOrder, Chain
<1>4. Ids(work_queue') = Ids(work_queue) \cup Ids(submission)
  BY <1>1, IdsOfConcat
<1>5. InOrder(work_queue')
  BY <1>1, <1>3, OrderOfConcat DEF Places, EncoderOrder
<1>6. EncoderOrder'
  <2>1. Chain(DoneIds, Ids(in_flight_queue), HandIds, Ids(work_queue) \cup Ids(submission), {}, num_jobs)
    BY ChainQueues DEF Places, EncoderOrder
  <2>2. QED BY <1>1, <1>2, <1>4, <1>5, <2>1 DEF Places, EncoderOrder
<1>7. EncoderKnown'
  BY <1>1, <1>2, <1>4 DEF Places, EncoderKnown
<1>8. OwnBitstream'
  BY <1>1 DEF Places, OwnBitstream
<1>9. QED BY <1>6, <1>7, <1>8 DEF Places

(* flush takes the jobs of the queue back, and stop drops them.            *)
LEMMA QueueSettled ==
  ASSUME EncoderShape, Places, TakeBack \/ Join, UNCHANGED encoder_vars
  PROVE  Places'
<1>1. /\ work_queue' = <<>> /\ settled' = settled \cup Ids(work_queue)
      /\ UNCHANGED <<submission, num_jobs, in_flight_queue, job, done>>
  BY DEF TakeBack, Join, encoder_vars
<1>2. HandIds' = HandIds /\ DoneIds' = DoneIds /\ Ids(work_queue') = {} /\ InOrder(work_queue')
  BY <1>1, NoIds, NoneInOrder DEF HandIds, DoneIds
<1>3. EncoderOrder'
  <2>1. Chain(DoneIds, Ids(in_flight_queue), HandIds, {}, Ids(submission), num_jobs)
    BY ChainShrinks DEF Places, EncoderOrder
  <2>2. QED BY <1>1, <1>2, <2>1 DEF Places, EncoderOrder
<1>4. EncoderKnown'
  BY <1>1, <1>2 DEF Places, EncoderKnown
<1>5. OwnBitstream'
  BY <1>1 DEF Places, OwnBitstream
<1>6. QED BY <1>3, <1>4, <1>5 DEF Places

LEMMA ComponentKinds ==
  ASSUME EncoderShape, Component
  PROVE  Submits \/ Start \/ Extend \/ Write \/ Flush \/ TakeBack \/ Stop \/ Join
<1>1. num_jobs \in Nat /\ session \in Nat /\ eos \in BOOLEAN
  BY DEF EncoderShape, Shared
<1>2. ASSUME NEW n \in IF disciplined THEN {1} ELSE 1..MaxBatch, NEW work \in Works,
             Queue([k \in 1..n |-> work])
      PROVE  Submits
  BY <1>1, <1>2, QueueSubmits
<1>3. ASSUME NEW mode \in DrainModes \ {"NoDrain"}, Drain(mode) PROVE Submits
  BY <1>1, <1>3, DrainSubmits
<1>4. QED BY <1>2, <1>3 DEF Component

LEMMA PlacesStep ==
  ASSUME EncoderShape, Paired, Places, [EncoderNext]_all_vars
  PROVE  Places'
<1>1. CASE Timeout \/ Wake \/ MissingJob \/ PollNothing \/ PollFails
  <2>1. Still
    BY <1>1 DEF Still, Timeout, Wake, MissingJob, PollNothing, PollFails, component_vars, encoder_vars
  <2>2. QED BY <2>1, StillPlaces
<1>2. CASE \/ LoopTest /\ UNCHANGED encoder_vars
           \/ NewFails /\ UNCHANGED encoder_vars
           \/ FrameCoded
           \/ UNCHANGED all_vars
  <2>1. Still
    BY <1>2 DEF Still, LoopTest, NewFails, FrameCoded, all_vars, c2_vars, component_vars, encoder_vars
  <2>2. QED BY <2>1, StillPlaces
<1>3. CASE EncoderComponentStep
  <2>1. Component /\ UNCHANGED encoder_vars
    BY <1>3 DEF EncoderComponentStep
  <2>2. CASE Start \/ Write \/ Flush \/ Stop
    <3>1. Still
      BY <2>1, <2>2 DEF Still, Start, Write, Flush, Stop, encoder_vars
    <3>2. QED BY <3>1, StillPlaces
  <2>3. QED BY <2>1, <2>2, ComponentKinds, SubmitPlaces, ExtendPlaces, QueueSettled
<1>4. QED BY <1>1, <1>2, <1>3, NewPlaces, PopPlaces, EncodePlaces, SettledPlaces, PollPlaces
          DEF EncoderNext, EncoderWorker, EncoderFailure

-----------------------------------------------------------------------------
(* A careful component and its events.                                     *)

LEMMA CarefulStep ==
  ASSUME EncoderShape, Careful, OneEventPerJob, [EncoderNext]_all_vars
  PROVE  Careful'
<1> USE DEF EncoderShape
<1>1. work_queue \in Seq(GoodJob) /\ awaiting_job_event \in Nat
  BY DEF Shared
<1>2. CASE EncoderNew
  BY <1>2 DEF EncoderNew, Careful
<1>3. CASE Timeout
  BY <1>3 DEF Timeout, Careful, component_vars
<1>4. CASE Wake
  <2>1. worker = "wait" /\ worker' = "pop" /\ UNCHANGED <<state, component_vars>>
    BY <1>4 DEF Wake
  <2>2. QED BY <2>1 DEF Careful, component_vars
<1>5. CASE EncoderPop
  BY <1>5 DEF EncoderPop, Careful, component_vars
<1>6. CASE MissingJob
  <2>1. worker = "pop" /\ work_queue = <<>> /\ worker' = "panicked"
        /\ UNCHANGED <<state, component_vars>>
    BY <1>6 DEF MissingJob
  <2>2. ~(disciplined /\ session = 1)
    <3> SUFFICES ASSUME disciplined, session = 1 PROVE FALSE
      OBVIOUS
    <3>1. state = "C2Running"
      BY <2>1 DEF Careful
    <3>2. Len(work_queue) = 0
      BY <2>1, EmptySeq
    <3>3. Len(work_queue) = awaiting_job_event + (IF component = "write" THEN 1 ELSE 0) + 1
      BY <2>1, <3>1 DEF OneEventPerJob
    <3>4. CASE component = "write"
      BY <1>1, <3>2, <3>3, <3>4
    <3>5. CASE component # "write"
      BY <1>1, <3>2, <3>3, <3>5
    <3>6. QED BY <3>4, <3>5
  <2>3. QED BY <2>1, <2>2 DEF Careful, component_vars
<1>7. CASE Encode
  BY <1>7 DEF Encode, Careful, component_vars
<1>8. CASE DrainEncoder
  BY <1>8 DEF DrainEncoder, Careful
<1>9. CASE PollFrame
  BY <1>9 DEF PollFrame, Careful, c2_vars, component_vars
<1>10. CASE PollNothing
  BY <1>10 DEF PollNothing, Careful, component_vars
<1>11. CASE LoopTest
  BY <1>11 DEF LoopTest, Careful, component_vars
<1>12. CASE EncoderFail
  BY <1>12 DEF EncoderFail, Careful
<1>13. CASE PollFails
  BY <1>13 DEF PollFails, Careful, component_vars
<1>14. CASE NewFails
  BY <1>14 DEF NewFails, Careful, component_vars
<1>15. CASE FrameCoded
  BY <1>15 DEF FrameCoded, Careful, c2_vars, component_vars
<1>16. CASE Start
  <2>1. session' # 0
    BY <1>16 DEF Start, Shared
  <2>2. /\ state' = "C2Running" /\ worker' = "new" /\ component = "idle"
        /\ UNCHANGED <<disciplined, component, submission>>
    BY <1>16 DEF Start
  <2>3. QED BY <2>1, <2>2 DEF Careful
<1>17. CASE Submits
  BY <1>17 DEF Submits, Careful
<1>18. CASE Extend
  BY <1>18 DEF Extend, Careful
<1>19. CASE Write
  BY <1>19 DEF Write, Careful
<1>20. CASE Flush
  BY <1>20 DEF Flush, Call, Careful
<1>21. CASE TakeBack
  BY <1>21 DEF TakeBack, Careful
<1>22. CASE Stop
  BY <1>22 DEF Stop, Careful
<1>23. CASE Join
  BY <1>23 DEF Join, Careful
<1>24. CASE UNCHANGED all_vars
  BY <1>24 DEF Careful, all_vars, c2_vars, component_vars
<1>25. CASE EncoderComponentStep
  BY <1>16, <1>17, <1>18, <1>19, <1>20, <1>21, <1>22, <1>23, <1>25, ComponentKinds DEF EncoderComponentStep
<1>26. QED BY <1>2, <1>3, <1>4, <1>5, <1>6, <1>7, <1>8, <1>9, <1>10, <1>11, <1>12, <1>13, <1>14,
              <1>15, <1>24, <1>25 DEF EncoderNext, EncoderWorker, EncoderFailure

EncoderWriting == IF component = "write" THEN 1 ELSE 0
EncoderAwake == IF worker = "pop" THEN 1 ELSE 0
Announced == disciplined /\ session = 1 /\ state = "C2Running"

LEMMA Balance ==
  ASSUME NEW q \in Nat, NEW e \in Nat, NEW w \in Nat, NEW p \in Nat, q = e + w + p
  PROVE  /\ e > 0 /\ p = 0 => q = (e - 1) + w + 1
         /\ q > 0 /\ p = 1 => q - 1 = e + w + 0
         /\ w = 0 => q + 1 = e + 1 + p
         /\ w = 1 => q = (e + 1) + 0 + p
  OBVIOUS

LEMMA EventStep ==
  ASSUME EncoderShape, Careful, OneEventPerJob, [EncoderNext]_all_vars
  PROVE  OneEventPerJob'
<1> SUFFICES ASSUME Announced' PROVE Len(work_queue') = awaiting_job_event' + EncoderWriting' + EncoderAwake'
  BY DEF Announced, OneEventPerJob, EncoderWriting, EncoderAwake
<1>1. /\ work_queue \in Seq(GoodJob) /\ submission \in Seq(GoodJob)
      /\ Len(work_queue) \in Nat /\ awaiting_job_event \in Nat
      /\ EncoderWriting \in Nat /\ EncoderAwake \in Nat
  BY LenProperties DEF EncoderShape, Shared, EncoderWriting, EncoderAwake
<1>2. Announced => Len(work_queue) = awaiting_job_event + EncoderWriting + EncoderAwake
  BY DEF Announced, OneEventPerJob, EncoderWriting, EncoderAwake
<1>3. CASE Announced /\ UNCHANGED <<work_queue, awaiting_job_event, component>> /\ EncoderAwake' = EncoderAwake
  BY <1>2, <1>3 DEF EncoderWriting
<1>4. CASE EncoderNew \/ Timeout \/ MissingJob \/ Encode \/ PollNothing \/ PollFrame
  <2>1. Announced /\ UNCHANGED <<work_queue, awaiting_job_event, component>>
    BY <1>4 DEF Announced, EncoderNew, Timeout, MissingJob, Encode, PollNothing, PollFrame, c2_vars, component_vars
  <2>2. EncoderAwake' = EncoderAwake
    <3>1. ~MissingJob
      <4>1. worker' # "panicked"
        <5>1. Careful'
          BY CarefulStep
        <5>2. QED BY <5>1 DEF Careful, Announced
      <4>2. QED BY <4>1 DEF MissingJob
    <3>2. QED BY <1>4, <3>1 DEF EncoderNew, Timeout, Encode, PollNothing, PollFrame, c2_vars, EncoderAwake
  <2>3. QED BY <1>3, <2>1, <2>2
<1>5. CASE DrainEncoder
  <2>1. Announced /\ UNCHANGED <<work_queue, awaiting_job_event, component>>
    <3>1. state' = "C2Running" => state = "C2Running"
      BY <1>5 DEF DrainEncoder
    <3>2. QED BY <1>5, <3>1 DEF Announced, DrainEncoder
  <2>2. EncoderAwake' = EncoderAwake
    BY <1>5 DEF DrainEncoder, EncoderAwake
  <2>3. QED BY <1>3, <2>1, <2>2
<1>6. CASE LoopTest
  <2>1. Announced /\ UNCHANGED <<work_queue, awaiting_job_event, component>>
    BY <1>6 DEF Announced, LoopTest, component_vars
  <2>2. EncoderAwake' = EncoderAwake
    BY <1>6 DEF LoopTest, EncoderAwake
  <2>3. QED BY <1>3, <2>1, <2>2
<1>7. CASE Wake
  <2>1. /\ Announced /\ awaiting_job_event > 0 /\ EncoderAwake = 0 /\ EncoderAwake' = 1
        /\ awaiting_job_event' = awaiting_job_event - 1 /\ work_queue' = work_queue
        /\ EncoderWriting' = EncoderWriting
    BY <1>7 DEF Wake, Announced, EncoderAwake, EncoderWriting, component_vars
  <2>2. QED BY <1>1, <1>2, <2>1, Balance
<1>8. CASE EncoderPop
  <2>1. /\ Announced /\ work_queue # <<>> /\ work_queue' = Tail(work_queue)
        /\ EncoderAwake = 1 /\ EncoderAwake' = 0
        /\ awaiting_job_event' = awaiting_job_event /\ EncoderWriting' = EncoderWriting
    BY <1>8 DEF EncoderPop, Announced, EncoderAwake, EncoderWriting, component_vars
  <2>2. Len(work_queue') = Len(work_queue) - 1 /\ Len(work_queue) > 0
    <3>1. Len(Tail(work_queue)) = Len(work_queue) - 1
      BY <1>1, <2>1, HeadTailProperties
    <3>2. Len(work_queue) \in Nat \ {0}
      BY <1>1, <2>1, EmptySeq
    <3>3. QED BY <2>1, <3>1, <3>2
  <2>3. QED BY <1>1, <1>2, <2>1, <2>2, Balance
<1>9. CASE EncoderFail \/ PollFails \/ NewFails
  BY <1>9 DEF EncoderFail, PollFails, NewFails, Announced
<1>10. CASE FrameCoded
  <2>1. Announced /\ UNCHANGED <<work_queue, awaiting_job_event, component>> /\ EncoderAwake' = EncoderAwake
    BY <1>10 DEF FrameCoded, Announced, EncoderAwake, c2_vars, component_vars
  <2>2. QED BY <1>3, <2>1
<1>11. CASE UNCHANGED all_vars
  <2>1. Announced /\ UNCHANGED <<work_queue, awaiting_job_event, component>> /\ EncoderAwake' = EncoderAwake
    BY <1>11 DEF all_vars, Announced, EncoderAwake, c2_vars, component_vars
  <2>2. QED BY <1>3, <2>1
<1>12. CASE Start
  <2>1. session = 0
    BY <1>12 DEF Start, Announced, EncoderShape, Shared
  <2>2. work_queue = <<>> /\ awaiting_job_event = 0 /\ component = "idle"
    BY <2>1 DEF Careful
  <2>3. work_queue' = <<>> /\ awaiting_job_event' = 0 /\ EncoderWriting' = 0 /\ EncoderAwake' = 0
    BY <1>12, <2>2 DEF Start, EncoderWriting, EncoderAwake
  <2>4. QED BY <2>3, EmptySeq
<1>13. CASE Submits
  <2>1. Announced /\ UNCHANGED <<work_queue, awaiting_job_event>> /\ EncoderAwake' = EncoderAwake
    BY <1>13 DEF Submits, Announced, EncoderAwake
  <2>2. EncoderWriting = 0 /\ EncoderWriting' = 0
    BY <1>13 DEF Submits, EncoderWriting
  <2>3. QED BY <1>2, <2>1, <2>2
<1>14. CASE Extend
  <2>1. /\ Announced /\ awaiting_job_event' = awaiting_job_event /\ EncoderAwake' = EncoderAwake
        /\ EncoderWriting = 0 /\ EncoderWriting' = 1
        /\ work_queue' = work_queue \o submission
    BY <1>14 DEF Extend, Announced, EncoderAwake, EncoderWriting
  <2>2. Len(submission) = 1
    BY <1>14, <2>1 DEF Extend, Careful, Announced
  <2>3. Len(work_queue') = Len(work_queue) + 1
    BY <1>1, <2>1, <2>2, ConcatProperties
  <2>4. QED BY <1>1, <1>2, <2>1, <2>3, Balance
<1>15. CASE Write
  <2>1. /\ Announced /\ work_queue' = work_queue /\ EncoderAwake' = EncoderAwake
        /\ EncoderWriting = 1 /\ EncoderWriting' = 0
        /\ awaiting_job_event' = awaiting_job_event + 1
    BY <1>15 DEF Write, Announced, EncoderAwake, EncoderWriting
  <2>2. QED BY <1>1, <1>2, <2>1, Balance
<1>16. CASE Flush \/ TakeBack
  BY <1>16 DEF Flush, TakeBack, Announced, Careful
<1>17. CASE Stop
  BY <1>17 DEF Stop, Announced
<1>18. CASE Join
  BY <1>18 DEF Join, Announced, EncoderShape, Shared
<1>19. CASE EncoderComponentStep
  BY <1>12, <1>13, <1>14, <1>15, <1>16, <1>17, <1>18, <1>19, ComponentKinds DEF EncoderComponentStep
<1>20. QED BY <1>4, <1>5, <1>6, <1>7, <1>8, <1>9, <1>10, <1>11, <1>19 DEF EncoderNext, EncoderWorker, EncoderFailure

-----------------------------------------------------------------------------
LEMMA EncoderStepIInv ==
  ASSUME EncoderIInv, [EncoderNext]_all_vars
  PROVE  EncoderIInv'
<1>1. Places /\ EncoderShape /\ Paired /\ Careful /\ OneEventPerJob
  BY DEF EncoderIInv, Places
<1>2. Places' /\ EncoderShape' /\ Paired' /\ Careful' /\ OneEventPerJob'
  BY <1>1, PlacesStep, EncoderShapeStep, PairedStep, CarefulStep, EventStep
<1>3. QED BY <1>2 DEF EncoderIInv, Places

LEMMA EncoderIInvIsSafe ==
  ASSUME EncoderIInv
  PROVE  EncoderSafety /\ (disciplined /\ session = 1 => FindsJob)
<1>1. EncoderShape
  BY DEF EncoderIInv
<1>2. EncoderTypeOK
  <2>1. work_queue \in Seq(Job) /\ submission \in Seq(Job) /\ in_flight_queue \in Seq(Job)
    BY <1>1, SeqMonotonic, JobFields DEF EncoderShape, Shared, EncoderOwn
  <2>2. C2TypeOK
    BY <1>1, <2>1 DEF EncoderShape, Shared, C2TypeOK
  <2>3. job \in Job \cup {NoJob}
    BY <1>1, JobFields DEF EncoderShape, EncoderOwn
  <2>4. QED BY <1>1, <2>1, <2>2, <2>3 DEF EncoderShape, EncoderOwn, EncoderTypeOK
<1>3. JobsAccountedFor
  <2> SUFFICES ASSUME NEW n \in 1..num_jobs
               PROVE  \/ n \in Ids(work_queue) \cup Ids(submission) \cup Ids(in_flight_queue) \cup settled
                      \/ job # NoJob /\ job.id = n
                      \/ \E i \in DOMAIN done : done[i][1] = n
    BY DEF JobsAccountedFor
  <2>1. \/ n \in DoneIds
        \/ n \in HandIds
        \/ n \in Ids(work_queue) \cup Ids(submission) \cup Ids(in_flight_queue) \cup settled
    BY DEF EncoderIInv, EncoderKnown
  <2>2. CASE n \in DoneIds
    BY <2>2 DEF DoneIds, Firsts
  <2>3. CASE n \in HandIds
    BY <2>3 DEF HandIds
  <2>4. QED BY <2>1, <2>2, <2>3
<1>4. FindsJob \/ ~(disciplined /\ session = 1)
  BY DEF EncoderIInv, Careful, FindsJob
<1>5. QED BY <1>2, <1>3, <1>4 DEF EncoderIInv, EncoderSafety

(* Every frame comes back once, in order, as the job that brought it, and  *)
(* every job is somewhere until it is settled, whatever the component      *)
(* does; a careful one has an event written for each job it queued.        *)
THEOREM EncoderSafe == EncoderSpec => []EncoderSafety
<1>1. EncoderIInv /\ [EncoderNext]_all_vars => EncoderIInv'
  BY EncoderStepIInv
<1>2. EncoderIInv => EncoderSafety
  BY EncoderIInvIsSafe
<1>3. QED BY EncoderInitIInv, <1>1, <1>2, PTL DEF EncoderSpec

(* The worker never misses the job it was woken for (expect "Missing job   *)
(* from work queue!") in the first session of a careful component.         *)
THEOREM NeverMissesJob == EncoderSpec => [](disciplined /\ session = 1 => FindsJob)
<1>1. EncoderIInv /\ [EncoderNext]_all_vars => EncoderIInv'
  BY EncoderStepIInv
<1>2. EncoderIInv => (disciplined /\ session = 1 => FindsJob)
  BY EncoderIInvIsSafe
<1>3. QED BY EncoderInitIInv, <1>1, <1>2, PTL DEF EncoderSpec

-----------------------------------------------------------------------------
(* The worker of the decoder.                                              *)

USE FormatAssumption

(* The jobs on their way through the worker: the one in its hand, if any,  *)
(* and behind it those in the queue.  Taking a job and putting it back do  *)
(* not change the line.  A submission will be its end.                     *)
InHand(s) == IF job = NoJob THEN s ELSE <<job>> \o s
Line == InHand(work_queue)
All == InHand(work_queue \o submission)

(* What is decoded is of jobs before those of the line, but for the first, *)
(* of which more may be left.                                              *)
Ahead(s, d) ==
  \A i \in 1..Len(s), k \in 1..Len(d) :
    \/ d[k][1] < s[i].id
    \/ i = 1 /\ d[k][1] = s[i].id /\ s[i].drain = "NoDrain" /\ d[k][2] > s[i].work.units

(* A drain job is announced by an event of its own, and so are the jobs    *)
(* behind the last one: a line with so many batches needs so many events.  *)
DrainIds(s) == {s[i].id : i \in {k \in 1..Len(s) : s[k].drain # "NoDrain"}}
Trailing(s) == IF s # <<>> /\ s[Len(s)].drain = "NoDrain" THEN 1 ELSE 0
Batches(s) == Cardinality(DrainIds(s)) + Trailing(s)

(* ------------------------------ invariants ----------------------------- *)

Own ==
  /\ worker \in {"none", "new", "loop", "wait", "pop", "decode", "check", "ended"}
  /\ job \in GoodJob \cup {NoJob}
  /\ worker = "decode" <=> job # NoJob
  /\ decoded \in Seq(Nat \X Nat)
  /\ held \in SUBSET Nat
  /\ pool_start \in Nat
  /\ refused \in BOOLEAN

FrameHandle == [id : Nat, format : Formats]
Shape == Shared /\ Own /\ DecoderTypeOK(FrameHandle)

Order ==
  /\ Numbered(All, num_jobs)
  /\ InOrder(All)
  /\ Ahead(All, decoded)
  /\ \A k \in 1..Len(decoded) : decoded[k][1] <= num_jobs
  /\ DecodedInOrder

(* A careful component submits nothing behind the end of the stream, and   *)
(* the worker that stops has taken everything.                             *)
Session ==
  disciplined =>
    /\ \A i \in 1..Len(All) :
         All[i].session = session /\ (All[i].drain = "EOSDrain" => eos /\ i = Len(All))
    /\ state = "C2Stopped" /\ component # "join" => All = <<>>

(* Events, one that is about to be written and the one the worker follows  *)
(* are enough for the batches of the line.                                 *)
Failed == worker \in {"check", "loop", "ended"} /\ (state = "C2Error" \/ component = "join")
Awake == IF worker \in {"pop", "decode"} THEN 1 ELSE 0
Writing == IF component = "write" THEN 1 ELSE 0
Wakes ==
  /\ OneBatch(submission)
  /\ ~refused /\ ~Failed => Batches(Line) <= awaiting_job_event + Writing + Awake

(* Nothing happens to the state between stop and start.                    *)
Stopped ==
  disciplined =>
    /\ component = "join" => worker = "ended" /\ state = "C2Stopped"
    /\ worker = "none" => state = "C2Stopped"

IInv == Shape /\ Order /\ Session /\ Wakes /\ Stopped /\ NoJobLost
-----------------------------------------------------------------------------
(* Sequences of jobs.                                                      *)

LEMMA GoodJobs ==
  /\ GoodJob \subseteq Job
  /\ \A j \in GoodJob : /\ j # NoJob
                        /\ j.id \in Nat /\ j.session \in Nat /\ j.drain \in DrainModes
                        /\ j.drain = "NoDrain" =>
                             /\ j.work \in Works
                             /\ j.work.format \in Formats /\ j.work.units \in Nat \ {0}
  BY C2DecoderAssumption, C2JobAssumption DEF GoodJob, Job

(* The first job leaves the line: it was before all the others.            *)
LEMMA OrderBehind ==
  ASSUME NEW j \in GoodJob, NEW s \in Seq(GoodJob), NEW n, NEW d,
         Numbered(<<j>> \o s, n), InOrder(<<j>> \o s), Ahead(<<j>> \o s, d)
  PROVE  /\ j.id \in 1..n
         /\ \A i \in 1..Len(s) : j.id < s[i].id
         /\ \A k \in 1..Len(d) :
              d[k][1] < j.id \/ (d[k][1] = j.id /\ j.drain = "NoDrain" /\ d[k][2] > j.work.units)
         /\ \A i \in 1..Len(s), k \in 1..Len(d) : d[k][1] < s[i].id
         /\ Numbered(s, n) /\ InOrder(s)
<1> DEFINE t == <<j>> \o s
<1>1. /\ Len(s) \in Nat /\ Len(t) = Len(s) + 1 /\ t[1] = j
      /\ \A i \in 1..Len(s) : t[i + 1] = s[i]
  BY InFront, LenProperties
<1>2. /\ 1 \in 1..Len(t)
      /\ \A i \in 1..Len(s) : i + 1 \in 1..Len(t) /\ i + 1 # 1 /\ 1 < i + 1
  BY <1>1
<1>3. Numbered(t, n) /\ InOrder(t) /\ Ahead(t, d)
  OBVIOUS
<1> HIDE DEF t
<1>4. j.id \in 1..n /\ Numbered(s, n)
  BY <1>1, <1>2, <1>3 DEF Numbered
<1>5. \A i \in 1..Len(s) : j.id < s[i].id
  BY <1>1, <1>2, <1>3 DEF InOrder
<1>6. InOrder(s)
  <2> SUFFICES ASSUME NEW i \in 1..Len(s), NEW k \in 1..Len(s), i < k PROVE s[i].id < s[k].id
    BY DEF InOrder
  <2>1. i + 1 \in 1..Len(t) /\ k + 1 \in 1..Len(t) /\ i + 1 < k + 1
    BY <1>1
  <2>2. t[i + 1].id < t[k + 1].id
    BY <1>3, <2>1 DEF InOrder
  <2>3. QED BY <1>1, <2>2
<1>7. \A i \in 1..Len(s), k \in 1..Len(d) : d[k][1] < s[i].id
  BY <1>1, <1>2, <1>3 DEF Ahead
<1>8. \A k \in 1..Len(d) :
        d[k][1] < j.id \/ (d[k][1] = j.id /\ j.drain = "NoDrain" /\ d[k][2] > j.work.units)
  BY <1>1, <1>2, <1>3 DEF Ahead
<1>9. QED BY <1>4, <1>5, <1>6, <1>7, <1>8

(* ... and it stays where it was if a part of it is left.                  *)
LEMMA OrderInFront ==
  ASSUME NEW j \in GoodJob, NEW s \in Seq(GoodJob), NEW n, NEW d,
         j.id \in 1..n, Numbered(s, n), InOrder(s),
         \A i \in 1..Len(s) : j.id < s[i].id,
         \A k \in 1..Len(d) :
           d[k][1] < j.id \/ (d[k][1] = j.id /\ j.drain = "NoDrain" /\ d[k][2] > j.work.units),
         \A i \in 1..Len(s), k \in 1..Len(d) : d[k][1] < s[i].id
  PROVE  Numbered(<<j>> \o s, n) /\ InOrder(<<j>> \o s) /\ Ahead(<<j>> \o s, d)
<1> DEFINE t == <<j>> \o s
<1>1. /\ Len(s) \in Nat /\ Len(t) = Len(s) + 1 /\ t[1] = j
      /\ \A i \in 1..Len(t) : i = 1 \/ (i - 1 \in 1..Len(s) /\ t[i] = s[i - 1])
  BY InFront, LenProperties
<1> SUFFICES Numbered(t, n) /\ InOrder(t) /\ Ahead(t, d)
  OBVIOUS
<1> HIDE DEF t
<1>2. Numbered(t, n)
  BY <1>1 DEF Numbered
<1>3. InOrder(t)
  <2> SUFFICES ASSUME NEW i \in 1..Len(t), NEW k \in 1..Len(t), i < k PROVE t[i].id < t[k].id
    BY DEF InOrder
  <2>1. k # 1 /\ k - 1 \in 1..Len(s) /\ t[k] = s[k - 1]
    BY <1>1
  <2>2. CASE i = 1
    BY <1>1, <2>1, <2>2
  <2>3. CASE i # 1
    <3>1. i - 1 \in 1..Len(s) /\ t[i] = s[i - 1] /\ i - 1 < k - 1
      BY <1>1, <2>3
    <3>2. QED BY <2>1, <3>1 DEF InOrder
  <2>4. QED BY <2>2, <2>3
<1>4. Ahead(t, d)
  BY <1>1 DEF Ahead
<1>5. QED BY <1>2, <1>3, <1>4

(* Jobs with the next numbers behind the line.                             *)
LEMMA OrderAtEnd ==
  ASSUME NEW s \in Seq(GoodJob), NEW t \in Seq(GoodJob), NEW n \in Nat, NEW d,
         Numbered(s, n), InOrder(s), Ahead(s, d),
         \A k \in 1..Len(d) : d[k][1] \in Nat /\ d[k][1] <= n,
         \A i \in 1..Len(t) : t[i].id = n + i
  PROVE  Numbered(s \o t, n + Len(t)) /\ InOrder(s \o t) /\ Ahead(s \o t, d)
<1> DEFINE u == s \o t
<1>1. /\ Len(s) \in Nat /\ Len(t) \in Nat /\ Len(u) = Len(s) + Len(t)
      /\ \A i \in 1..Len(s) : u[i] = s[i]
      /\ \A i \in 1..Len(u) : i > Len(s) => i - Len(s) \in 1..Len(t) /\ u[i] = t[i - Len(s)]
  BY ConcatProperties, LenProperties
<1> SUFFICES Numbered(u, n + Len(t)) /\ InOrder(u) /\ Ahead(u, d)
  OBVIOUS
<1> HIDE DEF u
<1>2. \A i \in 1..Len(u) :
        \/ i <= Len(s) /\ i \in 1..Len(s) /\ u[i] = s[i] /\ u[i].id \in 1..n
        \/ i > Len(s) /\ u[i].id = n + (i - Len(s)) /\ i - Len(s) \in 1..Len(t)
  BY <1>1 DEF Numbered
<1>3. Numbered(u, n + Len(t))
  BY <1>1, <1>2 DEF Numbered
<1>4. InOrder(u)
  <2> SUFFICES ASSUME NEW i \in 1..Len(u), NEW k \in 1..Len(u), i < k PROVE u[i].id < u[k].id
    BY DEF InOrder
  <2>1. CASE k <= Len(s)
    BY <1>1, <1>2, <2>1 DEF InOrder
  <2>2. CASE k > Len(s)
    <3>1. u[k].id = n + (k - Len(s)) /\ k - Len(s) \in 1..Len(t) /\ k \in Nat /\ i \in Nat
      BY <1>1, <1>2, <2>2
    <3>2. CASE i <= Len(s)
      <4>1. u[i].id \in 1..n
        BY <1>1, <1>2, <3>1, <3>2
      <4>2. QED BY <1>1, <3>1, <4>1
    <3>3. CASE i > Len(s)
      <4>1. u[i].id = n + (i - Len(s))
        BY <1>1, <1>2, <3>1, <3>3
      <4>2. QED BY <1>1, <3>1, <4>1
    <3>4. QED BY <1>1, <3>1, <3>2, <3>3
  <2>3. QED BY <1>1, <2>1, <2>2
<1>5. Ahead(u, d)
  <2> SUFFICES ASSUME NEW i \in 1..Len(u), NEW k \in 1..Len(d)
               PROVE  \/ d[k][1] < u[i].id
                      \/ i = 1 /\ d[k][1] = u[i].id /\ u[i].drain = "NoDrain" /\ d[k][2] > u[i].work.units
    BY DEF Ahead
  <2>1. CASE i \in 1..Len(s)
    BY <1>1, <2>1 DEF Ahead
  <2>2. CASE i > Len(s)
    <3>1. u[i].id = n + (i - Len(s)) /\ i - Len(s) \in 1..Len(t)
      BY <1>1, <1>2, <2>2
    <3>2. d[k][1] \in Nat /\ d[k][1] <= n
      OBVIOUS
    <3>3. QED BY <1>1, <3>1, <3>2
  <2>3. QED BY <1>1, <2>1, <2>2
<1>6. QED BY <1>3, <1>4, <1>5

-----------------------------------------------------------------------------
(* Counting batches.                                                       *)

LEMMA BatchesType ==
  ASSUME NEW s \in Seq(GoodJob), NEW n \in Nat, Numbered(s, n)
  PROVE  /\ IsFiniteSet(DrainIds(s)) /\ Cardinality(DrainIds(s)) \in Nat
         /\ Trailing(s) \in {0, 1}
         /\ Batches(s) \in Nat
<1>1. DrainIds(s) \in SUBSET (1..n)
  BY DEF DrainIds, Numbered
<1>2. IsFiniteSet(1..n)
  BY FS_Interval
<1>3. IsFiniteSet(DrainIds(s)) /\ Cardinality(DrainIds(s)) \in Nat
  <2>1. IsFiniteSet(DrainIds(s))
    BY <1>1, <1>2, FS_Subset
  <2>2. QED BY <2>1, FS_CardinalityType
<1>4. Trailing(s) \in {0, 1}
  BY DEF Trailing
<1>5. QED BY <1>3, <1>4 DEF Batches

LEMMA NoBatches == Batches(<<>>) = 0
<1>1. DrainIds(<<>>) = {}
  <2>1. Len(<<>>) = 0
    BY EmptySeq
  <2>2. QED BY <2>1 DEF DrainIds
<1>2. Trailing(<<>>) = 0
  BY DEF Trailing
<1>3. QED BY <1>1, <1>2, FS_EmptySet DEF Batches

LEMMA SomeBatches ==
  ASSUME NEW s \in Seq(GoodJob), NEW n \in Nat, Numbered(s, n), s # <<>>
  PROVE  Batches(s) >= 1
<1>1. Len(s) \in Nat \ {0} /\ Len(s) \in 1..Len(s)
  BY EmptySeq
<1>2. CASE s[Len(s)].drain = "NoDrain"
  <2>1. Trailing(s) = 1
    BY <1>2 DEF Trailing
  <2>2. QED BY <2>1, BatchesType DEF Batches
<1>3. CASE s[Len(s)].drain # "NoDrain"
  <2>1. DrainIds(s) # {}
    BY <1>1, <1>3 DEF DrainIds
  <2>2. Cardinality(DrainIds(s)) # 0
    BY <2>1, BatchesType, FS_EmptySet
  <2>3. QED BY <2>2, BatchesType DEF Batches
<1>4. QED BY <1>2, <1>3

LEMMA BatchesInFront ==
  ASSUME NEW j \in GoodJob, NEW s \in Seq(GoodJob), NEW n \in Nat,
         Numbered(<<j>> \o s, n), InOrder(<<j>> \o s)
  PROVE  Batches(<<j>> \o s) = IF j.drain # "NoDrain" THEN Batches(s) + 1
                               ELSE IF s = <<>> THEN 1 ELSE Batches(s)
<1> DEFINE t == <<j>> \o s
<1>1. /\ Len(s) \in Nat /\ Len(t) = Len(s) + 1 /\ t[1] = j /\ t # <<>>
      /\ \A i \in 1..Len(s) : t[i + 1] = s[i]
      /\ \A i \in 1..Len(t) : i = 1 \/ (i - 1 \in 1..Len(s) /\ t[i] = s[i - 1])
  BY InFront, LenProperties
<1>2. /\ \A i \in 1..Len(s) : j.id # s[i].id
      /\ Numbered(s, n)
  <2>1. \A i \in 1..Len(s) : j.id < s[i].id
    <3>1. \A i \in 1..Len(s) : 1 \in 1..Len(t) /\ i + 1 \in 1..Len(t) /\ 1 < i + 1
      BY <1>1
    <3>2. \A i \in 1..Len(s) : t[1].id < t[i + 1].id
      BY <3>1 DEF InOrder
    <3>3. QED BY <1>1, <3>2
  <2>2. \A i \in 1..Len(s) : s[i].id \in 1..n
    <3>1. \A i \in 1..Len(s) : i + 1 \in 1..Len(t)
      BY <1>1
    <3>2. \A i \in 1..Len(s) : t[i + 1].id \in 1..n
      BY <3>1 DEF Numbered
    <3>3. QED BY <1>1, <3>2
  <2>3. j.id \in Nat
    BY GoodJobs
  <2>4. QED BY <2>1, <2>2, <2>3 DEF Numbered
<1> HIDE DEF t
<1>3. s = <<>> <=> Len(s) = 0
  BY EmptySeq
<1>4. Trailing(t) = IF s = <<>> THEN (IF j.drain = "NoDrain" THEN 1 ELSE 0) ELSE Trailing(s)
  <2>1. CASE s = <<>>
    BY <1>1, <1>3, <2>1 DEF Trailing
  <2>2. CASE s # <<>>
    <3>1. Len(s) \in 1..Len(s)
      BY <1>1, <1>3, <2>2
    <3>2. t[Len(t)] = s[Len(s)]
      BY <1>1, <3>1
    <3>3. QED BY <1>1, <2>2, <3>2 DEF Trailing
  <2>3. QED BY <2>1, <2>2
<1>5. DrainIds(t) = IF j.drain # "NoDrain" THEN DrainIds(s) \cup {j.id} ELSE DrainIds(s)
  <2>1. \A i \in 1..Len(s) : i + 1 \in 1..Len(t) /\ t[i + 1] = s[i]
    BY <1>1
  <2>2. DrainIds(s) \subseteq DrainIds(t)
    BY <2>1 DEF DrainIds
  <2>3. j.drain # "NoDrain" => j.id \in DrainIds(t)
    <3>1. 1 \in 1..Len(t)
      BY <1>1
    <3>2. QED BY <1>1, <3>1 DEF DrainIds
  <2>4. ASSUME NEW i \in 1..Len(t), t[i].drain # "NoDrain"
        PROVE  (i = 1 /\ j.drain # "NoDrain" /\ t[i].id = j.id) \/ t[i].id \in DrainIds(s)
    <3>1. CASE i = 1
      BY <1>1, <2>4, <3>1
    <3>2. CASE i # 1
      <4>1. i - 1 \in 1..Len(s) /\ t[i] = s[i - 1]
        BY <1>1, <3>2
      <4>2. QED BY <2>4, <4>1 DEF DrainIds
    <3>3. QED BY <3>1, <3>2
  <2>5. DrainIds(t) \subseteq IF j.drain # "NoDrain" THEN DrainIds(s) \cup {j.id} ELSE DrainIds(s)
    BY <2>4 DEF DrainIds
  <2>6. QED BY <2>2, <2>3, <2>5
<1>6. j.id \notin DrainIds(s)
  BY <1>2 DEF DrainIds
<1>7. /\ IsFiniteSet(DrainIds(s)) /\ Cardinality(DrainIds(s)) \in Nat
      /\ Trailing(s) \in {0, 1}
  BY <1>2, BatchesType
<1>8. Cardinality(DrainIds(s) \cup {j.id}) = Cardinality(DrainIds(s)) + 1
  BY <1>6, <1>7, FS_AddElement
<1>9. s = <<>> => Cardinality(DrainIds(s)) = 0 /\ Trailing(s) = 0
  <2>1. DrainIds(<<>>) = {}
    BY <1>1, <1>3 DEF DrainIds
  <2>2. QED BY <2>1, FS_EmptySet DEF Trailing
<1>10. Batches(t) = IF j.drain # "NoDrain" THEN Batches(s) + 1
                    ELSE IF s = <<>> THEN 1 ELSE Batches(s)
  <2>1. CASE j.drain # "NoDrain"
    BY <1>4, <1>5, <1>7, <1>8, <1>9, <2>1 DEF Batches
  <2>2. CASE j.drain = "NoDrain"
    BY <1>4, <1>5, <1>7, <1>9, <2>2 DEF Batches
  <2>3. QED BY <2>1, <2>2
<1>11. QED BY <1>10 DEF t

(* What one call submits needs one event more.                             *)
LEMMA BatchesAtEnd ==
  ASSUME NEW s \in Seq(GoodJob), NEW t \in Seq(GoodJob), NEW n \in Nat,
         Numbered(s \o t, n), OneBatch(t)
  PROVE  Batches(s \o t) <= Batches(s) + 1
<1> DEFINE u == s \o t
<1>1. /\ Len(s) \in Nat /\ Len(t) \in Nat /\ Len(u) = Len(s) + Len(t)
      /\ u \in Seq(GoodJob)
      /\ \A i \in 1..Len(s) : u[i] = s[i]
      /\ \A i \in 1..Len(u) : i > Len(s) => i - Len(s) \in 1..Len(t) /\ u[i] = t[i - Len(s)]
  BY ConcatProperties, LenProperties
<1>2. Numbered(u, n)
  OBVIOUS
<1> HIDE DEF u
<1>3. Numbered(s, n)
  BY <1>1, <1>2 DEF Numbered
<1>4. /\ Trailing(u) \in {0, 1} /\ Trailing(s) \in {0, 1}
      /\ IsFiniteSet(DrainIds(s)) /\ Cardinality(DrainIds(s)) \in Nat
  BY <1>1, <1>2, <1>3, BatchesType
<1>5. CASE \A i \in 1..Len(t) : t[i].drain = "NoDrain"
  <2>1. DrainIds(u) \subseteq DrainIds(s)
    <3> SUFFICES ASSUME NEW i \in 1..Len(u), u[i].drain # "NoDrain" PROVE u[i].id \in DrainIds(s)
      BY DEF DrainIds
    <3>1. i \in 1..Len(s) /\ u[i] = s[i]
      BY <1>1, <1>5, SMTT(30)
    <3>2. QED BY <3>1 DEF DrainIds
  <2>2. DrainIds(s) \subseteq DrainIds(u)
    BY <1>1 DEF DrainIds
  <2>3. DrainIds(u) = DrainIds(s)
    BY <2>1, <2>2
  <2>4. QED BY <1>4, <2>3 DEF Batches, u
<1>6. CASE Len(t) = 1 /\ t[1].drain # "NoDrain"
  <2>1. Len(u) = Len(s) + 1 /\ u[Len(u)] = t[1]
    BY <1>1, <1>6
  <2>2. Trailing(u) = 0
    BY <1>6, <2>1 DEF Trailing
  <2>3. DrainIds(u) = DrainIds(s) \cup {t[1].id}
    <3>1. ASSUME NEW i \in 1..Len(u), u[i].drain # "NoDrain" PROVE u[i].id \in DrainIds(s) \cup {t[1].id}
      <4>1. CASE i \in 1..Len(s)
        BY <1>1, <3>1, <4>1 DEF DrainIds
      <4>2. CASE i = Len(u)
        BY <2>1, <4>2
      <4>3. QED BY <1>1, <2>1, <4>1, <4>2
    <3>2. Len(u) \in 1..Len(u)
      BY <1>1, <2>1
    <3>3. t[1].id \in DrainIds(u)
      BY <1>6, <2>1, <3>2 DEF DrainIds
    <3>4. DrainIds(s) \subseteq DrainIds(u)
      BY <1>1 DEF DrainIds
    <3>5. DrainIds(u) \subseteq DrainIds(s) \cup {t[1].id}
      BY <3>1 DEF DrainIds
    <3>6. QED BY <3>3, <3>4, <3>5
  <2>4. Cardinality(DrainIds(u)) <= Cardinality(DrainIds(s)) + 1
    <3>1. Cardinality(DrainIds(s) \cup {t[1].id}) =
            IF t[1].id \in DrainIds(s) THEN Cardinality(DrainIds(s)) ELSE Cardinality(DrainIds(s)) + 1
      BY <1>4, FS_AddElement
    <3>2. QED BY <1>4, <2>3, <3>1
  <2>5. Cardinality(DrainIds(u)) \in Nat
    BY <1>1, <1>2, BatchesType
  <2>6. QED BY <1>4, <2>2, <2>4, <2>5 DEF Batches, u
<1>7. (\A i \in 1..Len(t) : t[i].drain = "NoDrain") \/ (Len(t) = 1 /\ t[1].drain # "NoDrain")
  <2>1. CASE Len(t) = 1
    BY <2>1
  <2>2. CASE Len(t) # 1
    BY <2>2 DEF OneBatch
  <2>3. QED BY <2>1, <2>2
<1>8. QED BY <1>5, <1>6, <1>7

-----------------------------------------------------------------------------
(* Every variable keeps its type, and the queue holds no empty job.        *)

LEMMA StateTypes ==
  /\ \A n \in {"AwaitingStreamInfo", "Decoding", "Reset", "FlushingForDRC"} :
       State(n) \in DecodingStates
  /\ \A f \in Formats : AwaitingFormat(f) \in DecodingStates
  /\ \A s \in DecodingStates : s.name = "AwaitingFormat" => s.format \in Formats
<1>1. \A n \in {"AwaitingStreamInfo", "Decoding", "Reset", "FlushingForDRC"} : State(n) \in DecodingStates
  BY DEF DecodingStates
<1>2. \A f \in Formats : AwaitingFormat(f) \in DecodingStates
  BY DEF DecodingStates
<1>3. \A s \in DecodingStates : s.name = "AwaitingFormat" => s.format \in Formats
  BY DEF State, AwaitingFormat, DecodingStates
<1>4. QED BY <1>1, <1>2, <1>3

(* The part of a bitstream that is not processed is a job again.           *)
LEMMA PartLeft ==
  ASSUME NEW j \in GoodJob, j.drain = "NoDrain", j.work.units > 1
  PROVE  LET rest == [j EXCEPT !.work.units = @ - 1] IN
         /\ rest \in GoodJob
         /\ rest.id = j.id /\ rest.session = j.session /\ rest.drain = "NoDrain"
         /\ rest.work.units = j.work.units - 1
<1> DEFINE w == [j.work EXCEPT !.units = @ - 1]
           rest == [j EXCEPT !.work.units = @ - 1]
<1>1. j.work \in Works /\ j.work \in [format : Formats, units : Nat \ {0}]
  BY GoodJobs, C2DecoderAssumption
<1>2. w \in Works /\ w.units = j.work.units - 1
  BY <1>1, C2DecoderAssumption
<1>3. j \in Job
  BY GoodJobs
<1>4. rest = [j EXCEPT !.work = w]
  BY <1>3 DEF Job
<1>5. /\ rest \in Job /\ rest.work = w
      /\ rest.id = j.id /\ rest.session = j.session /\ rest.drain = "NoDrain"
  BY <1>2, <1>3, <1>4 DEF Job
<1>6. QED BY <1>2, <1>5 DEF GoodJob

LEMMA ShapeIsTyped == Shape => TypeOK
<1> SUFFICES ASSUME Shape PROVE TypeOK
  OBVIOUS
<1>1. work_queue \in Seq(Job) /\ submission \in Seq(Job)
  BY SeqMonotonic, GoodJobs DEF Shape, Shared
<1>2. C2TypeOK
  BY <1>1 DEF Shape, Shared, C2TypeOK
<1>3. job \in Job \cup {NoJob}
  BY GoodJobs DEF Shape, Own
<1>4. QED BY <1>2, <1>3 DEF Shape, Shared, Own, FrameHandle, TypeOK

LEMMA InitShape == Init => Shape
<1> SUFFICES ASSUME Init PROVE Shape
  OBVIOUS
<1>1. <<>> \in Seq(GoodJob) /\ <<>> \in Seq(Nat \X Nat) /\ <<>> \in Seq(FrameHandle)
  OBVIOUS
<1>2. Shared
  BY <1>1 DEF Init, C2Init, Shared
<1>3. Own
  BY <1>1 DEF Init, C2Init, Own
<1>4. DecoderTypeOK(FrameHandle)
  BY <1>1, StateTypes DEF Init, DecoderInit, DecoderTypeOK
<1>5. QED BY <1>2, <1>3, <1>4 DEF Shape

LEMMA DecodeShape ==
  ASSUME Shape, Decode
  PROVE  Shape'
<1>1. job \in GoodJob /\ job.drain = "NoDrain" /\ worker = "decode"
  BY DEF Shape, Own, Decode, DecodeCall
<1>2. /\ job.id \in Nat /\ job.work.format \in Formats /\ job.work.units \in Nat \ {0}
  BY <1>1, GoodJobs
<1>3. Len(decoded) \in Nat
  BY LenProperties DEF Shape, Own
<1>4. Handle \in FrameHandle
  BY <1>2, <1>3 DEF Handle, FrameHandle
<1>5. work_queue' \in Seq(GoodJob)
  <2>1. CASE job.work.units > 1
    <3>1. [job EXCEPT !.work.units = @ - 1] \in GoodJob
      BY <1>1, <2>1, PartLeft
    <3>2. work_queue' = <<[job EXCEPT !.work.units = @ - 1]>> \o work_queue
      BY <2>1 DEF Decode, Resubmit
    <3>3. QED BY <3>1, <3>2, InFront DEF Shape, Shared
  <2>2. CASE ~(job.work.units > 1)
    BY <2>2 DEF Decode, Shape, Shared
  <2>3. QED BY <2>1, <2>2
<1>6. Shared'
  BY <1>5 DEF Shape, Shared, Decode, component_vars
<1>7. decoded' \in Seq(Nat \X Nat)
  BY <1>2, AppendProperties DEF Shape, Own, Decode
<1>8. Own'
  BY <1>7 DEF Shape, Own, Decode
<1>9. ready_queue' \in Seq(FrameHandle) /\ ready_poll_fd' \in BOOLEAN
  <2>1. <<Handle>> \in Seq(FrameHandle)
    BY <1>4
  <2>2. ready_queue \in Seq(FrameHandle)
    BY DEF Shape, DecoderTypeOK
  <2>3. ready_queue' = ready_queue \o <<Handle>> /\ ready_poll_fd' = (ready_poll_fd \/ <<Handle>> # <<>>)
    BY DEF Decode, PushReady
  <2>4. QED BY <2>1, <2>2, <2>3, ConcatProperties DEF Shape, DecoderTypeOK
<1>10. DecoderTypeOK(FrameHandle)'
  BY <1>9, StateTypes DEF Shape, DecoderTypeOK, Decode
<1>11. QED BY <1>6, <1>8, <1>10 DEF Shape

(* A refused job is back in front of the queue.                            *)
LEMMA PutBackShape ==
  ASSUME Shared, Own, PutBack, worker = "decode"
  PROVE  Shared' /\ Own'
<1>1. job \in GoodJob
  BY DEF Own
<1>2. work_queue' \in Seq(GoodJob)
  BY <1>1, InFront DEF Shared, PutBack
<1>3. Shared'
  BY <1>2 DEF Shared, PutBack, component_vars
<1>4. Own'
  BY DEF Own, PutBack, output_vars
<1>5. QED BY <1>3, <1>4

LEMMA PopShape ==
  ASSUME Shared, Own, Pop
  PROVE  Shared' /\ Own'
<1>1. job = NoJob /\ worker = "pop"
  BY DEF Own, Pop
<1>2. CASE work_queue = <<>>
  BY <1>1, <1>2 DEF Shared, Own, Pop, component_vars, output_vars
<1>3. CASE work_queue # <<>>
  <2>1. job' = Head(work_queue) /\ work_queue' = Tail(work_queue) /\ worker' = "decode"
    BY <1>3 DEF Pop
  <2>2. job' \in GoodJob /\ work_queue' \in Seq(GoodJob)
    BY <1>3, <2>1, HeadInFront DEF Shared
  <2>3. job' # NoJob
    BY <2>2, GoodJobs
  <2>4. Shared'
    BY <1>1, <1>3, <2>1, <2>2 DEF Shared, Pop, component_vars
  <2>5. Own'
    BY <1>3, <2>1, <2>2, <2>3 DEF Own, Pop, output_vars
  <2>6. QED BY <2>4, <2>5
<1>4. QED BY <1>2, <1>3

LEMMA PopReadyType ==
  ASSUME DecoderTypeOK(FrameHandle), ready_queue # <<>>, PopReady
  PROVE  /\ ready_queue' \in Seq(FrameHandle)
         /\ ready_poll_fd' \in BOOLEAN
         /\ client_thread' \in {"running", "blocked"}
         /\ Head(ready_queue).id \in Nat
<1>1. ready_queue \in Seq(FrameHandle)
  BY DEF DecoderTypeOK
<1>2. Head(ready_queue) \in FrameHandle /\ Tail(ready_queue) \in Seq(FrameHandle)
  BY <1>1, HeadTailProperties
<1>3. ready_queue' \in Seq(FrameHandle) /\ Head(ready_queue).id \in Nat
  BY <1>2 DEF PopReady, FrameHandle
<1>4. ready_poll_fd' \in BOOLEAN /\ client_thread' \in {"running", "blocked"}
  BY DEF PopReady, DecoderTypeOK
<1>5. QED BY <1>3, <1>4

LEMMA ShapeStep ==
  ASSUME Shape, [Next]_vars
  PROVE  Shape'
<1> USE DEF Shape
<1>1. CASE New
  <2>1. Shared'
    BY <1>1 DEF New, Shared, component_vars
  <2>2. Own'
    BY <1>1 DEF New, Own, output_vars
  <2>3. DecoderTypeOK(FrameHandle)'
    <3>1. ready_queue' = <<>> /\ <<>> \in Seq(FrameHandle)
      BY <1>1 DEF New
    <3>2. QED BY <1>1, <3>1, StateTypes DEF New, DecoderTypeOK
  <2>4. QED BY <2>1, <2>2, <2>3
<1>2. CASE WakeForDecoder
  BY <1>2 DEF WakeForDecoder, Shared, Own, DecoderTypeOK, component_vars, decoder_vars, output_vars
<1>3. CASE WakeForJob
  <2>1. awaiting_job_event' \in Nat
    BY <1>3 DEF WakeForJob, Shared
  <2>2. QED BY <1>3, <2>1 DEF WakeForJob, Shared, Own, DecoderTypeOK, component_vars, decoder_vars, output_vars
<1>4. CASE Pop
  <2>1. Shared' /\ Own'
    BY <1>4, PopShape
  <2>2. DecoderTypeOK(FrameHandle)'
    BY <1>4 DEF Pop, DecoderTypeOK, decoder_vars
  <2>3. QED BY <2>1, <2>2
<1>5. CASE DrainDecoder
  <2>1. job \in GoodJob /\ worker = "decode"
    BY <1>5 DEF DrainDecoder, Own
  <2>2. settled' \in SUBSET Nat
    BY <1>5, <2>1, GoodJobs DEF DrainDecoder, Shared
  <2>3. state' \in {"C2Running", "C2Stopped", "C2Error"} /\ (component = "join" => state' # "C2Running")
    BY <1>5 DEF DrainDecoder, Shared
  <2>4. Shared'
    BY <1>5, <2>2, <2>3 DEF DrainDecoder, Shared
  <2>5. Own'
    BY <1>5 DEF DrainDecoder, Own, output_vars
  <2>6. DecoderTypeOK(FrameHandle)'
    BY <1>5, StateTypes DEF DrainDecoder, DecoderTypeOK
  <2>7. QED BY <2>4, <2>5, <2>6
<1>6. CASE Decode
  BY <1>6, DecodeShape
<1>7. ASSUME PutBack, worker = "decode" PROVE Shared' /\ Own'
  BY <1>7, PutBackShape
<1>8. CASE StartDrc
  <2>1. Shared' /\ Own'
    BY <1>7, <1>8 DEF StartDrc, DecodeCall
  <2>2. DecoderTypeOK(FrameHandle)'
    BY <1>8, StateTypes DEF StartDrc, DecoderTypeOK
  <2>3. QED BY <2>1, <2>2
<1>9. CASE NewSequence
  <2>1. Shared' /\ Own'
    BY <1>7, <1>9 DEF NewSequence, DecodeCall
  <2>2. job.work.format \in Formats
    BY <1>9, GoodJobs DEF NewSequence, DecodeCall, Own
  <2>3. DecoderTypeOK(FrameHandle)'
    BY <1>9, <2>2, StateTypes DEF NewSequence, AwaitFormatChange, DecoderTypeOK
  <2>4. QED BY <2>1, <2>3
<1>10. CASE NotEnoughOutputBuffers
  <2>1. Shared' /\ Own'
    BY <1>7, <1>10 DEF NotEnoughOutputBuffers, DecodeCall
  <2>2. DecoderTypeOK(FrameHandle)'
    BY <1>10, StateTypes DEF NotEnoughOutputBuffers, DecoderTypeOK
  <2>3. QED BY <2>1, <2>2
<1>11. CASE CheckFrame
  <2>1. /\ ready_queue' \in Seq(FrameHandle)
        /\ ready_poll_fd' \in BOOLEAN
        /\ client_thread' \in {"running", "blocked"}
        /\ Head(ready_queue).id \in Nat
    BY <1>11, PopReadyType DEF CheckFrame, FrameReady
  <2>2. Shared'
    BY <1>11 DEF CheckFrame, Shared, c2_vars, component_vars
  <2>3. Own'
    BY <1>11, <2>1 DEF CheckFrame, Own, c2_vars
  <2>4. DecoderTypeOK(FrameHandle)'
    BY <1>11, <2>1 DEF CheckFrame, DecoderTypeOK
  <2>5. QED BY <2>2, <2>3, <2>4
<1>12. CASE CheckFormat
  <2>1. Shared'
    BY <1>12 DEF CheckFormat, Shared, c2_vars, component_vars
  <2>2. pool_start' \in Nat
    BY <1>12, LenProperties DEF CheckFormat, Own
  <2>3. Own'
    BY <1>12, <2>2 DEF CheckFormat, Own, c2_vars
  <2>4. accepted_format' \in Formats
    BY <1>12, StateTypes DEF CheckFormat, FormatChanged, InState, DecoderTypeOK
  <2>5. DecoderTypeOK(FrameHandle)'
    BY <1>12, <2>4, StateTypes DEF CheckFormat, FormatChanged, DecoderTypeOK
  <2>6. QED BY <2>1, <2>3, <2>5
<1>13. CASE CheckNothing
  BY <1>13 DEF CheckNothing, Shared, Own, DecoderTypeOK, component_vars, decoder_vars, output_vars
<1>14. CASE LoopTest /\ UNCHANGED <<decoder_vars, job, output_vars, refused>>
  BY <1>14 DEF LoopTest, Shared, Own, DecoderTypeOK, component_vars, decoder_vars, output_vars
<1>15. CASE Fail
  <2>1. job \in GoodJob /\ worker = "decode"
    BY <1>15 DEF Fail, Own
  <2>2. settled' \in SUBSET Nat
    BY <1>15, <2>1, GoodJobs DEF Fail, Shared
  <2>3. Shared'
    BY <1>15, <2>2 DEF Fail, Shared
  <2>4. Own' /\ DecoderTypeOK(FrameHandle)'
    BY <1>15 DEF Fail, Own, DecoderTypeOK, decoder_vars, output_vars
  <2>5. QED BY <2>3, <2>4
<1>16. CASE NewFails /\ UNCHANGED <<decoder_vars, job, output_vars, refused>>
  BY <1>16 DEF NewFails, Shared, Own, DecoderTypeOK, component_vars, decoder_vars, output_vars
<1>17. CASE ComponentStep
  <2>1. Shared' /\ (worker' = worker \/ (~Alive /\ worker' \in {"none", "new"}))
    BY <1>17, ComponentShape DEF ComponentStep
  <2>2. Own' /\ DecoderTypeOK(FrameHandle)'
    BY <1>17, <2>1 DEF ComponentStep, Own, Alive, DecoderTypeOK, decoder_vars, output_vars
  <2>3. QED BY <2>1, <2>2
<1>18. ASSUME NEW n \in held, Release(n) PROVE Shape'
  BY <1>18 DEF Release, Shared, Own, DecoderTypeOK, c2_vars, component_vars, decoder_vars
<1>19. CASE UNCHANGED vars
  BY <1>19 DEF vars, Shared, Own, DecoderTypeOK, c2_vars, component_vars, decoder_vars, output_vars
<1>20. QED BY <1>1, <1>2, <1>3, <1>4, <1>5, <1>6, <1>8, <1>9, <1>10, <1>11, <1>12, <1>13, <1>14,
              <1>15, <1>16, <1>17, <1>18, <1>19 DEF Next, Worker, Failure

(* The queue, the threads, the decoder and its frames keep their types.    *)
THEOREM TypeCorrect == Spec => []TypeOK
<1>1. Init => Shape
  BY InitShape
<1>2. Shape /\ [Next]_vars => Shape'
  BY ShapeStep
<1>3. Shape => TypeOK
  BY ShapeIsTyped
<1>4. QED BY <1>1, <1>2, <1>3, PTL DEF Spec

-----------------------------------------------------------------------------
(* What a step does to the line.                                           *)

Rest == work_queue \o submission

(* The line stays as it is.                                                *)
Stays ==
  /\ All' = All /\ Line' = Line
  /\ UNCHANGED <<submission, num_jobs, decoded, settled>>

(* The first job leaves it, settled.                                       *)
Leaves ==
  /\ job \in GoodJob /\ worker = "decode"
  /\ All = <<job>> \o Rest /\ All' = Rest
  /\ Line = <<job>> \o work_queue /\ Line' = work_queue
  /\ settled' = settled \cup {job.id}
  /\ UNCHANGED <<submission, num_jobs, decoded>>

(* A part of the first job, the last one or not, is decoded.               *)
Decodes ==
  /\ job \in GoodJob /\ job.drain = "NoDrain" /\ worker = "decode"
  /\ All = <<job>> \o Rest /\ Line = <<job>> \o work_queue
  /\ decoded' = Append(decoded, <<job.id, job.work.units>>)
  /\ \/ All' = Rest /\ Line' = work_queue /\ job.work.units = 1
     \/ \E left \in GoodJob :
          /\ left.id = job.id /\ left.session = job.session /\ left.drain = "NoDrain"
          /\ left.work.units = job.work.units - 1
          /\ All' = <<left>> \o Rest /\ Line' = <<left>> \o work_queue
  /\ UNCHANGED <<submission, num_jobs, settled>>

(* New jobs are announced ...                                              *)
Grows ==
  /\ Submits
  /\ submission = <<>>
  /\ All' = All \o submission' /\ Line' = Line
  /\ UNCHANGED decoded

(* ... and join the queue.                                                 *)
Joins ==
  /\ All' = All /\ Line' = Line \o submission /\ submission' = <<>>
  /\ submission \in Seq(GoodJob)
  /\ UNCHANGED <<num_jobs, decoded, settled>>

(* What is queued is given up.                                             *)
GivesUp ==
  /\ submission = <<>> /\ submission' = <<>>
  /\ All = Line /\ All' = Line'
  /\ IF job = NoJob THEN Line = work_queue /\ Line' = <<>>
     ELSE job \in GoodJob /\ Line = <<job>> \o work_queue /\ Line' = <<job>> \o <<>>
  /\ settled' = settled \cup Ids(work_queue)
  /\ UNCHANGED <<num_jobs, decoded>>

LEMMA LineTypes ==
  ASSUME Shape
  PROVE  /\ work_queue \in Seq(GoodJob) /\ submission \in Seq(GoodJob) /\ Rest \in Seq(GoodJob)
         /\ Line \in Seq(GoodJob) /\ All \in Seq(GoodJob)
         /\ job # NoJob => /\ job \in GoodJob
                           /\ Line = <<job>> \o work_queue /\ All = <<job>> \o Rest
         /\ job = NoJob => Line = work_queue /\ All = Rest
         /\ submission = <<>> => Rest = work_queue /\ All = Line
<1>1. work_queue \in Seq(GoodJob) /\ submission \in Seq(GoodJob) /\ job \in GoodJob \cup {NoJob}
  BY DEF Shape, Shared, Own
<1>2. Rest \in Seq(GoodJob)
  BY <1>1, ConcatProperties DEF Rest
<1>3. submission = <<>> => Rest = work_queue
  BY <1>1, ConcatEmptySeq DEF Rest
<1>4. CASE job = NoJob
  BY <1>1, <1>2, <1>3, <1>4 DEF Line, All, InHand, Rest
<1>5. CASE job # NoJob
  <2>1. job \in GoodJob
    BY <1>1, <1>5
  <2>2. Line = <<job>> \o work_queue /\ All = <<job>> \o Rest
    BY <1>5 DEF Line, All, InHand, Rest
  <2>3. Line \in Seq(GoodJob) /\ All \in Seq(GoodJob)
    BY <1>1, <1>2, <2>1, <2>2, InFront
  <2>4. submission = <<>> => All = Line
    BY <1>3, <2>2
  <2>5. QED BY <1>1, <1>2, <1>3, <1>5, <2>1, <2>2, <2>3, <2>4
<1>6. QED BY <1>4, <1>5

LEMMA LineKept ==
  ASSUME UNCHANGED <<work_queue, submission, job>>
  PROVE  Line' = Line /\ All' = All
  BY DEF Line, All, InHand

LEMMA PopStays ==
  ASSUME Shape, Pop
  PROVE  Stays
<1>1. /\ UNCHANGED <<submission, num_jobs, decoded, settled>>
      /\ job = NoJob
  BY DEF Pop, Shape, Own, component_vars, output_vars
<1>2. CASE work_queue = <<>>
  <2>1. UNCHANGED <<work_queue, submission, job>>
    BY <1>1, <1>2 DEF Pop
  <2>2. QED BY <1>1, <2>1, LineKept DEF Stays
<1>3. CASE work_queue # <<>>
  <2>1. work_queue \in Seq(GoodJob) /\ submission \in Seq(GoodJob)
    BY LineTypes
  <2>2. job' = Head(work_queue) /\ work_queue' = Tail(work_queue) /\ submission' = submission
    BY <1>1, <1>3 DEF Pop
  <2>3. /\ job' \in GoodJob /\ work_queue' \in Seq(GoodJob)
        /\ work_queue = <<job'>> \o work_queue'
    BY <1>3, <2>1, <2>2, HeadInFront
  <2>4. job' # NoJob
    BY <2>3, GoodJobs
  <2>5. (<<job'>> \o work_queue') \o submission = <<job'>> \o (work_queue' \o submission)
    BY <2>1, <2>3, Regroup
  <2>6. Line' = <<job'>> \o work_queue' /\ All' = <<job'>> \o (work_queue' \o submission)
    BY <2>2, <2>4 DEF Line, All, InHand
  <2>7. Line = work_queue /\ All = work_queue \o submission
    BY <1>1 DEF Line, All, InHand
  <2>8. Line' = Line /\ All' = All
    BY <2>3, <2>5, <2>6, <2>7
  <2>9. QED BY <1>1, <2>8 DEF Stays
<1>4. QED BY <1>2, <1>3

LEMMA PutBackStays ==
  ASSUME Shape, PutBack, worker = "decode"
  PROVE  Stays
<1>1. /\ UNCHANGED <<submission, num_jobs, decoded, settled>>
      /\ work_queue' = <<job>> \o work_queue /\ job' = NoJob
  BY DEF PutBack, component_vars, output_vars
<1>2. job # NoJob
  BY DEF Shape, Own
<1>3. /\ job \in GoodJob /\ work_queue \in Seq(GoodJob) /\ submission \in Seq(GoodJob)
      /\ Line = <<job>> \o work_queue /\ All = <<job>> \o (work_queue \o submission)
  BY <1>2, LineTypes DEF Rest
<1>4. (<<job>> \o work_queue) \o submission = <<job>> \o (work_queue \o submission)
  BY <1>3, Regroup
<1>5. Line' = work_queue' /\ All' = work_queue' \o submission
  BY <1>1 DEF Line, All, InHand
<1>6. QED BY <1>1, <1>3, <1>4, <1>5 DEF Stays

LEMMA DecodeDecodes ==
  ASSUME Shape, Decode
  PROVE  Decodes
<1>1. /\ job # NoJob /\ job.drain = "NoDrain" /\ worker = "decode" /\ job' = NoJob
      /\ decoded' = Append(decoded, <<job.id, job.work.units>>)
      /\ UNCHANGED <<submission, num_jobs, settled>>
  BY DEF Decode, DecodeCall, Shape, Own, component_vars
<1>2. /\ job \in GoodJob /\ work_queue \in Seq(GoodJob) /\ submission \in Seq(GoodJob)
      /\ Line = <<job>> \o work_queue /\ All = <<job>> \o Rest
  BY <1>1, LineTypes
<1>3. job.work.units \in Nat \ {0}
  BY <1>1, <1>2, GoodJobs
<1>4. Line' = work_queue' /\ All' = work_queue' \o submission
  BY <1>1 DEF Line, All, InHand
<1>5. CASE job.work.units > 1
  <2> DEFINE left == [job EXCEPT !.work.units = @ - 1]
  <2>1. /\ left \in GoodJob
        /\ left.id = job.id /\ left.session = job.session /\ left.drain = "NoDrain"
        /\ left.work.units = job.work.units - 1
    BY <1>1, <1>2, <1>5, PartLeft
  <2>2. work_queue' = <<left>> \o work_queue
    BY <1>5 DEF Decode, Resubmit
  <2> HIDE DEF left
  <2>3. (<<left>> \o work_queue) \o submission = <<left>> \o Rest
    BY <1>2, <2>1, Regroup DEF Rest
  <2>4. All' = <<left>> \o Rest /\ Line' = <<left>> \o work_queue
    BY <1>4, <2>2, <2>3
  <2>5. QED BY <1>1, <1>2, <2>1, <2>4 DEF Decodes
<1>6. CASE ~(job.work.units > 1)
  <2>1. work_queue' = work_queue /\ job.work.units = 1
    BY <1>3, <1>6 DEF Decode
  <2>2. QED BY <1>1, <1>2, <1>4, <2>1 DEF Decodes, Rest
<1>7. QED BY <1>5, <1>6

LEMMA JobLeaves ==
  ASSUME Shape, worker = "decode", job' = NoJob, settled' = settled \cup {job.id},
         UNCHANGED <<work_queue, submission, num_jobs, decoded>>
  PROVE  Leaves
<1>1. job # NoJob
  BY DEF Shape, Own
<1>2. /\ job \in GoodJob
      /\ Line = <<job>> \o work_queue /\ All = <<job>> \o Rest
  BY <1>1, LineTypes
<1>3. Line' = work_queue /\ All' = Rest
  BY DEF Line, All, InHand, Rest
<1>4. QED BY <1>2, <1>3 DEF Leaves

LEMMA SubmitsGrows ==
  ASSUME Shape, Submits, UNCHANGED <<job, decoded>>
  PROVE  Grows
<1>1. /\ submission = <<>> /\ submission' \in Seq(GoodJob)
      /\ work_queue' = work_queue
  BY DEF Submits, Shape, Shared
<1>2. Line' = Line
  BY <1>1 DEF Line, InHand
<1>3. All = Line /\ work_queue \in Seq(GoodJob)
  BY <1>1, LineTypes
<1>4. All' = All \o submission'
  <2>1. CASE job = NoJob
    BY <1>1, <1>3, <2>1 DEF All, Line, InHand
  <2>2. CASE job # NoJob
    <3>1. job \in GoodJob /\ Line = <<job>> \o work_queue
      BY <2>2, LineTypes
    <3>2. (<<job>> \o work_queue) \o submission' = <<job>> \o (work_queue \o submission')
      BY <1>1, <1>3, <3>1, Regroup
    <3>3. All' = <<job>> \o (work_queue \o submission')
      BY <1>1, <2>2 DEF All, InHand
    <3>4. QED BY <1>3, <3>1, <3>2, <3>3
  <2>3. QED BY <2>1, <2>2
<1>5. QED BY <1>1, <1>2, <1>4 DEF Grows

LEMMA ExtendJoins ==
  ASSUME Shape, Extend, UNCHANGED <<job, decoded>>
  PROVE  Joins
<1>1. /\ work_queue' = work_queue \o submission /\ submission' = <<>>
      /\ UNCHANGED <<num_jobs, settled>>
  BY DEF Extend
<1>2. work_queue \in Seq(GoodJob) /\ submission \in Seq(GoodJob) /\ Rest \in Seq(GoodJob)
  BY LineTypes
<1>3. (work_queue \o submission) \o <<>> = work_queue \o submission
  BY <1>2, ConcatEmptySeq DEF Rest
<1>4. All' = All
  BY <1>1, <1>3 DEF All, InHand
<1>5. Line' = Line \o submission
  <2>1. CASE job = NoJob
    BY <1>1, <2>1 DEF Line, InHand
  <2>2. CASE job # NoJob
    <3>1. job \in GoodJob /\ Line = <<job>> \o work_queue
      BY <2>2, LineTypes
    <3>2. (<<job>> \o work_queue) \o submission = <<job>> \o (work_queue \o submission)
      BY <1>2, <3>1, Regroup
    <3>3. QED BY <1>1, <2>2, <3>1, <3>2 DEF Line, InHand
  <2>3. QED BY <2>1, <2>2
<1>6. QED BY <1>1, <1>2, <1>4, <1>5 DEF Joins

LEMMA QueueGivenUp ==
  ASSUME Shape, submission = <<>>, work_queue' = <<>>, settled' = settled \cup Ids(work_queue),
         UNCHANGED <<submission, num_jobs, job, decoded>>
  PROVE  GivesUp
<1>1. All = Line /\ (job = NoJob => Line = work_queue)
      /\ (job # NoJob => job \in GoodJob /\ Line = <<job>> \o work_queue)
  BY LineTypes
<1>2. <<>> \o <<>> = <<>>
  OBVIOUS
<1>3. All' = Line' /\ Line' = IF job = NoJob THEN <<>> ELSE <<job>> \o <<>>
  BY <1>2 DEF All, Line, InHand
<1>4. QED BY <1>1, <1>3 DEF GivesUp

LEMMA StepKinds ==
  ASSUME Shape, [Next]_vars
  PROVE  Stays \/ Leaves \/ Decodes \/ Grows \/ Joins \/ GivesUp
<1>1. ASSUME UNCHANGED <<work_queue, submission, job, num_jobs, decoded, settled>> PROVE Stays
  BY <1>1, LineKept DEF Stays
<1>2. CASE New \/ WakeForDecoder \/ WakeForJob \/ CheckNothing
  BY <1>1, <1>2 DEF New, WakeForDecoder, WakeForJob, CheckNothing, component_vars, output_vars
<1>3. CASE Pop
  BY <1>3, PopStays
<1>4. CASE DrainDecoder
  BY <1>4, JobLeaves DEF DrainDecoder, output_vars
<1>5. CASE Decode
  BY <1>5, DecodeDecodes
<1>6. CASE StartDrc \/ NewSequence \/ NotEnoughOutputBuffers
  BY <1>6, PutBackStays DEF StartDrc, NewSequence, NotEnoughOutputBuffers, DecodeCall
<1>7. CASE CheckFrame \/ CheckFormat
  BY <1>1, <1>7 DEF CheckFrame, CheckFormat, c2_vars, component_vars
<1>8. CASE (LoopTest \/ NewFails) /\ UNCHANGED <<decoder_vars, job, output_vars, refused>>
  BY <1>1, <1>8 DEF LoopTest, NewFails, component_vars, output_vars
<1>9. CASE Fail
  BY <1>9, JobLeaves DEF Fail, output_vars
<1>10. ASSUME NEW n \in held, Release(n) PROVE Stays
  BY <1>1, <1>10 DEF Release, c2_vars, component_vars
<1>11. CASE UNCHANGED vars
  BY <1>1, <1>11 DEF vars, c2_vars, component_vars, output_vars
<1>12. CASE ComponentStep
  <2>1. UNCHANGED <<job, decoded>>
    BY <1>12 DEF ComponentStep, output_vars
  <2>2. CASE Start \/ Write \/ Flush \/ Stop
    BY <1>1, <2>1, <2>2 DEF Start, Write, Flush, Stop
  <2>3. num_jobs \in Nat /\ session \in Nat /\ eos \in BOOLEAN
    BY DEF Shape, Shared
  <2>4. ASSUME NEW n \in IF disciplined THEN {1} ELSE 1..MaxBatch, NEW work \in Works,
               Queue([k \in 1..n |-> work])
        PROVE  Grows
    BY <2>1, <2>3, <2>4, QueueSubmits, SubmitsGrows
  <2>5. ASSUME NEW mode \in DrainModes \ {"NoDrain"}, Drain(mode) PROVE Grows
    BY <2>1, <2>3, <2>5, DrainSubmits, SubmitsGrows
  <2>6. CASE Extend
    BY <2>1, <2>6, ExtendJoins
  <2>7. CASE TakeBack \/ Join
    <3>1. submission = <<>>
      BY <2>7 DEF TakeBack, Join, Shape, Shared
    <3>2. QED BY <2>1, <2>7, <3>1, QueueGivenUp DEF TakeBack, Join
  <2>8. QED BY <1>12, <2>2, <2>4, <2>5, <2>6, <2>7 DEF ComponentStep, Component
<1>13. QED BY <1>2, <1>3, <1>4, <1>5, <1>6, <1>7, <1>8, <1>9, <1>10, <1>11, <1>12
           DEF Next, Worker, Failure

-----------------------------------------------------------------------------
(* Jobs stay in order, and so does what is decoded of them.                *)

LEMMA NothingInOrder ==
  ASSUME NEW n, NEW d
  PROVE  Numbered(<<>>, n) /\ InOrder(<<>>) /\ Ahead(<<>>, d)
<1>1. 1..Len(<<>>) = {}
  BY EmptySeq
<1>2. QED BY <1>1 DEF Numbered, InOrder, Ahead

LEMMA InitOrder == Init => Order
<1> SUFFICES ASSUME Init PROVE Order
  OBVIOUS
<1>1. decoded = <<>> /\ work_queue = <<>> /\ submission = <<>> /\ job = NoJob
  BY DEF Init, C2Init
<1>2. <<>> \o <<>> = <<>>
  OBVIOUS
<1>3. All = <<>>
  BY <1>1, <1>2 DEF All, InHand
<1>4. Numbered(All, num_jobs) /\ InOrder(All) /\ Ahead(All, decoded)
  BY <1>3, NothingInOrder
<1>5. 1..Len(decoded) = {} /\ DOMAIN decoded = {}
  BY <1>1, EmptySeq
<1>6. QED BY <1>4, <1>5 DEF Order, DecodedInOrder

(* The part that is decoded comes after all that was decoded before.       *)
LEMMA DecodedGrows ==
  ASSUME Shape, Order, Decodes
  PROVE  /\ DecodedInOrder'
         /\ Len(decoded') = Len(decoded) + 1 /\ Len(decoded) \in Nat
         /\ \A k \in 1..Len(decoded') : decoded'[k][1] <= job.id /\ decoded'[k][1] \in Nat
         /\ \A k \in 1..Len(decoded') :
              \/ k \in 1..Len(decoded) /\ decoded'[k] = decoded[k]
              \/ decoded'[k] = <<job.id, job.work.units>>
<1>1. /\ decoded \in Seq(Nat \X Nat) /\ Rest \in Seq(GoodJob) /\ job \in GoodJob
      /\ All = <<job>> \o Rest
      /\ job.id \in Nat /\ job.work.units \in Nat
      /\ decoded' = Append(decoded, <<job.id, job.work.units>>)
  BY LineTypes, GoodJobs DEF Decodes, Shape, Own
<1>2. /\ Len(decoded) \in Nat /\ DOMAIN decoded = 1..Len(decoded)
      /\ decoded' \in Seq(Nat \X Nat)
      /\ Len(decoded') = Len(decoded) + 1
      /\ \A k \in 1..Len(decoded) : decoded'[k] = decoded[k]
      /\ decoded'[Len(decoded) + 1] = <<job.id, job.work.units>>
  BY <1>1, AppendProperties, LenProperties
<1>3. DOMAIN decoded' = 1..Len(decoded')
  BY <1>2, LenProperties
<1>4. \A k \in 1..Len(decoded) :
        \/ decoded[k][1] < job.id
        \/ decoded[k][1] = job.id /\ decoded[k][2] > job.work.units
  <2>1. /\ Numbered(<<job>> \o Rest, num_jobs) /\ InOrder(<<job>> \o Rest)
        /\ Ahead(<<job>> \o Rest, decoded)
    BY <1>1 DEF Order
  <2>2. \A k \in 1..Len(decoded) :
          decoded[k][1] < job.id
            \/ (decoded[k][1] = job.id /\ job.drain = "NoDrain" /\ decoded[k][2] > job.work.units)
    BY <1>1, <2>1, OrderBehind
  <2>3. QED BY <2>2
<1>5. \A k \in 1..Len(decoded') :
        \/ k \in 1..Len(decoded) /\ decoded'[k] = decoded[k]
        \/ k = Len(decoded) + 1 /\ decoded'[k] = <<job.id, job.work.units>>
  BY <1>2
<1>6. \A k \in 1..Len(decoded) : decoded[k][1] \in Nat /\ decoded[k][2] \in Nat
  BY <1>1, ElementOfSeq
<1>7. \A k \in 1..Len(decoded') : decoded'[k][1] <= job.id /\ decoded'[k][1] \in Nat
  <2> SUFFICES ASSUME NEW k \in 1..Len(decoded')
               PROVE  decoded'[k][1] <= job.id /\ decoded'[k][1] \in Nat
    OBVIOUS
  <2>1. CASE k \in 1..Len(decoded) /\ decoded'[k] = decoded[k]
    <3>1. decoded[k][1] < job.id \/ decoded[k][1] = job.id
      BY <1>4, <2>1
    <3>2. decoded[k][1] \in Nat /\ job.id \in Nat
      BY <1>1, <1>6, <2>1
    <3>3. decoded[k][1] <= job.id
      BY <3>1, <3>2
    <3>4. QED BY <2>1, <3>2, <3>3
  <2>2. CASE decoded'[k] = <<job.id, job.work.units>>
    <3>1. decoded'[k][1] = job.id
      BY <2>2
    <3>2. job.id \in Nat
      BY <1>1
    <3>3. QED BY <3>1, <3>2
  <2>3. QED BY <1>5, <2>1, <2>2
<1>8. DecodedInOrder'
  <2> SUFFICES ASSUME NEW i \in 1..Len(decoded'), NEW k \in 1..Len(decoded'), i < k
               PROVE  \/ decoded'[i][1] < decoded'[k][1]
                      \/ decoded'[i][1] = decoded'[k][1] /\ decoded'[i][2] > decoded'[k][2]
    BY <1>3 DEF DecodedInOrder
  <2>1. i \in 1..Len(decoded) /\ decoded'[i] = decoded[i]
    <3>1. Len(decoded') = Len(decoded) + 1 /\ Len(decoded) \in Nat
      BY <1>2
    <3>2. i \in 1..Len(decoded)
      BY <3>1
    <3>3. QED BY <1>2, <3>2
  <2>2. CASE k \in 1..Len(decoded)
    <3>1. decoded'[k] = decoded[k]
      BY <1>2, <2>2
    <3>2. i \in DOMAIN decoded /\ k \in DOMAIN decoded
      BY <1>2, <2>1, <2>2
    <3>3. DecodedInOrder
      BY DEF Order
    <3>4. \/ decoded[i][1] < decoded[k][1]
          \/ decoded[i][1] = decoded[k][1] /\ decoded[i][2] > decoded[k][2]
      BY <3>2, <3>3 DEF DecodedInOrder
    <3>5. QED BY <2>1, <3>1, <3>4
  <2>3. CASE decoded'[k] = <<job.id, job.work.units>>
    BY <1>4, <2>1, <2>3
  <2>4. QED BY <1>5, <2>2, <2>3
<1>9. QED BY <1>2, <1>5, <1>7, <1>8

LEMMA OrderStep ==
  ASSUME Shape, Order, [Next]_vars
  PROVE  Order'
<1>1. CASE Stays
  BY <1>1 DEF Stays, Order, DecodedInOrder
<1>2. CASE Leaves
  <2>1. /\ job \in GoodJob /\ Rest \in Seq(GoodJob)
        /\ All = <<job>> \o Rest /\ All' = Rest
        /\ UNCHANGED <<num_jobs, decoded>>
    BY <1>2, LineTypes DEF Leaves
  <2>2. /\ Numbered(Rest, num_jobs) /\ InOrder(Rest)
        /\ \A i \in 1..Len(Rest), k \in 1..Len(decoded) : decoded[k][1] < Rest[i].id
    BY <2>1, OrderBehind DEF Order
  <2>3. Ahead(Rest, decoded)
    BY <2>2 DEF Ahead
  <2>4. QED BY <2>1, <2>2, <2>3 DEF Order, DecodedInOrder
<1>3. CASE Decodes
  <2>1. /\ job \in GoodJob /\ Rest \in Seq(GoodJob) /\ job.id \in Nat
        /\ All = <<job>> \o Rest /\ UNCHANGED num_jobs /\ job.drain = "NoDrain"
        /\ job.work.units \in Nat /\ num_jobs \in Nat
    BY <1>3, LineTypes, GoodJobs DEF Decodes, Shape, Shared
  <2>2. /\ job.id \in 1..num_jobs
        /\ \A i \in 1..Len(Rest) : job.id < Rest[i].id
        /\ \A k \in 1..Len(decoded) :
             decoded[k][1] < job.id \/ (decoded[k][1] = job.id /\ decoded[k][2] > job.work.units)
        /\ Numbered(Rest, num_jobs) /\ InOrder(Rest)
    <3>1. /\ Numbered(<<job>> \o Rest, num_jobs) /\ InOrder(<<job>> \o Rest)
          /\ Ahead(<<job>> \o Rest, decoded)
      BY <2>1 DEF Order
    <3>2. /\ job.id \in 1..num_jobs
          /\ \A i \in 1..Len(Rest) : job.id < Rest[i].id
          /\ \A k \in 1..Len(decoded) :
               decoded[k][1] < job.id
                 \/ (decoded[k][1] = job.id /\ job.drain = "NoDrain" /\ decoded[k][2] > job.work.units)
          /\ Numbered(Rest, num_jobs) /\ InOrder(Rest)
      BY <2>1, <3>1, OrderBehind
    <3>3. QED BY <3>2
  <2>3. /\ DecodedInOrder'
        /\ \A k \in 1..Len(decoded') : decoded'[k][1] <= job.id /\ decoded'[k][1] \in Nat
        /\ \A k \in 1..Len(decoded') :
             \/ k \in 1..Len(decoded) /\ decoded'[k] = decoded[k]
             \/ decoded'[k] = <<job.id, job.work.units>>
    BY <1>3, DecodedGrows
  <2>4. \A k \in 1..Len(decoded') : decoded'[k][1] <= num_jobs
    BY <2>1, <2>2, <2>3
  <2>5. \A i \in 1..Len(Rest), k \in 1..Len(decoded') : decoded'[k][1] < Rest[i].id
    <3> SUFFICES ASSUME NEW i \in 1..Len(Rest), NEW k \in 1..Len(decoded')
                 PROVE  decoded'[k][1] < Rest[i].id
      OBVIOUS
    <3>1. Rest[i].id \in Nat
      BY <2>1, ElementOfSeq, GoodJobs
    <3>2. QED BY <2>1, <2>2, <2>3, <3>1
  <2>6. CASE All' = Rest
    <3>1. Ahead(Rest, decoded')
      BY <2>5 DEF Ahead
    <3>2. QED BY <2>1, <2>2, <2>3, <2>4, <2>6, <3>1 DEF Order
  <2>7. ASSUME NEW left \in GoodJob, left.id = job.id, left.drain = "NoDrain",
               left.work.units = job.work.units - 1, All' = <<left>> \o Rest
        PROVE  Order'
    <3>1. \A k \in 1..Len(decoded') :
            \/ decoded'[k][1] < left.id
            \/ decoded'[k][1] = left.id /\ left.drain = "NoDrain" /\ decoded'[k][2] > left.work.units
      <4> SUFFICES ASSUME NEW k \in 1..Len(decoded')
                   PROVE  \/ decoded'[k][1] < left.id
                          \/ decoded'[k][1] = left.id /\ left.drain = "NoDrain" /\ decoded'[k][2] > left.work.units
        OBVIOUS
      <4>1. CASE k \in 1..Len(decoded) /\ decoded'[k] = decoded[k]
        <5>1. decoded[k][2] \in Nat
          BY <4>1, ElementOfSeq DEF Shape, Own
        <5>2. QED BY <2>1, <2>2, <2>7, <4>1, <5>1
      <4>2. CASE decoded'[k] = <<job.id, job.work.units>>
        BY <2>1, <2>7, <4>2
      <4>3. QED BY <2>3, <4>1, <4>2
    <3>2. /\ left.id \in 1..num_jobs
          /\ \A i \in 1..Len(Rest) : left.id < Rest[i].id
      BY <2>2, <2>7
    <3>3. Numbered(<<left>> \o Rest, num_jobs) /\ InOrder(<<left>> \o Rest) /\ Ahead(<<left>> \o Rest, decoded')
      BY <2>1, <2>2, <2>5, <3>1, <3>2, OrderInFront
    <3>4. QED BY <2>1, <2>3, <2>4, <2>7, <3>3 DEF Order
  <2>8. QED BY <1>3, <2>6, <2>7 DEF Decodes
<1>4. CASE Grows
  <2>1. /\ All \in Seq(GoodJob) /\ submission' \in Seq(GoodJob)
        /\ num_jobs \in Nat /\ num_jobs' = num_jobs + Len(submission') /\ Len(submission') \in Nat
        /\ All' = All \o submission' /\ decoded' = decoded
        /\ \A i \in 1..Len(submission') : submission'[i].id = num_jobs + i
    BY <1>4, LineTypes, LenProperties DEF Grows, Submits, Shape, Shared
  <2>2. \A k \in 1..Len(decoded) : decoded[k][1] \in Nat /\ decoded[k][1] <= num_jobs
    BY ElementOfSeq DEF Shape, Own, Order
  <2>3. /\ Numbered(All \o submission', num_jobs') /\ InOrder(All \o submission')
        /\ Ahead(All \o submission', decoded)
    BY <2>1, <2>2, OrderAtEnd DEF Order
  <2>4. \A k \in 1..Len(decoded) : decoded[k][1] <= num_jobs'
    BY <2>1, <2>2
  <2>5. QED BY <2>1, <2>3, <2>4 DEF Order, DecodedInOrder
<1>5. CASE Joins
  BY <1>5 DEF Joins, Order, DecodedInOrder
<1>6. CASE GivesUp
  <2>1. UNCHANGED <<num_jobs, decoded>>
    BY <1>6 DEF GivesUp
  <2>2. Numbered(All', num_jobs) /\ InOrder(All') /\ Ahead(All', decoded)
    <3>1. CASE job = NoJob
      BY <1>6, <3>1, NothingInOrder DEF GivesUp
    <3>2. CASE job # NoJob
      <4>1. job \in GoodJob /\ All = <<job>> \o work_queue /\ All' = <<job>> \o <<>>
        BY <1>6, <3>2 DEF GivesUp
      <4>2. work_queue \in Seq(GoodJob) /\ <<>> \in Seq(GoodJob) /\ 1..Len(<<>>) = {}
        BY LineTypes, EmptySeq
      <4>3. /\ job.id \in 1..num_jobs
            /\ \A k \in 1..Len(decoded) :
                 \/ decoded[k][1] < job.id
                 \/ decoded[k][1] = job.id /\ job.drain = "NoDrain" /\ decoded[k][2] > job.work.units
        BY <4>1, <4>2, OrderBehind DEF Order
      <4>4. QED BY <4>1, <4>2, <4>3, NothingInOrder, OrderInFront
    <3>3. QED BY <3>1, <3>2
  <2>3. QED BY <2>1, <2>2 DEF Order, DecodedInOrder
<1>7. QED BY <1>1, <1>2, <1>3, <1>4, <1>5, <1>6, StepKinds


-----------------------------------------------------------------------------
(* No job is lost: what leaves the line is settled or decoded.             *)

Known(n) == n \in Ids(All) \cup settled \/ <<n, 1>> \in ToSet(decoded)

LEMMA IdsOfAll ==
  ASSUME NEW j \in GoodJob \cup {NoJob}, NEW q \in Seq(GoodJob), NEW s \in Seq(GoodJob)
  PROVE  Ids(IF j = NoJob THEN q \o s ELSE <<j>> \o (q \o s))
           = Ids(q) \cup Ids(s) \cup (IF j = NoJob THEN {} ELSE {j.id})
<1>1. Ids(q \o s) = Ids(q) \cup Ids(s) /\ q \o s \in Seq(GoodJob)
  BY IdsOfConcat, ConcatProperties
<1>2. CASE j = NoJob
  BY <1>1, <1>2
<1>3. CASE j # NoJob
  <2>1. Ids(<<j>> \o (q \o s)) = {j.id} \cup Ids(q \o s)
    BY <1>1, <1>3, IdsInFront
  <2>2. QED BY <1>1, <1>3, <2>1
<1>4. QED BY <1>2, <1>3

LEMMA NoJobLostIsKnown ==
  /\ Shape /\ NoJobLost => \A n \in 1..num_jobs : Known(n)
  /\ Shape' /\ (\A n \in 1..num_jobs' : Known(n)') => NoJobLost'
<1>1. ASSUME Shape, NoJobLost PROVE \A n \in 1..num_jobs : Known(n)
  <2>1. Ids(All) = Ids(work_queue) \cup Ids(submission) \cup (IF job = NoJob THEN {} ELSE {job.id})
    BY <1>1, IdsOfAll DEF Shape, Shared, Own, All, InHand
  <2>2. QED BY <1>1, <2>1 DEF NoJobLost, Known
<1>2. ASSUME Shape', \A n \in 1..num_jobs' : Known(n)' PROVE NoJobLost'
  <2>1. /\ work_queue' \in Seq(GoodJob) /\ submission' \in Seq(GoodJob)
        /\ job' \in GoodJob \cup {NoJob}
    BY <1>2 DEF Shape, Shared, Own
  <2>2. Ids(All)' = Ids(work_queue)' \cup Ids(submission)' \cup (IF job' = NoJob THEN {} ELSE {job'.id})
    BY <2>1, IdsOfAll DEF All, InHand
  <2>3. QED BY <1>2, <2>2 DEF NoJobLost, Known
<1>3. QED BY <1>1, <1>2

LEMMA NoJobLostStep ==
  ASSUME Shape, NoJobLost, [Next]_vars
  PROVE  NoJobLost'
<1>1. Shape' /\ \A n \in 1..num_jobs : Known(n)
  BY ShapeStep, NoJobLostIsKnown
<1>2. SUFFICES \A n \in 1..num_jobs' : Known(n)'
  BY <1>1, NoJobLostIsKnown
<1>3. CASE Stays
  BY <1>1, <1>3 DEF Stays, Known
<1>4. CASE Leaves
  <2>1. Ids(All) = {job.id} \cup Ids(Rest)
    BY <1>4, LineTypes, IdsInFront DEF Leaves
  <2>2. QED BY <1>1, <1>4, <2>1 DEF Leaves, Known
<1>5. CASE Decodes
  <2>1. Ids(All) = {job.id} \cup Ids(Rest)
    BY <1>5, LineTypes, IdsInFront DEF Decodes
  <2>2. ToSet(decoded') = ToSet(decoded) \cup {<<job.id, job.work.units>>}
    <3>1. decoded \in Seq(Nat \X Nat) /\ <<job.id, job.work.units>> \in Nat \X Nat
      BY <1>5, GoodJobs DEF Shape, Own, Decodes
    <3>2. decoded' = Append(decoded, <<job.id, job.work.units>>)
      BY <1>5 DEF Decodes
    <3>3. /\ Len(decoded') = Len(decoded) + 1 /\ Len(decoded) \in Nat
          /\ DOMAIN decoded = 1..Len(decoded) /\ DOMAIN decoded' = 1..(Len(decoded) + 1)
          /\ \A k \in 1..Len(decoded) : decoded'[k] = decoded[k]
          /\ decoded'[Len(decoded) + 1] = <<job.id, job.work.units>>
      BY <3>1, <3>2, AppendProperties, LenProperties
    <3>4. DOMAIN decoded' = DOMAIN decoded \cup {Len(decoded) + 1}
      BY <3>3
    <3>5. QED BY <3>3, <3>4, SMTT(30) DEF ToSet
  <2>3. CASE All' = Rest /\ job.work.units = 1
    BY <1>1, <1>5, <2>1, <2>2, <2>3 DEF Decodes, Known
  <2>4. ASSUME NEW left \in GoodJob, left.id = job.id, All' = <<left>> \o Rest
        PROVE  \A n \in 1..num_jobs' : Known(n)'
    <3>1. Ids(All') = Ids(All)
      BY <2>1, <2>4, LineTypes, IdsInFront
    <3>2. QED BY <1>1, <1>5, <2>2, <3>1 DEF Decodes, Known
  <2>5. QED BY <1>5, <2>3, <2>4 DEF Decodes
<1>6. CASE Grows
  <2>1. /\ All \in Seq(GoodJob) /\ submission' \in Seq(GoodJob)
        /\ num_jobs \in Nat /\ num_jobs' = num_jobs + Len(submission') /\ Len(submission') \in Nat
        /\ UNCHANGED <<decoded, settled>>
        /\ \A i \in 1..Len(submission') : submission'[i].id = num_jobs + i
    BY <1>6, LineTypes, LenProperties DEF Grows, Submits, Shape, Shared
  <2>2. Ids(All') = Ids(All) \cup Ids(submission')
    BY <1>6, <2>1, IdsOfConcat DEF Grows
  <2>3. ASSUME NEW n \in 1..num_jobs', n \notin 1..num_jobs PROVE n \in Ids(submission')
    <3>1. n - num_jobs \in 1..Len(submission') /\ num_jobs + (n - num_jobs) = n
      BY <2>1, <2>3
    <3>2. n - num_jobs \in DOMAIN submission'
      BY <2>1, <3>1, LenProperties
    <3>3. QED BY <2>1, <3>1, <3>2 DEF Ids
  <2>4. QED BY <1>1, <2>1, <2>2, <2>3 DEF Known
<1>7. CASE Joins
  BY <1>1, <1>7 DEF Joins, Known
<1>8. CASE GivesUp
  <2>1. Ids(All) \subseteq Ids(All') \cup Ids(work_queue)
    <3>1. CASE job = NoJob
      BY <1>8, <3>1 DEF GivesUp
    <3>2. CASE job # NoJob
      <4>1. job \in GoodJob /\ All = <<job>> \o work_queue /\ All' = <<job>> \o <<>>
        BY <1>8, <3>2 DEF GivesUp
      <4>2. work_queue \in Seq(GoodJob) /\ <<>> \in Seq(GoodJob)
        BY LineTypes
      <4>3. Ids(All) = {job.id} \cup Ids(work_queue) /\ Ids(All') = {job.id} \cup Ids(<<>>)
        BY <4>1, <4>2, IdsInFront
      <4>4. QED BY <4>3
    <3>3. QED BY <3>1, <3>2
  <2>2. QED BY <1>1, <1>8, <2>1 DEF GivesUp, Known
<1>9. QED BY <1>3, <1>4, <1>5, <1>6, <1>7, <1>8, StepKinds

-----------------------------------------------------------------------------
(* Sessions of a careful component do not overlap.                         *)

InSession(s) ==
  \A i \in 1..Len(s) : s[i].session = session /\ (s[i].drain = "EOSDrain" => eos /\ i = Len(s))

LEMMA SessionKept ==
  ASSUME Shape, [Next]_vars
  PROVE  /\ disciplined' = disciplined
         /\ Start \/ Submits \/ UNCHANGED <<session, eos>>
<1>1. ASSUME UNCHANGED c2_vars \/ UNCHANGED component_vars
      PROVE  UNCHANGED <<disciplined, session, eos>>
  BY <1>1 DEF c2_vars, component_vars
<1>2. CASE Worker
  BY <1>1, <1>2 DEF Worker, New, WakeForDecoder, WakeForJob, Pop, DrainDecoder, Decode, StartDrc,
                    NewSequence, NotEnoughOutputBuffers, PutBack, CheckFrame, CheckFormat,
                    CheckNothing, LoopTest
<1>3. CASE Failure
  BY <1>1, <1>3 DEF Failure, Fail, NewFails
<1>4. CASE UNCHANGED vars \/ \E n \in held : Release(n)
  BY <1>1, <1>4 DEF vars, Release
<1>5. CASE ComponentStep
  <2>1. num_jobs \in Nat /\ session \in Nat /\ eos \in BOOLEAN
    BY DEF Shape, Shared
  <2>2. ASSUME Submits PROVE disciplined' = disciplined
    BY <2>2 DEF Submits
  <2>3. ASSUME NEW n \in IF disciplined THEN {1} ELSE 1..MaxBatch, NEW work \in Works,
               Queue([k \in 1..n |-> work])
        PROVE  Submits
    BY <2>1, <2>3, QueueSubmits
  <2>4. ASSUME NEW mode \in DrainModes \ {"NoDrain"}, Drain(mode) PROVE Submits
    BY <2>1, <2>4, DrainSubmits
  <2>5. CASE Start
    BY <2>5 DEF Start
  <2>6. CASE Extend \/ Write \/ Flush \/ TakeBack \/ Stop \/ Join
    BY <2>6 DEF Extend, Write, Flush, TakeBack, Stop, Join
  <2>7. QED BY <1>5, <2>2, <2>3, <2>4, <2>5, <2>6 DEF ComponentStep, Component
<1>6. QED BY <1>2, <1>3, <1>4, <1>5 DEF Next

(* The first job leaves, or a part of it is left.                          *)
LEMMA InSessionBehind ==
  ASSUME NEW j \in GoodJob, NEW s \in Seq(GoodJob), InSession(<<j>> \o s)
  PROVE  /\ InSession(s)
         /\ j.session = session
         /\ j.drain = "EOSDrain" => eos /\ s = <<>>
<1> DEFINE t == <<j>> \o s
<1>1. /\ Len(s) \in Nat /\ Len(t) = Len(s) + 1 /\ t[1] = j
      /\ \A i \in 1..Len(s) : t[i + 1] = s[i]
  BY InFront, LenProperties
<1>2. InSession(t)
  OBVIOUS
<1> HIDE DEF t
<1>3. ASSUME NEW i \in 1..Len(s)
      PROVE  s[i].session = session /\ (s[i].drain = "EOSDrain" => eos /\ i = Len(s))
  <2>1. i + 1 \in 1..Len(t) /\ t[i + 1] = s[i] /\ (i + 1 = Len(t) => i = Len(s))
    BY <1>1
  <2>2. t[i + 1].session = session /\ (t[i + 1].drain = "EOSDrain" => eos /\ i + 1 = Len(t))
    BY <1>2, <2>1 DEF InSession
  <2>3. QED BY <2>1, <2>2
<1>4. 1 \in 1..Len(t) /\ (1 = Len(t) => Len(s) = 0)
  BY <1>1
<1>5. j.session = session /\ (j.drain = "EOSDrain" => eos /\ 1 = Len(t))
  BY <1>1, <1>2, <1>4 DEF InSession
<1>6. Len(s) = 0 => s = <<>>
  BY EmptySeq
<1>7. InSession(s)
  BY <1>3 DEF InSession
<1>8. QED BY <1>4, <1>5, <1>6, <1>7

LEMMA InSessionInFront ==
  ASSUME NEW j \in GoodJob, NEW s \in Seq(GoodJob), InSession(s),
         j.session = session, j.drain = "EOSDrain" => eos /\ s = <<>>
  PROVE  InSession(<<j>> \o s)
<1> DEFINE t == <<j>> \o s
<1>1. /\ Len(s) \in Nat /\ Len(t) = Len(s) + 1 /\ t[1] = j
      /\ \A i \in 1..Len(t) : i = 1 \/ (i - 1 \in 1..Len(s) /\ t[i] = s[i - 1])
  BY InFront, LenProperties
<1>2. s = <<>> => Len(s) = 0
  BY EmptySeq
<1> SUFFICES InSession(t)
  OBVIOUS
<1> HIDE DEF t
<1> SUFFICES ASSUME NEW i \in 1..Len(t)
             PROVE  t[i].session = session /\ (t[i].drain = "EOSDrain" => eos /\ i = Len(t))
  BY DEF InSession
<1>3. CASE i = 1
  <2>1. s = <<>> => i = Len(t)
    BY <1>1, <1>2, <1>3
  <2>2. QED BY <1>1, <1>3, <2>1
<1>4. CASE i # 1
  <2>1. i - 1 \in 1..Len(s) /\ t[i] = s[i - 1] /\ (i - 1 = Len(s) => i = Len(t))
    BY <1>1, <1>4
  <2>2. s[i - 1].session = session /\ (s[i - 1].drain = "EOSDrain" => eos /\ i - 1 = Len(s))
    BY <2>1 DEF InSession
  <2>3. QED BY <2>1, <2>2
<1>5. QED BY <1>3, <1>4

LEMMA NothingInSession == InSession(<<>>) /\ InSession(<<>>)'
<1>1. 1..Len(<<>>) = {}
  BY EmptySeq
<1>2. QED BY <1>1 DEF InSession

(* A job queued while the stream has not ended.                            *)
LEMMA InSessionAtEnd ==
  ASSUME Shape, Submits, disciplined, InSession(All), All' = All \o submission'
  PROVE  InSession(All)'
<1>1. /\ All \in Seq(GoodJob) /\ submission' \in Seq(GoodJob) /\ Len(submission') = 1
      /\ submission'[1].session = session /\ session' = session
      /\ submission'[1].drain = "EOSDrain" => eos'
      /\ ~eos
  <2>1. /\ submission' \in Seq(GoodJob) /\ Len(submission') = 1 /\ session' = session /\ ~eos
        /\ submission'[1].drain = "EOSDrain" => eos'
        /\ \A i \in 1..Len(submission') : submission'[i].session = session
    BY DEF Submits
  <2>2. 1 \in 1..Len(submission')
    BY <2>1
  <2>3. QED BY <2>1, <2>2, LineTypes
<1>2. /\ Len(All) \in Nat /\ Len(All') = Len(All) + 1
      /\ \A i \in 1..Len(All') : /\ i \in 1..Len(All) => All'[i] = All[i]
                                 /\ i \notin 1..Len(All) => i = Len(All') /\ All'[i] = submission'[1]
  <2>1. /\ All' = All \o submission'
        /\ Len(All \o submission') = Len(All) + Len(submission')
        /\ \A i \in 1..(Len(All) + Len(submission')) :
             (All \o submission')[i] = IF i <= Len(All) THEN All[i] ELSE submission'[i - Len(All)]
    BY <1>1, ConcatProperties
  <2>2. Len(All) \in Nat /\ Len(submission') = 1
    BY <1>1, LenProperties
  <2>3. Len(All') = Len(All) + 1
    BY <2>1, <2>2
  <2>4. ASSUME NEW i \in 1..Len(All'), i \in 1..Len(All) PROVE All'[i] = All[i]
    BY <2>1, <2>2, <2>3, <2>4
  <2>5. ASSUME NEW i \in 1..Len(All'), i \notin 1..Len(All)
        PROVE  i = Len(All') /\ All'[i] = submission'[1]
    <3>1. i = Len(All) + 1
      BY <2>2, <2>3, <2>5
    <3>2. QED BY <2>1, <2>2, <2>3, <3>1
  <2>6. QED BY <2>2, <2>3, <2>4, <2>5
<1> SUFFICES ASSUME NEW i \in 1..Len(All')
             PROVE  All'[i].session = session' /\ (All'[i].drain = "EOSDrain" => eos' /\ i = Len(All'))
  BY DEF InSession
<1>3. CASE i \in 1..Len(All)
  <2>1. All'[i] = All[i]
    BY <1>2, <1>3
  <2>2. All[i].session = session /\ (All[i].drain = "EOSDrain" => eos)
    BY <1>3 DEF InSession
  <2>3. QED BY <1>1, <2>1, <2>2
<1>4. CASE i \notin 1..Len(All)
  <2>1. i = Len(All') /\ All'[i] = submission'[1]
    BY <1>2, <1>4
  <2>2. QED BY <1>1, <2>1
<1>5. QED BY <1>3, <1>4

(* The worker that stops has taken everything.                             *)
LEMMA StopKinds ==
  ASSUME Shape, [Next]_vars, state' = "C2Stopped", component' # "join"
  PROVE  (state = "C2Stopped" /\ component # "join") \/ DrainDecoder \/ Join
<1>1. ASSUME UNCHANGED <<state, component>> PROVE state = "C2Stopped" /\ component # "join"
  BY <1>1
<1>2. CASE New \/ WakeForDecoder \/ WakeForJob \/ Pop \/ Decode \/ CheckNothing \/ LoopTest
  BY <1>1, <1>2 DEF New, WakeForDecoder, WakeForJob, Pop, Decode, CheckNothing, LoopTest, component_vars
<1>3. CASE StartDrc \/ NewSequence \/ NotEnoughOutputBuffers
  BY <1>1, <1>3 DEF StartDrc, NewSequence, NotEnoughOutputBuffers, PutBack, component_vars
<1>4. CASE CheckFrame \/ CheckFormat \/ UNCHANGED vars \/ \E n \in held : Release(n)
  BY <1>1, <1>4 DEF CheckFrame, CheckFormat, Release, vars, c2_vars, component_vars
<1>5. ~Fail /\ ~NewFails
  BY DEF Fail, NewFails
<1>6. CASE ComponentStep
  <2>1. ~Start /\ ~Stop
    BY DEF Start, Stop
  <2>2. ASSUME NEW n, NEW work, Queue([k \in 1..n |-> work])
        PROVE  state' = state /\ component # "join"
    BY <2>2 DEF Queue, Submit, Call
  <2>3. ASSUME NEW mode, Drain(mode) PROVE state' = state /\ component # "join"
    BY <2>3 DEF Drain, Submit, Call
  <2>4. CASE Extend \/ Write \/ Flush \/ TakeBack
    BY <2>4 DEF Extend, Write, Flush, TakeBack, Call
  <2>5. QED BY <1>6, <2>1, <2>2, <2>3, <2>4 DEF ComponentStep, Component
<1>7. QED BY <1>2, <1>3, <1>4, <1>5, <1>6 DEF Next, Worker, Failure

LEMMA StopJoins ==
  ASSUME Shape, Join, UNCHANGED <<job>>
  PROVE  All' = <<>> /\ Line' = <<>>
<1>1. job = NoJob
  BY DEF Shape, Own, Join, Alive
<1>2. submission' = <<>> /\ work_queue' = <<>>
  BY DEF Join, Shape, Shared
<1>3. <<>> \o <<>> = <<>>
  OBVIOUS
<1>4. QED BY <1>1, <1>2, <1>3 DEF All, Line, InHand

LEMMA SessionStep ==
  ASSUME Shape, Order, Session, [Next]_vars
  PROVE  Session'
<1> SUFFICES ASSUME disciplined'
             PROVE  /\ InSession(All)'
                    /\ state' = "C2Stopped" /\ component' # "join" => All' = <<>>
  BY DEF Session, InSession
<1>1. /\ disciplined
      /\ InSession(All)
      /\ state = "C2Stopped" /\ component # "join" => All = <<>>
  BY SessionKept DEF Session, InSession
<1>2. All \in Seq(GoodJob) /\ Rest \in Seq(GoodJob)
  BY LineTypes
<1>3. InSession(All)'
  <2>1. CASE Start
    <3>1. All = <<>>
      BY <1>1, <2>1 DEF Start
    <3>2. UNCHANGED <<work_queue, submission, job>>
      <4>1. worker # "decode"
        BY <2>1 DEF Start, Alive
      <4>2. job = NoJob
        BY <4>1 DEF Shape, Own
      <4>3. worker' # "decode"
        BY <2>1 DEF Start
      <4>4. job' = NoJob
        BY <4>3, ShapeStep DEF Shape, Own
      <4>5. QED BY <2>1, <4>2, <4>4 DEF Start
    <3>3. All' = <<>>
      BY <3>1, <3>2, LineKept
    <3>4. QED BY <3>3, NothingInSession DEF InSession
  <2>2. CASE Submits
    <3>1. All' = All \o submission'
      <4>1. CASE Grows
        BY <4>1 DEF Grows
      <4>2. submission = <<>>
        BY <2>2 DEF Submits, Shape, Shared
      <4>3. CASE submission' = <<>>
        BY <2>2, <1>1, <4>3 DEF Submits
      <4>4. CASE submission' # <<>>
        BY <4>1, <4>2, <4>4, StepKinds DEF Stays, Leaves, Decodes, Joins, GivesUp
      <4>5. QED BY <4>3, <4>4
    <3>2. QED BY <1>1, <2>2, <3>1, InSessionAtEnd
  <2>3. CASE UNCHANGED <<session, eos>>
    <3>1. CASE Stays \/ Joins
      BY <1>1, <2>3, <3>1 DEF Stays, Joins, InSession
    <3>2. CASE Leaves
      <4>1. job \in GoodJob /\ InSession(Rest) /\ All' = Rest
        BY <1>1, <1>2, <3>2, InSessionBehind DEF Leaves
      <4>2. QED BY <2>3, <4>1 DEF InSession
    <3>3. CASE Decodes
      <4>1. job \in GoodJob /\ InSession(Rest) /\ job.session = session
        BY <1>1, <1>2, <3>3, InSessionBehind DEF Decodes
      <4>2. CASE All' = Rest
        BY <2>3, <4>1, <4>2 DEF InSession
      <4>3. ASSUME NEW left \in GoodJob, left.session = job.session, left.drain = "NoDrain",
                   All' = <<left>> \o Rest
            PROVE  InSession(All)'
        <5>1. InSession(<<left>> \o Rest)
          BY <1>2, <4>1, <4>3, InSessionInFront
        <5>2. QED BY <2>3, <4>3, <5>1 DEF InSession
      <4>4. QED BY <3>3, <4>2, <4>3 DEF Decodes
    <3>4. CASE Grows
      BY <1>1, <3>4, InSessionAtEnd DEF Grows
    <3>5. CASE GivesUp
      <4>1. CASE job = NoJob
        BY <3>5, <4>1, NothingInSession DEF GivesUp, InSession
      <4>2. CASE job # NoJob
        <5>1. /\ job \in GoodJob /\ All = <<job>> \o work_queue /\ All' = <<job>> \o <<>>
              /\ work_queue \in Seq(GoodJob) /\ <<>> \in Seq(GoodJob)
          BY <3>5, <4>2, LineTypes DEF GivesUp
        <5>2. job.session = session /\ (job.drain = "EOSDrain" => eos)
          BY <1>1, <5>1, InSessionBehind
        <5>3. InSession(<<job>> \o <<>>)
          BY <5>1, <5>2, NothingInSession, InSessionInFront
        <5>4. QED BY <2>3, <5>1, <5>3 DEF InSession
      <4>3. QED BY <4>1, <4>2
    <3>6. QED BY <3>1, <3>2, <3>3, <3>4, <3>5, StepKinds
  <2>4. QED BY <2>1, <2>2, <2>3, SessionKept
<1>4. ASSUME state' = "C2Stopped", component' # "join" PROVE All' = <<>>
  <2>1. CASE DrainDecoder
    <3>1. /\ job \in GoodJob /\ All = <<job>> \o Rest /\ All' = Rest
      BY <2>1, JobLeaves DEF DrainDecoder, output_vars, Leaves
    <3>2. CASE job.drain = "EOSDrain"
      BY <1>1, <1>2, <3>1, <3>2, InSessionBehind
    <3>3. CASE job.drain # "EOSDrain"
      <4>1. state = "C2Stopped" /\ component # "join"
        BY <1>4, <2>1, <3>3 DEF DrainDecoder
      <4>2. <<job>> \o Rest # <<>>
        BY <1>2, <3>1, InFront
      <4>3. QED BY <1>1, <3>1, <4>1, <4>2
    <3>4. QED BY <3>2, <3>3
  <2>2. CASE Join
    <3>1. worker # "decode" /\ worker' # "decode"
      BY <2>2 DEF Join, Alive
    <3>2. job = NoJob /\ job' = NoJob
      BY <3>1, ShapeStep DEF Shape, Own
    <3>3. QED BY <2>2, <3>2, StopJoins
  <2>3. CASE state = "C2Stopped" /\ component # "join"
    <3>1. All = <<>>
      BY <1>1, <2>3
    <3>2. ASSUME NEW j \in GoodJob, NEW s \in Seq(GoodJob) PROVE All # <<j>> \o s
      BY <3>1, InFront
    <3>3. ~Leaves /\ ~Decodes
      BY <1>2, <3>2 DEF Leaves, Decodes
    <3>4. ~Grows
      BY <2>3 DEF Grows, Submits
    <3>5. CASE GivesUp
      <4>1. job = NoJob
        BY <3>2, <3>5, LineTypes DEF GivesUp
      <4>2. QED BY <3>5, <4>1 DEF GivesUp
    <3>6. QED BY <3>1, <3>3, <3>4, <3>5, StepKinds DEF Stays, Joins
  <2>4. QED BY <1>4, <2>1, <2>2, <2>3, StopKinds
<1>5. QED BY <1>3, <1>4

-----------------------------------------------------------------------------
(* There is an event, or one on its way, for every batch of the line.      *)

Budget == awaiting_job_event + Writing + Awake

(* What a step does to the batches of the line and to the events for them. *)
Spends(n) ==
  /\ ~refused' => ~refused
  /\ ~Failed
  /\ Batches(Line') <= Batches(Line) - n
  /\ Budget' >= Budget - n
Covered ==
  \/ refused' \/ Failed'
  \/ Batches(Line') = 0
  \/ \E n \in {-1, 0, 1} : Spends(n)

(* The queue comes first in the line, what is to be submitted behind it.   *)
LEMMA LineFirst ==
  ASSUME Shape, Order
  PROVE  /\ All = Line \o submission
         /\ Numbered(Line, num_jobs) /\ InOrder(Line)
         /\ Batches(Line) \in Nat
<1>1. /\ Line \in Seq(GoodJob) /\ submission \in Seq(GoodJob) /\ work_queue \in Seq(GoodJob)
      /\ num_jobs \in Nat
  BY LineTypes DEF Shape, Shared
<1>2. All = Line \o submission
  <2>1. CASE job = NoJob
    BY <2>1 DEF All, Line, InHand
  <2>2. CASE job # NoJob
    <3>1. /\ job \in GoodJob /\ Line = <<job>> \o work_queue
          /\ All = <<job>> \o (work_queue \o submission)
      BY <2>2, LineTypes DEF Rest
    <3>2. QED BY <1>1, <3>1, Regroup
  <2>3. QED BY <2>1, <2>2
<1>3. /\ Len(Line) \in Nat /\ Len(submission) \in Nat
      /\ Len(Line \o submission) = Len(Line) + Len(submission)
      /\ \A i \in 1..(Len(Line) + Len(submission)) :
           (Line \o submission)[i] = IF i <= Len(Line) THEN Line[i] ELSE submission[i - Len(Line)]
  BY <1>1, ConcatProperties, LenProperties
<1>4. \A i \in 1..Len(Line) : i \in 1..Len(All) /\ All[i] = Line[i]
  BY <1>2, <1>3
<1>5. Numbered(Line, num_jobs)
  BY <1>4 DEF Order, Numbered
<1>6. InOrder(Line)
  <2> SUFFICES ASSUME NEW i \in 1..Len(Line), NEW k \in 1..Len(Line), i < k PROVE Line[i].id < Line[k].id
    BY DEF InOrder
  <2>1. i \in 1..Len(All) /\ k \in 1..Len(All) /\ All[i] = Line[i] /\ All[k] = Line[k]
    BY <1>4
  <2>2. All[i].id < All[k].id
    BY <2>1 DEF Order, InOrder
  <2>3. QED BY <2>1, <2>2
<1>7. Batches(Line) \in Nat
  BY <1>1, <1>5, BatchesType
<1>8. QED BY <1>2, <1>5, <1>6, <1>7

LEMMA BudgetType ==
  ASSUME Shape
  PROVE  Budget \in Nat /\ awaiting_job_event \in Nat /\ Writing \in {0, 1} /\ Awake \in {0, 1}
BY DEF Shape, Shared, Budget, Writing, Awake

(* Nothing is spent where neither the line nor the threads move.           *)
LEMMA NothingSpent ==
  ASSUME Shape, Order, Line' = Line, Budget' >= Budget, ~refused' => ~refused, ~Failed
  PROVE  Covered
<1>1. Batches(Line) \in Nat /\ Budget \in Nat
  BY LineFirst, BudgetType
<1>2. Batches(Line') <= Batches(Line) - 0 /\ Budget' >= Budget - 0
  BY <1>1
<1>3. Spends(0)
  BY <1>2 DEF Spends
<1>4. QED BY <1>3 DEF Covered

LEMMA DrainCovered ==
  ASSUME Shape, Order, DrainDecoder
  PROVE  Covered
<1>1. worker = "decode" /\ worker' = "check" /\ job.drain # "NoDrain"
      /\ UNCHANGED <<awaiting_job_event, component, refused>>
  BY DEF DrainDecoder
<1>2. /\ job \in GoodJob /\ Line = <<job>> \o work_queue /\ Line' = work_queue
      /\ work_queue \in Seq(GoodJob) /\ num_jobs \in Nat
  BY JobLeaves, LineTypes DEF DrainDecoder, output_vars, Leaves, Shape, Shared
<1>3. Batches(Line) = Batches(work_queue) + 1
  BY <1>1, <1>2, LineFirst, BatchesInFront
<1>4. Batches(Line) \in Nat /\ Budget \in Nat
  BY LineFirst, BudgetType
<1>5. Batches(work_queue) \in Nat
  <2>1. Numbered(<<job>> \o work_queue, num_jobs) /\ InOrder(<<job>> \o work_queue)
    BY <1>2, LineFirst
  <2>2. Ahead(<<job>> \o work_queue, <<>>)
    BY EmptySeq DEF Ahead
  <2>3. Numbered(work_queue, num_jobs)
    BY <1>2, <2>1, <2>2, OrderBehind
  <2>4. QED BY <1>2, <2>3, BatchesType
<1>6. Batches(Line') <= Batches(Line) - 1
  BY <1>2, <1>3, <1>5
<1>7. Budget' >= Budget - 1
  <2>1. Awake = 1 /\ Awake' = 0 /\ Writing' = Writing
    BY <1>1 DEF Awake, Writing
  <2>2. QED BY <1>1, <2>1, BudgetType DEF Budget
<1>8. ~Failed
  BY <1>1 DEF Failed
<1>9. Spends(1)
  BY <1>1, <1>6, <1>7, <1>8 DEF Spends
<1>10. QED BY <1>9 DEF Covered

LEMMA DecodeCovered ==
  ASSUME Shape, Order, Decode
  PROVE  Covered
<1>1. worker = "decode" /\ worker' = "pop"
      /\ UNCHANGED <<awaiting_job_event, component, refused>>
  BY DEF Decode, DecodeCall, component_vars
<1>2. /\ job \in GoodJob /\ job.drain = "NoDrain" /\ Line = <<job>> \o work_queue
      /\ \/ Line' = work_queue
         \/ \E left \in GoodJob : left.id = job.id /\ left.drain = "NoDrain"
                                  /\ Line' = <<left>> \o work_queue
      /\ work_queue \in Seq(GoodJob) /\ num_jobs \in Nat
  BY DecodeDecodes, LineTypes DEF Decodes, Shape, Shared
<1>3. Numbered(<<job>> \o work_queue, num_jobs) /\ InOrder(<<job>> \o work_queue)
  BY <1>2, LineFirst
<1>4. /\ job.id \in 1..num_jobs /\ \A i \in 1..Len(work_queue) : job.id < work_queue[i].id
      /\ Numbered(work_queue, num_jobs) /\ InOrder(work_queue)
  <2>1. Ahead(<<job>> \o work_queue, <<>>)
    BY EmptySeq DEF Ahead
  <2>2. QED BY <1>2, <1>3, <2>1, OrderBehind
<1>5. Batches(Line) = IF work_queue = <<>> THEN 1 ELSE Batches(work_queue)
  BY <1>2, <1>3, BatchesInFront
<1>6. Batches(work_queue) \in Nat /\ Batches(<<>>) = 0
  BY <1>2, <1>4, BatchesType, NoBatches
<1>7. Batches(Line') <= Batches(Line) - 0
  <2>1. CASE Line' = work_queue
    BY <1>5, <1>6, <2>1
  <2>2. ASSUME NEW left \in GoodJob, left.id = job.id, left.drain = "NoDrain",
               Line' = <<left>> \o work_queue
        PROVE  Batches(Line') <= Batches(Line) - 0
    <3>1. Numbered(<<left>> \o work_queue, num_jobs) /\ InOrder(<<left>> \o work_queue)
      <4>1. /\ left.id \in 1..num_jobs /\ \A i \in 1..Len(work_queue) : left.id < work_queue[i].id
        BY <1>4, <2>2
      <4>2. 1..Len(<<>>) = {}
        BY EmptySeq
      <4>3. /\ \A k \in 1..Len(<<>>) : FALSE
            /\ \A i \in 1..Len(work_queue), k \in 1..Len(<<>>) : FALSE
        BY <4>2
      <4>4. QED BY <1>2, <1>4, <2>2, <4>1, <4>3, OrderInFront
    <3>2. Batches(Line') = IF work_queue = <<>> THEN 1 ELSE Batches(work_queue)
      BY <1>2, <2>2, <3>1, BatchesInFront
    <3>3. QED BY <1>5, <1>6, <3>2
  <2>3. QED BY <1>2, <2>1, <2>2
<1>8. Budget' >= Budget - 0
  <2>1. Awake' = Awake /\ Writing' = Writing
    BY <1>1 DEF Awake, Writing
  <2>2. Budget' = Budget
    BY <1>1, <2>1 DEF Budget
  <2>3. QED BY <2>2, BudgetType
<1>9. ~Failed
  BY <1>1 DEF Failed
<1>10. Spends(0)
  BY <1>1, <1>7, <1>8, <1>9 DEF Spends
<1>11. QED BY <1>10 DEF Covered

LEMMA ExtendCovered ==
  ASSUME Shape, Order, OneBatch(submission), Extend, UNCHANGED <<job, decoded, refused>>
  PROVE  Covered
<1>1. component = "extend" /\ component' = "write"
      /\ UNCHANGED <<state, awaiting_job_event, worker>>
  BY DEF Extend
<1>2. /\ Line' = Line \o submission /\ All = Line \o submission
      /\ Line \in Seq(GoodJob) /\ submission \in Seq(GoodJob) /\ num_jobs \in Nat
      /\ Numbered(Line \o submission, num_jobs)
  BY ExtendJoins, LineFirst, LineTypes DEF Joins, Shape, Shared, Order
<1>3. ASSUME ~Failed PROVE Covered
  <2>1. Batches(Line \o submission) <= Batches(Line) + 1
    BY <1>2, <1>3, BatchesAtEnd
  <2>2. Batches(Line') <= Batches(Line) + 1
    BY <1>2, <2>1
  <2>3. Batches(Line) \in Nat /\ Batches(Line') \in Nat
    BY <1>2, LineFirst, BatchesType, ConcatProperties
  <2>4. Batches(Line') <= Batches(Line) - (-1)
    BY <2>2, <2>3
  <2>5. Writing = 0 /\ Writing' = 1 /\ Awake' = Awake
    BY <1>1 DEF Writing, Awake
  <2>6. Budget' >= Budget - (-1)
    BY <1>1, <2>5, BudgetType DEF Budget
  <2>7. Spends(-1)
    BY <1>3, <2>4, <2>6 DEF Spends
  <2>8. QED BY <2>7 DEF Covered
<1>4. ASSUME Failed PROVE Covered
  <2>1. Failed'
    BY <1>1, <1>4 DEF Failed
  <2>2. QED BY <2>1 DEF Covered
<1>5. QED BY <1>3, <1>4

LEMMA GivesUpCovered ==
  ASSUME Shape, Order, Order', GivesUp, num_jobs' = num_jobs, Budget' >= Budget,
         ~refused' => ~refused, Failed => Failed'
  PROVE  Covered
<1>1. CASE job = NoJob
  BY <1>1, NoBatches DEF GivesUp, Covered
<1>2. CASE job # NoJob
  <2>1. /\ job \in GoodJob /\ work_queue \in Seq(GoodJob) /\ <<>> \in Seq(GoodJob)
        /\ num_jobs \in Nat
        /\ Line = <<job>> \o work_queue /\ Line' = <<job>> \o <<>> /\ All' = Line'
    BY <1>2, LineTypes DEF GivesUp, Shape, Shared
  <2>2. Numbered(<<job>> \o work_queue, num_jobs) /\ InOrder(<<job>> \o work_queue)
    BY <2>1, LineFirst
  <2>3. Numbered(<<job>> \o <<>>, num_jobs) /\ InOrder(<<job>> \o <<>>)
    BY <2>1 DEF Order
  <2>4. Numbered(work_queue, num_jobs)
    <3>1. Ahead(<<job>> \o work_queue, <<>>)
      BY EmptySeq DEF Ahead
    <3>2. QED BY <2>1, <2>2, <3>1, OrderBehind
  <2>5. /\ Batches(<<>>) = 0 /\ Batches(work_queue) \in Nat
        /\ work_queue # <<>> => Batches(work_queue) >= 1
    BY <2>1, <2>4, NoBatches, BatchesType, SomeBatches
  <2>6. /\ Batches(Line) = IF job.drain # "NoDrain" THEN Batches(work_queue) + 1
                           ELSE IF work_queue = <<>> THEN 1 ELSE Batches(work_queue)
        /\ Batches(Line') = 1
    <3>1. Batches(<<job>> \o <<>>) = IF job.drain # "NoDrain" THEN Batches(<<>>) + 1
                                     ELSE IF <<>> = <<>> THEN 1 ELSE Batches(<<>>)
      BY <2>1, <2>3, BatchesInFront
    <3>2. QED BY <2>1, <2>2, <2>5, <3>1, BatchesInFront
  <2>7. Batches(Line') <= Batches(Line) - 0
    BY <2>5, <2>6
  <2>8. Budget' >= Budget - 0
    BY BudgetType
  <2>9. CASE ~Failed
    <3>1. Spends(0)
      BY <2>7, <2>8, <2>9 DEF Spends
    <3>2. QED BY <3>1 DEF Covered
  <2>10. CASE Failed
    BY <2>10 DEF Covered
  <2>11. QED BY <2>9, <2>10
<1>3. QED BY <1>1, <1>2

LEMMA OneLess ==
  \A a, b, w \in Nat : b >= a - 1 => b + w + 1 >= a + w + 0
OBVIOUS

LEMMA WorkerCovered ==
  ASSUME Shape, Order, Worker
  PROVE  Covered
<1>1. ASSUME Failed' PROVE Covered
  BY <1>1 DEF Covered
<1>2. Budget \in Nat /\ awaiting_job_event \in Nat /\ Writing \in {0, 1} /\ Awake \in {0, 1}
  BY BudgetType
<1>3. CASE New
  <2>1. Line' = Line /\ ~Failed /\ UNCHANGED <<awaiting_job_event, refused>>
    BY <1>3, LineKept DEF New, Failed, component_vars, output_vars
  <2>2. Awake' = Awake /\ Writing' = Writing
    BY <1>3 DEF New, Awake, Writing, component_vars
  <2>3. Budget' >= Budget
    BY <1>2, <2>1, <2>2 DEF Budget
  <2>4. QED BY <2>1, <2>3, NothingSpent
<1>4. CASE WakeForDecoder \/ WakeForJob
  <2>1. Line' = Line /\ ~Failed /\ refused' = refused
    BY <1>4, LineKept DEF WakeForDecoder, WakeForJob, Failed, component_vars
  <2>2. Awake = 0 /\ Awake' = 1 /\ Writing' = Writing
    BY <1>4 DEF WakeForDecoder, WakeForJob, Awake, Writing, component_vars
  <2>3. awaiting_job_event' >= awaiting_job_event - 1
    BY <1>2, <1>4 DEF WakeForDecoder, WakeForJob
  <2>4. awaiting_job_event' \in Nat
    BY <1>2, <1>4 DEF WakeForDecoder, WakeForJob
  <2>5. Budget' >= Budget
    <3>1. Budget = awaiting_job_event + Writing + 0 /\ Budget' = awaiting_job_event' + Writing + 1
      BY <2>2 DEF Budget
    <3>2. Writing \in Nat
      BY DEF Writing
    <3>3. awaiting_job_event \in Nat
      BY <1>2
    <3>4. awaiting_job_event' + Writing + 1 >= awaiting_job_event + Writing + 0
      BY <2>3, <2>4, <3>2, <3>3, OneLess
    <3>5. QED BY <3>1, <3>4
  <2>6. QED BY <2>1, <2>5, NothingSpent
<1>5. CASE Pop
  <2>1. CASE work_queue = <<>>
    <3>1. job' = NoJob /\ work_queue' = <<>>
      BY <1>5, <2>1 DEF Pop, Shape, Own
    <3>2. Line' = <<>>
      BY <3>1 DEF Line, InHand
    <3>3. QED BY <3>2, NoBatches DEF Covered
  <2>2. CASE work_queue # <<>>
    <3>1. Line' = Line
      BY <1>5, PopStays DEF Stays
    <3>2. ~Failed /\ refused' = refused
      BY <1>5, <2>2 DEF Pop, Failed
    <3>3. Awake' = Awake /\ Writing' = Writing /\ awaiting_job_event' = awaiting_job_event
      BY <1>5, <2>2 DEF Pop, Awake, Writing, component_vars
    <3>4. Budget' >= Budget
      BY <1>2, <3>3 DEF Budget
    <3>5. QED BY <3>1, <3>2, <3>4, NothingSpent
  <2>3. QED BY <2>1, <2>2
<1>6. CASE StartDrc \/ NewSequence \/ NotEnoughOutputBuffers
  BY <1>6 DEF StartDrc, NewSequence, NotEnoughOutputBuffers, PutBack, Covered
<1>7. CASE CheckFrame \/ CheckFormat \/ CheckNothing \/ (LoopTest /\ UNCHANGED <<job, refused>>)
  <2>1. Line' = Line
    BY <1>7, LineKept DEF CheckFrame, CheckFormat, CheckNothing, LoopTest, c2_vars, component_vars
  <2>2. UNCHANGED <<state, component, awaiting_job_event, refused>>
    BY <1>7 DEF CheckFrame, CheckFormat, CheckNothing, LoopTest, c2_vars, component_vars
  <2>3. /\ worker \in {"check", "loop"} /\ worker' \in {"check", "loop", "wait", "ended"}
        /\ worker' = "wait" => state = "C2Running"
    BY <1>7 DEF CheckFrame, CheckFormat, CheckNothing, LoopTest, c2_vars
  <2>4. CASE Failed
    <3>1. worker' # "wait"
      BY <2>3, <2>4 DEF Failed, Shape, Shared
    <3>2. Failed'
      BY <2>2, <2>3, <2>4, <3>1 DEF Failed
    <3>3. QED BY <1>1, <3>2
  <2>5. CASE ~Failed
    <3>1. Awake' = Awake /\ Writing' = Writing
      BY <2>2, <2>3 DEF Awake, Writing
    <3>2. Budget' >= Budget
      BY <1>2, <2>2, <3>1 DEF Budget
    <3>3. QED BY <2>1, <2>2, <2>5, <3>2, NothingSpent
  <2>6. QED BY <2>4, <2>5
<1>8. QED BY <1>3, <1>4, <1>5, <1>6, <1>7, DrainCovered, DecodeCovered DEF Worker

LEMMA FailureCovered ==
  ASSUME Failure
  PROVE  Covered
BY DEF Failure, Fail, NewFails, Failed, Covered

LEMMA ComponentCovered ==
  ASSUME Shape, Order, Order', OneBatch(submission), ComponentStep
  PROVE  Covered
<1>1. UNCHANGED <<job, decoded, refused>>
  BY DEF ComponentStep, output_vars
<1>2. Budget \in Nat /\ awaiting_job_event \in Nat /\ Writing \in {0, 1} /\ Awake \in {0, 1}
  BY BudgetType
<1>3. ASSUME Failed, UNCHANGED <<state, worker>>, component = "join" => component' = "join"
      PROVE  Covered
  BY <1>3 DEF Failed, Covered
<1>4. ASSUME Line' = Line, Budget' >= Budget, Failed => Failed' PROVE Covered
  <2>1. CASE Failed
    BY <1>4, <2>1 DEF Covered
  <2>2. CASE ~Failed
    BY <1>1, <1>4, <2>2, NothingSpent
  <2>3. QED BY <2>1, <2>2
<1>5. CASE Start
  <2>1. Line' = Line
    BY <1>1, <1>5, LineKept DEF Start
  <2>2. ~Failed
    BY <1>5 DEF Start, Failed
  <2>3. Awake' = Awake /\ Writing' = Writing /\ awaiting_job_event' = awaiting_job_event
    BY <1>5 DEF Start, Alive, Awake, Writing
  <2>4. Budget' >= Budget
    BY <1>2, <2>3 DEF Budget
  <2>5. QED BY <1>4, <2>1, <2>2, <2>4
<1>6. CASE Submits
  <2>1. Line' = Line
    BY <1>1, <1>6, SubmitsGrows DEF Grows
  <2>2. Failed => Failed'
    BY <1>6 DEF Submits, Failed
  <2>3. Awake' = Awake /\ Writing' = Writing /\ awaiting_job_event' = awaiting_job_event
    BY <1>6 DEF Submits, Awake, Writing
  <2>4. Budget' >= Budget
    BY <1>2, <2>3 DEF Budget
  <2>5. QED BY <1>4, <2>1, <2>2, <2>4
<1>7. CASE Extend
  BY <1>1, <1>7, ExtendCovered
<1>8. CASE Write
  <2>1. Line' = Line
    BY <1>1, <1>8, LineKept DEF Write
  <2>2. Failed => Failed'
    BY <1>8 DEF Write, Failed
  <2>3. Awake' = Awake /\ Writing = 1 /\ Writing' = 0 /\ awaiting_job_event' = awaiting_job_event + 1
    BY <1>8 DEF Write, Awake, Writing
  <2>4. Budget' >= Budget
    BY <1>2, <2>3 DEF Budget
  <2>5. QED BY <1>4, <2>1, <2>2, <2>4
<1>9. CASE Flush
  <2>1. Line' = Line
    BY <1>1, <1>9, LineKept DEF Flush
  <2>2. Failed => Failed'
    BY <1>9 DEF Flush, Call, Failed
  <2>3. Awake' = Awake /\ Writing' = Writing /\ awaiting_job_event' = awaiting_job_event
    BY <1>9 DEF Flush, Call, Awake, Writing
  <2>4. Budget' >= Budget
    BY <1>2, <2>3 DEF Budget
  <2>5. QED BY <1>4, <2>1, <2>2, <2>4
<1>10. CASE TakeBack
  <2>1. submission = <<>> /\ submission' = submission
    BY <1>10 DEF TakeBack, Shape, Shared
  <2>2. GivesUp
    BY <1>1, <1>10, <2>1, QueueGivenUp DEF TakeBack
  <2>3. Failed => Failed'
    BY <1>10 DEF TakeBack, Failed
  <2>4. Awake' = Awake /\ Writing' = Writing /\ awaiting_job_event' = awaiting_job_event
        /\ num_jobs' = num_jobs
    BY <1>10 DEF TakeBack, Awake, Writing
  <2>5. Budget' >= Budget
    BY <1>2, <2>4 DEF Budget
  <2>6. QED BY <1>1, <2>2, <2>3, <2>4, <2>5, GivesUpCovered
<1>11. CASE Stop
  <2>1. Line' = Line
    BY <1>1, <1>11, LineKept DEF Stop
  <2>2. Failed => Failed'
    BY <1>11 DEF Stop, Failed
  <2>3. Awake' = Awake /\ Writing' = Writing /\ awaiting_job_event' = awaiting_job_event
    BY <1>11 DEF Stop, Awake, Writing
  <2>4. Budget' >= Budget
    BY <1>2, <2>3 DEF Budget
  <2>5. QED BY <1>4, <2>1, <2>2, <2>4
<1>12. CASE Join
  BY <1>1, <1>12, StopJoins, NoBatches DEF Covered
<1>13. num_jobs \in Nat /\ session \in Nat /\ eos \in BOOLEAN
  BY DEF Shape, Shared
<1>14. ASSUME NEW n \in IF disciplined THEN {1} ELSE 1..MaxBatch, NEW work \in Works,
              Queue([k \in 1..n |-> work])
       PROVE  Submits
  BY <1>13, <1>14, QueueSubmits
<1>15. ASSUME NEW mode \in DrainModes \ {"NoDrain"}, Drain(mode) PROVE Submits
  BY <1>13, <1>15, DrainSubmits
<1>16. QED BY <1>5, <1>6, <1>7, <1>8, <1>9, <1>10, <1>11, <1>12, <1>14, <1>15
           DEF ComponentStep, Component

(* The line of the next state, as LineFirst and LineTypes have it.         *)
LEMMA LinePrimed ==
  (Shape /\ Order =>
     Line \in Seq(GoodJob) /\ num_jobs \in Nat /\ Numbered(Line, num_jobs) /\ Budget \in Nat)'
<1>1. Shape /\ Order =>
        Line \in Seq(GoodJob) /\ num_jobs \in Nat /\ Numbered(Line, num_jobs) /\ Budget \in Nat
  BY LineFirst, LineTypes, BudgetType DEF Shape, Shared
<1>2. QED BY <1>1, PTL

LEMMA WakesStep ==
  ASSUME Shape, Order, Wakes, [Next]_vars
  PROVE  Wakes'
<1>1. Shape' /\ Order'
  BY ShapeStep, OrderStep
<1>2. OneBatch(submission)'
  <2>1. OneBatch(<<>>)
    BY EmptySeq DEF OneBatch
  <2>2. CASE submission' = submission
    BY <2>2 DEF Wakes, OneBatch
  <2>3. CASE submission' = <<>>
    BY <2>1, <2>3 DEF OneBatch
  <2>4. CASE Grows
    BY <2>4 DEF Grows, Submits, OneBatch
  <2>5. QED BY <2>2, <2>3, <2>4, StepKinds DEF Stays, Leaves, Decodes, Joins, GivesUp
<1>3. Covered \/ UNCHANGED <<Line, Budget, Failed, refused>>
  <2>1. CASE Worker \/ Failure \/ ComponentStep
    BY <1>1, <2>1, WorkerCovered, FailureCovered, ComponentCovered DEF Wakes
  <2>2. CASE UNCHANGED vars \/ \E n \in held : Release(n)
    <3>1. UNCHANGED <<work_queue, submission, job, state, component, worker, awaiting_job_event, refused>>
      BY <2>2 DEF Release, vars, c2_vars, component_vars
    <3>2. QED BY <3>1 DEF Line, InHand, Budget, Writing, Awake, Failed
  <2>3. QED BY <2>1, <2>2 DEF Next
<1>4. /\ Batches(Line) \in Nat /\ Budget \in Nat
      /\ Budget' \in Nat
  <2>1. Budget' \in Nat
    BY <1>1, LinePrimed
  <2>2. QED BY <2>1, LineFirst, BudgetType
<1>5. ASSUME ~refused', ~Failed' PROVE Batches(Line') <= Budget'
  <2>1. CASE UNCHANGED <<Line, Budget, Failed, refused>>
    <3>1. ~refused /\ ~Failed
      BY <1>5, <2>1
    <3>2. Batches(Line) <= Budget
      BY <3>1 DEF Wakes, Budget
    <3>3. QED BY <2>1, <3>2
  <2>2. CASE Batches(Line') = 0
    BY <1>4, <2>2
  <2>3. ASSUME NEW n \in {-1, 0, 1}, Spends(n) PROVE Batches(Line') <= Budget'
    <3>1. ~refused /\ ~Failed
      BY <1>5, <2>3 DEF Spends
    <3>2. Batches(Line) <= Budget
      BY <3>1 DEF Wakes, Budget
    <3>3. Batches(Line') <= Batches(Line) - n /\ Budget' >= Budget - n
      BY <2>3 DEF Spends
    <3>4. Batches(Line)' \in Nat
      <4>1. /\ Line' \in Seq(GoodJob) /\ num_jobs' \in Nat
            /\ Numbered(Line', num_jobs')
        BY <1>1, LinePrimed
      <4>2. QED BY <4>1, BatchesType
    <3>5. QED BY <1>4, <3>2, <3>3, <3>4
  <2>4. QED BY <1>3, <1>5, <2>1, <2>2, <2>3 DEF Covered
<1>6. QED BY <1>2, <1>5 DEF Wakes, Budget

-----------------------------------------------------------------------------
(* The jobs and the wake-ups, whatever the two threads do.                 *)

LEMMA StoppedStep ==
  ASSUME Stopped, [Next]_vars
  PROVE  Stopped'
<1>1. CASE Worker
  <2>1. /\ worker \notin {"none", "ended"} /\ worker' # "none"
        /\ component' = component /\ disciplined' = disciplined
    BY <1>1 DEF Worker, New, WakeForDecoder, WakeForJob, Pop, DrainDecoder, Decode, StartDrc,
         NewSequence, NotEnoughOutputBuffers, PutBack, DecodeCall, CheckFrame, CheckFormat,
         CheckNothing, LoopTest, c2_vars, component_vars
  <2>2. QED BY <2>1 DEF Stopped
<1>2. CASE Failure
  <2>1. /\ worker \notin {"none", "ended"} /\ worker' # "none"
        /\ component' = component /\ disciplined' = disciplined
    BY <1>2 DEF Failure, Fail, NewFails, component_vars
  <2>2. QED BY <2>1 DEF Stopped
<1>3. CASE ComponentStep
  <2>1. CASE Start
    BY <2>1 DEF Stopped, Start
  <2>2. ASSUME UNCHANGED <<disciplined, state, worker>>, component' # "join" PROVE Stopped'
    BY <2>2 DEF Stopped
  <2>3. ASSUME NEW jobs, Submit(jobs) PROVE Stopped'
    BY <2>2, <2>3 DEF Submit
  <2>4. CASE Extend \/ Write \/ Flush \/ TakeBack
    BY <2>2, <2>4 DEF Extend, Write, Flush, TakeBack
  <2>5. CASE Stop
    BY <2>5 DEF Stopped, Stop
  <2>6. CASE Join
    BY <2>6 DEF Stopped, Join
  <2>7. QED BY <1>3, <2>1, <2>3, <2>4, <2>5, <2>6 DEF ComponentStep, Component, Queue, Drain
<1>4. CASE UNCHANGED vars \/ \E n \in held : Release(n)
  <2>1. UNCHANGED <<disciplined, state, worker, component>>
    BY <1>4 DEF Release, vars, c2_vars, component_vars
  <2>2. QED BY <2>1 DEF Stopped
<1>5. QED BY <1>1, <1>2, <1>3, <1>4 DEF Next

LEMMA InitIInv == Init => IInv
<1> SUFFICES ASSUME Init PROVE IInv
  OBVIOUS
<1>1. /\ decoded = <<>> /\ work_queue = <<>> /\ submission = <<>> /\ job = NoJob
      /\ num_jobs = 0 /\ awaiting_job_event = 0 /\ component = "idle" /\ worker = "none"
  BY DEF Init, C2Init
<1>2. 1..Len(<<>>) = {} /\ <<>> \o <<>> = <<>>
  BY EmptySeq
<1>3. All = <<>> /\ Line = <<>>
  BY <1>1, <1>2 DEF All, Line, InHand
<1>4. Session
  BY <1>2, <1>3 DEF Session
<1>5. OneBatch(submission)
  BY <1>1, <1>2 DEF OneBatch
<1>6. Batches(Line) <= awaiting_job_event + Writing + Awake
  <2>1. Writing = 0 /\ Awake = 0 /\ Batches(Line) = 0
    BY <1>1, <1>3, NoBatches DEF Writing, Awake
  <2>2. QED BY <1>1, <2>1
<1>7. Wakes
  BY <1>5, <1>6 DEF Wakes
<1>8. NoJobLost
  BY <1>1 DEF NoJobLost
<1>9. Stopped
  BY DEF Init, C2Init, Stopped
<1>10. QED BY <1>4, <1>7, <1>8, <1>9, InitShape, InitOrder DEF IInv

LEMMA StepIInv == IInv /\ [Next]_vars => IInv'
BY ShapeStep, OrderStep, SessionStep, WakesStep, StoppedStep, NoJobLostStep DEF IInv

LEMMA IInvIsSafe == IInv => Safety
<1> SUFFICES ASSUME IInv PROVE Safety
  OBVIOUS
<1>1. Shape /\ Order /\ Session /\ Wakes /\ NoJobLost
  BY DEF IInv
<1>2. TypeOK
  BY <1>1, ShapeIsTyped
<1>3. DecodedInOrder
  BY <1>1 DEF Order
<1>4. NoWakeUpLost
  <2> SUFFICES ASSUME worker = "wait", work_queue # <<>>, ~refused
               PROVE  awaiting_job_event > 0 \/ component = "write"
    BY DEF NoWakeUpLost
  <2>1. job = NoJob /\ ~Failed /\ Awake = 0
    BY <1>1 DEF Shape, Own, Failed, Awake
  <2>2. Line = work_queue /\ Line \in Seq(GoodJob) /\ num_jobs \in Nat /\ Numbered(Line, num_jobs)
    BY <1>1, <2>1, LineTypes, LineFirst DEF Shape, Shared
  <2>3. Batches(Line) >= 1 /\ Batches(Line) \in Nat
    BY <2>2, SomeBatches, BatchesType
  <2>4. Batches(Line) <= awaiting_job_event + Writing + Awake
    BY <1>1, <2>1 DEF Wakes
  <2>5. awaiting_job_event \in Nat
    BY <1>1, BudgetType
  <2>6. CASE component # "write"
    <3>1. Writing = 0
      BY <2>6 DEF Writing
    <3>2. QED BY <2>1, <2>3, <2>4, <2>5, <3>1
  <2>7. QED BY <2>6
<1>5. SessionsAreSeparate
  <2> SUFFICES ASSUME disciplined, job # NoJob PROVE job.session = session
    BY DEF SessionsAreSeparate
  <2>1. job \in GoodJob /\ All = <<job>> \o Rest /\ Rest \in Seq(GoodJob)
    BY <1>1, LineTypes
  <2>2. InSession(All)
    BY <1>1 DEF Session, InSession
  <2>3. QED BY <2>1, <2>2, InSessionBehind
<1>6. StopLasts
  BY DEF IInv, Stopped, StopLasts
<1>7. QED BY <1>1, <1>2, <1>3, <1>4, <1>5, <1>6 DEF Safety

(* For every set of works, number of jobs and sessions, batch and pool     *)
(* size: no job is lost between the threads (queue, process_loop, flush,   *)
(* stop), bitstreams are decoded in order and each part once, the worker   *)
(* does not sleep over a job that was not refused, and what a careful      *)
(* component queued in a session is not decoded in another; stop leaves it *)
(* a state it can start from.                                              *)
THEOREM Safe == Spec => []Safety
<1>1. Init => IInv
  BY InitIInv
<1>2. IInv /\ [Next]_vars => IInv'
  BY StepIInv
<1>3. IInv => Safety
  BY IInvIsSafe
<1>4. QED BY <1>1, <1>2, <1>3, PTL DEF Spec
=============================================================================
