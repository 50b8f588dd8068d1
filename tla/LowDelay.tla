------------------------------- MODULE LowDelay -------------------------------
(***************************************************************************)
(* The predictor of the stateless encoders                                 *)
(* (src/encoder/stateless/predictor.rs) with the four codecs' delegates    *)
(* (src/encoder/stateless/<codec>/predictor.rs).  It keeps the frames that *)
(* wait for a reference, the reconstructed frames that may serve as one,   *)
(* a counter of the frames of the intra period, and the tunings that are   *)
(* to be applied at a later frame.                                         *)
(*                                                                         *)
(* next_request is taken a frame at a time: RequestKeyframe is a turn of   *)
(* its loop that goes on, the other three leave it.                        *)
(*                                                                         *)
(* A request carries what its frame depends on: the references, the number *)
(* the codec gives the frame (H.264 frame_num, H.265 picture order count,  *)
(* AV1 order hint), the tunings, and for H.264 the parameter sets.  The    *)
(* rest of the headers is data.                                            *)
(***************************************************************************)
EXTENDS Integers, Sequences, FiniteSets, SequencesExt

CONSTANTS
  Codecs,     (* A subset of {"H264", "H265", "VP9", "AV1"}.               *)
  Limits,     (* The lengths of the intra period.                          *)
  Values,     (* Tunings of the stream's RateControl variant that validate *)
              (* accepts: with others tune changes nothing.                *)
  Initial     (* config.initial_tunings                                    *)

ASSUME LowDelayAssumption ==
  /\ Codecs \subseteq {"H264", "H265", "VP9", "AV1"}
  /\ Limits \subseteq Nat \ {0}
  /\ Initial \in Values

VARIABLES
  codec, limit,
  queue,          (* Frames to encode: [id, force_keyframe, asked].        *)
  references,     (* Reconstructed frames: [id, order].                    *)
  counter,
  poc_base,       (* H.265: the counter of the last key frame.             *)
  sets,           (* H.264: number of the tunings in the parameter sets.   *)
  update_params_sets,
  tunings,        (* [value, n]: n counts the calls of tune.               *)
  tunings_queue,  (* [when, tunings]                                       *)
  requests,       (* What next_request has collected.                      *)
  latest,         (* History: the request made last, ...                   *)
  last_key,       (* ... the last key frame, ...                           *)
  written         (* ... the parameter sets written last.                  *)

config == <<codec, limit>>
tuning_vars == <<tunings, tunings_queue>>
history == <<latest, last_key, written>>
predictor_vars ==
  <<config, queue, references, counter, poc_base, sets, update_params_sets,
    tuning_vars, requests, history>>

(* The tunings a frame was given to encode with are history.               *)
Tuning == [value : Values, n : Nat]
Frame == [id : Nat, force_keyframe : BOOLEAN, asked : Tuning]
Reference == [id : Nat, order : Nat]
Requests ==
  [id : Nat, force_keyframe : BOOLEAN, key : BOOLEAN, order : Nat,
   refs : Seq(Reference), tunings : Tuning, asked : Tuning, sets : Nat,
   writes : BOOLEAN]

NoRequest ==
  [id |-> 0, force_keyframe |-> FALSE, key |-> FALSE, order |-> 0,
   refs |-> <<>>, tunings |-> [value |-> Initial, n |-> 0],
   asked |-> [value |-> Initial, n |-> 0], sets |-> 0, writes |-> FALSE]

LowDelayInit ==
  /\ codec \in Codecs
  /\ limit \in Limits
  /\ queue = <<>>
  /\ references = <<>>
  /\ counter = 0
  /\ poc_base = 0
  /\ sets = 0
  /\ update_params_sets = FALSE
  /\ tunings = [value |-> Initial, n |-> 0]
  /\ tunings_queue = <<>>
  /\ requests = <<>>
  /\ latest = NoRequest
  /\ last_key = 0
  /\ written = 0

-----------------------------------------------------------------------------
(* pop_tunings                                                             *)

(* Mutant: a frame late.                                                   *)
NumDueLate ==
  Cardinality({n \in DOMAIN tunings_queue :
                 \A i \in 1..n : tunings_queue[i].when < counter})

(* The number of entries, from the front, whose time has come.             *)
NumDue ==
  Cardinality({n \in DOMAIN tunings_queue :
                 \A i \in 1..n : tunings_queue[i].when <= counter})

Current == IF NumDue = 0 THEN tunings ELSE tunings_queue[NumDue].tunings

PopTunings ==
  /\ tunings' = Current
  /\ tunings_queue' = SubSeq(tunings_queue, NumDue + 1, Len(tunings_queue))

(* H.264: apply_tunings begins a new sequence, and so does a key frame,    *)
(* which is always an IDR.  The next request writes the new sets.  They    *)
(* are built from self.tunings, which pop_tunings sets after apply_tunings *)
(* has returned: only a key frame builds them from the current tunings.    *)
NewSequence(key) == codec = "H264" /\ (key \/ NumDue > 0)
Previous == IF NumDue <= 1 THEN tunings ELSE tunings_queue[NumDue - 1].tunings
Sets(key) ==
  IF NewSequence(key) THEN (IF key THEN Current.n ELSE Previous.n) ELSE sets

Writes(key) == NewSequence(key) \/ update_params_sets

-----------------------------------------------------------------------------
(* Mutant: no codec goes back.                                             *)
CounterPosition == counter

(* Where a key frame stands in the intra period: H.264 goes back to the    *)
(* start of the period for a forced one as well.                           *)
KeyframePosition == IF codec = "H264" THEN 0 ELSE counter

(* H.265: a key frame, forced or not, is number 0 of a new sequence.       *)
KeyframeOrder == IF codec = "H265" THEN 0 ELSE KeyframePosition
Order(position) == IF codec = "H265" THEN position - poc_base ELSE position

Request(frame, key, order, refs) ==
  [id |-> frame.id, force_keyframe |-> frame.force_keyframe, key |-> key,
   order |-> order, refs |-> refs, tunings |-> Current, asked |-> frame.asked,
   sets |-> Sets(key), writes |-> Writes(key)]

Send(request) ==
  /\ requests' = Append(requests, request)
  /\ latest' = request
  /\ last_key' = IF request.key THEN request.id ELSE last_key
  /\ written' = IF request.writes THEN request.sets ELSE written
  /\ queue' = Tail(queue)
  /\ sets' = Sets(request.key)
  /\ update_params_sets' = FALSE

(* Mutant: the period has no end.                                          *)
WrapNever(position) == position + 1

Wrap(position) == (position + 1) % limit

(* The references an inter frame is given; all are dropped afterwards.     *)
NewestReference == <<references[Len(references)]>>
OldestReference == <<Head(references)>>
Referenced ==
  CASE codec = "H264" -> Reverse(references)
    [] codec = "H265" -> NewestReference
    [] OTHER          -> OldestReference

RequestKeyframe ==
  /\ queue # <<>>
  /\ counter = 0 \/ Head(queue).force_keyframe
  /\ PopTunings
  /\ references' = <<>>
  /\ poc_base' = IF codec = "H265" THEN counter ELSE poc_base
  /\ Send(Request(Head(queue), TRUE, KeyframeOrder, <<>>))
  /\ counter' = Wrap(KeyframePosition)
  /\ UNCHANGED config

(* Mutant: the references stay.                                            *)
RequestInterframeKeeping ==
  /\ queue # <<>>
  /\ counter # 0 /\ ~Head(queue).force_keyframe
  /\ references # <<>>
  /\ PopTunings
  /\ Send(Request(Head(queue), FALSE, Order(counter), Referenced))
  /\ counter' = Wrap(counter)
  /\ UNCHANGED <<config, references, poc_base>>

RequestInterframe ==
  /\ queue # <<>>
  /\ counter # 0 /\ ~Head(queue).force_keyframe
  /\ references # <<>>
  /\ PopTunings
  /\ Send(Request(Head(queue), FALSE, Order(counter), Referenced))
  /\ references' = <<>>
  /\ counter' = Wrap(counter)
  /\ UNCHANGED <<config, poc_base>>

(* Mutant: the frame goes to the back of the queue.                        *)
AwaitReferenceLast ==
  /\ queue # <<>>
  /\ counter # 0 /\ ~Head(queue).force_keyframe
  /\ references = <<>>
  /\ PopTunings
  /\ sets' = Sets(FALSE)
  /\ update_params_sets' = Writes(FALSE)
  /\ queue' = Append(Tail(queue), Head(queue))
  /\ UNCHANGED <<config, references, counter, poc_base, requests, history>>

(* The frame goes back to the front of the queue; the tunings stay.        *)
AwaitReference ==
  /\ queue # <<>>
  /\ counter # 0 /\ ~Head(queue).force_keyframe
  /\ references = <<>>
  /\ PopTunings
  /\ sets' = Sets(FALSE)
  /\ update_params_sets' = Writes(FALSE)
  /\ UNCHANGED <<config, queue, references, counter, poc_base, requests, history>>

QueueEmpty ==
  /\ queue = <<>>
  /\ UNCHANGED predictor_vars

-----------------------------------------------------------------------------
(* The start of new_frame and of reconstructed; next_request follows.      *)
NewFrame(frame) ==
  /\ queue' = Append(queue, frame)
  /\ UNCHANGED <<config, references, counter, poc_base, sets,
                 update_params_sets, tuning_vars, requests, history>>

Reconstructed(reference) ==
  /\ references' = Append(references, reference)
  /\ UNCHANGED <<config, queue, counter, poc_base, sets, update_params_sets,
                 tuning_vars, requests, history>>

(* tune: skipped when the change that is first in the queue, or else the   *)
(* current tunings, are the same.                                          *)
SameAsNext(value) ==
  IF tunings_queue # <<>> THEN Head(tunings_queue).tunings.value = value
                          ELSE tunings.value = value

(* Mutant: the frames that wait are not counted.                           *)
TuneNow(new) ==
  /\ tunings_queue' =
       IF SameAsNext(new.value) THEN tunings_queue
       ELSE Append(tunings_queue, [when |-> counter, tunings |-> new])
  /\ UNCHANGED <<config, queue, references, counter, poc_base, sets,
                 update_params_sets, tunings, requests, history>>

Tune(new) ==
  /\ tunings_queue' =
       IF SameAsNext(new.value) THEN tunings_queue
       ELSE Append(tunings_queue, [when |-> counter + Len(queue), tunings |-> new])
  /\ UNCHANGED <<config, queue, references, counter, poc_base, sets,
                 update_params_sets, tunings, requests, history>>

-----------------------------------------------------------------------------
LowDelayTypeOK ==
  /\ codec \in Codecs
  /\ limit \in Limits
  /\ queue \in Seq(Frame)
  /\ references \in Seq(Reference)
  /\ counter \in 0..(limit - 1)
  /\ poc_base \in Nat
  /\ sets \in Nat
  /\ update_params_sets \in BOOLEAN
  /\ tunings \in Tuning
  /\ tunings_queue \in Seq([when : Nat, tunings : Tuning])
  /\ requests \in Seq(Requests)
  /\ latest \in Requests
  /\ last_key \in Nat
  /\ written \in Nat
=============================================================================
