------------------------------ MODULE H264Decoder ------------------------------
(***************************************************************************)
(* The H.264 stateless decoder from picture to picture                     *)
(* (src/decoder/stateless/h264.rs), for one sequence parameter set and     *)
(* streams of frames: the decode call that starts a picture first finishes *)
(* the one before (marking, bumping, storing), then infers the frames of a *)
(* gap in frame_num and flushes at an IDR picture.  A picture stands for   *)
(* all its slices.  ready_queue keeps what was added to it; the client of  *)
(* a stateless decoder is in DecoderClient.                                *)
(*                                                                         *)
(* Streams are what an encoder that conforms to the standard may send.     *)
(* Where that depends on what a decoder still holds, it is the standard's  *)
(* decoder (held), not this one, that counts.                              *)
(***************************************************************************)
EXTENDS H264Dpb

CONSTANTS
  NoPicture,
  MaxFrameNum,          (* 2^n, n >= 4 in a stream; a parameter here.      *)
  LongTermIdx,          (* The long-term indices streams use: 0, 1, ...    *)
  MaxPoc,               (* Bound on the POC in a coded video sequence.     *)
  Streams               (* The kinds of streams: see stream.               *)

Picture ==
  [n : Nat, poc : Int, frame_num : 0..(MaxFrameNum - 1), pic_num : Int,
   reference : {"None", "ShortTerm", "LongTerm"}, long_term_frame_idx : Nat,
   is_idr : BOOLEAN, has_mmco_5 : BOOLEAN, nonexisting : BOOLEAN,
   needed_for_output : BOOLEAN]

(* An operation, number op of the standard, and what a slice header says   *)
(* of the marking; idx is -1 for "no long-term frame indices".             *)
Op ==
  [op : {1}, pic_num : Int] \cup [op : {2}, idx : Nat]
    \cup [op : {3}, pic_num : Int, idx : LongTermIdx] \cup [op : {4}, idx : LongTermIdx \cup {-1}]
    \cup [op : {5}] \cup [op : {6}, idx : LongTermIdx]
Marking == [long_term_reference_flag : BOOLEAN, adaptive : BOOLEAN, ops : Seq(Op)]
CurrentPicture == [pic : Picture, marking : Marking]

Limits == [max_num_pics : Nat \ {0}, max_num_ref_frames : Nat, max_num_reorder_frames : Nat,
           gaps_in_frame_num_value_allowed_flag : BOOLEAN]

(* adaptive: it has memory management operations; loses: pictures of it    *)
(* are lost on the way; max_pictures bounds the model.                     *)
ASSUME H264Assumption ==
  /\ NoPicture \notin CurrentPicture
  /\ MaxFrameNum \in Nat /\ MaxFrameNum > 1
  /\ MaxPoc \in Nat
  /\ LongTermIdx \subseteq Nat
  /\ Streams \subseteq
       [sps : Limits, adaptive : BOOLEAN, loses : BOOLEAN, max_pictures : Nat]
  /\ \A s \in Streams :
       /\ s.sps.max_num_ref_frames <= s.sps.max_num_pics
       /\ s.sps.max_num_reorder_frames <= s.sps.max_num_pics

(* Frame numbers tell the references apart.  MaxFrameNum is at least       *)
(* sixteen and a stream has at most sixteen references; with as many       *)
(* references as numbers the oldest would have the number of the current   *)
(* picture, and be taken for the newest.                                   *)
NumbersSuffice ==
  3 < MaxFrameNum /\ \A s \in Streams : s.sps.max_num_ref_frames < MaxFrameNum

VARIABLES
  resumed,              (* decoding_state is Decoding, and not Reset.      *)
  dpb,
  current_pic,
  prev_ref_frame_num,   (* prev_ref_pic_info.frame_num.                    *)
  ready_queue,          (* History: all that was pushed, by number.        *)
  outcome,              (* Of the last call: only Error matters here.      *)
  stream,               (* Environment, fixed: what kind of stream it is.  *)
  sent,                 (* Environment: the pictures begun, in order.      *)
  encoder_frame_num,    (* Environment: PrevRefFrameNum of the encoder.    *)
  held,                 (* Environment: the pictures the standard's        *)
                        (* decoder has not output yet.                     *)
  seeking,              (* Environment: an IDR picture comes next.         *)
  discarded             (* History: dropped by no_output_of_prior_pics.    *)

codec_vars == <<resumed, dpb, current_pic, prev_ref_frame_num, ready_queue, outcome>>
stream_vars == <<stream, sent, encoder_frame_num, held, seeking, discarded>>
vars == <<codec_vars, stream_vars>>

sps == stream.sps

(* The decoder has just learnt the parameters: set_limits, and Reset.      *)
Init ==
  /\ stream \in Streams
  /\ resumed = FALSE
  /\ dpb = EmptyDpb(sps.max_num_pics, sps.max_num_reorder_frames)
  /\ current_pic = NoPicture
  /\ prev_ref_frame_num = 0
  /\ ready_queue = <<>>
  /\ outcome = "Ok"
  /\ sent = <<>>
  /\ encoder_frame_num = 0
  /\ held = {}
  /\ seeking = TRUE
  /\ discarded = {}

-----------------------------------------------------------------------------
(* Bumping as the standard has it (C.4.5.3), in closed form: of the        *)
(* pictures that wait those last in output order are kept, as many as      *)
(* leave room for the current one.  A picture that is not a reference does *)
(* not push out those after it; it is output itself if there is no room.   *)

Poc(n) == sent[n].poc
ClosedUpwards(kept, waiting) ==
  \A m \in kept : \A n \in waiting : Poc(n) > Poc(m) => n \in kept
LeaveRoom(kept, d) ==
  Cardinality(kept) + Cardinality({i \in References(d) : d.entries[i].n \notin kept})
    < sps.max_num_pics

KeptByStandard(waiting, d, pic) ==
  LET after == IF IsRef(pic) THEN {} ELSE {n \in waiting : Poc(n) > pic.poc}
      fitting == {kept \in SUBSET waiting :
                    after \subseteq kept /\ ClosedUpwards(kept, waiting) /\ LeaveRoom(kept, d)}
  IN IF fitting = {} THEN after ELSE UNION fitting

(* d is the buffer after the marking for pic.                              *)
HeldByStandard(waiting, d, pic) ==
  LET kept == KeptByStandard(IF pic.has_mmco_5 THEN {} ELSE waiting, d, pic) IN
  IF pic.nonexisting \/ ~(IsRef(pic) \/ LeaveRoom(kept, d))
    THEN kept ELSE kept \cup {pic.n}

-----------------------------------------------------------------------------
(* A call works on s: the parts of the state that change as it goes, what  *)
(* it outputs, and whether it has failed.                                  *)
Session ==
  [dpb |-> dpb, prev_ref_frame_num |-> prev_ref_frame_num, out |-> <<>>,
   held |-> held, ok |-> TRUE]

Bumped(s, b) == [s EXCEPT !.dpb = b.dpb, !.out = @ \o b.out]

DrainAll(s) == [Bumped(s, Drain(s.dpb)) EXCEPT !.held = {}]

(* Bump, then put the picture in the buffer, or out if it is not needed.   *)
StoreOrOutput(s, pic) ==
  CASE ~(IsRef(pic) \/ HasEmptyFrameBuffer(s.dpb)) -> [s EXCEPT !.out = Append(@, pic.n)]
    [] IsRef(pic) /\ IsFull(s.dpb) -> [s EXCEPT !.ok = FALSE]
    [] OTHER -> [s EXCEPT !.dpb = StorePicture(@, pic)]

BumpAndStore(s, pic) ==
  StoreOrOutput([Bumped(s, BumpAsNeeded(s.dpb, pic)) EXCEPT
                   !.held = HeldByStandard(@, s.dpb, pic)], pic)

(* A reference is marked first: m is what reference_pic_marking made of it *)
(* and of the buffer.                                                      *)
FinishReference(s, m) ==
  CASE ~m.ok -> [s EXCEPT !.dpb = m.dpb, !.ok = FALSE]
    [] m.ok /\ ~m.pic.has_mmco_5 ->
         BumpAndStore([s EXCEPT !.dpb = m.dpb, !.prev_ref_frame_num = m.pic.frame_num], m.pic)
    [] m.ok /\ m.pic.has_mmco_5 ->
         BumpAndStore(DrainAll([s EXCEPT !.dpb = m.dpb, !.prev_ref_frame_num = m.pic.frame_num]),
                      m.pic)

FinishPicture(s, cur) ==
  IF IsRef(cur.pic)
    THEN FinishReference(s, ReferencePicMarking(s.dpb, cur.pic, cur.marking,
                                                sps.max_num_ref_frames))
    ELSE BumpAndStore(s, cur.pic)

Finished ==
  IF current_pic = NoPicture THEN Session ELSE FinishPicture(Session, current_pic)

(* The picture of a header, and one that stands for a lost one.            *)
NewPicture(h) ==
  [n |-> Len(sent) + 1, poc |-> h.poc, frame_num |-> h.frame_num, pic_num |-> h.frame_num,
   reference |-> IF h.ref THEN "ShortTerm" ELSE "None", long_term_frame_idx |-> 0,
   is_idr |-> h.idr, has_mmco_5 |-> FALSE, nonexisting |-> FALSE,
   needed_for_output |-> FALSE]
NonExisting(frame_num) ==
  [n |-> 0, poc |-> 0, frame_num |-> frame_num, pic_num |-> frame_num,
   reference |-> "ShortTerm", long_term_frame_idx |-> 0,
   is_idr |-> FALSE, has_mmco_5 |-> FALSE, nonexisting |-> TRUE,
   needed_for_output |-> FALSE]

(* handle_frame_num_gap: one picture, and all of them, up to one for which *)
(* there is no room.                                                       *)
InferPicture(s, frame_num) ==
  IF ~s.ok
    THEN s
    ELSE BumpAndStore([s EXCEPT !.dpb =
                         SlidingWindowMarking(UpdatePicNums(@, frame_num, MaxFrameNum),
                                              sps.max_num_ref_frames)],
                      NonExisting(frame_num))

Missing(prev, frame_num) == (frame_num - prev - 1) % MaxFrameNum
InferMissing(s, missing) ==
  LET after[k \in 0..missing] ==
        IF k = 0 THEN s
                 ELSE InferPicture(after[k - 1], (s.prev_ref_frame_num + k) % MaxFrameNum)
  IN after[missing]

HandleFrameNumGap(s, frame_num) ==
  CASE DOMAIN s.dpb.entries = {} -> s
    [] DOMAIN s.dpb.entries # {} /\ ~sps.gaps_in_frame_num_value_allowed_flag ->
         [s EXCEPT !.ok = FALSE]
    [] OTHER -> InferMissing(s, Missing(s.prev_ref_frame_num, frame_num))

HandleAnyGap(s, frame_num) ==
  IF frame_num \in {s.prev_ref_frame_num, (s.prev_ref_frame_num + 1) % MaxFrameNum}
    THEN s ELSE HandleFrameNumGap(s, frame_num)

(* What an IDR picture does with the pictures before it.                   *)
LeaveSequence(s, h) ==
  CASE ~s.ok \/ ~h.idr -> s
    [] s.ok /\ h.idr /\ h.no_output_of_prior_pics_flag ->
         [s EXCEPT !.dpb = Clear(@), !.held = {}]
    [] s.ok /\ h.idr /\ ~h.no_output_of_prior_pics_flag -> DrainAll(s)

Renumber(s, frame_num) ==
  IF s.ok THEN [s EXCEPT !.dpb = UpdatePicNums(@, frame_num, MaxFrameNum)] ELSE s

(* The state a new picture is decoded in.                                  *)
BeginPicture(s, h) ==
  Renumber(LeaveSequence(HandleAnyGap([s EXCEPT !.prev_ref_frame_num = IF h.idr THEN 0 ELSE @],
                                      h.frame_num), h),
           h.frame_num)

-----------------------------------------------------------------------------
(* What comes next in the stream.                                          *)

Sequence == IF sent = <<>> THEN 0 ELSE sent[Len(sent)].seq
Sliding == [long_term_reference_flag |-> FALSE, adaptive |-> FALSE, ops |-> <<>>]
Idr(flag) == [Sliding EXCEPT !.long_term_reference_flag = flag]

(* The operations that make sense, given the buffer.                       *)
Ops(d) ==
  [op : {1}, pic_num : {d.entries[i].pic_num : i \in ShortTerms(d)}]
    \cup [op : {2}, idx : {d.entries[i].long_term_frame_idx : i \in LongTerms(d)}]
    \cup [op : {3}, pic_num : {d.entries[i].pic_num : i \in ShortTerms(d)}, idx : LongTermIdx]
    \cup [op : {4}, idx : LongTermIdx \cup {-1}]
    \cup [op : {5}]
    \cup [op : {6}, idx : LongTermIdx]

Markings(d) ==
  {Sliding} \cup
    IF stream.adaptive
      THEN {[Sliding EXCEPT !.adaptive = TRUE, !.ops = ops] :
              ops \in {<<>>} \cup {<<op>> : op \in Ops(d)}}
      ELSE {}

IdrHeaders ==
  [idr : {TRUE}, ref : {TRUE}, frame_num : {0}, poc : {0}, marking : {Idr(FALSE), Idr(stream.adaptive)},
   no_output_of_prior_pics_flag : BOOLEAN]

(* The encoder numbers a picture after its last reference, which may be    *)
(* lost, and gives each a picture order count of its own.                  *)
Skips == IF stream.loses THEN 0..2 ELSE {0}
NewPocs ==
  (1..MaxPoc) \ {Poc(n) : n \in {n \in DOMAIN sent : sent[n].seq = Sequence}}
HeadersWith(s, ref, frame_num) ==
  [idr : {FALSE}, ref : {ref}, poc : NewPocs, frame_num : {frame_num},
   marking : IF ref THEN Markings(UpdatePicNums(s.dpb, frame_num, MaxFrameNum)) ELSE {Sliding},
   no_output_of_prior_pics_flag : {FALSE}]
NextHeaders(s) ==
  UNION {HeadersWith(s, ref, (encoder_frame_num + 1 + skip) % MaxFrameNum) :
           ref \in BOOLEAN, skip \in Skips}

(* The marking keeps to the number of references the stream declares.      *)
(* Its operations find their pictures, unless these were lost.             *)
(* Nothing that comes after the picture in output order has been output,   *)
(* nor is it to make room for the picture.                                 *)
Window == IF sps.max_num_ref_frames = 0 THEN 1 ELSE sps.max_num_ref_frames
Conforms(s, h) ==
  LET pic == NewPicture(h)
      m == IF h.ref THEN ReferencePicMarking(s.dpb, pic, h.marking, sps.max_num_ref_frames)
                    ELSE [dpb |-> s.dpb, pic |-> pic, ok |-> TRUE]
      kept == KeptByStandard(s.held, m.dpb, m.pic)
  IN /\ h.ref => IF m.ok THEN NumRefFrames(m.dpb) < Window ELSE stream.loses
     /\ \A n \in (1..Len(sent)) \ (IF m.pic.has_mmco_5 THEN s.held ELSE kept) :
          sent[n].seq = Sequence => Poc(n) < h.poc

Follows(s, h) == ~h.idr => resumed /\ ~seeking /\ Conforms(BeginPicture(s, h), h)

Sends(h) ==
  LET renews == h.idr \/ \E i \in DOMAIN h.marking.ops : h.marking.ops[i].op = 5 IN
  /\ sent' = Append(sent, [seq |-> IF renews THEN Sequence + 1 ELSE Sequence,
                           poc |-> IF renews THEN 0 ELSE h.poc, ref |-> h.ref])
  /\ encoder_frame_num' = CASE renews -> 0
                            [] ~renews /\ h.ref -> h.frame_num
                            [] OTHER -> (h.frame_num - 1) % MaxFrameNum

-----------------------------------------------------------------------------
(* The calls.                                                              *)

Keep(s) ==
  /\ dpb' = s.dpb
  /\ prev_ref_frame_num' = s.prev_ref_frame_num
  /\ ready_queue' = ready_queue \o s.out
  /\ held' = s.held

Running == outcome = "Ok" /\ Len(sent) < stream.max_pictures

(* decode, of the first slice of a picture; s is how the picture before    *)
(* was finished.                                                           *)
DecodePicture(s, h) ==
  /\ Running /\ s.ok
  /\ Follows(s, h)
  /\ BeginPicture(s, h).ok
  /\ Keep(BeginPicture(s, h))
  /\ current_pic' = [pic |-> NewPicture(h), marking |-> h.marking]
  /\ resumed' = TRUE
  /\ discarded' = IF h.idr /\ h.no_output_of_prior_pics_flag
                    THEN discarded \cup {s.dpb.entries[i].n : i \in Bumpable(s.dpb)}
                    ELSE discarded
  /\ Sends(h)
  /\ seeking' = FALSE
  /\ UNCHANGED <<outcome, stream>>

(* new_picture gets no frame from the client: the picture before has been  *)
(* finished by then, and is not there any more when the slice comes again. *)
NoOutputBuffer(s, h) ==
  /\ Running /\ s.ok
  /\ Follows(s, h)
  /\ Keep(s)
  /\ current_pic' = NoPicture
  /\ resumed' = TRUE
  /\ UNCHANGED <<outcome, stream, sent, encoder_frame_num, seeking, discarded>>

(* A gap in a stream that must not have one.                               *)
GapFails(s, h) ==
  /\ Running /\ s.ok
  /\ Follows(s, h)
  /\ ~BeginPicture(s, h).ok
  /\ Keep(BeginPicture(s, h))
  /\ current_pic' = NoPicture
  /\ outcome' = "Error"
  /\ UNCHANGED <<resumed, stream, sent, encoder_frame_num, seeking, discarded>>

(* The picture before cannot be finished: the call fails, decode or flush. *)
FinishFails(s) ==
  /\ outcome = "Ok" /\ ~s.ok
  /\ Keep(s)
  /\ current_pic' = NoPicture
  /\ outcome' = "Error"
  /\ UNCHANGED <<resumed, stream, sent, encoder_frame_num, seeking, discarded>>

(* Any other picture is skipped as long as decoding has not resumed.       *)
Flush(s) ==
  /\ outcome = "Ok" /\ s.ok
  /\ Keep(DrainAll(s))
  /\ current_pic' = NoPicture
  /\ resumed' = FALSE
  /\ seeking' = TRUE
  /\ UNCHANGED <<outcome, stream, sent, encoder_frame_num, discarded>>

Next ==
  \E s \in {Finished} :
    \/ \E h \in IdrHeaders \cup NextHeaders(s) :
         DecodePicture(s, h) \/ NoOutputBuffer(s, h) \/ GapFails(s, h)
    \/ FinishFails(s)
    \/ Flush(s)

Spec == Init /\ [][Next]_vars

-----------------------------------------------------------------------------
TypeOK ==
  /\ resumed \in BOOLEAN
  /\ dpb.stored \in Nat
  /\ DOMAIN dpb.entries \subseteq 1..dpb.stored
  /\ \A i \in DOMAIN dpb.entries : dpb.entries[i] \in Picture
  /\ dpb.max_num_pics = sps.max_num_pics
  /\ dpb.max_num_reorder_frames \in 0..sps.max_num_pics
  /\ current_pic \in CurrentPicture \cup {NoPicture}
  /\ prev_ref_frame_num \in 0..(MaxFrameNum - 1)
  /\ ready_queue \in Seq(1..Len(sent))
  /\ outcome \in {"Ok", "Error"}
  /\ stream \in Streams
  /\ encoder_frame_num \in 0..(MaxFrameNum - 1)
  /\ held \subseteq 1..Len(sent)
  /\ discarded \subseteq 1..Len(sent)

IsCurrent(n) == current_pic # NoPicture /\ current_pic.pic.n = n
Waiting == {dpb.entries[i].n : i \in Bumpable(dpb)}

(* Every picture is being decoded, or waits in the buffer, or was dropped  *)
(* because an IDR picture asked for it, or is output once; and none that   *)
(* does not exist is output (finish_picture, drain, bump_as_needed).       *)
EveryPictureOnce ==
  outcome = "Ok" =>
    \A n \in 1..Len(sent) :
      LET times == Cardinality({k \in DOMAIN ready_queue : ready_queue[k] = n}) IN
      times = (IF IsCurrent(n) \/ n \in Waiting \cup discarded THEN 0 ELSE 1)

(* What is output is in output order: all of a coded video sequence before *)
(* the next, and within it by increasing picture order count.  With memory *)
(* management operations it is not: a picture they leave without use keeps *)
(* its place in the buffer, and another one is output too early for it.    *)
OutputInOrder ==
  ~stream.adaptive =>
    \A k \in 1..(Len(ready_queue) - 1) :
      LET a == sent[ready_queue[k]] b == sent[ready_queue[k + 1]] IN
      a.seq < b.seq \/ (a.seq = b.seq /\ a.poc < b.poc)

(* What waits for output is what waits in the standard's decoder: nothing  *)
(* is output before it must be, however often a call was refused or output *)
(* was pushed out by the frames of a gap (needs_bumping, bump_as_needed).  *)
BumpsAsTheStandard ==
  ~stream.adaptive /\ outcome = "Ok" => Waiting = held

(* "For a reference decoded picture, the 'bumping' process is invoked      *)
(* repeatedly until there is an empty frame buffer, by which point it is   *)
(* added to the DPB" (finish_picture): nothing fails for a full buffer; or *)
(* for anything but the loss of pictures.  This does not hold of streams   *)
(* with memory management operations: see the README.                      *)
RoomIsMade ==
  outcome = "Error" =>
    stream.loses /\ (stream.adaptive \/ ~sps.gaps_in_frame_num_value_allowed_flag)

(* So it is in streams without memory management operations.               *)
RoomIsMadeBySliding == ~stream.adaptive => RoomIsMade

(* The buffer and the queue account for every picture, and one always      *)
(* finds its place (finish_picture, bump_as_needed, drain).                *)
Safety == TypeOK /\ EveryPictureOnce /\ RoomIsMadeBySliding

(* The sliding window holds the newest references, through frame_num       *)
(* wrap-around, bumping and refused calls (sliding_window_marking).        *)
WindowHoldsNewest ==
  ~stream.adaptive /\ ~stream.loses =>
    LET finished == {n \in 1..Len(sent) : sent[n].ref /\ sent[n].seq = Sequence /\ ~IsCurrent(n)}
        newest == {n \in finished : Cardinality({m \in finished : m >= n}) <= Window}
    IN ~seeking =>
         {dpb.entries[i].n : i \in References(dpb)} = newest

(* With the frames inferred for lost ones, the window has no hole and ends *)
(* just before the current picture (handle_frame_num_gap).  It may be      *)
(* pushed on by frames inferred a second time, when the picture after the  *)
(* gap is not a reference.                                                 *)
WindowHasNoHole ==
  ~stream.adaptive /\ outcome = "Ok" /\ (\A n \in 1..Len(sent) : sent[n].ref) =>
    LET last == IF current_pic = NoPicture THEN prev_ref_frame_num
                                           ELSE current_pic.pic.frame_num - 1
        size == NumRefFrames(dpb)
    IN /\ size <= Window
       /\ {dpb.entries[i].frame_num : i \in References(dpb)}
            = {(last - k) % MaxFrameNum : k \in 0..(size - 1)}

(* No two references have the same long-term index, and there are never    *)
(* more references than the stream has declared (mmco_op_1 to mmco_op_6),  *)
(* unless pictures are lost and all those left are long-term ones: the     *)
(* sliding window cannot make room among these for the inferred frames.    *)
LongTermIndicesDiffer ==
  outcome = "Ok" =>
    /\ ~(stream.adaptive /\ stream.loses) => NumRefFrames(dpb) <= Window
    /\ \A i, j \in LongTerms(dpb) :
         dpb.entries[i].long_term_frame_idx = dpb.entries[j].long_term_frame_idx => i = j

(* The pictures marked as references are those the standard marks, by      *)
(* sliding window, over gaps, and by memory management operations.         *)
ReferencesAsMarked == WindowHoldsNewest /\ WindowHasNoHole /\ LongTermIndicesDiffer
=============================================================================
