------------------------------ MODULE Vp9Decoder ------------------------------
(***************************************************************************)
(* The VP9 stateless decoder (src/decoder/stateless/vp9.rs).  A chunk is a *)
(* superframe: frames that are decoded, possibly in several sizes (the     *)
(* layers of a scalable stream), and frames that are shown again.  One     *)
(* decode call negotiates for the largest of them, allocates all pictures, *)
(* then handles frame after frame.                                         *)
(***************************************************************************)
EXTENDS DecoderClient

CONSTANTS
  NoHandle,       (* An empty reference slot.                              *)
  Slots,          (* The reference slots: NUM_REF_FRAMES of them.          *)
  RoomFor,        (* Resolution::can_contain, as pairs of formats.         *)
  StreamKinds     (* Subset of BOOLEAN: see ordinary.                      *)

VARIABLES
  reference_frames,
  requested,      (* The number in the last NotEnoughOutputBuffers.        *)
  ordinary,       (* Environment, fixed: only a key frame changes the      *)
                  (* format, and only a key frame follows a seek.          *)
  stream_format,  (* Environment: the format of the stream by now ...      *)
  sought          (* ... and whether the client has sought since.          *)

codec_vars == <<reference_frames, requested>>
stream_vars == <<ordinary, stream_format, sought>>
vars == <<decoder_vars, client_vars, codec_vars, stream_vars>>

(* The headers.  The parser leaves the size of a frame that is shown again *)
(* at zero, and that of an inter frame whose references it has not seen;   *)
(* behind a key frame it has seen them all.                                *)
ShownFrame == [show_existing_frame : {TRUE}, slot : Slots, format : {NoFormat}]
CodedFrame ==
  [show_existing_frame : {FALSE}, key_frame : BOOLEAN, show_frame : BOOLEAN,
   format : Formats \cup {NoFormat}, refresh : SUBSET Slots]

ASSUME Vp9Assumption ==
  /\ NoHandle \notin Handle
  /\ IsFiniteSet(Slots)
  /\ RoomFor \subseteq Formats \X Formats
  /\ \A f \in Formats : <<f, f>> \in RoomFor
  /\ \A f, g, h \in Formats :
       <<f, g>> \in RoomFor /\ <<g, h>> \in RoomFor => <<f, h>> \in RoomFor
  /\ StreamKinds \subseteq BOOLEAN
  /\ Chunks \subseteq Seq(ShownFrame \cup CodedFrame) \ {<<>>}
  /\ \A c \in Chunks : \A i \in DOMAIN c :
       ~c[i].show_existing_frame /\ c[i].key_frame =>
         c[i].refresh = Slots
           /\ \A k \in i..Len(c) : c[k].show_existing_frame \/ c[k].format \in Formats

ReferenceSet == {reference_frames[s] : s \in Slots} \ {NoHandle}
NoReferences == [s \in Slots |-> NoHandle]

Init ==
  /\ DecoderInit
  /\ ClientInit
  /\ reference_frames = NoReferences
  /\ requested = 0
  /\ ordinary \in StreamKinds
  /\ stream_format = NoFormat
  /\ sought = FALSE

-----------------------------------------------------------------------------
(* The largest frame of a superframe, as max_by finds it: of two that      *)
(* compare equal the later one.                                            *)
CanContain(f, g) == g = NoFormat \/ <<f, g>> \in RoomFor
Beats(f, g) == CanContain(f, g) /\ ~CanContain(g, f)

Largest(c) ==
  LET largest[i \in 1..Len(c)] ==
        IF i > 1 /\ Beats(largest[i - 1].format, c[i].format) THEN largest[i - 1] ELSE c[i]
  IN largest[Len(c)]

(* Mutant: the last frame stands for the superframe.                       *)
LastFormat == [c \in Chunks |-> c[Len(c)].format]

(* What each chunk is negotiated for.                                      *)
LargestFormat == [c \in Chunks |-> Largest(c).format]

ChunkFormat(c) == LargestFormat[c]

StartsWithKey(c) == ~c[1].show_existing_frame /\ c[1].key_frame

(* Inter frames have the size of their references, or one of their own.    *)
Follows(c) ==
  \/ StartsWithKey(c)
  \/ /\ \A i \in DOMAIN c : c[i].show_existing_frame
                              \/ (c[i].format = NoFormat <=> stream_format = NoFormat)
     /\ ordinary => ~sought /\ ChunkFormat(c) \in {stream_format, NoFormat}

Submits(c) ==
  /\ MayDecode(c)
  /\ c # chunk => Follows(c)
  /\ stream_format' = IF ChunkFormat(c) = NoFormat THEN stream_format ELSE ChunkFormat(c)
  /\ sought' = FALSE
  /\ UNCHANGED ordinary

-----------------------------------------------------------------------------
(* decode: its outcomes, in the order of its returns.                      *)

(* Mutant: each layer that differs is taken for a new format.              *)
RenegotiatesAny(c) ==
  \E i \in DOMAIN c : c[i].format \notin {NoFormat, accepted_format}

Renegotiates(c) == ChunkFormat(c) \notin {NoFormat, accepted_format}

(* Any frame resumes decoding after a reset.                               *)
DispatchState ==
  IF StateAfterDrcFlush = State("Reset")
    THEN State("Decoding") ELSE StateAfterDrcFlush

StillDraining(c) ==
  /\ Submits(c)
  /\ RefuseUntilDrained
  /\ Refused(c, "CheckEvents")
  /\ UNCHANGED <<decoding_state, ready_queue, ready_poll_fd, accepted_format,
                 backend_format, codec_vars>>

StartDrc(c) ==
  /\ Submits(c)
  /\ Renegotiates(c)
  /\ InState("Decoding")
  /\ reference_frames' = NoReferences
  /\ decoding_state' = State("FlushingForDRC")
  /\ awaiting_format_event' = TRUE
  /\ Refused(c, "CheckEvents")
  /\ UNCHANGED <<ready_queue, ready_poll_fd, accepted_format, backend_format,
                 client_thread, requested>>

NewSequence(c) ==
  /\ Submits(c)
  /\ ~DrcFlushPending
  /\ Renegotiates(c)
  /\ ~InState("Decoding")
  /\ AwaitFormatChange(ChunkFormat(c))
  /\ Refused(c, "CheckEvents")
  /\ UNCHANGED <<ready_queue, ready_poll_fd, accepted_format, client_thread,
                 codec_vars>>

Skip(c) ==
  /\ Submits(c)
  /\ ~Renegotiates(c)
  /\ InState("AwaitingStreamInfo")
  /\ Accepted(0)
  /\ UNCHANGED <<decoder_vars, codec_vars>>

StillAwaitingFormat(c) ==
  /\ Submits(c)
  /\ ~Renegotiates(c)
  /\ InState("AwaitingFormat")
  /\ awaiting_format_event' = TRUE
  /\ Refused(c, "CheckEvents")
  /\ UNCHANGED <<decoding_state, ready_queue, ready_poll_fd, accepted_format,
                 backend_format, client_thread, codec_vars>>

ReadyToDecode(c) ==
  /\ Submits(c)
  /\ ~DrcFlushPending /\ ~Renegotiates(c)
  /\ DispatchState = State("Decoding")
  /\ decoding_state' = State("Decoding")
  /\ UNCHANGED <<awaiting_format_event, accepted_format, backend_format,
                 client_thread>>

(* The frames of c up to the i-th that need a picture.                     *)
Pictures(c, i) == {k \in 1..i : ~c[k].show_existing_frame}
AllPictures(c) == Cardinality(Pictures(c, Len(c)))
Free == FreeFrames(ReferenceSet)

(* Mutant: what is missing is counted from the frame after the failed one. *)
NoOutputBufferOffByOne(c) ==
  /\ ReadyToDecode(c)
  /\ ~CanAlloc(AllPictures(c), ReferenceSet)
  /\ \E i \in DOMAIN c :
       /\ ~c[i].show_existing_frame
       /\ Cardinality(Pictures(c, i)) = Free + 1
       /\ requested' = AllPictures(c) - i
  /\ Refused(c, "NotEnoughOutputBuffers")
  /\ UNCHANGED <<ready_queue, ready_poll_fd, reference_frames>>

(* The pictures allocated so far are dropped.  What is asked for is the    *)
(* number of pictures of the superframe less the number of its frames      *)
(* before the one that got none, frames without a picture included.        *)
NoOutputBuffer(c) ==
  /\ ReadyToDecode(c)
  /\ ~CanAlloc(AllPictures(c), ReferenceSet)
  /\ \E i \in DOMAIN c :
       /\ ~c[i].show_existing_frame
       /\ Cardinality(Pictures(c, i)) = Free + 1
       /\ requested' = AllPictures(c) - (i - 1)
  /\ Refused(c, "NotEnoughOutputBuffers")
  /\ UNCHANGED <<ready_queue, ready_poll_fd, reference_frames>>

(* Mutant: only the frames that are shown are kept as references.          *)
HandleFrameShown(r, f) ==
  LET h == [id |-> num_handles + r.made + 1, format |-> f.format] IN
  CASE ~r.ok -> r
    [] r.ok /\ f.show_existing_frame ->
         IF r.references[f.slot] = NoHandle
           THEN [r EXCEPT !.ok = FALSE]
           ELSE [r EXCEPT !.output = Append(@, r.references[f.slot])]
    [] OTHER ->
         [r EXCEPT !.references = [s \in Slots |-> IF f.show_frame /\ s \in f.refresh
                                                     THEN h ELSE @[s]],
                   !.output = IF f.show_frame THEN Append(@, h) ELSE @,
                   !.made = @ + 1]

(* What a frame does to the references and the output, unless one before   *)
(* it has failed: handle_show_existing_frame, and handle_frame.            *)
HandleFrame(r, f) ==
  LET h == [id |-> num_handles + r.made + 1, format |-> f.format] IN
  CASE ~r.ok -> r
    [] r.ok /\ f.show_existing_frame ->
         IF r.references[f.slot] = NoHandle
           THEN [r EXCEPT !.ok = FALSE]
           ELSE [r EXCEPT !.output = Append(@, r.references[f.slot])]
    [] OTHER ->
         [r EXCEPT !.references = [s \in Slots |-> IF s \in f.refresh THEN h ELSE @[s]],
                   !.output = IF f.show_frame THEN Append(@, h) ELSE @,
                   !.made = @ + 1]

HandleFrames(frames) ==
  LET after[i \in 0..Len(frames)] ==
        IF i = 0
          THEN [references |-> reference_frames, output |-> <<>>, made |-> 0, ok |-> TRUE]
          ELSE HandleFrame(after[i - 1], frames[i])
  IN after[Len(frames)]

Decoded(c) ==
  LET r == HandleFrames(c) IN
  /\ ReadyToDecode(c)
  /\ CanAlloc(AllPictures(c), ReferenceSet)
  /\ reference_frames' = r.references
  /\ PushReady(r.output)
  /\ IF r.ok THEN Accepted(r.made) ELSE Failed
  /\ UNCHANGED requested

(* new_sequence fails; or new_picture does, or submit_picture, after the   *)
(* frames before.                                                          *)
NewSequenceFails(c) ==
  /\ Submits(c)
  /\ ~DrcFlushPending
  /\ Renegotiates(c)
  /\ ~InState("Decoding")
  /\ decoding_state' = StateAfterDrcFlush
  /\ Failed
  /\ UNCHANGED <<ready_queue, ready_poll_fd, awaiting_format_event,
                 accepted_format, backend_format, client_thread, codec_vars>>

PictureFails(c) ==
  \E k \in DOMAIN c :
    LET r == HandleFrames(SubSeq(c, 1, k - 1)) IN
    /\ ReadyToDecode(c)
    /\ ~c[k].show_existing_frame
    /\ k = 1 \/ CanAlloc(AllPictures(c), ReferenceSet)
    /\ r.ok
    /\ reference_frames' = r.references
    /\ PushReady(r.output)
    /\ Failed
    /\ UNCHANGED requested

Decode(c) ==
  \/ StillDraining(c) \/ StartDrc(c) \/ NewSequence(c) \/ Skip(c)
  \/ StillAwaitingFormat(c) \/ NoOutputBuffer(c) \/ Decoded(c)
  \/ NewSequenceFails(c) \/ PictureFails(c)

Flush ==
  /\ profile.flushes_anytime \/ ~InState("AwaitingFormat")
  /\ AbandonChunk
  /\ reference_frames' = NoReferences
  /\ decoding_state' = State("Reset")
  /\ sought' = TRUE
  /\ UNCHANGED <<ready_queue, ready_poll_fd, awaiting_format_event,
                 accepted_format, backend_format, client_thread, requested,
                 ordinary, stream_format>>

NextEvent ==
  /\ TakeFrame \/ TakeFormatChange \/ TakeNothing
  /\ UNCHANGED <<codec_vars, stream_vars>>

Drop(h) == DropFrame(h) /\ UNCHANGED <<codec_vars, stream_vars>>

Next ==
  \/ \E c \in Chunks : Decode(c)
  \/ Flush
  \/ NextEvent
  \/ \E h \in held : Drop(h)

(* The client goes on with what it has begun: it submits a refused chunk   *)
(* again, takes the pending events, and drops every frame it was given.    *)
Fairness ==
  /\ WF_vars(outcome \in Refusals /\ \E c \in Chunks : Decode(c))
  /\ WF_vars(NextEvent)
  /\ WF_vars(\E h \in held : Drop(h))

Spec == Init /\ [][Next]_vars /\ Fairness

-----------------------------------------------------------------------------
TypeOK ==
  /\ DecoderTypeOK(Handle)
  /\ ClientTypeOK
  /\ reference_frames \in [Slots -> Handle \cup {NoHandle}]
  /\ requested \in Int
  /\ ordinary \in StreamKinds
  /\ stream_format \in Formats \cup {NoFormat}
  /\ sought \in BOOLEAN

(* In an ordinary stream, whenever an inter frame could be decoded, every  *)
(* slot holds a frame of the client's current pool, and it fits in its     *)
(* buffer, whatever layer it is (decode, update_references).               *)
ReferencesUsable ==
  ordinary /\ profile.retries_same_chunk /\ InState("Decoding") /\ outcome = "Ok" =>
    \A s \in Slots :
      /\ reference_frames[s] # NoHandle
      /\ reference_frames[s].id > pool_start
      /\ CanContain(accepted_format, reference_frames[s].format)

(* The state is sound, and the references with it (decode, flush,          *)
(* update_references).                                                     *)
Safety == TypeOK /\ ReferencesUsable

(* A step in which decode finds too few buffers.                           *)
Refuses == outcome' = "NotEnoughOutputBuffers" /\ ~attended' /\ (attended \/ outcome = "Ok")

(* With as many more buffers as NotEnoughOutputBuffers asks for, the whole *)
(* superframe can be decoded, and with fewer it cannot (decode); a frame   *)
(* shown again before the one that got no buffer upsets the count.         *)
RequestIsExact ==
  [][Refuses /\ (\A i \in DOMAIN chunk' : ~chunk'[i].show_existing_frame) =>
       requested' = AllPictures(chunk') - Free]_vars

(* The decoder keeps the promises of the trait it implements: the layers   *)
(* of a superframe fit in the buffers of the largest of them, and a frame  *)
(* is shown again in the format it was decoded for only.                   *)
Service == INSTANCE DecoderService WITH
  Fits <- {p \in Formats \X Formats : <<p[2], p[1]>> \in RoomFor},
  output <- delivered \o ready_queue,
  taken <- delivered,
  format <- accepted_format

ServiceSpec == Service!Spec

(* In an ordinary stream a refused superframe is accepted in the end (or   *)
(* the session fails, or it is given up): its smaller layers do not make   *)
(* it negotiate for ever.                                                  *)
RefusedChunkIsAccepted ==
  (ordinary /\ profile.drains_all_events /\ profile.retries_same_chunk /\ outcome \in Refusals)
    ~> (outcome \in {"Ok", "Error"})
=============================================================================
