------------------------------ MODULE Av1Decoder ----------------------------
(***************************************************************************)
(* The AV1 stateless decoder (src/decoder/stateless/av1.rs) over its parser*)
(* (Av1Parser), driven by a client (DecoderClient) that submits a stream   *)
(* unit by unit.  A unit o is [kind, ends, last, layer] and the header it  *)
(* carries: kind is "sequence", "delimiter", "header", "tiles", "frame",   *)
(* "tile_list" or "other"; ends says that it has the last tile of a frame, *)
(* last that the bytes given to decode end with it.  A picture that waits  *)
(* for its tiles is current_pic; the frames that are references are kept   *)
(* twice, as handles here and as facts about them in the parser.           *)
(***************************************************************************)
EXTENDS DecoderClient, Av1Parser

CONSTANTS
  NoHandle,
  SplitsUnits   (* May a frame header follow a picture that still waits,   *)
                (* as where one temporal unit has frames of several units? *)

(* A unit has been split from the bytes; the header of a frame has all its *)
(* fields, and a sequence header stands for its format.                    *)
ASSUME Av1Assumption ==
  /\ SplitsUnits \in BOOLEAN
  /\ NoHandle \notin Handle
  /\ \A o \in Chunks :
       /\ o.kind \in {"sequence", "delimiter", "header", "tiles", "frame", "tile_list", "other"}
       /\ o.ends \in BOOLEAN /\ o.last \in BOOLEAN /\ o.layer \in Nat
       /\ o.kind = "sequence" => o.header.name \in Formats
       /\ o.kind \in {"header", "frame"} =>
            DOMAIN o.header = DOMAIN DefaultFrame /\ o.header.idx \in Slots /\ o.header.show_existing \in {0, 1}

VARIABLES
  parser,
  reference_frames, (* The handle in each slot.                            *)
  current_pic,      (* The picture being decoded: [header, handle].        *)
  highest_layer,    (* highest_spatial_layer.                              *)
  begins,           (* Is the next frame the first of a coded sequence?    *)
  about             (* History: the header of each handle.                 *)

codec_vars == <<parser, reference_frames, current_pic, highest_layer, begins, about>>
vars == <<decoder_vars, client_vars, codec_vars>>

NoReferences == [i \in Slots |-> NoHandle]
NoPicture == <<>>

Init ==
  /\ DecoderInit
  /\ ClientInit
  /\ parser = NewParser
  /\ reference_frames = NoReferences
  /\ current_pic = NoPicture
  /\ highest_layer = -1
  /\ begins = FALSE
  /\ about = <<>>

ReferenceSet ==
  ({reference_frames[i] : i \in Slots} \ {NoHandle})
    \cup (IF current_pic = NoPicture THEN {} ELSE {current_pic.handle})

(* The format of a sequence header is its name; what the decoder compares  *)
(* is the whole header.                                                    *)
ChunkFormat(o) == o.header.name
IsDecodeOp(o) == o.kind \in {"frame", "header", "tiles"}

-----------------------------------------------------------------------------
(* What a unit does to the decoder, as a function of work w: parser,       *)
(* references, current picture, output, handles made; it stops at the first*)
(* step that fails, and what was done before it stays.                     *)

Work(p) ==
  [parser |-> p, references |-> reference_frames, pic |-> current_pic, output |-> <<>>, about |-> about, made |-> 0,
   status |-> "Ok"]

(* Only the highest spatial layer of a layered stream is output.           *)
OutputOf(h, handle) ==
  IF (h.show = 1 \/ h.show_existing = 1) /\ h.layer >= highest_layer THEN <<handle>> ELSE <<>>

(* submit_frame: the references and the output first, the parser last.     *)
SubmitFrame(w) ==
  LET h    == w.pic.header
      keep == IF h.show_existing = 1 /\ h.type # "key" THEN {} ELSE h.refresh
      done == [w EXCEPT !.references = [i \in Slots |-> IF i \in keep THEN w.pic.handle ELSE @[i]],
                        !.output = @ \o OutputOf(h, w.pic.handle), !.pic = NoPicture]
  IN IF w.status # "Ok" \/ w.pic = NoPicture THEN w
     ELSE IF AcceptsUpdate(h) THEN [done EXCEPT !.parser = RefFrameUpdate(@, h)]
     ELSE [done EXCEPT !.status = "Error"]

(* decode_frame_header: a frame of its own needs a buffer.                 *)
PoolLeft(w) == FreeFrames(ReferenceSet) - w.made
DecodeFrameHeader(w, h) ==
  LET handle == [id |-> num_handles + w.made + 1, format |-> accepted_format]
  IN CASE w.status # "Ok" -> w
       [] w.status = "Ok" /\ h.show_existing = 1 ->
            IF w.references[h.idx] = NoHandle THEN [w EXCEPT !.status = "Error"]
            ELSE [w EXCEPT !.pic = [header |-> h, handle |-> w.references[h.idx]]]
       [] w.status = "Ok" /\ h.show_existing = 0 /\ accepted_format = NoFormat -> w
       [] OTHER ->
            IF PoolLeft(w) <= 0 THEN [w EXCEPT !.status = "NotEnoughOutputBuffers"]
            ELSE [w EXCEPT !.pic = [header |-> h, handle |-> handle], !.made = @ + 1, !.about = Append(@, h)]

DecodeTileGroup(w) ==
  CASE w.status # "Ok" -> w
    [] w.status = "Ok" /\ (w.pic = NoPicture \/ w.pic.header.show_existing = 1) -> [w EXCEPT !.status = "Error"]
    [] OTHER -> w

(* The header and the tiles of unit o, as far as it has them.  What the    *)
(* header of a unit is parsed with is what the frames before it left: that *)
(* is so for the frames of "frame" units, which are complete in their call.*)
OwnHeader(o, h) == With(h, [layer |-> o.layer])
DecodeUnit(o) ==
  LET fh    == ParseFrameHeader(parser, o.header)
      both  == [Work(ParseTileGroup(fh.parser, o.ends)) EXCEPT !.status = IF fh.ok /\ accepted_format # NoFormat THEN "Ok" ELSE "Error"]
      head  == [Work(fh.parser) EXCEPT !.status = IF fh.ok THEN "Ok" ELSE "Error"]
  IN CASE o.kind = "frame" ->
            SubmitFrame(DecodeTileGroup(DecodeFrameHeader(SubmitFrame(both), OwnHeader(o, fh.header))))
       [] o.kind = "header" -> DecodeFrameHeader(SubmitFrame(head), OwnHeader(o, fh.header))
       [] o.kind = "tiles" -> DecodeTileGroup(Work(ParseTileGroup(parser, o.ends)))
       [] o.kind = "delimiter" -> Work(ParseDelimiter(parser))
       [] o.kind = "tile_list" -> [Work(parser) EXCEPT !.status = "Error"]
       [] OTHER -> Work(parser)

(* The last picture is submitted at the end of the bytes.                  *)
EndOfBytes(w, o) == IF o.last THEN SubmitFrame(w) ELSE w

-----------------------------------------------------------------------------
(* The decode call.                                                        *)

(* A frame header that begins another picture while one waits for the end  *)
(* of the bytes is left to streams that split units.  The first frame of a *)
(* sequence is a key frame that is shown (7.5 of the AV1 specification);   *)
(* no frame's tiles are missing then, nor where a "frame" unit comes, as   *)
(* only a "header" unit may repeat a header (6.8.1); a temporal unit ends  *)
(* with the bytes it is given in.                                          *)
Submits(o) ==
  /\ begins /\ o.kind \in {"header", "frame"} =>
       ShownKey(o.header) /\ o.header.show_existing = 0 /\ ~parser.seen
  /\ o.kind = "frame" /\ outcome = "Ok" => ~parser.seen
  /\ MayDecode(o)
  /\ ~SplitsUnits /\ o.kind \in {"header", "frame"} => current_pic = NoPicture
  /\ o.kind = "delimiter" /\ InState("Decoding") => current_pic = NoPicture

(* After a reset a copy of the parser looks for a key frame.               *)
KeyFrameFound(o) ==
  o.kind \in {"frame", "header"} /\ ParseFrameHeader(parser, o.header).ok
    /\ ParseFrameHeader(parser, o.header).header.type = "key"
ResetFails(o) == o.kind \in {"frame", "header"} /\ ~ParseFrameHeader(parser, o.header).ok

Skip(o) ==
  /\ Submits(o) /\ IsDecodeOp(o)
  /\ \/ InState("AwaitingStreamInfo")
     \/ InState("Reset") /\ ~KeyFrameFound(o) /\ ~ResetFails(o)
  /\ Accepted(0)
  /\ UNCHANGED <<decoder_vars, codec_vars>>

SkipFails(o) ==
  /\ Submits(o) /\ IsDecodeOp(o) /\ InState("Reset") /\ ResetFails(o)
  /\ Failed
  /\ UNCHANGED <<decoder_vars, codec_vars>>

StillAwaitingFormat(o) ==
  /\ Submits(o) /\ IsDecodeOp(o) /\ InState("AwaitingFormat")
  /\ awaiting_format_event' = TRUE
  /\ Refused(o, "CheckEvents")
  /\ UNCHANGED <<decoding_state, ready_queue, ready_poll_fd, accepted_format, backend_format, client_thread, codec_vars>>

(* A sequence header is taken in every state.                              *)
Differs(o) == InState("AwaitingStreamInfo") \/ ChunkFormat(o) # accepted_format
(* Mutant: whether a picture waits is not looked at.                       *)
NewSequencePending(o) ==
  LET r == ParseSequence(parser, o.header)
  IN /\ Submits(o) /\ o.kind = "sequence" /\ r.ok /\ Differs(o)
     /\ parser' = r.parser
     /\ highest_layer' = HighestSpatialLayer(r.parser)
     /\ begins' = TRUE
     /\ AwaitFormatChange(ChunkFormat(o))
     /\ Accepted(0)
     /\ UNCHANGED <<ready_queue, ready_poll_fd, accepted_format, client_thread, reference_frames, current_pic, about>>

NewSequence(o) ==
  LET r == ParseSequence(parser, o.header)
  IN /\ Submits(o) /\ o.kind = "sequence" /\ r.ok /\ Differs(o) /\ current_pic = NoPicture
     /\ parser' = r.parser
     /\ highest_layer' = HighestSpatialLayer(r.parser)
     /\ begins' = TRUE
     /\ AwaitFormatChange(ChunkFormat(o))
     /\ Accepted(0)
     /\ UNCHANGED <<ready_queue, ready_poll_fd, accepted_format, client_thread, reference_frames, current_pic, about>>

SequenceFails(o) ==
  LET r == ParseSequence(parser, o.header)
  IN /\ Submits(o) /\ o.kind = "sequence" /\ (~r.ok \/ (Differs(o) /\ current_pic # NoPicture))
     /\ parser' = r.parser
     /\ Failed
     /\ UNCHANGED <<decoder_vars, reference_frames, current_pic, highest_layer, begins, about>>

(* change_stream_info fails, after the highest layer is set.               *)
NewSequenceFails(o) ==
  LET r == ParseSequence(parser, o.header)
  IN /\ Submits(o) /\ o.kind = "sequence" /\ r.ok /\ Differs(o) /\ current_pic = NoPicture
     /\ parser' = r.parser
     /\ highest_layer' = HighestSpatialLayer(r.parser)
     /\ begins' = TRUE
     /\ Failed
     /\ UNCHANGED <<decoder_vars, reference_frames, current_pic, about>>

Ready(o) ==
  /\ Submits(o)
  /\ IsDecodeOp(o) => InState("Decoding") \/ (InState("Reset") /\ KeyFrameFound(o))
  /\ o.kind = "sequence" => ParseSequence(parser, o.header).ok /\ ~Differs(o)

Worked(o) ==
  IF o.kind = "sequence" THEN EndOfBytes(Work(ParseSequence(parser, o.header).parser), o)
  ELSE EndOfBytes(DecodeUnit(o), o)

Finish(o, w) ==
  /\ decoding_state' = IF IsDecodeOp(o) THEN State("Decoding") ELSE decoding_state
  /\ parser' = w.parser
  /\ reference_frames' = w.references
  /\ current_pic' = w.pic
  /\ about' = w.about
  /\ begins' = (begins /\ o.kind \notin {"header", "frame"})
  /\ PushReady(w.output)
  /\ CASE w.status = "Ok" -> Accepted(w.made)
       [] w.status = "NotEnoughOutputBuffers" -> Refused(o, w.status)
       [] OTHER -> Failed
  /\ UNCHANGED <<awaiting_format_event, accepted_format, backend_format, client_thread, highest_layer>>

Decoded(o) == Ready(o) /\ Finish(o, Worked(o))

Decode(o) ==
  \/ Skip(o) \/ SkipFails(o) \/ StillAwaitingFormat(o)
  \/ NewSequence(o) \/ SequenceFails(o) \/ NewSequenceFails(o) \/ Decoded(o)

(* flush: the picture that waits is not submitted.                         *)
Flush ==
  /\ profile.flushes_anytime \/ ~InState("AwaitingFormat")
  /\ AbandonChunk
  /\ reference_frames' = NoReferences
  /\ decoding_state' = State("Reset")
  /\ UNCHANGED <<ready_queue, ready_poll_fd, awaiting_format_event, accepted_format, backend_format, client_thread,
                 parser, current_pic, highest_layer, begins, about>>

NextEvent == (TakeFrame \/ TakeFormatChange \/ TakeNothing) /\ UNCHANGED codec_vars
Drop(h) == DropFrame(h) /\ UNCHANGED codec_vars

Next ==
  \/ \E o \in Chunks : Decode(o)
  \/ Flush
  \/ NextEvent
  \/ \E h \in held : Drop(h)

Fairness ==
  /\ WF_vars(outcome \in Refusals /\ \E o \in Chunks : Decode(o))
  /\ WF_vars(NextEvent)
  /\ WF_vars(\E h \in held : Drop(h))

Spec == Init /\ [][Next]_vars /\ Fairness

-----------------------------------------------------------------------------
(* The two accounts of the references agree: a slot that holds a frame is  *)
(* described by the header of that frame, in its size, type, identifier    *)
(* and, but for a key frame that was shown again, its order hint           *)
(* (submit_frame, ref_frame_update).                                       *)
SlotsDescribeFrames ==
  outcome # "Error" /\ current_pic = NoPicture =>
    \A i \in Slots :
      reference_frames[i] # NoHandle =>
        LET h    == about[reference_frames[i].id]
            slot == parser.slots[i]
        IN /\ \A f \in SizeFields \cup {"type", "id"} : slot[f] = h[f]
           /\ slot.valid => slot.hint \in {h.order_hint} \cup (IF h.type = "key" THEN {0} ELSE {})

(* A unit that was refused because there was no buffer for its picture can *)
(* be decoded once there is: what the refused call did to the parser does  *)
(* not turn the second call into an error, in a stream that does not number*)
(* its frames, if the frame is not one that may not refresh what it does   *)
(* (parse_frame_header_obu, decode_frame_header).                          *)
MayRefresh(fh) == fh.ok => AcceptsUpdate(fh.header)
RetryIsHarmless ==
  [][/\ outcome = "NotEnoughOutputBuffers" /\ parser.seq.ids = 0
     /\ MayRefresh(ParseFrameHeader(parser, chunk.header))
     /\ Decode(chunk)
     => outcome' # "Error"]_vars

(* The decoder keeps the promises of the trait it implements.              *)
Service == INSTANCE DecoderService WITH
  Fits <- {<<f, f>> : f \in Formats},
  output <- delivered \o ready_queue,
  taken <- delivered,
  format <- accepted_format

ServiceSpec == Service!Spec

(* A frame header is parsed with what every frame before it left in the    *)
(* slots: none is parsed while a picture has yet to be submitted.  This    *)
(* does not hold of clients that split units: see the README.              *)
HeadersFollowTheirReferences ==
  [][parser'.last # parser.last \/ parser'.id # parser.id => current_pic = NoPicture]_vars
=============================================================================
