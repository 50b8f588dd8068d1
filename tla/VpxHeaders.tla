------------------------------ MODULE VpxHeaders ------------------------------
(***************************************************************************)
(* A VP8 or VP9 stream read by two parsers: the decoder's, which has seen  *)
(* every chunk, the refused ones more than once (decode parses a chunk     *)
(* before it looks at its state, and the client submits it again), and one *)
(* that has begun with the last key frame and reads every chunk once.      *)
(***************************************************************************)
EXTENDS Integers, Sequences

CONSTANTS
  Vp8Frames, Vp9Chunks,          (* what the stream may have next          *)
  CoeffPlaces, MvPlaces, Slots, Segments,
  MaxChunks,                     (* bound: the length of a stream, and ... *)
  RefusesSuperframes             (* ... are chunks of several frames ever  *)
                                 (* refused?                               *)

VARIABLES
  codec,   (* "vp8" or "vp9", for the whole stream                         *)
  own,     (* the parser that joined: [joined, parser, segmentation]       *)
  active,  (* the decoder: [parser, segmentation, chunks]                  *)
  unit     (* what is read: [kind, chunk, header, own], in both views      *)

vars == <<codec, own, active, unit>>

Vp8 == INSTANCE Vp8Parser
Vp9 == INSTANCE Vp9Parser

NewParser == IF codec = "vp8" THEN Vp8!NewParser ELSE Vp9!NewParser
Chunks == IF codec = "vp8" THEN Vp8Frames ELSE Vp9Chunks

Init ==
  /\ codec \in {"vp8", "vp9"}
  /\ own = [joined |-> FALSE, parser |-> NewParser, segmentation |-> Vp9!NoSegmentation]
  /\ active = [parser |-> NewParser, segmentation |-> Vp9!NoSegmentation, chunks |-> 0]
  /\ unit = [kind |-> "none"]

Parse(p, c) == IF codec = "vp8" THEN Vp8!ParseFrame(p, c) ELSE Vp9!ParseChunk(p, c)

StartsWithKey(c) ==
  IF codec = "vp8" THEN c.key_frame ELSE ~c.frames[1].show_existing_frame /\ c.frames[1].key_frame

\* handle_frame of the VP9 decoder, for every frame that is not shown again
Handled(segmentation, r) ==
  IF codec = "vp8" \/ ~r.ok THEN segmentation
  ELSE Vp9!FoldLeft(LAMBDA s, h : IF h.show_existing_frame THEN s ELSE Vp9!UpdateSegmentation(s, h),
                    segmentation, r.header)

----------------------------------------------------------------------------
\* The chunk is decoded, or fails in the parser: a parser that joins does so
\* at a key frame that is decoded.
Take(c, mine, joins, theirs) ==
  /\ unit' = [kind |-> IF mine.ok THEN "read" ELSE "failed", chunk |-> c, mine |-> mine, theirs |-> theirs]
  /\ active' = [parser |-> mine.parser, segmentation |-> Handled(active.segmentation, mine),
                chunks |-> active.chunks + 1]
  /\ own' = [joined |-> own.joined \/ joins, parser |-> theirs.parser,
             segmentation |-> Handled(IF joins THEN Vp9!NoSegmentation ELSE own.segmentation, theirs)]
  /\ UNCHANGED codec
Join(c, mine, joins) == Take(c, mine, joins, Parse(IF joins THEN NewParser ELSE own.parser, c))
Read(c) == LET mine == Parse(active.parser, c) IN Join(c, mine, StartsWithKey(c) /\ mine.ok)

\* The chunk is refused once it is parsed (CheckEvents, NotEnoughOutputBuffers).
Refuse(c) ==
  LET mine == Parse(active.parser, c)
  IN /\ mine.ok
     /\ IF codec = "vp9" /\ Len(c.frames) > 1 THEN RefusesSuperframes ELSE TRUE
     /\ active' = [active EXCEPT !.parser = mine.parser]
     /\ unit' = [kind |-> "refused", chunk |-> c]
     /\ UNCHANGED <<codec, own>>

\* A chunk that was refused is the next one.
Next ==
  /\ active.chunks < MaxChunks
  /\ \E c \in IF unit.kind = "refused" THEN {unit.chunk} ELSE Chunks :
       Read(c) \/ (unit.kind # "refused" /\ Refuse(c))

Spec == Init /\ [][Next]_vars

----------------------------------------------------------------------------
\* What a header of VP9 says: elements that it did not update are no part of it.
Vp9Says(h) ==
  IF h.show_existing_frame THEN h
  ELSE [h EXCEPT !.lf.delta_update = @ /\ h.lf.delta_enabled,
                 !.lf.updated = IF h.lf.delta_enabled /\ h.lf.delta_update THEN @ ELSE <<>>,
                 !.seg.probs = IF h.seg.update_map THEN @ ELSE 0,
                 !.seg.temporal_update = @ /\ h.seg.update_map]
Said(r) == IF codec = "vp8" THEN r.header ELSE [i \in DOMAIN r.header |-> Vp9Says(r.header[i])]

\* An intra block has only mode 0.
LevelsUsed(segmentation) ==
  [s \in Segments |-> [segmentation[s] EXCEPT !.lvl_lookup[<<Vp9!INTRA_FRAME, 1>>] = 0]]

\* A header depends on the chunks since the last key frame only, and on each
\* of them once: neither what the stream was before (parse_frame of VP8,
\* setup_past_independence of VP9), nor a chunk that failed, nor one that was
\* refused and parsed again, leaves a trace in it or in what the decoder
\* derives from it (update_segmentation).
StreamDecidesHeaders ==
  own.joined /\ unit.kind = "read" =>
    /\ unit.theirs.ok
    /\ Said(unit.mine) = Said(unit.theirs)
    /\ LevelsUsed(active.segmentation) = LevelsUsed(own.segmentation)

\* The partitions of a VP8 frame that is taken follow one another to its end
\* (compute_partition_sizes); the tiles of a VP9 frame (parse_tile_info) are
\* at most 64 superblocks wide, and if there are several each has at least 4.
PartsCoverFrame ==
  unit.kind = "read" =>
    IF codec = "vp8"
    THEN Vp8!FrameLen(unit.chunk, unit.mine.header.partition_size) = Vp8!DataChunkSize(unit.chunk) + unit.chunk.length
    ELSE \A i \in DOMAIN unit.mine.header :
           LET h == unit.mine.header[i]
               cols == Vp9!SbCols(h.size[1])
           IN h.show_existing_frame \/ h.size[1] = 0
                \/ /\ cols <= Vp9!MAX_TILE_WIDTH_B64 * 2^h.tile_cols_log2
                   /\ h.tile_cols_log2 = 0 \/ Vp9!MIN_TILE_WIDTH_B64 * 2^h.tile_cols_log2 <= cols
=============================================================================
