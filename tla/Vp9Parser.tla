------------------------------- MODULE Vp9Parser ------------------------------
(***************************************************************************)
(* The VP9 parser (src/codec/vp9/parser.rs): what it keeps from one frame  *)
(* to the next, the header it makes of a frame, and what the decoder       *)
(* derives of it for each segment.  A frame is the record of its syntax    *)
(* elements; "cut" is the part at which its data ends, if it does.         *)
(***************************************************************************)
EXTENDS Integers, Sequences, SequencesExt, FiniteSetsExt, Functions, TLC

CONSTANTS Slots,    (* 0 .. REF_FRAMES - 1                                 *)
          Segments  (* 0 .. MAX_SEGMENTS - 1                               *)

MAX_FRAMES_IN_SUPERFRAME == 8
MIN_TILE_WIDTH_B64 == 4
MAX_TILE_WIDTH_B64 == 64
MAX_LOOP_FILTER == 63
INTRA_FRAME == 0
RefDeltas == 0 .. 3
ModeDeltas == 0 .. 1
Features == {"alt_q", "alt_l", "ref_frame", "skip"}

Clamped(v, low, high) == Max({low, Min({v, high})})

(* Parser::default()                                                        *)
DefaultColor == [bit_depth |-> 8, space |-> "unknown", range |-> "studio", subsampling |-> <<FALSE, FALSE>>]
DefaultLoopFilter ==
  [level |-> 0, delta_enabled |-> FALSE, delta_update |-> FALSE, updated |-> <<{}, {}>>,
   ref_deltas |-> [r \in RefDeltas |-> 0], mode_deltas |-> [m \in ModeDeltas |-> 0]]
NoFeatures == [x \in Segments \X Features |-> [enabled |-> FALSE, data |-> 0]]
DefaultSegmentation ==
  [enabled |-> FALSE, update_map |-> FALSE, probs |-> 0, temporal_update |-> FALSE, update_data |-> FALSE,
   abs_or_delta_update |-> FALSE, features |-> NoFeatures]
NewParser ==
  [color |-> DefaultColor, lf |-> DefaultLoopFilter, seg |-> DefaultSegmentation,
   sizes |-> [s \in Slots |-> <<0, 0>>]]

-----------------------------------------------------------------------------
(* The parts of a header, in the order they are read                       *)

IsIntra(f) == f.key_frame \/ f.intra_only

(* parse_color_config: a stream of sRGB is of full range, and of the       *)
(* profiles with a choice it has every colour sample.                      *)
ParseColorConfig(f) ==
  [bit_depth |-> IF f.profile >= 2 THEN f.color.bit_depth ELSE 8, space |-> f.color.space,
   range |-> IF f.color.space = "srgb" THEN "full" ELSE f.color.range,
   subsampling |-> CASE f.color.space = "srgb" -> <<FALSE, FALSE>>
                     [] f.color.space # "srgb" /\ f.profile \in {1, 3} -> f.color.subsampling
                     [] OTHER -> <<TRUE, TRUE>>]

(* What the parser keeps of the colours, and what a header says of them:   *)
(* an intra-only frame of profile 0 leaves the range out of both.          *)
KeptColor(p, f) ==
  IF f.key_frame \/ (f.intra_only /\ f.profile # 0) THEN ParseColorConfig(f)
  ELSE IF f.intra_only THEN [bit_depth |-> 8, space |-> "bt601", range |-> p.color.range, subsampling |-> <<TRUE, TRUE>>]
  ELSE p.color
HeaderColor(p, f) ==
  IF f.intra_only /\ f.profile = 0 THEN [KeptColor(p, f) EXCEPT !.range = "studio"] ELSE KeptColor(p, f)

(* parse_frame_size, and parse_frame_size_with_refs                        *)
FrameSize(p, f) == IF ~IsIntra(f) /\ f.found_ref # 0 THEN p.sizes[f.ref_frame_idx[f.found_ref]] ELSE f.size
RenderSize(p, f) == IF f.render_size = <<>> THEN FrameSize(p, f) ELSE f.render_size

(* setup_past_independence                                                 *)
PastIndependent(p) ==
  [p EXCEPT !.seg.features = NoFeatures, !.seg.abs_or_delta_update = FALSE, !.lf.delta_enabled = TRUE,
            !.lf.ref_deltas = (0 :> 1) @@ (1 :> 0) @@ (2 :> -1) @@ (3 :> -1),
            !.lf.mode_deltas = [m \in ModeDeltas |-> 0]]

(* Mutant: the adjustments by mode are kept.                               *)
SetupKeepingModes(p, f) ==
  IF IsIntra(f) \/ f.error_resilient_mode
  THEN [PastIndependent(p) EXCEPT !.lf.mode_deltas = p.lf.mode_deltas] ELSE p

SetupPastIndependence(p, f) ==
  IF IsIntra(f) \/ f.error_resilient_mode THEN PastIndependent(p) ELSE p

(* parse_loop_filter_params: what is not read keeps its value.             *)
ParseLoopFilter(lf, f) ==
  LET level == [lf EXCEPT !.level = f.lf.level, !.delta_enabled = f.lf.delta_enabled]
  IN IF ~f.lf.delta_enabled THEN level
     ELSE IF ~f.lf.delta_update THEN [level EXCEPT !.delta_update = FALSE]
     ELSE [level EXCEPT !.delta_update = TRUE, !.updated = <<DOMAIN f.lf.ref_deltas, DOMAIN f.lf.mode_deltas>>,
             !.ref_deltas = f.lf.ref_deltas @@ @, !.mode_deltas = f.lf.mode_deltas @@ @]

(* read_bits_signed extends the sign of a field that has a sign bit of its *)
(* own after it, if it is signed at all.                                   *)
FeatureBits == [alt_q |-> 8, alt_l |-> 6, ref_frame |-> 2, skip |-> 0]
FeatureValue(feature, v) ==
  LET n == FeatureBits[feature]
      extended == IF n > 0 /\ v.magnitude >= 2^(n - 1) THEN v.magnitude - 2^n ELSE v.magnitude
  IN IF v.negative /\ feature \in {"alt_q", "alt_l"} THEN -extended ELSE extended

(* parse_segmentation_params: a feature that is switched off keeps its     *)
(* data, and so does everything while segmentation is off.                 *)
ParseSegmentation(seg, f) ==
  LET off == [seg EXCEPT !.enabled = FALSE, !.update_map = FALSE, !.update_data = FALSE]
      map == IF ~f.seg.update_map THEN [off EXCEPT !.enabled = TRUE]
             ELSE [off EXCEPT !.enabled = TRUE, !.update_map = TRUE, !.probs = f.seg.probs,
                              !.temporal_update = f.seg.temporal_update]
      Feature(x) == IF x \in DOMAIN f.seg.features
                      THEN [enabled |-> TRUE, data |-> FeatureValue(x[2], f.seg.features[x])]
                      ELSE [seg.features[x] EXCEPT !.enabled = FALSE]
  IN CASE ~f.seg.enabled -> off
       [] f.seg.enabled /\ ~f.seg.update_data -> map
       [] OTHER -> [map EXCEPT !.update_data = TRUE, !.abs_or_delta_update = f.seg.abs_or_delta_update,
                               !.features = [x \in Segments \X Features |-> Feature(x)]]

(* parse_tile_info: from as few columns as the widest tiles leave, one     *)
(* more bit at a time, to as many as the narrowest do.                     *)
SbCols(width) == ((width + 7) \div 8 + 7) \div 8
MinLog2TileCols(sb64_cols) == Min({n \in 0 .. 10 : MAX_TILE_WIDTH_B64 * 2^n >= sb64_cols})
MaxLog2TileCols(sb64_cols) == Min({n \in 1 .. 10 : sb64_cols \div 2^n < MIN_TILE_WIDTH_B64}) - 1
TileColsLog2(sb64_cols, increments) ==
  LET least == MinLog2TileCols(sb64_cols)
  IN Max({least, Min({least + increments, MaxLog2TileCols(sb64_cols)})})

(* parse_quantization_params                                               *)
Lossless(f) == \A q \in {f.quant.base_q_idx, f.quant.y_dc, f.quant.uv_dc, f.quant.uv_ac} : q = 0

-----------------------------------------------------------------------------
(* parse_frame_header: the header is made last, and the slots are given    *)
(* its size; a frame whose data ends before leaves what was read so far.   *)
ParseFrameHeader(p, f) ==
  LET colored   == [p EXCEPT !.color = KeptColor(p, f)]
      started   == SetupPastIndependence(colored, f)
      filtered  == [started EXCEPT !.lf = ParseLoopFilter(@, f)]
      segmented == [filtered EXCEPT !.seg = ParseSegmentation(@, f)]
      size      == FrameSize(p, f)
      refresh   == IF f.key_frame THEN Slots ELSE f.refresh_frame_flags
      header    == [show_existing_frame |-> FALSE, frame_type |-> IF f.key_frame THEN "key" ELSE "inter",
                    color |-> HeaderColor(p, f), size |-> size, render_size |-> RenderSize(p, f),
                    refresh_frame_flags |-> refresh, lf |-> segmented.lf, seg |-> segmented.seg,
                    quant |-> f.quant, lossless |-> Lossless(f),
                    refresh_frame_context |-> ~f.error_resilient_mode /\ f.refresh_frame_context,
                    tile_cols_log2 |-> TileColsLog2(SbCols(size[1]), f.tile_increments)]
  IN IF f.show_existing_frame
       THEN [ok |-> TRUE, parser |-> p, header |-> [show_existing_frame |-> TRUE, slot |-> f.slot]]
     ELSE CASE f.cut = "size" -> [ok |-> FALSE, parser |-> colored]
            [] f.cut = "loop_filter" -> [ok |-> FALSE, parser |-> started]
            [] f.cut = "segmentation" -> [ok |-> FALSE, parser |-> filtered]
            [] f.cut = "tiles" -> [ok |-> FALSE, parser |-> segmented]
            [] OTHER -> [ok |-> TRUE, header |-> header,
                         parser |-> [segmented EXCEPT
                                       !.sizes = [s \in Slots |-> IF s \in refresh THEN size ELSE @[s]]]]

(* parse_superframe_hdr: without an index that begins as it ends the chunk *)
(* is one frame.                                                           *)
FramesInSuperframe(c) == IF c.index = "good" THEN c.frames ELSE <<Head(c.frames)>>

(* parse_chunk: the first frame that fails ends it.                         *)
ParseChunk(p, c) ==
  LET Next(r, f) ==
        LET one == ParseFrameHeader(r.parser, f)
        IN CASE ~r.ok -> r
             [] r.ok /\ one.ok -> [one EXCEPT !.header = Append(r.header, @)]
             [] OTHER -> [ok |-> FALSE, parser |-> one.parser, header |-> <<>>]
      TooMany == c.index = "good" /\ Len(c.frames) > MAX_FRAMES_IN_SUPERFRAME
  IN FoldLeft(Next, [ok |-> ~TooMany, parser |-> p, header |-> <<>>], FramesInSuperframe(c))

-----------------------------------------------------------------------------
(* Segmentation::update_segmentation                                       *)

Active(h, x) == h.seg.enabled /\ h.seg.features[x].enabled

(* get_qindex, and the entries of the quantizer tables (of the bit depth)  *)
(* that get_dc_quant and get_ac_quant take                                 *)
QIndex(h, s) ==
  LET x == <<s, "alt_q">>
      data == h.seg.features[x].data
  IN IF ~Active(h, x) THEN h.quant.base_q_idx
     ELSE Clamped(IF h.seg.abs_or_delta_update THEN data ELSE data + h.quant.base_q_idx, 0, 255)
DcQuant(h, s, luma) ==
  <<h.color.bit_depth, Clamped(QIndex(h, s) + (IF luma THEN h.quant.y_dc ELSE h.quant.uv_dc), 0, 255)>>
AcQuant(h, s, luma) ==
  <<h.color.bit_depth, Clamped(QIndex(h, s) + (IF luma THEN 0 ELSE h.quant.uv_ac), 0, 255)>>

(* The levels of the loop filter by reference and mode.  An intra block    *)
(* has only mode 0: its other entry keeps what it was.                     *)
LevelLookup(before, h, s) ==
  LET x == <<s, "alt_l">>
      data == h.seg.features[x].data
      base == CASE ~Active(h, x) -> h.lf.level
                [] Active(h, x) /\ h.seg.abs_or_delta_update -> data
                [] OTHER -> h.lf.level + data
      lvl_seg == Clamped(base, 0, MAX_LOOP_FILTER)
      scale == 2^(h.lf.level \div 32)
      Adjusted(r, m) ==
        CASE r # INTRA_FRAME -> Clamped(lvl_seg + (h.lf.ref_deltas[r] + h.lf.mode_deltas[m]) * scale, 0, MAX_LOOP_FILTER)
          [] r = INTRA_FRAME /\ m = 0 -> Clamped(lvl_seg + h.lf.ref_deltas[r] * scale, 0, MAX_LOOP_FILTER)
          [] OTHER -> before[<<r, m>>]
  IN [e \in RefDeltas \X ModeDeltas |->
        CASE h.lf.level = 0 -> 0
          [] h.lf.level # 0 /\ ~h.lf.delta_enabled -> lvl_seg
          [] OTHER -> Adjusted(e[1], e[2])]

NoSegmentation ==
  [s \in Segments |-> [lvl_lookup |-> [e \in RefDeltas \X ModeDeltas |-> 0], dc |-> <<>>, ac |-> <<>>,
                       reference_frame |-> 0, enabled |-> {}]]
UpdateSegmentation(segmentation, h) ==
  [s \in Segments |->
     [lvl_lookup |-> LevelLookup(segmentation[s].lvl_lookup, h, s),
      dc |-> <<DcQuant(h, s, TRUE), DcQuant(h, s, FALSE)>>, ac |-> <<AcQuant(h, s, TRUE), AcQuant(h, s, FALSE)>>,
      reference_frame |-> h.seg.features[<<s, "ref_frame">>].data,
      enabled |-> {x \in {"ref_frame", "skip"} : h.seg.features[<<s, x>>].enabled}]]
=============================================================================
