------------------------------- MODULE Vp8Parser ------------------------------
(***************************************************************************)
(* The VP8 parser (src/codec/vp8/parser.rs): what it keeps from one frame  *)
(* to the next, and the header it makes of a frame.  A frame is the record *)
(* of its syntax elements; "cut" is the part at which its data ends, if it *)
(* does.  Probabilities are functions of the places that TLC looks at.     *)
(***************************************************************************)
EXTENDS Integers, Sequences, SequencesExt, FiniteSetsExt, TLC

CONSTANTS CoeffPlaces, MvPlaces  (* indices of coeff_prob and of mv_prob   *)

DEFAULT_PROB == 128
KF_MODE_PROBS == <<"kf_y", "kf_uv">>
NK_MODE_PROBS == <<"nk_y", "nk_uv">>
Deltas == 1 .. 4

(* Parser::default(), to which a key frame resets                          *)
NewParser ==
  [segmentation |-> [enabled |-> FALSE, update_map |-> FALSE, update_data |-> FALSE, mode |-> FALSE,
                     quantizer |-> [i \in Deltas |-> 0], lf |-> [i \in Deltas |-> 0], probs |-> 0],
   mb_lf_adjust |-> [enable |-> FALSE, delta_update |-> FALSE,
                     ref_frame_delta |-> [i \in Deltas |-> 0], mb_mode_delta |-> [i \in Deltas |-> 0]],
   coeff_prob |-> [i \in CoeffPlaces |-> DEFAULT_PROB], mv_prob |-> [i \in MvPlaces |-> DEFAULT_PROB],
   mode_probs |-> NK_MODE_PROBS]

(* update_segmentation: values that are not sent are zero.  The            *)
(* probabilities of the map are read with the data only.                   *)
UpdateSegmentation(seg, f) ==
  LET off == [seg EXCEPT !.enabled = FALSE, !.update_map = FALSE, !.update_data = FALSE]
      Sent(values) == values @@ [i \in Deltas |-> 0]
      on == [off EXCEPT !.enabled = TRUE, !.update_map = f.seg.update_map, !.update_data = f.seg.update_data]
  IN CASE ~f.seg.enabled -> off
       [] f.seg.enabled /\ ~f.seg.update_data -> on
       [] OTHER -> [on EXCEPT !.mode = f.seg.mode, !.quantizer = Sent(f.seg.quantizer), !.lf = Sent(f.seg.lf),
                              !.probs = IF f.seg.update_map THEN f.seg.probs ELSE @]

(* parse_mb_lf_adjustments: values that are not sent are kept.             *)
ParseMbLfAdjustments(adj, f) ==
  LET off == [adj EXCEPT !.enable = f.adj.enable, !.delta_update = FALSE]
  IN IF f.adj.enable /\ f.adj.delta_update
       THEN [off EXCEPT !.delta_update = TRUE, !.ref_frame_delta = f.adj.refs @@ @, !.mb_mode_delta = f.adj.modes @@ @]
       ELSE off

(* parse_quant_indices: a delta that is not sent is zero.                  *)
QuantIndices(f) == f.quant @@ [i \in {"y_ac", "y_dc", "y2_dc", "y2_ac", "uv_dc", "uv_ac"} |-> 0]

(* parse_token_prob_update; parse_mv_prob_update: seven bits, doubled, and *)
(* never zero.                                                             *)
TokenProbUpdate(probs, f) == f.coeff @@ probs
MvProbUpdate(probs, f) == [i \in DOMAIN f.mv |-> IF f.mv[i] > 0 THEN 2 * f.mv[i] ELSE 1] @@ probs

(* Which references an inter frame replaces: one that is not refreshed may *)
(* be given a copy of another.                                             *)
References(f) ==
  IF f.key_frame THEN [last |-> TRUE, golden |-> "frame", alternate |-> "frame"]
  ELSE [last |-> f.refresh_last, golden |-> f.golden, alternate |-> f.alternate]

(* compute_partition_sizes: all but the last are given three bytes each,   *)
(* and the last is what remains.                                           *)
Sum(s) == FoldLeft(LAMBDA a, b : a + b, 0, s)
DescribedUpTo(f) == f.first_part_size + 3 * Len(f.partitions)
PartitionsFit(f) == DescribedUpTo(f) <= f.length /\ DescribedUpTo(f) + Sum(f.partitions) <= f.length
PartitionSizes(f) == Append(f.partitions, f.length - DescribedUpTo(f) - Sum(f.partitions))

(* frame_len, with the uncompressed chunk in front                         *)
DataChunkSize(f) == IF f.key_frame THEN 10 ELSE 3
FrameLen(f, sizes) == DataChunkSize(f) + f.first_part_size + 3 * (Len(sizes) - 1) + Sum(sizes)

(* parse_frame, with parse_frame_header: only a frame that says so leaves  *)
(* its probabilities to the ones after it.                                 *)
ParseFrame(p, f) ==
  LET start     == IF f.key_frame THEN NewParser ELSE p
      segmented == [start EXCEPT !.segmentation = UpdateSegmentation(@, f)]
      adjusted  == [segmented EXCEPT !.mb_lf_adjust = ParseMbLfAdjustments(@, f)]
      coeff     == TokenProbUpdate(start.coeff_prob, f)
      mv        == IF f.key_frame THEN start.mv_prob ELSE MvProbUpdate(start.mv_prob, f)
      modes     == IF f.key_frame THEN KF_MODE_PROBS ELSE f.modes @@ start.mode_probs
      kept      == IF ~f.refresh_entropy_probs THEN adjusted
                   ELSE [adjusted EXCEPT !.coeff_prob = coeff, !.mv_prob = mv,
                           !.mode_probs = IF f.key_frame THEN @ ELSE modes]
      header    == [key_frame |-> f.key_frame, references |-> References(f), coeff_prob |-> coeff, mv_prob |-> mv,
                    mode_probs |-> modes, quant_indices |-> QuantIndices(f), partition_size |-> PartitionSizes(f),
                    segmentation |-> adjusted.segmentation, mb_lf_adjust |-> adjusted.mb_lf_adjust]
  IN CASE f.first_part_size > f.length -> [ok |-> FALSE, parser |-> start]
       [] f.first_part_size <= f.length /\ f.cut = "segmentation" -> [ok |-> FALSE, parser |-> start]
       [] f.first_part_size <= f.length /\ f.cut = "quant" -> [ok |-> FALSE, parser |-> adjusted]
       [] OTHER -> IF ~PartitionsFit(f) \/ FrameLen(f, PartitionSizes(f)) > DataChunkSize(f) + f.length
                     THEN [ok |-> FALSE, parser |-> kept]
                     ELSE [ok |-> TRUE, parser |-> kept, header |-> header]
=============================================================================
