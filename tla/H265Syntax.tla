----------------------------- MODULE H265Syntax -----------------------------
(***************************************************************************)
(* The headers of an H.265 stream as codec/h265/synthesizer.rs writes them *)
(* (Write...) and as codec/h265/parser.rs reads them (Read..., with the    *)
(* range checks in Accepts... and what an absent element stands for in     *)
(* Parsed...).  Fields keep the names of the structures.  Rows of a        *)
(* scaling list and lists of levels and offsets are cut to what decides    *)
(* the elements that follow; a list field is a sequence from index 1.      *)
(***************************************************************************)
EXTENDS Syntax

(***************************** profile_tier_level **************************)
\* p.idc and the set p.compat of compatibility flags that are set
Matches(p, profiles) == p.idc \in profiles \/ p.compat \cap profiles # {}

RangeFlags ==
  <<"max_12bit", "max_10bit", "max_8bit", "max_422chroma", "max_420chroma",
    "max_monochrome", "intra", "one_picture_only", "lower_bit_rate">>

Compatibility(p) == Each(32, LAMBDA i : El(1, "compatibility", IF i - 1 \in p.compat THEN 1 ELSE 0))
SourceFlags(p) == U(1, p, <<"progressive_source", "interlaced_source", "non_packed", "frame_only">>)

WriteProfile(p) ==
  U(2, p, <<"profile_space">>) \o U(1, p, <<"tier_flag">>) \o U(5, p, <<"idc">>)
    \o Compatibility(p) \o SourceFlags(p)
    \o Either(Matches(p, 4 .. 11),
              U(1, p, RangeFlags)
                \o Either(Matches(p, {5, 9, 10, 11}), U(1, p, <<"max_14bit">>) \o Reserved(33),
                          Reserved(34)),
              Either(Matches(p, {2}), Reserved(7) \o U(1, p, <<"one_picture_only">>) \o Reserved(35),
                     Reserved(43)))
    \o Either(Matches(p, {1, 2, 3, 4, 5, 9, 11}), U(1, p, <<"inbld">>), Reserved(1))

WriteSubLayers(p, subs) ==
  Each(Len(subs), LAMBDA i : U(1, subs[i], <<"profile_present", "level_present">>))
    \o When(subs # <<>>, Each(8 - Len(subs), LAMBDA i : Reserved(2)))
    \o Each(Len(subs), LAMBDA i :
         When(subs[i].profile_present = 1, WriteProfile(p))
           \o When(subs[i].level_present = 1, U(8, subs[i], <<"level_idc">>)))

WriteProfileTierLevel(p, subs) ==
  WriteProfile(p) \o U(8, p, <<"level_idc">>) \o WriteSubLayers(p, subs)

\* The parser spells the conditions out for the general profile ...
ReadProfile(p) ==
  LET constrained == p.idc \in 4 .. 11 \/ p.compat \cap 4 .. 11 # {}
      fourteen    == p.idc \in {5, 9, 10, 11} \/ p.compat \cap {5, 9, 10, 11} # {}
      single      == p.idc = 2 \/ 2 \in p.compat
      inbld       == p.idc \in {1, 2, 3, 4, 5, 9, 11} \/ p.compat \cap {1, 2, 3, 4, 5, 9, 11} # {}
      reserved    == CASE constrained /\ fourteen -> U(1, p, RangeFlags \o <<"max_14bit">>) \o Reserved(33)
                       [] constrained /\ ~fourteen -> U(1, p, RangeFlags) \o Reserved(34)
                       [] ~constrained /\ single -> Reserved(7) \o U(1, p, <<"one_picture_only">>) \o Reserved(35)
                       [] OTHER -> Reserved(43)
  IN U(2, p, <<"profile_space">>) \o U(1, p, <<"tier_flag">>) \o U(5, p, <<"idc">>)
       \o Compatibility(p) \o SourceFlags(p) \o reserved \o Either(inbld, U(1, p, <<"inbld">>), Reserved(1))

\* ... and again, with the same outcome, for the one of each sub-layer.
ReadSubLayers(p, subs) ==
  LET flags == Each(Len(subs), LAMBDA i : U(1, subs[i], <<"profile_present", "level_present">>))
      pad   == IF subs = <<>> THEN <<>> ELSE Each(8 - Len(subs), LAMBDA i : Reserved(2))
      layer(i) == When(subs[i].profile_present = 1, ReadProfile(p))
                    \o When(subs[i].level_present = 1, U(8, subs[i], <<"level_idc">>))
  IN flags \o pad \o Each(Len(subs), layer)

ReadProfileTierLevel(p, subs) ==
  ReadProfile(p) \o U(8, p, <<"level_idc">>) \o ReadSubLayers(p, subs)

(******************************* scaling lists *****************************)
\* Lists by size (0..3) and matrix (0..5, of size 3 only 0 and 3): dc is
\* scaling_list_dc_coef_minus8 and coefs the coefficients, two of which
\* stand for 16 or 64.
Matrices(size) == IF size = 3 THEN <<0, 3>> ELSE <<0, 1, 2, 3, 4, 5>>

\* rem_euclid(256), then into -128..127
Delta(coef, next) == LET d == (coef - next) % 256 IN IF d >= 128 THEN d - 256 ELSE d

WriteList(size, l) ==
  LET start == IF size > 1 THEN l.dc + 8 ELSE 8
      next(i) == IF i = 1 THEN start ELSE l.coefs[i - 1]
  IN El(1, "pred_mode", 1) \o When(size > 1, El(-1, "dc_coef", l.dc))
       \o Each(Len(l.coefs), LAMBDA i : El(-1, "delta_coef", Delta(l.coefs[i], next(i))))

WriteScalingListData(lists) ==
  Each(4, LAMBDA s : Each(Len(Matrices(s - 1)), LAMBDA m : WriteList(s - 1, lists)))

\* The delta from which the parser makes coefficient coef after next
\* Mutant: the difference is not brought into the range of its code.
DeltaUnwrapped(coef, next) == coef - next
DeltaFor(coef, next) == CHOOSE d \in -128 .. 127 : (next + d + 256) % 256 = coef

ReadList(size, l) ==
  LET dc      == IF size > 1 THEN El(-1, "dc_coef", l.dc) ELSE <<>>
      next[i \in 0 .. Len(l.coefs)] ==
        IF i = 0 THEN IF size > 1 THEN l.dc + 8 ELSE 8 ELSE l.coefs[i]
  IN El(1, "pred_mode", 1) \o dc
       \o Each(Len(l.coefs), LAMBDA i : El(-1, "delta_coef", DeltaFor(l.coefs[i], next[i - 1])))

ReadScalingListData(lists) ==
  Each(4, LAMBDA s : Each(IF s = 4 THEN 2 ELSE 6, LAMBDA m : ReadList(s - 1, lists)))

AcceptsScalingLists(lists) == Within(lists.dc, -7, 247)

(************************* short-term reference sets ***********************)
\* A set st is [inter, s0, s1]: s0 and s1 are sequences of [poc, used], the
\* pictures before and after the current one by growing distance.
NoRps == [inter |-> 0, s0 |-> <<>>, s1 |-> <<>>]

\* The writer refuses a predicted set (SynthesizerError::Unsupported).
WriteShortTermRps(st, idx) ==
  LET Gap(s, i, sign) == sign * (s[i].poc - (IF i = 1 THEN 0 ELSE s[i - 1].poc)) - 1
  IN When(idx # 0, El(1, "inter_rps_pred", st.inter))
       \o El(0, "num_negative", Len(st.s0)) \o El(0, "num_positive", Len(st.s1))
       \o Each(Len(st.s0), LAMBDA i : El(0, "delta_s0", Gap(st.s0, i, -1)) \o El(1, "used_s0", st.s0[i].used))
       \o Each(Len(st.s1), LAMBDA i : El(0, "delta_s1", Gap(st.s1, i, 1)) \o El(1, "used_s1", st.s1[i].used))

ReadShortTermRps(st, idx) ==
  LET flag == IF idx # 0 THEN El(1, "inter_rps_pred", st.inter) ELSE <<>>
      below(i) == IF i = 1 THEN -st.s0[1].poc - 1 ELSE st.s0[i - 1].poc - st.s0[i].poc - 1
      above(i) == IF i = 1 THEN st.s1[1].poc - 1 ELSE st.s1[i].poc - st.s1[i - 1].poc - 1
  IN flag \o El(0, "num_negative", Len(st.s0)) \o El(0, "num_positive", Len(st.s1))
       \o Each(Len(st.s0), LAMBDA i : El(0, "delta_s0", below(i)) \o El(1, "used_s0", st.s0[i].used))
       \o Each(Len(st.s1), LAMBDA i : El(0, "delta_s1", above(i)) \o El(1, "used_s1", st.s1[i].used))

\* No more pictures than the buffer of the highest sub-layer holds
AcceptsShortTermRps(sps, st) ==
  /\ Len(st.s0) + Len(st.s1) <= sps.max_dec_pic_buffering_minus1
  /\ \A i \in DOMAIN st.s0 : Within((IF i = 1 THEN 0 ELSE st.s0[i - 1].poc) - st.s0[i].poc - 1, 0, 32767)
  /\ \A i \in DOMAIN st.s1 : Within(st.s1[i].poc - (IF i = 1 THEN 0 ELSE st.s1[i - 1].poc) - 1, 0, 32767)

\* Is a picture at distance poc of the other set before (sign -1) or after
\* (sign 1) the current one?
\* Mutant: the picture itself may be in the set.
MovedOrCurrent(poc, delta, sign) == sign * (poc + delta) >= 0
Moved(poc, delta, sign) == sign * (poc + delta) > 0

\* Equations 7-61 and 7-62: the set predicted from ref by shifting it by
\* delta.  flags[j] is [used, use]: used_by_curr_pic_flag and use_delta_flag
\* of entry j of ref (negative, positive, then the picture itself).
PredictedHalf(ref, delta, flags, sign) ==
  LET neg  == Len(ref.s0)
      pos  == Len(ref.s1)
      back == IF sign < 0 THEN [j \in 1 .. pos |-> [poc |-> ref.s1[pos + 1 - j].poc, at |-> neg + pos + 1 - j]]
                          ELSE [j \in 1 .. neg |-> [poc |-> ref.s0[neg + 1 - j].poc, at |-> neg + 1 - j]]
      fore == IF sign < 0 THEN [j \in 1 .. neg |-> [poc |-> ref.s0[j].poc, at |-> j]]
                          ELSE [j \in 1 .. pos |-> [poc |-> ref.s1[j].poc, at |-> neg + j]]
      all  == back \o <<[poc |-> 0, at |-> neg + pos + 1]>> \o fore
      kept == SelectSeq(all, LAMBDA e : Moved(e.poc, delta, sign) /\ flags[e.at].use = 1)
  IN [i \in DOMAIN kept |-> [poc |-> kept[i].poc + delta, used |-> flags[kept[i].at].used]]

PredictRps(ref, delta, flags) ==
  [inter |-> 1, s0 |-> PredictedHalf(ref, delta, flags, -1), s1 |-> PredictedHalf(ref, delta, flags, 1)]

(********************************** VUI and HRD ****************************)
WriteSublayerHrd(cpbs, sub_pic) ==
  Each(cpbs, LAMBDA i :
    Ue([none |-> 0], <<"bit_rate", "cpb_size">>)
      \o When(sub_pic = 1, Ue([none |-> 0], <<"cpb_size_du", "bit_rate_du">>))
      \o El(1, "cbr_flag", 0))

ReadSublayerHrd(cpbs, sub_pic) ==
  LET entry == El(0, "bit_rate", 0) \o El(0, "cpb_size", 0)
                 \o When(sub_pic = 1, El(0, "cpb_size_du", 0) \o El(0, "bit_rate_du", 0))
                 \o El(1, "cbr_flag", 0)
  IN Each(cpbs, LAMBDA i : entry)

WriteHrdCommon(hrd) ==
  U(1, hrd, <<"nal", "vcl">>)
    \o When(hrd.nal = 1 \/ hrd.vcl = 1,
         U(1, hrd, <<"sub_pic">>)
           \o When(hrd.sub_pic = 1, U(8, hrd, <<"tick_divisor">>) \o U(5, hrd, <<"du_cpb_increment">>)
                     \o U(1, hrd, <<"sub_pic_in_sei">>) \o U(5, hrd, <<"dpb_output_delay_du">>))
           \o U(4, hrd, <<"bit_rate_scale", "cpb_size_scale">>)
           \o When(hrd.sub_pic = 1, U(4, hrd, <<"cpb_size_du_scale">>))
           \o U(5, hrd, <<"initial_cpb", "au_cpb", "dpb_output">>))

WriteHrd(hrd, common) ==
  When(common, WriteHrdCommon(hrd))
    \o Each(Len(hrd.layers), LAMBDA i :
         LET l      == hrd.layers[i]
             within == l.general = 1 \/ l.within = 1
         IN U(1, l, <<"general">>) \o When(l.general = 0, U(1, l, <<"within">>))
              \o Either(within, Ue(l, <<"duration">>), U(1, l, <<"low_delay">>))
              \o When(l.low_delay = 0, Ue(l, <<"cpb_cnt">>))
              \o When(hrd.nal = 1, WriteSublayerHrd(l.cpb_cnt + 1, hrd.sub_pic))
              \o When(hrd.vcl = 1, WriteSublayerHrd(l.cpb_cnt + 1, hrd.sub_pic)))

\* fixed_pic_rate_within_cvs is 1 with fixed_pic_rate_general; low_delay is
\* 0 and cpb_cnt_minus1 0 where they are not read.
ParsedLayer(l) ==
  LET within == IF l.general = 1 THEN 1 ELSE l.within
      low    == IF within = 1 THEN 0 ELSE l.low_delay
  IN [l EXCEPT !.within = within, !.low_delay = low, !.cpb_cnt = IF low = 0 THEN @ ELSE 0]

ReadHrd(hrd, common) ==
  LET present == common /\ (hrd.nal = 1 \/ hrd.vcl = 1)
      layer(i) ==
        LET l == ParsedLayer(hrd.layers[i])
            sub == ReadSublayerHrd(l.cpb_cnt + 1, hrd.sub_pic)
        IN U(1, l, <<"general">>) \o When(l.general = 0, U(1, l, <<"within">>))
             \o (IF l.within = 1 THEN Ue(l, <<"duration">>) ELSE U(1, l, <<"low_delay">>))
             \o When(l.low_delay = 0, Ue(l, <<"cpb_cnt">>))
             \o When(common /\ hrd.nal = 1, sub) \o When(common /\ hrd.vcl = 1, sub)
      du == U(8, hrd, <<"tick_divisor">>) \o U(5, hrd, <<"du_cpb_increment">>)
              \o U(1, hrd, <<"sub_pic_in_sei">>) \o U(5, hrd, <<"dpb_output_delay_du">>)
  IN When(common, U(1, hrd, <<"nal", "vcl">>))
       \o When(present, U(1, hrd, <<"sub_pic">>) \o When(hrd.sub_pic = 1, du)
                          \o U(4, hrd, <<"bit_rate_scale", "cpb_size_scale">>)
                          \o When(hrd.sub_pic = 1, U(4, hrd, <<"cpb_size_du_scale">>))
                          \o U(5, hrd, <<"initial_cpb", "au_cpb", "dpb_output">>))
       \o Each(Len(hrd.layers), layer)

ParsedHrd(hrd) == [hrd EXCEPT !.layers = [i \in DOMAIN @ |-> ParsedLayer(@[i])]]

WriteVuiSignal(vui) ==
  U(1, vui, <<"aspect_ratio_info_present">>)
    \o When(vui.aspect_ratio_info_present = 1,
         U(8, vui, <<"aspect_ratio_idc">>)
           \o When(vui.aspect_ratio_idc = 255, U(16, vui, <<"sar_width", "sar_height">>)))
    \o U(1, vui, <<"overscan_info_present">>)
    \o When(vui.overscan_info_present = 1, U(1, vui, <<"overscan_appropriate">>))
    \o U(1, vui, <<"video_signal_type_present">>)
    \o When(vui.video_signal_type_present = 1,
         U(3, vui, <<"video_format">>) \o U(1, vui, <<"full_range", "colour_description_present">>)
           \o When(vui.colour_description_present = 1, U(8, vui, <<"primaries", "transfer", "matrix">>)))
    \o U(1, vui, <<"chroma_loc_info_present">>)
    \o When(vui.chroma_loc_info_present = 1, Ue(vui, <<"chroma_loc_top", "chroma_loc_bottom">>))

WriteVui(vui) ==
  WriteVuiSignal(vui)
    \o U(1, vui, <<"neutral_chroma", "field_seq", "frame_field_info", "default_display_window">>)
    \o When(vui.default_display_window = 1, Ue(vui, <<"left", "right", "top", "bottom">>))
    \o U(1, vui, <<"timing_info_present">>)
    \o When(vui.timing_info_present = 1,
         U(32, vui, <<"num_units_in_tick", "time_scale">>) \o U(1, vui, <<"poc_proportional">>)
           \o When(vui.poc_proportional = 1, Ue(vui, <<"num_ticks">>))
           \o U(1, vui, <<"hrd_present">>) \o When(vui.hrd_present = 1, WriteHrd(vui.hrd, TRUE)))
    \o U(1, vui, <<"bitstream_restriction">>)
    \o When(vui.bitstream_restriction = 1,
         U(1, vui, <<"tiles_fixed", "mv_over_boundaries", "restricted_lists">>)
           \o Ue(vui, <<"min_segmentation", "max_bytes", "max_bits", "max_mv_h", "max_mv_v">>))

ReadVuiSignal(vui) ==
  LET sar    == IF vui.aspect_ratio_idc = 255 THEN U(16, vui, <<"sar_width", "sar_height">>) ELSE <<>>
      colour == IF vui.colour_description_present = 1 THEN U(8, vui, <<"primaries", "transfer", "matrix">>) ELSE <<>>
      format == U(3, vui, <<"video_format">>) \o U(1, vui, <<"full_range", "colour_description_present">>)
  IN U(1, vui, <<"aspect_ratio_info_present">>)
       \o (IF vui.aspect_ratio_info_present = 1 THEN U(8, vui, <<"aspect_ratio_idc">>) \o sar ELSE <<>>)
       \o U(1, vui, <<"overscan_info_present">>)
       \o (IF vui.overscan_info_present = 1 THEN U(1, vui, <<"overscan_appropriate">>) ELSE <<>>)
       \o U(1, vui, <<"video_signal_type_present">>)
       \o (IF vui.video_signal_type_present = 1 THEN format \o colour ELSE <<>>)
       \o U(1, vui, <<"chroma_loc_info_present">>)
       \o (IF vui.chroma_loc_info_present = 1 THEN Ue(vui, <<"chroma_loc_top", "chroma_loc_bottom">>) ELSE <<>>)

\* Two reads, of 31 bits and of one, make a field of 32.
ReadVui(vui) ==
  LET timing == U(32, vui, <<"num_units_in_tick", "time_scale">>)
      window == Ue(vui, <<"left", "right", "top", "bottom">>)
      ticks  == IF vui.poc_proportional = 1 THEN Ue(vui, <<"num_ticks">>) ELSE <<>>
      hrd    == IF vui.hrd_present = 1 THEN ReadHrd(vui.hrd, TRUE) ELSE <<>>
      limits == U(1, vui, <<"tiles_fixed", "mv_over_boundaries", "restricted_lists">>)
                  \o Ue(vui, <<"min_segmentation", "max_bytes", "max_bits", "max_mv_h", "max_mv_v">>)
  IN ReadVuiSignal(vui)
       \o U(1, vui, <<"neutral_chroma", "field_seq", "frame_field_info", "default_display_window">>)
       \o (IF vui.default_display_window = 1 THEN window ELSE <<>>)
       \o U(1, vui, <<"timing_info_present">>)
       \o (IF vui.timing_info_present = 1
           THEN timing \o U(1, vui, <<"poc_proportional">>) \o ticks \o U(1, vui, <<"hrd_present">>) \o hrd
           ELSE <<>>)
       \o U(1, vui, <<"bitstream_restriction">>)
       \o (IF vui.bitstream_restriction = 1 THEN limits ELSE <<>>)

(************************ video and sequence parameter sets ****************)
\* A flag that has the value 0 in both parsers and writers: an extension
\* neither supports
Absent(f) == El(1, f, 0)

WriteVps(v) ==
  U(4, v, <<"id">>) \o U(1, v, <<"base_internal", "base_available">>) \o U(6, v, <<"max_layers_minus1">>)
    \o U(3, v, <<"max_sub_layers_minus1">>) \o U(1, v, <<"temporal_nesting">>) \o El(16, "reserved_ffff", 65535)
    \o WriteProfileTierLevel(v.profile, v.subs)
    \o U(1, v, <<"ordering_info_present">>)
    \o Each(IF v.ordering_info_present = 1 THEN v.max_sub_layers_minus1 + 1 ELSE 1,
            LAMBDA i : Ue(v, <<"max_dec", "max_reorder", "max_latency">>))
    \o U(6, v, <<"max_layer_id">>) \o Ue(v, <<"num_layer_sets_minus1">>)
    \o Each(v.num_layer_sets_minus1 * (v.max_layer_id + 1), LAMBDA i : El(1, "layer_included", 0))
    \o U(1, v, <<"timing_info_present">>)
    \o When(v.timing_info_present = 1,
         U(32, v, <<"num_units_in_tick", "time_scale">>) \o U(1, v, <<"poc_proportional">>)
           \o When(v.poc_proportional = 1, Ue(v, <<"num_ticks">>))
           \o El(0, "num_hrd", Len(v.hrds))
           \o Each(Len(v.hrds), LAMBDA i :
                El(0, "hrd_layer_set_idx", 0) \o When(i > 1, El(1, "cprms_present", v.hrds[i].cprms))
                  \o WriteHrd(v.hrds[i].hrd, i = 1 \/ v.hrds[i].cprms = 1)))
    \o U(1, v, <<"extension">>)

ReadVps(v) ==
  LET orderings == IF v.ordering_info_present = 1 THEN v.max_sub_layers_minus1 + 1 ELSE 1
      cprms(i)  == IF i = 1 THEN TRUE ELSE v.hrds[i].cprms = 1       \* the default is vec![true]
      flag(i)   == IF i = 1 THEN <<>> ELSE El(1, "cprms_present", v.hrds[i].cprms)
      hrd(i)    == El(0, "hrd_layer_set_idx", 0) \o flag(i) \o ReadHrd(v.hrds[i].hrd, cprms(i))
      ticks     == IF v.poc_proportional = 1 THEN Ue(v, <<"num_ticks">>) ELSE <<>>
  IN U(4, v, <<"id">>) \o U(1, v, <<"base_internal", "base_available">>) \o U(6, v, <<"max_layers_minus1">>)
       \o U(3, v, <<"max_sub_layers_minus1">>) \o U(1, v, <<"temporal_nesting">>) \o El(16, "reserved_ffff", 65535)
       \o ReadProfileTierLevel(v.profile, v.subs) \o U(1, v, <<"ordering_info_present">>)
       \o Each(orderings, LAMBDA i : Ue(v, <<"max_dec", "max_reorder", "max_latency">>))
       \o U(6, v, <<"max_layer_id">>) \o Ue(v, <<"num_layer_sets_minus1">>)
       \o Each(v.num_layer_sets_minus1, LAMBDA i : Each(v.max_layer_id + 1, LAMBDA j : El(1, "layer_included", 0)))
       \o U(1, v, <<"timing_info_present">>)
       \o (IF v.timing_info_present = 1
           THEN U(32, v, <<"num_units_in_tick", "time_scale">>) \o U(1, v, <<"poc_proportional">>) \o ticks
                  \o El(0, "num_hrd", Len(v.hrds)) \o Each(Len(v.hrds), hrd)
           ELSE <<>>)
       \o U(1, v, <<"extension">>)

RangeExtension ==
  <<"ts_rotation", "ts_context", "implicit_rdpcm", "explicit_rdpcm", "extended_precision",
    "intra_smoothing", "high_precision_offsets", "persistent_rice", "cabac_bypass">>
WriteSpsRange(sps) == U(1, sps, RangeExtension)
ReadSpsRange(sps) ==
  U(1, sps, <<"ts_rotation", "ts_context", "implicit_rdpcm", "explicit_rdpcm">>)
    \o U(1, sps, <<"extended_precision", "intra_smoothing", "high_precision_offsets">>)
    \o U(1, sps, <<"persistent_rice", "cabac_bypass">>)

WriteSpsGeometry(sps) ==
  U(4, sps, <<"vps_id">>) \o U(3, sps, <<"max_sub_layers_minus1">>) \o U(1, sps, <<"temporal_nesting">>)
    \o WriteProfileTierLevel(sps.profile, sps.subs)
    \o Ue(sps, <<"id", "chroma_format_idc">>)
    \o When(sps.chroma_format_idc = 3, U(1, sps, <<"separate_colour_plane_flag">>))
    \o Ue(sps, <<"width", "height">>) \o U(1, sps, <<"conformance_window_flag">>)
    \o When(sps.conformance_window_flag = 1, Ue(sps, <<"win_left", "win_right", "win_top", "win_bottom">>))
    \o Ue(sps, <<"bit_depth_luma", "bit_depth_chroma", "log2_max_poc_lsb_minus4">>)
    \o U(1, sps, <<"ordering_info_present">>)
    \o Each(IF sps.ordering_info_present = 1 THEN sps.max_sub_layers_minus1 + 1 ELSE 1,
            LAMBDA i : Ue(sps, <<"max_dec_pic_buffering_minus1", "max_num_reorder_pics", "max_latency">>))
    \o Ue(sps, <<"log2_min_cb_minus3", "log2_diff_cb", "log2_min_tb_minus2", "log2_diff_tb">>)
    \o Ue(sps, <<"hierarchy_inter", "hierarchy_intra">>)

ReadSpsGeometry(sps) ==
  LET plane  == IF sps.chroma_format_idc = 3 THEN U(1, sps, <<"separate_colour_plane_flag">>) ELSE <<>>
      window == Ue(sps, <<"win_left", "win_right", "win_top", "win_bottom">>)
      first  == IF sps.ordering_info_present = 1 THEN 0 ELSE sps.max_sub_layers_minus1
  IN U(4, sps, <<"vps_id">>) \o U(3, sps, <<"max_sub_layers_minus1">>) \o U(1, sps, <<"temporal_nesting">>)
       \o ReadProfileTierLevel(sps.profile, sps.subs)
       \o Ue(sps, <<"id", "chroma_format_idc">>) \o plane
       \o Ue(sps, <<"width", "height">>) \o U(1, sps, <<"conformance_window_flag">>)
       \o (IF sps.conformance_window_flag = 1 THEN window ELSE <<>>)
       \o Ue(sps, <<"bit_depth_luma", "bit_depth_chroma", "log2_max_poc_lsb_minus4">>)
       \o U(1, sps, <<"ordering_info_present">>)
       \o Each(sps.max_sub_layers_minus1 + 1 - first,
               LAMBDA i : Ue(sps, <<"max_dec_pic_buffering_minus1", "max_num_reorder_pics", "max_latency">>))
       \o Ue(sps, <<"log2_min_cb_minus3", "log2_diff_cb", "log2_min_tb_minus2", "log2_diff_tb">>)
       \o Ue(sps, <<"hierarchy_inter", "hierarchy_intra">>)

\* sps.rps are the short-term sets, sps.lt_sps the flags
\* used_by_curr_pic_lt_sps, sps.vui has a field present.
WriteSpsTools(sps) ==
  U(1, sps, <<"scaling_list_enabled">>)
    \o When(sps.scaling_list_enabled = 1,
         U(1, sps, <<"scaling_data_present">>)
           \o When(sps.scaling_data_present = 1, WriteScalingListData(sps.lists)))
    \o U(1, sps, <<"amp", "sao_enabled">>) \o U(1, sps, <<"pcm">>)
    \o When(sps.pcm = 1, U(4, sps, <<"pcm_luma", "pcm_chroma">>) \o Ue(sps, <<"pcm_min", "pcm_diff">>)
                           \o U(1, sps, <<"pcm_loop_filter">>))
    \o El(0, "num_short_term_rps", Len(sps.rps))
    \o Each(Len(sps.rps), LAMBDA i : WriteShortTermRps(sps.rps[i], i - 1))
    \o U(1, sps, <<"long_term_present">>)
    \o When(sps.long_term_present = 1,
         El(0, "num_long_term_sps", Len(sps.lt_sps))
           \o Each(Len(sps.lt_sps), LAMBDA i : El(sps.log2_max_poc_lsb_minus4 + 4, "lt_poc_lsb", 0)
                                                 \o El(1, "lt_used", sps.lt_sps[i])))
    \o U(1, sps, <<"temporal_mvp", "strong_intra">>)
    \o U(1, sps.vui, <<"present">>) \o When(sps.vui.present = 1, WriteVui(sps.vui))

ReadSpsTools(sps) ==
  LET poc_bits == sps.log2_max_poc_lsb_minus4 + 4
      lists == IF sps.scaling_data_present = 1 THEN ReadScalingListData(sps.lists) ELSE <<>>
      pcm == U(4, sps, <<"pcm_luma", "pcm_chroma">>) \o Ue(sps, <<"pcm_min", "pcm_diff">>)
               \o U(1, sps, <<"pcm_loop_filter">>)
      lt(i) == El(poc_bits, "lt_poc_lsb", 0) \o El(1, "lt_used", sps.lt_sps[i])
  IN U(1, sps, <<"scaling_list_enabled">>)
       \o (IF sps.scaling_list_enabled = 1 THEN U(1, sps, <<"scaling_data_present">>) \o lists ELSE <<>>)
       \o U(1, sps, <<"amp", "sao_enabled">>) \o U(1, sps, <<"pcm">>) \o (IF sps.pcm = 1 THEN pcm ELSE <<>>)
       \o El(0, "num_short_term_rps", Len(sps.rps))
       \o Each(Len(sps.rps), LAMBDA i : ReadShortTermRps(sps.rps[i], i - 1))
       \o U(1, sps, <<"long_term_present">>)
       \o (IF sps.long_term_present = 1 THEN El(0, "num_long_term_sps", Len(sps.lt_sps)) \o Each(Len(sps.lt_sps), lt)
           ELSE <<>>)
       \o U(1, sps, <<"temporal_mvp", "strong_intra">>)
       \o U(1, sps.vui, <<"present">>) \o (IF sps.vui.present = 1 THEN ReadVui(sps.vui) ELSE <<>>)

WriteSps(sps) ==
  WriteSpsGeometry(sps) \o WriteSpsTools(sps) \o U(1, sps, <<"extension">>)
    \o When(sps.extension = 1,
         U(1, sps, <<"range_extension">>) \o When(sps.range_extension = 1, WriteSpsRange(sps))
           \o Absent("multilayer") \o Absent("3d") \o U(1, sps, <<"scc_extension">>) \o Reserved(4))

\* The parser leaves sps_extension_4bits unread, at the end of the set.
ReadSps(sps) ==
  ReadSpsGeometry(sps) \o ReadSpsTools(sps) \o U(1, sps, <<"extension">>)
    \o (IF sps.extension = 1
        THEN U(1, sps, <<"range_extension">>)
               \o (IF sps.range_extension = 1 THEN ReadSpsRange(sps) ELSE <<>>)
               \o Absent("multilayer") \o Absent("3d") \o U(1, sps, <<"scc_extension">>)
        ELSE <<>>)

\* Equations 7-10 to 7-17, derived by the parser
MinCbLog2(sps) == sps.log2_min_cb_minus3 + 3
CtbLog2(sps) == MinCbLog2(sps) + sps.log2_diff_cb
MaxTbLog2(sps) == sps.log2_min_tb_minus2 + 2 + sps.log2_diff_tb
WidthInCtbs(sps) == CeilDiv(sps.width, 2^CtbLog2(sps))
HeightInCtbs(sps) == CeilDiv(sps.height, 2^CtbLog2(sps))
PicSizeInCtbs(sps) == WidthInCtbs(sps) * HeightInCtbs(sps)
ChromaArrayType(sps) == IF sps.separate_colour_plane_flag = 1 THEN 0 ELSE sps.chroma_format_idc

AcceptsSps(sps) ==
  /\ sps.chroma_format_idc \in 0 .. 3
  /\ Within(sps.width, 1, 16888) /\ Within(sps.height, 1, 16888)
  /\ Within(sps.log2_max_poc_lsb_minus4, 0, 12)
  /\ sps.max_dec_pic_buffering_minus1 <= 16 /\ sps.max_num_reorder_pics <= sps.max_dec_pic_buffering_minus1
  /\ Within(sps.log2_min_cb_minus3, 0, 3) /\ Within(sps.log2_diff_cb, 0, 6)
  /\ Within(sps.log2_min_tb_minus2, 0, 3) /\ Within(sps.log2_diff_tb, 0, 3)
  /\ MaxTbLog2(sps) <= CtbLog2(sps) /\ MaxTbLog2(sps) <= 5
  /\ Within(sps.hierarchy_inter, 0, 4)
  /\ sps.scaling_list_enabled = 1 /\ sps.scaling_data_present = 1 => AcceptsScalingLists(sps.lists)
  /\ Len(sps.rps) <= 64 /\ \A i \in DOMAIN sps.rps : AcceptsShortTermRps(sps, sps.rps[i])

\* visible_rectangle, as <<left, top, right, bottom>>
SubWidthC(sps) == <<1, 2, 2, 1, 1>>[ChromaArrayType(sps) + 1]
SubHeightC(sps) == <<1, 2, 1, 1, 1>>[ChromaArrayType(sps) + 1]
VisibleRectangle(sps) ==
  IF sps.conformance_window_flag = 0 THEN <<0, 0, sps.width, sps.height>>
  ELSE <<SubWidthC(sps) * sps.win_left, SubHeightC(sps) * sps.win_top,
         sps.width - SubWidthC(sps) * (sps.win_left + sps.win_right),
         sps.height - SubHeightC(sps) * (sps.win_top + sps.win_bottom)>>

(*************************** picture parameter set *************************)
WritePpsRange(pps) ==
  When(pps.transform_skip = 1, Ue(pps, <<"log2_max_ts_size">>))
    \o U(1, pps, <<"cross_component", "chroma_qp_offset_list">>)
    \o When(pps.chroma_qp_offset_list = 1,
         Ue(pps, <<"diff_cu_chroma_qp", "chroma_qp_offset_len">>)
           \o Each(pps.chroma_qp_offset_len + 1, LAMBDA i : Se(pps, <<"cb_list", "cr_list">>)))
    \o Ue(pps, <<"log2_sao_luma", "log2_sao_chroma">>)

ReadPpsRange(pps) ==
  LET size == IF pps.transform_skip = 1 THEN Ue(pps, <<"log2_max_ts_size">>) ELSE <<>>
      list == Ue(pps, <<"diff_cu_chroma_qp", "chroma_qp_offset_len">>)
                \o Each(pps.chroma_qp_offset_len + 1, LAMBDA i : El(-1, "cb_list", 0) \o El(-1, "cr_list", 0))
  IN size \o U(1, pps, <<"cross_component", "chroma_qp_offset_list">>)
       \o (IF pps.chroma_qp_offset_list = 1 THEN list ELSE <<>>) \o Ue(pps, <<"log2_sao_luma", "log2_sao_chroma">>)

\* pps.cols and pps.rows are column_width_minus1 and row_height_minus1 of
\* all tiles but the last.
WritePpsHead(pps) ==
  Ue(pps, <<"id", "sps_id">>) \o U(1, pps, <<"dependent_slices", "output_flag_present">>)
    \o U(3, pps, <<"extra_slice_bits">>) \o U(1, pps, <<"sign_hiding", "cabac_init_present">>)
    \o Ue(pps, <<"l0_default", "l1_default">>) \o Se(pps, <<"init_qp">>)
    \o U(1, pps, <<"constrained_intra", "transform_skip", "cu_qp_delta">>)
    \o When(pps.cu_qp_delta = 1, Ue(pps, <<"diff_cu_qp_delta_depth">>))
    \o Se(pps, <<"cb_qp_offset", "cr_qp_offset">>)
    \o U(1, pps, <<"chroma_qp_offsets_present", "weighted_pred", "weighted_bipred", "transquant_bypass",
                   "tiles", "entropy_sync">>)
    \o When(pps.tiles = 1,
         El(0, "tile_columns", Len(pps.cols)) \o El(0, "tile_rows", Len(pps.rows)) \o U(1, pps, <<"uniform">>)
           \o When(pps.uniform = 0, Each(Len(pps.cols), LAMBDA i : El(0, "column_width", pps.cols[i]))
                                      \o Each(Len(pps.rows), LAMBDA i : El(0, "row_height", pps.rows[i])))
           \o U(1, pps, <<"across_tiles">>))

ReadPpsHead(pps) ==
  LET depth == IF pps.cu_qp_delta = 1 THEN Ue(pps, <<"diff_cu_qp_delta_depth">>) ELSE <<>>
      sizes == Each(Len(pps.cols), LAMBDA i : El(0, "column_width", pps.cols[i]))
                 \o Each(Len(pps.rows), LAMBDA i : El(0, "row_height", pps.rows[i]))
      tiles == El(0, "tile_columns", Len(pps.cols)) \o El(0, "tile_rows", Len(pps.rows))
                 \o U(1, pps, <<"uniform">>) \o (IF pps.uniform = 1 THEN <<>> ELSE sizes)
                 \o U(1, pps, <<"across_tiles">>)
  IN Ue(pps, <<"id", "sps_id">>) \o U(1, pps, <<"dependent_slices", "output_flag_present">>)
       \o U(3, pps, <<"extra_slice_bits">>) \o U(1, pps, <<"sign_hiding", "cabac_init_present">>)
       \o Ue(pps, <<"l0_default", "l1_default">>) \o Se(pps, <<"init_qp">>)
       \o U(1, pps, <<"constrained_intra", "transform_skip", "cu_qp_delta">>) \o depth
       \o Se(pps, <<"cb_qp_offset", "cr_qp_offset">>)
       \o U(1, pps, <<"chroma_qp_offsets_present", "weighted_pred", "weighted_bipred", "transquant_bypass">>)
       \o U(1, pps, <<"tiles", "entropy_sync">>) \o (IF pps.tiles = 1 THEN tiles ELSE <<>>)

WritePps(pps) ==
  WritePpsHead(pps)
    \o U(1, pps, <<"across_slices", "deblocking_control">>)
    \o When(pps.deblocking_control = 1,
         U(1, pps, <<"deblocking_override", "deblocking_disabled">>)
           \o When(pps.deblocking_disabled = 0, Se(pps, <<"beta", "tc">>)))
    \o U(1, pps, <<"scaling_data_present">>)
    \o When(pps.scaling_data_present = 1, WriteScalingListData(pps.lists))
    \o U(1, pps, <<"lists_modification">>) \o Ue(pps, <<"log2_parallel_merge">>)
    \o U(1, pps, <<"header_extension", "extension">>)
    \o When(pps.extension = 1,
         U(1, pps, <<"range_extension">>) \o When(pps.range_extension = 1, WritePpsRange(pps))
           \o Absent("multilayer") \o Absent("3d") \o U(1, pps, <<"scc_extension">>) \o Reserved(4))

ReadPps(pps) ==
  LET deblocking == U(1, pps, <<"deblocking_override", "deblocking_disabled">>)
                      \o (IF pps.deblocking_disabled = 1 THEN <<>> ELSE Se(pps, <<"beta", "tc">>))
      range      == IF pps.range_extension = 1 THEN ReadPpsRange(pps) ELSE <<>>
      extension  == U(1, pps, <<"range_extension">>) \o range \o Absent("multilayer") \o Absent("3d")
                      \o U(1, pps, <<"scc_extension">>) \o Reserved(4)
  IN ReadPpsHead(pps) \o U(1, pps, <<"across_slices", "deblocking_control">>)
       \o (IF pps.deblocking_control = 1 THEN deblocking ELSE <<>>)
       \o U(1, pps, <<"scaling_data_present">>)
       \o (IF pps.scaling_data_present = 1 THEN ReadScalingListData(pps.lists) ELSE <<>>)
       \o U(1, pps, <<"lists_modification">>) \o Ue(pps, <<"log2_parallel_merge">>)
       \o U(1, pps, <<"header_extension", "extension">>) \o (IF pps.extension = 1 THEN extension ELSE <<>>)

\* What is left for the last column after those before it, which bounds each
Left(sizes, n) == LET rest[i \in 0 .. Len(sizes)] == IF i = 0 THEN n - 1 ELSE rest[i - 1] - (sizes[i] + 1) IN rest
\* Mutant: a column may take all that is left.
AcceptsTilesFull(sizes, n) == Len(sizes) <= n - 1 /\ \A i \in DOMAIN sizes : sizes[i] <= Left(sizes, n)[i - 1]
AcceptsTiles(sizes, n) ==
  Len(sizes) <= n - 1 /\ \A i \in DOMAIN sizes : sizes[i] <= Left(sizes, n)[i - 1] - 1

AcceptsPps(pps, sps) ==
  /\ pps.l0_default <= 14 /\ pps.l1_default <= 14
  /\ Within(pps.init_qp, -(26 + 6 * sps.bit_depth_luma), 25)
  /\ pps.cu_qp_delta = 1 => pps.diff_cu_qp_delta_depth <= sps.log2_diff_cb
  /\ pps.tiles = 1 /\ pps.uniform = 0 =>
       AcceptsTiles(pps.cols, WidthInCtbs(sps)) /\ AcceptsTiles(pps.rows, HeightInCtbs(sps))
  /\ pps.tiles = 1 => Len(pps.cols) < WidthInCtbs(sps) /\ Len(pps.rows) < HeightInCtbs(sps)
  /\ pps.scaling_data_present = 1 => AcceptsScalingLists(pps.lists)
  /\ pps.log2_parallel_merge <= CtbLog2(sps) - 2

\* The widths of all columns (rows) of tiles, in blocks: as coded, or even
TileSizes(sizes, uniform, n) ==
  LET k == Len(sizes) + 1
  IN IF uniform = 1 THEN [j \in 1 .. k |-> (j * n) \div k - ((j - 1) * n) \div k]
     ELSE [j \in 1 .. k |-> IF j = k THEN Left(sizes, n)[k - 1] + 1 ELSE sizes[j] + 1]

(****************************** default structures *************************)
\* Vps, Sps, Pps, ProfileTierLevel, VuiParams and HrdParams before anything
\* is read; sub-layers beyond the highest are in subs.
DefaultProfile == [idc |-> 0, compat |-> {}, one_picture_only |-> 0, inbld |-> 0]

DefaultHrd ==
  [nal |-> 0, vcl |-> 0, sub_pic |-> 0,
   layers |-> <<[general |-> 0, within |-> 0, low_delay |-> 0, cpb_cnt |-> 0]>>]

DefaultVps ==
  [id |-> 0, max_layers_minus1 |-> 0, max_sub_layers_minus1 |-> 0, temporal_nesting |-> 0,
   profile |-> DefaultProfile, subs |-> <<>>, ordering_info_present |-> 0, max_layer_id |-> 0,
   num_layer_sets_minus1 |-> 0, timing_info_present |-> 0, poc_proportional |-> 0, hrds |-> <<>>,
   extension |-> 0]

DefaultVui ==
  [present |-> 0, aspect_ratio_info_present |-> 0, aspect_ratio_idc |-> 0, overscan_info_present |-> 0,
   video_signal_type_present |-> 0, colour_description_present |-> 0, chroma_loc_info_present |-> 0,
   default_display_window |-> 0, timing_info_present |-> 0, poc_proportional |-> 0, hrd_present |-> 0,
   hrd |-> DefaultHrd, bitstream_restriction |-> 0]

DefaultSps ==
  [id |-> 0, vps_id |-> 0, max_sub_layers_minus1 |-> 0, temporal_nesting |-> 0, profile |-> DefaultProfile,
   subs |-> <<>>, chroma_format_idc |-> 0, separate_colour_plane_flag |-> 0, width |-> 0, height |-> 0,
   conformance_window_flag |-> 0, win_left |-> 0, win_right |-> 0, win_top |-> 0, win_bottom |-> 0,
   bit_depth_luma |-> 0, bit_depth_chroma |-> 0, log2_max_poc_lsb_minus4 |-> 0, ordering_info_present |-> 0,
   max_dec_pic_buffering_minus1 |-> 0, max_num_reorder_pics |-> 0, log2_min_cb_minus3 |-> 0,
   log2_diff_cb |-> 0, log2_min_tb_minus2 |-> 0, log2_diff_tb |-> 0, hierarchy_inter |-> 0,
   hierarchy_intra |-> 0, scaling_list_enabled |-> 0, scaling_data_present |-> 0, amp |-> 0,
   lists |-> [dc |-> 0, coefs |-> <<0, 0>>], sao_enabled |-> 0, pcm |-> 0, rps |-> <<>>, long_term_present |-> 0,
   lt_sps |-> <<>>, temporal_mvp |-> 0, strong_intra |-> 0, vui |-> DefaultVui, extension |-> 0, range_extension |-> 0,
   scc_extension |-> 0]

DefaultPps ==
  [id |-> 0, sps_id |-> 0, dependent_slices |-> 0, output_flag_present |-> 0, extra_slice_bits |-> 0,
   cabac_init_present |-> 0, l0_default |-> 0, l1_default |-> 0, init_qp |-> 0, transform_skip |-> 0,
   cu_qp_delta |-> 0, diff_cu_qp_delta_depth |-> 0, chroma_qp_offsets_present |-> 0, weighted_pred |-> 0,
   weighted_bipred |-> 0, tiles |-> 0, entropy_sync |-> 0, cols |-> <<>>, rows |-> <<>>, uniform |-> 1,
   across_tiles |-> 1, across_slices |-> 0, deblocking_control |-> 0, deblocking_override |-> 0, deblocking_disabled |-> 0,
   scaling_data_present |-> 0, lists |-> [dc |-> 0, coefs |-> <<0, 0>>], lists_modification |-> 0,
   log2_parallel_merge |-> 0, header_extension |-> 0, extension |-> 0, range_extension |-> 0,
   chroma_qp_offset_list |-> 0, chroma_qp_offset_len |-> 0, scc_extension |-> 0]

(******************************** slice header *****************************)
\* Slice h of nalu type "idr", "irap" (another intra random access point) or
\* "trail".  h.lt[i] is [used, msb_present, msb_cycle] of long-term picture
\* i, h.weights0 and h.weights1 the pairs <<luma, chroma>> of weight flags.
DefaultSlice ==
  [first |-> 1, pps_id |-> 0, dependent |-> 0, segment_address |-> 0, type |-> "I", poc_lsb |-> 0,
   st_sps_flag |-> 0, st |-> NoRps, st_idx |-> 0, num_lt_sps |-> 0, lt |-> <<>>, temporal_mvp |-> 0,
   sao_luma |-> 0, sao_chroma |-> 0, override |-> 0, l0 |-> 0, l1 |-> 0, modify0 |-> 0, modify1 |-> 0,
   collocated_from_l0 |-> 1, weights0 |-> <<>>, weights1 |-> <<>>, qp_delta |-> 0, deblocking_override |-> 0,
   deblocking_disabled |-> 0, across_slices |-> 0, entry_points |-> 0, offset_len |-> 0]

TypeCode(h) == CASE h.type = "B" -> 0 [] h.type = "P" -> 1 [] h.type = "I" -> 2
Idr(type) == type = "idr"
Irap(type) == type \in {"idr", "irap"}
\* Pictures of a reference set (and long-term ones) the current one uses
UsedIn(s) == Len(SelectSeq(s, LAMBDA e : e.used = 1))

WriteSliceStart(type, h, sps, pps) ==
  U(1, h, <<"first">>) \o When(Irap(type), U(1, h, <<"no_output_of_prior_pics">>)) \o Ue(h, <<"pps_id">>)
    \o When(h.first = 0, When(pps.dependent_slices = 1, U(1, h, <<"dependent">>))
                           \o U(CeilLog2(PicSizeInCtbs(sps)), h, <<"segment_address">>))

WriteSlicePictures(type, h, sps) ==
  LET bits == sps.log2_max_poc_lsb_minus4 + 4
      \* the difference to the entry before it, except at the start of each part
      Coded(i) == h.lt[i].msb_cycle - (IF i = 1 \/ i - 1 = h.num_lt_sps THEN 0 ELSE h.lt[i - 1].msb_cycle)
  IN U(bits, h, <<"poc_lsb">>) \o U(1, h, <<"st_sps_flag">>)
       \o Either(h.st_sps_flag = 0, WriteShortTermRps(h.st, Len(sps.rps)),
                 When(Len(sps.rps) > 1, U(CeilLog2(Len(sps.rps)), h, <<"st_idx">>)))
       \o When(sps.long_term_present = 1,
            When(sps.lt_sps # <<>>, Ue(h, <<"num_lt_sps">>)) \o El(0, "num_lt_pics", Len(h.lt) - h.num_lt_sps)
              \o Each(Len(h.lt), LAMBDA i :
                   Either(i <= h.num_lt_sps,
                          When(Len(sps.lt_sps) > 1, El(CeilLog2(Len(sps.lt_sps)), "lt_idx_sps", 0)),
                          El(bits, "poc_lsb_lt", 0) \o El(1, "used_lt", h.lt[i].used))
                     \o El(1, "msb_present", h.lt[i].msb_present)
                     \o When(h.lt[i].msb_present = 1, El(0, "msb_cycle", Coded(i)))))
       \o When(sps.temporal_mvp = 1, U(1, h, <<"temporal_mvp">>))

\* NumPicTotalCurr; the set of the sequence is the one of curr_rps_idx
NumPicTotalCurr(h, sps) ==
  LET st == IF h.st_sps_flag = 1 THEN sps.rps[h.st_idx + 1] ELSE h.st
  IN UsedIn(st.s0) + UsedIn(st.s1) + UsedIn(h.lt)

WriteListsModification(h, l0, l1, total) ==
  LET n == CeilLog2(total)
  IN El(1, "modify0", h.modify0) \o When(h.modify0 = 1, Each(l0 + 1, LAMBDA i : El(n, "entry0", 0)))
       \o When(h.type = "B", El(1, "modify1", h.modify1)
                               \o When(h.modify1 = 1, Each(l1 + 1, LAMBDA i : El(n, "entry1", 0))))

WriteWeights(ws, n, chroma) ==
  Each(n, LAMBDA i : El(1, "luma_flag", ws[i][1]))
    \o When(chroma, Each(n, LAMBDA i : El(1, "chroma_flag", ws[i][2])))
    \o Each(n, LAMBDA i : When(ws[i][1] = 1, El(-1, "luma_weight", 0) \o El(-1, "luma_offset", 0))
                            \o When(ws[i][2] = 1, Each(2, LAMBDA j : El(-1, "chroma_weight", 0) \o El(-1, "chroma_offset", 0))))

WritePredWeightTable(h, sps, l0, l1) ==
  Ue(h, <<"luma_denom">>) \o When(ChromaArrayType(sps) # 0, Se(h, <<"delta_chroma_denom">>))
    \o WriteWeights(h.weights0, l0 + 1, ChromaArrayType(sps) # 0)
    \o When(h.type = "B", WriteWeights(h.weights1, l1 + 1, ChromaArrayType(sps) # 0))

WriteSliceInter(h, sps, pps) ==
  LET l0 == IF h.override = 1 THEN h.l0 ELSE pps.l0_default
      l1 == IF h.override = 1 THEN h.l1 ELSE pps.l1_default
      total == NumPicTotalCurr(h, sps)
  IN U(1, h, <<"override">>)
       \o When(h.override = 1, Ue(h, <<"l0">>) \o When(h.type = "B", Ue(h, <<"l1">>)))
       \o When(pps.lists_modification = 1 /\ total > 1, WriteListsModification(h, l0, l1, total))
       \o When(h.type = "B", U(1, h, <<"mvd_l1_zero">>))
       \o When(pps.cabac_init_present = 1, U(1, h, <<"cabac_init">>))
       \o When(h.temporal_mvp = 1,
            When(h.type = "B", U(1, h, <<"collocated_from_l0">>))
              \o When((h.collocated_from_l0 = 1 /\ l0 > 0) \/ (h.collocated_from_l0 = 0 /\ l1 > 0), Ue(h, <<"collocated_ref_idx">>)))
       \o When((pps.weighted_pred = 1 /\ h.type = "P") \/ (pps.weighted_bipred = 1 /\ h.type = "B"),
               WritePredWeightTable(h, sps, l0, l1))
       \o Ue(h, <<"five_minus_max_merge">>)

WriteSliceFilters(h, pps) ==
  Se(h, <<"qp_delta">>) \o When(pps.chroma_qp_offsets_present = 1, Se(h, <<"cb_qp_offset", "cr_qp_offset">>))
    \o When(pps.chroma_qp_offset_list = 1, U(1, h, <<"cu_chroma_qp_offset">>))
    \o When(pps.deblocking_override = 1, U(1, h, <<"deblocking_override">>))
    \o When(h.deblocking_override = 1,
         U(1, h, <<"deblocking_disabled">>) \o When(h.deblocking_disabled = 0, Se(h, <<"beta", "tc">>)))
    \o When(pps.across_slices = 1 /\ (h.sao_luma = 1 \/ h.sao_chroma = 1 \/ h.deblocking_disabled = 0),
            U(1, h, <<"across_slices">>))

WriteSlice(type, h, sps, pps) ==
  WriteSliceStart(type, h, sps, pps)
    \o When(h.dependent = 0,
         When(pps.extra_slice_bits > 0, El(pps.extra_slice_bits, "extra", 0)) \o El(0, "type", TypeCode(h))
           \o When(pps.output_flag_present = 1, U(1, h, <<"pic_output">>))
           \o When(sps.separate_colour_plane_flag = 1, U(2, h, <<"colour_plane">>))
           \o When(~Idr(type), WriteSlicePictures(type, h, sps))
           \o When(sps.sao_enabled = 1, U(1, h, <<"sao_luma">>)
                                          \o When(ChromaArrayType(sps) # 0, U(1, h, <<"sao_chroma">>)))
           \o When(h.type # "I", WriteSliceInter(h, sps, pps))
           \o WriteSliceFilters(h, pps))
    \o When(pps.tiles = 1 \/ pps.entropy_sync = 1,
         Ue(h, <<"entry_points">>)
           \o When(h.entry_points > 0, Ue(h, <<"offset_len">>)
                     \o Each(h.entry_points, LAMBDA i : El(h.offset_len + 1, "entry_point", 0))))
    \o When(pps.header_extension = 1, El(0, "extension_length", 0))

\* slice_header_set_defaults, before anything but the ids is read
SliceDefaults(pps) ==
  [DefaultSlice EXCEPT !.deblocking_disabled = pps.deblocking_disabled, !.across_slices = pps.across_slices]

\* The header the parser makes of the elements of h: where one is absent,
\* the default or what another field says.
ParsedSlice(type, h, sps, pps) ==
  LET d         == SliceDefaults(pps)
      dependent == IF h.first = 0 /\ pps.dependent_slices = 1 THEN h.dependent ELSE 0
      start     == [d EXCEPT !.first = h.first, !.pps_id = h.pps_id, !.dependent = dependent,
                             !.segment_address = IF h.first = 0 THEN h.segment_address ELSE 0,
                             !.entry_points = IF pps.tiles = 1 \/ pps.entropy_sync = 1 THEN h.entry_points ELSE 0]
      lts       == ~Idr(type) /\ sps.long_term_present = 1
      inter     == h.type # "I"
      mvp       == ~Idr(type) /\ sps.temporal_mvp = 1 /\ h.temporal_mvp = 1
      luma      == IF sps.sao_enabled = 1 THEN h.sao_luma ELSE 0
      chroma    == IF sps.sao_enabled = 1 /\ ChromaArrayType(sps) # 0 THEN h.sao_chroma ELSE 0
      override  == pps.deblocking_override = 1 /\ h.deblocking_override = 1
      disabled  == IF override THEN h.deblocking_disabled ELSE pps.deblocking_disabled
      Weights(ws) == [i \in DOMAIN ws |-> <<ws[i][1], IF ChromaArrayType(sps) = 0 THEN 0 ELSE ws[i][2]>>]
  IN IF dependent = 1 THEN start
     ELSE [start EXCEPT
       !.type = h.type, !.qp_delta = h.qp_delta,
       !.poc_lsb = IF Idr(type) THEN 0 ELSE h.poc_lsb,
       !.st_sps_flag = IF Idr(type) THEN 0 ELSE h.st_sps_flag,
       !.st = IF Idr(type) \/ h.st_sps_flag = 1 THEN NoRps ELSE h.st,
       !.st_idx = IF ~Idr(type) /\ h.st_sps_flag = 1 /\ Len(sps.rps) > 1 THEN h.st_idx ELSE 0,
       !.num_lt_sps = IF lts /\ sps.lt_sps # <<>> THEN h.num_lt_sps ELSE 0,
       !.lt = IF lts THEN h.lt ELSE <<>>,
       !.temporal_mvp = IF mvp THEN 1 ELSE 0,
       !.sao_luma = luma, !.sao_chroma = chroma,
       !.override = IF inter THEN h.override ELSE 0,
       !.l0 = CASE ~inter -> 0 [] inter /\ h.override = 1 -> h.l0 [] OTHER -> pps.l0_default,
       !.l1 = CASE ~inter -> 0 [] inter /\ h.override = 1 -> (IF h.type = "B" THEN h.l1 ELSE 0)
                [] OTHER -> pps.l1_default,
       !.modify0 = IF inter THEN h.modify0 ELSE 0, !.modify1 = IF h.type = "B" THEN h.modify1 ELSE 0,
       !.collocated_from_l0 = IF mvp /\ h.type = "B" THEN h.collocated_from_l0 ELSE 1,
       !.weights0 = Weights(h.weights0), !.weights1 = Weights(h.weights1),
       !.deblocking_override = IF override THEN 1 ELSE 0,
       !.deblocking_disabled = disabled,
       !.across_slices = IF pps.across_slices = 1 /\ (luma = 1 \/ chroma = 1 \/ disabled = 0)
                         THEN h.across_slices ELSE pps.across_slices,
       !.offset_len = h.offset_len]

ReadSliceStart(type, h, sps, pps) ==
  LET output  == IF Irap(type) THEN El(1, "no_output_of_prior_pics", 0) ELSE <<>>
      address == (IF pps.dependent_slices = 1 THEN U(1, h, <<"dependent">>) ELSE <<>>)
                   \o El(CeilLog2(PicSizeInCtbs(sps)), "segment_address", h.segment_address)
  IN U(1, h, <<"first">>) \o output \o Ue(h, <<"pps_id">>) \o (IF h.first = 1 THEN <<>> ELSE address)

\* delta_poc_msb_cycle_lt accumulates over the entries of each part.
ReadLongTerm(h, sps, i) ==
  LET bits   == sps.log2_max_poc_lsb_minus4 + 4
      source == IF i <= h.num_lt_sps
                THEN IF Len(sps.lt_sps) > 1 THEN El(CeilLog2(Len(sps.lt_sps)), "lt_idx_sps", 0) ELSE <<>>
                ELSE El(bits, "poc_lsb_lt", 0) \o El(1, "used_lt", h.lt[i].used)
      before == IF i # 1 /\ i - 1 # h.num_lt_sps THEN h.lt[i - 1].msb_cycle ELSE 0
  IN source \o El(1, "msb_present", h.lt[i].msb_present)
       \o (IF h.lt[i].msb_present = 1 THEN El(0, "msb_cycle", h.lt[i].msb_cycle - before) ELSE <<>>)

ReadSlicePictures(type, h, sps) ==
  LET set  == IF h.st_sps_flag = 0 THEN ReadShortTermRps(h.st, Len(sps.rps))
              ELSE IF Len(sps.rps) > 1 THEN U(CeilLog2(Len(sps.rps)), h, <<"st_idx">>) ELSE <<>>
      long == (IF Len(sps.lt_sps) > 0 THEN Ue(h, <<"num_lt_sps">>) ELSE <<>>)
                \o El(0, "num_lt_pics", Len(h.lt) - h.num_lt_sps)
                \o Each(Len(h.lt), LAMBDA i : ReadLongTerm(h, sps, i))
  IN U(sps.log2_max_poc_lsb_minus4 + 4, h, <<"poc_lsb">>) \o U(1, h, <<"st_sps_flag">>) \o set
       \o (IF sps.long_term_present = 1 THEN long ELSE <<>>)
       \o (IF sps.temporal_mvp = 1 THEN U(1, h, <<"temporal_mvp">>) ELSE <<>>)

ReadListsModification(h, total) ==
  LET entries(flag, name, n) == IF flag = 1 THEN Each(n + 1, LAMBDA i : El(CeilLog2(total), name, 0)) ELSE <<>>
  IN El(1, "modify0", h.modify0) \o entries(h.modify0, "entry0", h.l0)
       \o (IF h.type = "B" THEN El(1, "modify1", h.modify1) \o entries(h.modify1, "entry1", h.l1) ELSE <<>>)

ReadWeights(ws, n, chroma) ==
  LET luma(i)    == El(-1, "luma_weight", 0) \o El(-1, "luma_offset", 0)
      chromas(i) == Each(2, LAMBDA j : El(-1, "chroma_weight", 0) \o El(-1, "chroma_offset", 0))
  IN Each(n, LAMBDA i : El(1, "luma_flag", ws[i][1]))
       \o (IF chroma THEN Each(n, LAMBDA i : El(1, "chroma_flag", ws[i][2])) ELSE <<>>)
       \o Each(n, LAMBDA i : (IF ws[i][1] = 1 THEN luma(i) ELSE <<>>)
                               \o (IF chroma /\ ws[i][2] = 1 THEN chromas(i) ELSE <<>>))

ReadPredWeightTable(h, sps) ==
  LET chroma == ChromaArrayType(sps) # 0
  IN El(0, "luma_denom", 0) \o (IF chroma THEN El(-1, "delta_chroma_denom", 0) ELSE <<>>)
       \o ReadWeights(h.weights0, h.l0 + 1, chroma)
       \o (IF h.type = "B" THEN ReadWeights(h.weights1, h.l1 + 1, chroma) ELSE <<>>)

ReadSliceInter(h, sps, pps) ==
  LET total  == NumPicTotalCurr(h, sps)
      counts == Ue(h, <<"l0">>) \o (IF h.type = "B" THEN Ue(h, <<"l1">>) ELSE <<>>)
      refs   == IF h.collocated_from_l0 = 1 THEN h.l0 ELSE h.l1
      mvp    == (IF h.type = "B" THEN U(1, h, <<"collocated_from_l0">>) ELSE <<>>)
                  \o (IF refs > 0 THEN El(0, "collocated_ref_idx", 0) ELSE <<>>)
  IN U(1, h, <<"override">>) \o (IF h.override = 1 THEN counts ELSE <<>>)
       \o (IF pps.lists_modification = 1 /\ total > 1 THEN ReadListsModification(h, total) ELSE <<>>)
       \o (IF h.type = "B" THEN El(1, "mvd_l1_zero", 0) ELSE <<>>)
       \o (IF pps.cabac_init_present = 1 THEN El(1, "cabac_init", 0) ELSE <<>>)
       \o (IF h.temporal_mvp = 1 THEN mvp ELSE <<>>)
       \o (IF \/ pps.weighted_pred = 1 /\ h.type = "P"
              \/ pps.weighted_bipred = 1 /\ h.type = "B" THEN ReadPredWeightTable(h, sps) ELSE <<>>)
       \o El(0, "five_minus_max_merge", 0)

ReadSliceFilters(h, pps) ==
  LET disabled == U(1, h, <<"deblocking_disabled">>)
                    \o (IF h.deblocking_disabled = 1 THEN <<>> ELSE Se(h, <<"beta", "tc">>))
      filtered == h.sao_luma = 1 \/ h.sao_chroma = 1 \/ h.deblocking_disabled = 0
  IN Se(h, <<"qp_delta">>)
       \o (IF pps.chroma_qp_offsets_present = 1 THEN Se(h, <<"cb_qp_offset", "cr_qp_offset">>) ELSE <<>>)
       \o (IF pps.chroma_qp_offset_list = 1 THEN El(1, "cu_chroma_qp_offset", 0) ELSE <<>>)
       \o (IF pps.deblocking_override = 1 THEN U(1, h, <<"deblocking_override">>) ELSE <<>>)
       \o (IF h.deblocking_override = 1 THEN disabled ELSE <<>>)
       \o (IF pps.across_slices = 1 /\ filtered THEN U(1, h, <<"across_slices">>) ELSE <<>>)

ReadEntryPoints(h, pps) ==
  IF pps.tiles = 1 \/ pps.entropy_sync = 1
  THEN Ue(h, <<"entry_points">>)
         \o (IF h.entry_points = 0 THEN <<>>
             ELSE Ue(h, <<"offset_len">>) \o Each(h.entry_points, LAMBDA i : El(h.offset_len + 1, "entry_point", 0)))
  ELSE <<>>

ReadSlice(type, coded, sps, pps) ==
  LET h      == ParsedSlice(type, coded, sps, pps)
      chroma == IF ChromaArrayType(sps) = 0 THEN <<>> ELSE U(1, h, <<"sao_chroma">>)
      own    == (IF pps.extra_slice_bits = 0 THEN <<>> ELSE El(pps.extra_slice_bits, "extra", 0))
                  \o El(0, "type", TypeCode(h))
                  \o (IF pps.output_flag_present = 1 THEN El(1, "pic_output", 0) ELSE <<>>)
                  \o (IF sps.separate_colour_plane_flag = 1 THEN El(2, "colour_plane", 0) ELSE <<>>)
                  \o (IF Idr(type) THEN <<>> ELSE ReadSlicePictures(type, h, sps))
                  \o (IF sps.sao_enabled = 1 THEN U(1, h, <<"sao_luma">>) \o chroma ELSE <<>>)
                  \o (IF h.type = "I" THEN <<>> ELSE ReadSliceInter(h, sps, pps))
                  \o ReadSliceFilters(h, pps)
  IN ReadSliceStart(type, h, sps, pps) \o (IF h.dependent = 1 THEN <<>> ELSE own)
       \o ReadEntryPoints(h, pps) \o (IF pps.header_extension = 1 THEN El(0, "extension_length", 0) ELSE <<>>)

MaxEntryPoints(sps, pps) ==
  LET tiles == (Len(pps.cols) + 1) * (Len(pps.rows) + 1)
  IN CASE pps.tiles = 0 -> HeightInCtbs(sps) - 1
       [] pps.tiles = 1 /\ pps.entropy_sync = 0 -> tiles - 1
       [] OTHER -> (Len(pps.cols) + 1) * HeightInCtbs(sps) - 1

AcceptsSlice(type, h, sps, pps) ==
  /\ h.first = 0 => h.segment_address < PicSizeInCtbs(sps)
  /\ ~Idr(type) /\ h.st_sps_flag = 0 => AcceptsShortTermRps(sps, h.st)
  /\ h.type # "I" /\ h.st_sps_flag = 1 => h.st_idx < Len(sps.rps)
  /\ Within(26 + pps.init_qp + h.qp_delta, -6 * sps.bit_depth_luma, 51)
  /\ pps.tiles = 1 \/ pps.entropy_sync = 1 => h.entry_points <= MaxEntryPoints(sps, pps)
=============================================================================
