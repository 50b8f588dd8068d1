----------------------------- MODULE H264Syntax -----------------------------
(***************************************************************************)
(* The parameter sets of an H.264 stream as codec/h264/synthesizer.rs      *)
(* writes them (Write...) and as codec/h264/parser.rs reads them (Read..., *)
(* with the range checks in Accepts... and the values of absent elements   *)
(* in Parsed...), and the slice header, which the crate only reads: its    *)
(* writer is the program that made the stream.  A scaling list is cut to   *)
(* its first coefficients, the table of offsets of a picture order count   *)
(* cycle to TableSize entries instead of 255.                              *)
(***************************************************************************)
EXTENDS Syntax

TableSize == 4

(******************************* scaling lists *****************************)
\* Lists 1..6 are the 4x4 ones, the others 8x8; the tables 7-3 and 7-4
Default4x4Intra == <<6, 13, 20, 28>>
Default4x4Inter == <<10, 14, 20, 24>>
Default8x8Intra == <<6, 10, 13, 16>>
Default8x8Inter == <<9, 13, 15, 17>>
DefaultList(i) ==
  CASE i <= 3 -> Default4x4Intra
    [] i \in 4 .. 6 -> Default4x4Inter
    [] i > 6 /\ i % 2 = 1 -> Default8x8Intra
    [] OTHER -> Default8x8Inter

Zeroed == <<0, 0, 0, 0>>
Flat == <<16, 16, 16, 16>>

\* scaling_list: nothing but -8 for the default; otherwise differences up to
\* the run that repeats to the end, and one back to zero in its place
CodedList(list, default) ==
  LET repeats == {j \in 1 .. Len(list) : \A k \in j .. Len(list) : list[k] = list[j]}
      run     == CHOOSE j \in repeats : \A k \in repeats : j <= k
      deltas  == [j \in 1 .. run |-> list[j] - (IF j = 1 THEN 8 ELSE list[j - 1])]
  IN IF list = default THEN <<-8>>
     ELSE IF run < Len(list) THEN Append(deltas, -list[run]) ELSE deltas

\* parse_scaling_list over n coefficients: once next is 0 it repeats the
\* last and takes no more deltas, in the first place it means the default.
ParsedList(deltas, n, default) ==
  LET Start == [list |-> <<>>, last |-> 8, next |-> 8, taken |-> 0, default |-> FALSE]
      Step(st) ==
        LET takes == st.next # 0
            next  == IF takes THEN (st.last + deltas[st.taken + 1] + 256) % 256 ELSE 0
            coef  == IF next = 0 THEN st.last ELSE next
        IN IF st.default THEN st
           ELSE [list |-> Append(st.list, coef), last |-> coef, next |-> next,
                 taken |-> IF takes THEN st.taken + 1 ELSE st.taken,
                 default |-> st.list = <<>> /\ next = 0]
      state[j \in 0 .. n] == IF j = 0 THEN Start ELSE Step(state[j - 1])
  IN [list |-> IF state[n].default THEN default ELSE state[n].list, taken |-> state[n].taken]

\* "Assume if scaling lists are zeroed that they are not present."
WriteScalingLists(lists, n) ==
  Each(n, LAMBDA i :
    Either(lists[i] = Zeroed, El(1, "list_present", 0),
           El(1, "list_present", 1) \o
             LET ds == CodedList(lists[i], DefaultList(i))
             IN [j \in DOMAIN ds |-> <<-1, "delta_scale", ds[j]>>]))

\* What the parser consumes of those deltas
ReadScalingLists(lists, n) ==
  Each(n, LAMBDA i :
    LET coded == CodedList(lists[i], DefaultList(i))
        taken == ParsedList(coded, Len(lists[i]), DefaultList(i)).taken
    IN IF lists[i] = Zeroed THEN El(1, "list_present", 0)
       ELSE El(1, "list_present", 1) \o [j \in 1 .. taken |-> <<-1, "delta_scale", coded[j]>>])

\* Table 7-2: the list that stands for an absent one.  base gives those of
\* the first of each kind, 1, 4, 7 and 8: the defaults (rule A) or the ones
\* of the sequence (rule B).
Fallback(i, before, base) ==
  CASE i \in {1, 4, 7, 8} -> base[i]
    [] i \in {2, 3, 5, 6} -> before[i - 1]
    [] OTHER -> before[i - 2]

\* n lists of 6 + 6; the others keep what they are initialised to
ParsedLists(lists, n, base, initial) ==
  LET parsed[i \in 0 .. 12] ==
        IF i = 0 THEN <<>>
        ELSE Append(parsed[i - 1],
               CASE i > n -> initial[i]
                 [] i <= n /\ lists[i] = Zeroed -> Fallback(i, parsed[i - 1], base)
                 [] OTHER -> ParsedList(CodedList(lists[i], DefaultList(i)), Len(lists[i]), DefaultList(i)).list)
  IN parsed[12]

AllLists(l) == [i \in 1 .. 12 |-> l]
Defaults == [i \in 1 .. 12 |-> DefaultList(i)]

(******************************** VUI and HRD ******************************)
WriteHrd(h) ==
  Ue(h, <<"cpb_cnt">>) \o U(4, h, <<"bit_rate_scale", "cpb_size_scale">>)
    \o Each(h.cpb_cnt + 1, LAMBDA i : Ue(h, <<"bit_rate", "cpb_size">>) \o U(1, h, <<"cbr">>))
    \o U(5, h, <<"initial_cpb", "cpb", "dpb_output", "time_offset">>)

ReadHrd(h) ==
  LET entry == El(0, "bit_rate", 0) \o El(0, "cpb_size", 0) \o El(1, "cbr", 0)
  IN Ue(h, <<"cpb_cnt">>) \o U(4, h, <<"bit_rate_scale">>) \o U(4, h, <<"cpb_size_scale">>)
       \o Each(h.cpb_cnt + 1, LAMBDA i : entry)
       \o U(5, h, <<"initial_cpb", "cpb">>) \o U(5, h, <<"dpb_output", "time_offset">>)

WriteVui(v) ==
  U(1, v, <<"aspect_ratio_info_present">>)
    \o When(v.aspect_ratio_info_present = 1,
         U(8, v, <<"aspect_ratio_idc">>)
           \o When(v.aspect_ratio_idc = 255, U(16, v, <<"sar_width", "sar_height">>)))
    \o U(1, v, <<"overscan_info_present">>)
    \o When(v.overscan_info_present = 1, U(1, v, <<"overscan_appropriate">>))
    \o U(1, v, <<"video_signal_type_present">>)
    \o When(v.video_signal_type_present = 1,
         U(3, v, <<"video_format">>) \o U(1, v, <<"full_range", "colour_description_present">>)
           \o When(v.colour_description_present = 1, U(8, v, <<"primaries", "transfer", "matrix">>)))
    \o U(1, v, <<"chroma_loc_info_present">>)
    \o When(v.chroma_loc_info_present = 1, Ue(v, <<"chroma_loc_top", "chroma_loc_bottom">>))
    \o U(1, v, <<"timing_info_present">>)
    \o When(v.timing_info_present = 1, U(32, v, <<"num_units_in_tick", "time_scale">>) \o U(1, v, <<"fixed_rate">>))
    \o U(1, v, <<"nal_hrd">>) \o When(v.nal_hrd = 1, WriteHrd(v.hrd))
    \o U(1, v, <<"vcl_hrd">>) \o When(v.vcl_hrd = 1, WriteHrd(v.hrd))
    \o When(v.nal_hrd = 1 \/ v.vcl_hrd = 1, U(1, v, <<"low_delay">>))
    \o U(1, v, <<"pic_struct_present">>) \o U(1, v, <<"bitstream_restriction">>)
    \o When(v.bitstream_restriction = 1,
         U(1, v, <<"mv_over_boundaries">>)
           \o Ue(v, <<"max_bytes", "max_bits", "max_mv_h", "max_mv_v", "max_num_reorder_frames",
                      "max_dec_frame_buffering">>))

\* Two reads, of 31 bits and of one, make a field of 32.
ReadVui(v) ==
  LET sar    == IF v.aspect_ratio_idc = 255 THEN U(16, v, <<"sar_width", "sar_height">>) ELSE <<>>
      colour == IF v.colour_description_present = 1 THEN U(8, v, <<"primaries", "transfer", "matrix">>) ELSE <<>>
      limits == U(1, v, <<"mv_over_boundaries">>) \o Ue(v, <<"max_bytes", "max_bits", "max_mv_h", "max_mv_v">>)
                  \o Ue(v, <<"max_num_reorder_frames", "max_dec_frame_buffering">>)
  IN U(1, v, <<"aspect_ratio_info_present">>)
       \o (IF v.aspect_ratio_info_present = 1 THEN U(8, v, <<"aspect_ratio_idc">>) \o sar ELSE <<>>)
       \o U(1, v, <<"overscan_info_present">>)
       \o (IF v.overscan_info_present = 1 THEN U(1, v, <<"overscan_appropriate">>) ELSE <<>>)
       \o U(1, v, <<"video_signal_type_present">>)
       \o (IF v.video_signal_type_present = 1
           THEN U(3, v, <<"video_format">>) \o U(1, v, <<"full_range", "colour_description_present">>) \o colour
           ELSE <<>>)
       \o U(1, v, <<"chroma_loc_info_present">>)
       \o (IF v.chroma_loc_info_present = 1 THEN Ue(v, <<"chroma_loc_top", "chroma_loc_bottom">>) ELSE <<>>)
       \o U(1, v, <<"timing_info_present">>)
       \o (IF v.timing_info_present = 1
           THEN U(32, v, <<"num_units_in_tick", "time_scale">>) \o U(1, v, <<"fixed_rate">>) ELSE <<>>)
       \o U(1, v, <<"nal_hrd">>) \o (IF v.nal_hrd = 1 THEN ReadHrd(v.hrd) ELSE <<>>)
       \o U(1, v, <<"vcl_hrd">>) \o (IF v.vcl_hrd = 1 THEN ReadHrd(v.hrd) ELSE <<>>)
       \o (IF v.nal_hrd = 1 \/ v.vcl_hrd = 1 THEN U(1, v, <<"low_delay">>) ELSE <<>>)
       \o U(1, v, <<"pic_struct_present", "bitstream_restriction">>)
       \o (IF v.bitstream_restriction = 1 THEN limits ELSE <<>>)

AcceptsVui(v) ==
  /\ v.timing_info_present = 1 => Val(v, "num_units_in_tick") # 0 /\ Val(v, "time_scale") # 0
  /\ v.nal_hrd = 1 \/ v.vcl_hrd = 1 => v.hrd.cpb_cnt <= 31

(************************** sequence parameter set *************************)
HighProfiles == {100, 110, 122, 244, 44, 83, 86, 118, 128, 138, 139, 134, 135}
Constraints == <<"constraint0", "constraint1", "constraint2", "constraint3", "constraint4", "constraint5">>
NumLists(sps) == IF sps.chroma_format_idc # 3 THEN 8 ELSE 12

WriteSpsHigh(sps) ==
  Ue(sps, <<"chroma_format_idc">>)
    \o When(sps.chroma_format_idc = 3, U(1, sps, <<"separate_colour_plane">>))
    \o Ue(sps, <<"bit_depth_luma", "bit_depth_chroma">>) \o U(1, sps, <<"transform_bypass", "matrix_present">>)
    \o When(sps.matrix_present = 1, WriteScalingLists(sps.lists, NumLists(sps)))

\* sps.offsets is the table offset_for_ref_frame, which the writer emits in
\* full whatever num_ref_frames_in_cycle says.
WriteSps(sps) ==
  U(8, sps, <<"profile">>) \o U(1, sps, Constraints) \o Reserved(2) \o U(8, sps, <<"level">>) \o Ue(sps, <<"id">>)
    \o When(sps.profile \in HighProfiles, WriteSpsHigh(sps))
    \o Ue(sps, <<"log2_max_frame_num", "poc_type">>)
    \o When(sps.poc_type = 0, Ue(sps, <<"log2_max_poc_lsb">>))
    \o When(sps.poc_type = 1,
         U(1, sps, <<"delta_always_zero">>) \o Se(sps, <<"offset_non_ref", "offset_top_bottom">>)
           \o Ue(sps, <<"num_ref_frames_in_cycle">>)
           \o Each(TableSize, LAMBDA i : El(-1, "offset_for_ref_frame", sps.offsets[i])))
    \o Ue(sps, <<"max_num_ref_frames">>) \o U(1, sps, <<"gaps_allowed">>)
    \o Ue(sps, <<"width_in_mbs", "height_in_units">>) \o U(1, sps, <<"frame_mbs_only">>)
    \o When(sps.frame_mbs_only = 0, U(1, sps, <<"mbaff">>))
    \o U(1, sps, <<"direct_8x8", "cropping">>)
    \o When(sps.cropping = 1, Ue(sps, <<"crop_left", "crop_right", "crop_top", "crop_bottom">>))
    \o U(1, sps, <<"vui_present">>) \o When(sps.vui_present = 1, WriteVui(sps.vui))

ReadSps(sps) ==
  LET plane == IF sps.chroma_format_idc = 3 THEN U(1, sps, <<"separate_colour_plane">>) ELSE <<>>
      n     == 6 + (IF sps.chroma_format_idc # 3 THEN 2 ELSE 6)
      high  == Ue(sps, <<"chroma_format_idc">>) \o plane \o Ue(sps, <<"bit_depth_luma", "bit_depth_chroma">>)
                 \o U(1, sps, <<"transform_bypass", "matrix_present">>)
                 \o (IF sps.matrix_present = 1 THEN ReadScalingLists(sps.lists, n) ELSE <<>>)
      poc   == CASE sps.poc_type = 0 -> Ue(sps, <<"log2_max_poc_lsb">>)
                 [] sps.poc_type = 1 ->
                      U(1, sps, <<"delta_always_zero">>) \o Se(sps, <<"offset_non_ref", "offset_top_bottom">>)
                        \o Ue(sps, <<"num_ref_frames_in_cycle">>)
                        \o Each(sps.num_ref_frames_in_cycle, LAMBDA i : El(-1, "offset_for_ref_frame", sps.offsets[i]))
                 [] OTHER -> <<>>
      crop  == Ue(sps, <<"crop_left", "crop_right">>) \o Ue(sps, <<"crop_top", "crop_bottom">>)
  IN U(8, sps, <<"profile">>) \o U(1, sps, Constraints) \o Reserved(2) \o U(8, sps, <<"level">>) \o Ue(sps, <<"id">>)
       \o (IF sps.profile \in HighProfiles THEN high ELSE <<>>)
       \o Ue(sps, <<"log2_max_frame_num", "poc_type">>) \o poc
       \o Ue(sps, <<"max_num_ref_frames">>) \o U(1, sps, <<"gaps_allowed">>)
       \o Ue(sps, <<"width_in_mbs", "height_in_units">>) \o U(1, sps, <<"frame_mbs_only">>)
       \o (IF sps.frame_mbs_only = 1 THEN <<>> ELSE U(1, sps, <<"mbaff">>))
       \o U(1, sps, <<"direct_8x8">>) \o U(1, sps, <<"cropping">>) \o (IF sps.cropping = 1 THEN crop ELSE <<>>)
       \o U(1, sps, <<"vui_present">>) \o (IF sps.vui_present = 1 THEN ReadVui(sps.vui) ELSE <<>>)

\* Flat lists without a matrix; lists beyond the ones coded stay zeroed.
ParsedSps(sps) ==
  LET high   == sps.profile \in HighProfiles
      chroma == IF high THEN sps.chroma_format_idc ELSE 1
  IN [sps EXCEPT !.chroma_format_idc = chroma,
        !.separate_colour_plane = IF high /\ chroma = 3 THEN @ ELSE 0,
        !.matrix_present = IF high THEN @ ELSE 0,
        !.lists = IF high /\ sps.matrix_present = 1
                  THEN ParsedLists(sps.lists, NumLists(sps), Defaults, AllLists(Zeroed))
                  ELSE AllLists(Flat)]

Width(sps) == (sps.width_in_mbs + 1) * 16
Height(sps) == (sps.height_in_units + 1) * 16 * (2 - sps.frame_mbs_only)
ChromaArrayType(sps) == IF sps.separate_colour_plane = 1 THEN 0 ELSE sps.chroma_format_idc
CropUnit(sps) ==
  LET sub == IF ChromaArrayType(sps) = 0 THEN <<1, 1>>
             ELSE CASE sps.chroma_format_idc = 1 -> <<2, 2>>
                    [] sps.chroma_format_idc = 2 -> <<2, 1>>
                    [] OTHER -> <<1, 1>>
  IN <<sub[1], sub[2] * (2 - sps.frame_mbs_only)>>

AcceptsSps(sps) ==
  /\ sps.id <= 31 /\ sps.chroma_format_idc <= 3
  /\ sps.poc_type \in 0 .. 2
  /\ sps.poc_type = 1 => sps.num_ref_frames_in_cycle < TableSize
  /\ sps.max_num_ref_frames <= 16
  /\ sps.cropping = 1 =>
       /\ (sps.crop_left + sps.crop_right) * CropUnit(sps)[1] <= Width(sps)
       /\ (sps.crop_top + sps.crop_bottom) * CropUnit(sps)[2] <= Height(sps)
  /\ sps.vui_present = 1 => AcceptsVui(sps.vui)

\* visible_rectangle, as <<left, top, right, bottom>>: both crops are taken
\* off the width and the height of the frame.
VisibleRectangle(sps) ==
  LET u == CropUnit(sps)
  IN IF sps.cropping = 0 THEN <<0, 0, Width(sps), Height(sps)>>
     ELSE <<u[1] * sps.crop_left, u[2] * sps.crop_top,
            Width(sps) - u[1] * sps.crop_left - u[1] * sps.crop_right,
            Height(sps) - u[2] * sps.crop_top - u[2] * sps.crop_bottom>>

(************************** picture parameter set **************************)
PpsHead(pps) ==
  Ue(pps, <<"id", "sps_id">>) \o U(1, pps, <<"cabac", "bottom_field_poc">>) \o El(0, "slice_groups", 0)
    \o Ue(pps, <<"l0_default", "l1_default">>) \o U(1, pps, <<"weighted_pred">>) \o U(2, pps, <<"weighted_bipred">>)
    \o Se(pps, <<"init_qp", "init_qs", "chroma_qp_offset">>)
    \o U(1, pps, <<"deblocking_control", "constrained_intra", "redundant_pic_cnt">>)

\* The tail is left out when all of it has its default, the second offset 0.
WritesPpsTail(pps) == pps.transform_8x8 = 1 \/ pps.matrix_present = 1 \/ pps.second_chroma_qp_offset # 0
NumPpsLists(pps, sps) == 6 + (IF pps.transform_8x8 = 0 THEN 0 ELSE IF sps.chroma_format_idc # 3 THEN 2 ELSE 6)

WritePps(pps, sps) ==
  PpsHead(pps)
    \o When(WritesPpsTail(pps),
         U(1, pps, <<"transform_8x8", "matrix_present">>)
           \o When(pps.matrix_present = 1, WriteScalingLists(pps.lists, NumPpsLists(pps, sps)))
           \o Se(pps, <<"second_chroma_qp_offset">>))

\* has_more_rsbp_data is whether the writer left a tail.
ReadPps(pps, sps) ==
  LET lists == ReadScalingLists(pps.lists, 6)
      large == IF sps.chroma_format_idc # 3 THEN 8 ELSE 12
      tail  == U(1, pps, <<"transform_8x8", "matrix_present">>)
                 \o (IF pps.matrix_present = 1
                     THEN IF pps.transform_8x8 = 1 THEN ReadScalingLists(pps.lists, large) ELSE lists ELSE <<>>)
                 \o Se(pps, <<"second_chroma_qp_offset">>)
  IN PpsHead(pps) \o (IF WritesPpsTail(pps) THEN tail ELSE <<>>)

ParsedPps(pps, sps) ==
  LET tail == WritesPpsTail(pps)
      base == IF sps.matrix_present = 0 THEN Defaults
              ELSE [i \in {1, 4, 7, 8} |-> sps.lists[i]]
  IN [pps EXCEPT !.second_chroma_qp_offset = IF tail THEN @ ELSE pps.chroma_qp_offset,
        !.lists = IF tail /\ pps.matrix_present = 1
                  THEN ParsedLists(pps.lists, NumPpsLists(pps, sps), base, AllLists(Zeroed))
                  ELSE sps.lists]

AcceptsPps(pps, sps) ==
  /\ pps.l0_default <= 31 /\ pps.l1_default <= 31
  /\ Within(pps.init_qp, -(26 + 6 * sps.bit_depth_luma), 25)
  /\ Within(pps.chroma_qp_offset, -12, 12)

(****************************** default structures *************************)
\* The defaults of Sps, VuiParams and SliceHeader, and PpsBuilder::new
DefaultHrd == [cpb_cnt |-> 0]
DefaultVui ==
  [aspect_ratio_info_present |-> 0, aspect_ratio_idc |-> 0, overscan_info_present |-> 0,
   video_signal_type_present |-> 0, colour_description_present |-> 0, chroma_loc_info_present |-> 0,
   timing_info_present |-> 0, nal_hrd |-> 0, vcl_hrd |-> 0, hrd |-> DefaultHrd, bitstream_restriction |-> 0]

DefaultSps ==
  [id |-> 0, profile |-> 0, level |-> 0, constraint3 |-> 0, chroma_format_idc |-> 0, separate_colour_plane |-> 0,
   bit_depth_luma |-> 0, bit_depth_chroma |-> 0, matrix_present |-> 0, lists |-> AllLists(Zeroed),
   log2_max_frame_num |-> 0, poc_type |-> 0, log2_max_poc_lsb |-> 0, delta_always_zero |-> 0,
   num_ref_frames_in_cycle |-> 0, offsets |-> [i \in 1 .. TableSize |-> 0], max_num_ref_frames |-> 0,
   width_in_mbs |-> 0, height_in_units |-> 0, frame_mbs_only |-> 0, mbaff |-> 0, direct_8x8 |-> 0,
   cropping |-> 0, crop_left |-> 0, crop_right |-> 0, crop_top |-> 0, crop_bottom |-> 0,
   vui_present |-> 0, vui |-> DefaultVui]

\* A new Pps takes the id of its sequence set.
NewPps(sps) ==
  [id |-> 0, sps_id |-> sps.id, cabac |-> 0, bottom_field_poc |-> 0, l0_default |-> 0, l1_default |-> 0,
   weighted_pred |-> 0, weighted_bipred |-> 0, init_qp |-> 0, chroma_qp_offset |-> 0, deblocking_control |-> 0,
   redundant_pic_cnt |-> 0, transform_8x8 |-> 0, matrix_present |-> 0, lists |-> AllLists(Zeroed),
   second_chroma_qp_offset |-> 0]

DefaultSlice ==
  [first_mb |-> 0, type |-> "P", pps_id |-> 0, field_pic |-> 0, bottom_field |-> 0, override |-> 0,
   l0 |-> 0, l1 |-> 0, modify0 |-> 0, mods0 |-> <<>>, modify1 |-> 0, mods1 |-> <<>>,
   weights0 |-> <<<<0, 0>>, <<0, 0>>>>, weights1 |-> <<<<0, 0>>, <<0, 0>>>>, adaptive_marking |-> 0, ops |-> <<>>,
   qp_delta |-> 0, disable_deblocking |-> 0]

(******************************* slice header ******************************)
\* Slice h of a nalu with fields idr (a flag) and ref_idc.  h.mods0 and
\* h.mods1 are the lists of modification_of_pic_nums_idc (without the final
\* 3), h.ops the memory management operations (without the final 0), each
\* absent when the flag is 0.
IsB(h) == h.type = "B"
IsP(h) == h.type \in {"P", "SP"}
IsI(h) == h.type \in {"I", "SI"}

SliceIds(h, sps, nalu) ==
  Ue(h, <<"first_mb", "type_code", "pps_id">>)
    \o When(sps.separate_colour_plane = 1, U(2, h, <<"colour_plane">>))
    \o U(sps.log2_max_frame_num + 4, h, <<"frame_num">>)
    \o When(sps.frame_mbs_only = 0, U(1, h, <<"field_pic">>) \o When(h.field_pic = 1, U(1, h, <<"bottom_field">>)))
    \o When(nalu.idr = 1, Ue(h, <<"idr_pic_id">>))

SlicePoc(h, sps, pps) ==
  LET both == pps.bottom_field_poc = 1 /\ h.field_pic = 0
  IN When(sps.poc_type = 0, U(sps.log2_max_poc_lsb + 4, h, <<"poc_lsb">>) \o When(both, Se(h, <<"delta_bottom">>)))
       \o When(sps.poc_type = 1 /\ sps.delta_always_zero = 0,
               Se(h, <<"delta_poc_0">>) \o When(both, Se(h, <<"delta_poc_1">>)))

SliceModification(idcs) ==
  Each(Len(idcs), LAMBDA i : El(0, "modification_idc", idcs[i])
                               \o Either(idcs[i] \in {0, 1}, El(0, "abs_diff_pic_num", 0),
                                         El(0, "long_term_pic_num", 0)))
    \o El(0, "modification_idc", 3)
SliceModifications(h) ==
  When(~IsI(h), U(1, h, <<"modify0">>) \o When(h.modify0 = 1, SliceModification(h.mods0)))
    \o When(IsB(h), U(1, h, <<"modify1">>) \o When(h.modify1 = 1, SliceModification(h.mods1)))

SliceWeights(h, sps) ==
  LET chroma == ChromaArrayType(sps) # 0
      Weights(ws, n) ==
        Each(n, LAMBDA i :
          El(1, "luma_flag", ws[i][1]) \o When(ws[i][1] = 1, El(-1, "luma_weight", 0) \o El(-1, "luma_offset", 0))
            \o When(chroma, El(1, "chroma_flag", ws[i][2])
                 \o When(ws[i][2] = 1, Each(2, LAMBDA j : El(-1, "chroma_weight", 0) \o El(-1, "chroma_offset", 0)))))
  IN El(0, "luma_denom", 0) \o When(chroma, El(0, "chroma_denom", 0))
       \o Weights(h.weights0, h.l0 + 1) \o When(IsB(h), Weights(h.weights1, h.l1 + 1))

SliceMarking(h, nalu) ==
  Either(nalu.idr = 1, U(1, h, <<"no_output_of_prior_pics", "long_term_reference">>),
    U(1, h, <<"adaptive_marking">>)
      \o When(h.adaptive_marking = 1,
           Each(Len(h.ops), LAMBDA i :
             LET op == h.ops[i]
             IN El(0, "operation", op) \o When(op \in {1, 3}, El(0, "difference_of_pic_nums", 0))
                  \o When(op = 2, El(0, "long_term_pic_num", 0)) \o When(op \in {3, 6}, El(0, "long_term_frame_idx", 0))
                  \o When(op = 4, El(0, "max_long_term_frame_idx", 0)))
             \o El(0, "operation", 0)))

\* parse_slice_header under the sets it finds
ReadSlice(h, sps, pps, nalu) ==
  SliceIds(h, sps, nalu) \o SlicePoc(h, sps, pps)
    \o When(pps.redundant_pic_cnt = 1, El(0, "redundant_pic_cnt", 0))
    \o When(IsB(h), U(1, h, <<"direct_spatial">>))
    \o When(IsP(h) \/ IsB(h), U(1, h, <<"override">>)
         \o When(h.override = 1, Ue(h, <<"l0">>) \o When(IsB(h), Ue(h, <<"l1">>))))
    \o SliceModifications(h)
    \o When((pps.weighted_pred = 1 /\ IsP(h)) \/ (pps.weighted_bipred = 1 /\ IsB(h)), SliceWeights(h, sps))
    \o When(nalu.ref_idc # 0, SliceMarking(h, nalu))
    \o When(pps.cabac = 1 /\ ~IsI(h), El(0, "cabac_init_idc", 0))
    \o Se(h, <<"qp_delta">>)
    \o When(h.type \in {"SP", "SI"}, When(h.type = "SP", U(1, h, <<"sp_for_switch">>)) \o Se(h, <<"qs_delta">>))
    \o When(pps.deblocking_control = 1,
         Ue(h, <<"disable_deblocking">>) \o When(h.disable_deblocking # 1, Se(h, <<"alpha", "beta">>)))

\* The numbers of references come from the picture set without an override.
ParsedSlice(h, pps) ==
  [h EXCEPT !.l0 = IF IsI(h) THEN 0 ELSE IF h.override = 1 THEN @ ELSE pps.l0_default,
            !.l1 = IF ~IsB(h) THEN 0 ELSE IF h.override = 1 THEN @ ELSE pps.l1_default]

AcceptsSlice(h) ==
  /\ IF h.field_pic = 1 THEN h.l0 <= 31 /\ h.l1 <= 31 ELSE h.l0 <= 15 /\ h.l1 <= 15
  /\ Within(h.qp_delta, -87, 77)
=============================================================================
