------------------------------ MODULE MCHeaders -----------------------------
(* An instance of Headers for TLC. *)
EXTENDS Headers, TLC

H264 == INSTANCE H264Syntax
H265 == INSTANCE H265Syntax
LOCAL INSTANCE Av1Parser

\* A header with up to n of the optional parts of a set of parts
Variants(base, parts, n) ==
  {base} \cup {p @@ base : p \in parts}
    \cup (IF n < 2 THEN {} ELSE {p @@ (q @@ base) : p \in parts, q \in parts})

\* ------------------------------- H.264 -----------------------------------
H264Base == [H264!DefaultSps EXCEPT !.profile = 100, !.chroma_format_idc = 1, !.frame_mbs_only = 1,
               !.lists = H264!AllLists(H264!Flat), !.width_in_mbs = 1, !.height_in_units = 1]
SomeLists == [i \in 1 .. 12 |-> CASE i % 4 = 0 -> H264!DefaultList(i) [] i % 4 = 1 -> <<255, 8, 8, 8>>
                                 [] i % 4 = 2 -> <<9, 200, 3, 8>> [] OTHER -> H264!Flat]
Vui264 == {[vui_present |-> 1, vui |-> v] : v \in
  Variants(H264!DefaultVui,
    {[aspect_ratio_info_present |-> 1, aspect_ratio_idc |-> 255], [nal_hrd |-> 1, hrd |-> [cpb_cnt |-> 1]],
     [vcl_hrd |-> 1], [bitstream_restriction |-> 1], [chroma_loc_info_present |-> 1],
     [overscan_info_present |-> 1], [video_signal_type_present |-> 1, colour_description_present |-> 1],
     [timing_info_present |-> 1, num_units_in_tick |-> 1, time_scale |-> 50]}, 2)}
Plain264 == {H264!ParsedSps(s) : s \in
  Variants(H264Base,
    {[profile |-> 66], [chroma_format_idc |-> 0], [chroma_format_idc |-> 3, separate_colour_plane |-> 1],
     [chroma_format_idc |-> 3, matrix_present |-> 1, lists |-> SomeLists], [matrix_present |-> 1, lists |-> SomeLists],
     [matrix_present |-> 1, lists |-> H264!AllLists(H264!Zeroed)],
     [poc_type |-> 2], [frame_mbs_only |-> 0, mbaff |-> 1], [log2_max_frame_num |-> 4, log2_max_poc_lsb |-> 2],
     [cropping |-> 1, crop_right |-> 2], [id |-> 1, chroma_format_idc |-> 0]}, 1)}
Sps264 == Plain264 \cup {H264!ParsedSps(s) : s \in Variants(H264Base, Vui264, 1)}
Slice264(sps, pps) == {[header |-> h, nalu |-> n] : n \in {[idr |-> 1, ref_idc |-> 3], [idr |-> 0, ref_idc |-> 1]},
  h \in {H264!ParsedSlice(x, pps) : x \in
    Variants(H264!DefaultSlice,
      {[type |-> "I"], [type |-> "B"], [type |-> "SP"], [override |-> 1, l0 |-> 1], [field_pic |-> 1],
       [modify0 |-> 1, mods0 |-> <<0, 2>>], [type |-> "B", modify1 |-> 1, mods1 |-> <<1>>],
       [adaptive_marking |-> 1, ops |-> <<1, 3, 4>>], [adaptive_marking |-> 1, ops |-> <<2, 6, 5>>],
       [disable_deblocking |-> 1], [weights0 |-> <<<<1, 1>>, <<0, 1>>>>]}, 1)}}
Pps264 == Variants(H264!NewPps(H264Base),
    {[cabac |-> 1], [weighted_pred |-> 1], [weighted_bipred |-> 1], [bottom_field_poc |-> 1],
     [deblocking_control |-> 1], [redundant_pic_cnt |-> 1], [l0_default |-> 1], [transform_8x8 |-> 1],
     [transform_8x8 |-> 1, matrix_present |-> 1, lists |-> SomeLists],
     [matrix_present |-> 1, lists |-> H264!AllLists(H264!Zeroed)], [sps_id |-> 1],
     [id |-> 1, sps_id |-> 1, weighted_pred |-> 1]}, 1)

\* ------------------------------- H.265 -----------------------------------
H265Base == [H265!DefaultSps EXCEPT !.chroma_format_idc = 1, !.width = 40, !.height = 24, !.log2_diff_cb = 1,
               !.max_dec_pic_buffering_minus1 = 3]
Half == [inter |-> 0, s0 |-> <<[poc |-> -1, used |-> 1], [poc |-> -3, used |-> 0]>>, s1 |-> <<[poc |-> 2, used |-> 1]>>]
Layer(g, w, l) == [general |-> g, within |-> w, low_delay |-> l, cpb_cnt |-> 0]
Hrds == {H265!ParsedHrd([nal |-> n, vcl |-> 1 - n, sub_pic |-> n, layers |-> <<Layer(g, n, 1), Layer(0, 0, g)>>]) :
           n \in {0, 1}, g \in {0, 1}}
SubLayers == <<[profile_present |-> 1, level_present |-> 0], [profile_present |-> 0, level_present |-> 1]>>
Profiles == {[profile |-> [H265!DefaultProfile EXCEPT !.idc = i, !.compat = {i, c}]] : i \in 1 .. 11, c \in {2, 5}}
Vui265 == {[vui |-> v] : v \in
  Variants([H265!DefaultVui EXCEPT !.present = 1],
    {[aspect_ratio_info_present |-> 1, aspect_ratio_idc |-> 255], [bitstream_restriction |-> 1],
     [chroma_loc_info_present |-> 1], [default_display_window |-> 1],
     [video_signal_type_present |-> 1, colour_description_present |-> 1],
     [timing_info_present |-> 1, poc_proportional |-> 1]}
      \cup {[timing_info_present |-> 1, hrd_present |-> 1, hrd |-> x] : x \in Hrds}, 2)}
LongTerm == [long_term_present |-> 1, lt_sps |-> <<1, 0>>]
Plain265 ==
  Variants(H265Base,
    {[chroma_format_idc |-> 3, separate_colour_plane_flag |-> 1], [subs |-> SubLayers, max_sub_layers_minus1 |-> 2],
     [conformance_window_flag |-> 1], [ordering_info_present |-> 1, max_sub_layers_minus1 |-> 2],
     [scaling_list_enabled |-> 1, scaling_data_present |-> 1, lists |-> [dc |-> 247, coefs |-> <<3, 200>>]],
     [pcm |-> 1], [rps |-> <<Half>>], [rps |-> <<H265!NoRps, Half>>], LongTerm, [temporal_mvp |-> 1],
     [sao_enabled |-> 1], [extension |-> 1, range_extension |-> 1], [id |-> 1, chroma_format_idc |-> 0]}, 1)
Sps265 == Plain265 \cup Variants(H265Base, Vui265, 1) \cup Variants(H265Base, Profiles, 1)
Pps265 ==
  Variants(H265!DefaultPps,
    {[dependent_slices |-> 1], [output_flag_present |-> 1], [extra_slice_bits |-> 2], [cabac_init_present |-> 1],
     [cu_qp_delta |-> 1], [chroma_qp_offsets_present |-> 1], [weighted_pred |-> 1], [weighted_bipred |-> 1],
     [tiles |-> 1, uniform |-> 0, cols |-> <<0>>, rows |-> <<0>>], [tiles |-> 1, uniform |-> 0, cols |-> <<1>>],
     [tiles |-> 1, uniform |-> 0, cols |-> <<2>>], [tiles |-> 1, uniform |-> 0, cols |-> <<0, 1>>],
     [tiles |-> 1, uniform |-> 0, cols |-> <<0, 0>>], [tiles |-> 1, cols |-> <<0>>], [entropy_sync |-> 1],
     [deblocking_control |-> 1, deblocking_override |-> 1], [deblocking_control |-> 1, deblocking_disabled |-> 1],
     [across_slices |-> 1], [lists_modification |-> 1], [header_extension |-> 1], [l0_default |-> 1],
     [scaling_data_present |-> 1, lists |-> [dc |-> -7, coefs |-> <<255, 0>>]],
     [extension |-> 1, range_extension |-> 1, transform_skip |-> 1, chroma_qp_offset_list |-> 1, chroma_qp_offset_len |-> 1],
     [sps_id |-> 1], [id |-> 1, sps_id |-> 1, weighted_pred |-> 1]}, 1)
Lt(m) == [used |-> 1, msb_present |-> m, msb_cycle |-> m]
Ws == <<<<1, 0>>, <<0, 1>>>>
Slice265(sps, pps) ==
  {[header |-> H265!ParsedSlice(n, x, sps, pps), nalu |-> n] : n \in {"idr", "irap", "trail"},
    x \in Variants([H265!DefaultSlice EXCEPT !.type = "P", !.weights0 = Ws, !.weights1 = Ws],
      {[type |-> "I"], [type |-> "B"], [first |-> 0, segment_address |-> 1, dependent |-> 1],
       [first |-> 0, segment_address |-> 2], [st |-> Half], [st_sps_flag |-> 1],
       [num_lt_sps |-> 1, lt |-> <<Lt(1), Lt(0), Lt(1)>>, st |-> Half], [temporal_mvp |-> 1],
       [type |-> "B", temporal_mvp |-> 1, collocated_from_l0 |-> 0],
       [override |-> 1, l0 |-> 1], [override |-> 1, type |-> "B", l0 |-> 1, l1 |-> 1, st |-> Half],
       [modify0 |-> 1, st |-> Half], [type |-> "B", modify1 |-> 1, st |-> Half], [sao_luma |-> 1],
       [sao_chroma |-> 1, deblocking_override |-> 1, deblocking_disabled |-> 1], [entry_points |-> 1, offset_len |-> 3]}, 1)}

Vps265 ==
  Variants(H265!DefaultVps,
    {[max_sub_layers_minus1 |-> 2, subs |-> SubLayers, ordering_info_present |-> 1],
     [num_layer_sets_minus1 |-> 1, max_layer_id |-> 1], [timing_info_present |-> 1, poc_proportional |-> 1]}
      \cup Profiles
      \cup {[timing_info_present |-> 1, hrds |-> <<[hrd |-> x, cprms |-> 1], [hrd |-> y, cprms |-> 1]>>] : x \in Hrds, y \in Hrds}, 1)

\* ------------------------------ constants --------------------------------
MCSpses == [h264 |-> Sps264, h265 |-> Sps265]
MCFollowed == [h264 |-> Plain264, h265 |-> Plain265]
MCPpses == [h264 |-> Pps264, h265 |-> Pps265]
MCSlices(c, sps, pps) == IF c = "h264" THEN Slice264(sps, pps) ELSE Slice265(sps, pps)

\* Differences between sets of pictures at distances of up to three
Halves == {<<>>, <<1>>, <<2>>, <<1, 3>>}
MCPredictions ==
  LET Set(neg, pos) == [inter |-> 0, s0 |-> [i \in DOMAIN neg |-> [poc |-> -neg[i], used |-> 1]],
                        s1 |-> [i \in DOMAIN pos |-> [poc |-> pos[i], used |-> 0]]]
      All(n, use, used) == [i \in 1 .. n |-> [use |-> IF i \in use THEN 1 ELSE 0, used |-> IF i \in used THEN 1 ELSE 0]]
  IN UNION {{[ref |-> Set(neg, pos), delta |-> d, flags |-> All(5, use, used)] :
               d \in {-3, -1, 1, 2}, use \in SUBSET (1 .. Len(neg) + Len(pos) + 1), used \in {{1, 3}, {2, 4}}} :
             neg \in Halves, pos \in Halves}

MCConfigs ==
  {[profile |-> p, width |-> w, height |-> h, limit |-> l, min_quality |-> q[1], max_quality |-> q[2], quality |-> q[3],
    framerate |-> 25, color |-> k, caps |-> b] :
     p \in {"main", "ten", "422"}, w \in {16, 34, 64}, h \in {18, 32}, l \in {16, 2048}, k \in {TRUE},
     q \in {<<0, 51, -1>>, <<10, 60, 55>>, <<20, 30, 5>>},
     b \in {[ctb |-> c, min_tb |-> t[1], max_tb |-> t[2]] : c \in {0, 16, 48, 128}, t \in {<<0, 0>>, <<4, 8>>, <<16, 64>>, <<4, 64>>}}}

\* -------------------------------- AV1 -------------------------------------
MCObuHeaders == {[type |-> t, extension |-> e, has_size |-> z, temporal_id |-> 2 * e, spatial_id |-> e] :
                   t \in {1, 6}, e \in {0, 1}, z \in {0, 1}}

\* Sequence headers by their optional parts, and one for the order of frames
Point(l, m, d) == [idc |-> {<<0, 0>>}, level |-> l, tier |-> 1, model |-> m, delay |-> d]
Av1Base == [DefaultSequence EXCEPT !.order_hint = 1, !.hint_bits = 3]
SequenceParts ==
  {[profile |-> 1], [profile |-> 2, high |-> 1, twelve |-> 1, ssy |-> 0], [reduced |-> 1, still |-> 1],
   [timing |-> 1, model |-> 1], [timing |-> 1, equal_interval |-> 1, display_delay |-> 1],
   [ops |-> <<DefaultOp, Point(8, 1, 1)>>], [ids |-> 1], [sb128 |-> 1], [order_hint |-> 0, hint_bits |-> 0],
   [jnt_comp |-> 1, ref_mvs |-> 1, warped |-> 1], [choose_sct |-> 1, force_sct |-> SELECT_SCREEN_CONTENT_TOOLS],
   [force_sct |-> 1, force_imv |-> 1], [superres |-> 1], [cdef |-> 1, restoration |-> 1], [film_grain |-> 1],
   [mono |-> 1], [described |-> 1, srgb |-> 1], [high |-> 1, separate_uv |-> 1], [profile |-> 3], [max_width |-> 72, width_bits |-> 7]}
Ordered == [Av1Base EXCEPT !.hint_bits = 4]
Large == [Av1Base EXCEPT !.hint_bits = 5]
MCSequenceHeaders == Variants(Av1Base, SequenceParts, 2) \cup {Ordered, Large, [Large EXCEPT !.sb128 = 1]}
MCRefilled == {ParsedSequence(Ordered)}
Looked == {ParsedSequence(s) : s \in Variants(Av1Base, SequenceParts, 1)}

\* Frames by their optional parts
FrameParts ==
  {[show_existing |-> 1], [type |-> "intra_only", refresh |-> {1}], [show |-> 0, error_res |-> 0], [sct |-> 1, intrabc |-> 1],
   [sct |-> 1, imv |-> 1], [base |-> 20, lf0 |-> 9, lf1 |-> 9, lf_enabled |-> 1], [base |-> 20, delta_q |-> 1],
   [base |-> 20, y_dc |-> -3, diff_uv |-> 1, v_ac |-> 2, qmatrix |-> 1], [override |-> 1, width |-> 200, height |-> 72],
   [render |-> 1, rwidth |-> 80, rheight |-> 70], [use_superres |-> 1, denom |-> 12], [seg |-> 1, features |-> {<<1, 1>>, <<3, 6>>}],
   [base |-> 9, cdef_bits |-> 1, cdef_sec |-> 4], [base |-> 9, lr |-> <<"switchable", "none", "wiener">>, lr_shift |-> 1], [grain |-> 1],
   [disable_cdf |-> 1, tx_select |-> 0, reduced_tx |-> 0], [type |-> "inter", refresh |-> {2}],
   [type |-> "inter", refresh |-> {2}, error_res |-> 0, primary |-> 0], [type |-> "switch", show |-> 0, showable |-> 1],
   [type |-> "inter", hp_mv |-> 1, switchable |-> 1, reference_select |-> 1, warped |-> 1],
   [type |-> "inter", gm |-> [r \in 1 .. REFS_PER_FRAME |-> IF r = 2 THEN "rotzoom" ELSE "identity"]]}
SyntaxFrames == Variants(DefaultFrame, FrameParts, 1)
CrossedFrames == Variants(DefaultFrame, FrameParts, 2)
Crossed == {ParsedSequence(s) : s \in {Av1Base} \cup {p @@ Av1Base : p \in {[superres |-> 1], [film_grain |-> 1], [cdef |-> 1, restoration |-> 1]}}}

\* Inter frames by the place of their references in the order of display
OrderedFrames ==
  {[DefaultFrame EXCEPT !.type = "inter", !.error_res = 0, !.order_hint = n, !.refresh = {}, !.reference_select = 1,
      !.short = 1, !.last = l, !.gold = 0] : n \in {0, 2, 5, 13}, l \in {1, 3}}
  \cup {[DefaultFrame EXCEPT !.type = "inter", !.error_res = 0, !.order_hint = n, !.refresh = {}, !.reference_select = 1,
           !.refs = [r \in 1 .. REFS_PER_FRAME |-> (3 * r) % NUM_REF_FRAMES]] : n \in {2, 5}}

\* Frames by their size and their tiles, even or with a narrow first one
TiledFrames(s) ==
  LET Shape(w, h, t) == [DefaultFrame EXCEPT !.override = 1, !.width = w, !.height = h, !.tiles = t]
      Cut(n) == {<<n>>, <<1, n - 1>>, <<n - n \div 2, n \div 2>>, <<n \div 3, n \div 3, n - 2 * (n \div 3)>>}
      Even == {[uniform |-> 1, cols |-> c, rows |-> r] : c \in 0 .. 6, r \in 0 .. 3}
      Given(w, h) == {[uniform |-> 0, cols |-> c, rows |-> r] : c \in Cut(InSbs(MiSize(w), s)), r \in Cut(InSbs(MiSize(h), s))}
  IN UNION {{Shape(w, h, t) : t \in Even \cup Given(w, h)} : w \in {8, 64, 65, 200, 600, 4096, 4160, 8192}, h \in {64, 129, 700, 2368}}

MCFrames(s) ==
  (IF s \in Looked THEN SyntaxFrames ELSE {}) \cup (IF s \in Crossed THEN CrossedFrames ELSE {}) \cup (IF s.hint_bits = 4 THEN OrderedFrames ELSE {})
    \cup (IF s.hint_bits = 5 THEN TiledFrames(s) ELSE {})
MCGroups == <<{1}, {2}, {3, 4}, {5, 6, 7}>>
MCHints == {1, 4, 14}

Config(w, h, p, k, q, l) ==
  [width |-> w, height |-> h, profile |-> p, framerate |-> 30, kbps |-> k, color |-> p = "ten", min_quality |-> q[1],
   max_quality |-> q[2], quality |-> q[3], limit |-> l]
MCAv1Configs ==
  {Config(65, 130, "main", 2000, <<0, 255, -1>>, 260)}
  \cup {Config(w, h, p, k, q, 3) : w \in {65, 320, 1920, 4096}, h \in {72, 1080, 2160}, p \in {"main", "ten"},
          k \in {100, 11000, 50000}, q \in {<<0, 255, -1>>, <<30, 20, 300>>, <<10, 300, 5>>}}
MCForcedAt == {1, 258}

\* ---------------------------- VP8 and VP9 ----------------------------------
NoSeg8 == [enabled |-> FALSE, update_map |-> FALSE, update_data |-> FALSE, mode |-> FALSE,
           quantizer |-> <<>>, lf |-> <<>>, probs |-> 0]
NoAdj == [enable |-> FALSE, delta_update |-> FALSE, refs |-> <<>>, modes |-> <<>>]
Base8 == [key_frame |-> FALSE, cut |-> "none", first_part_size |-> 20, partitions |-> <<>>, length |-> 50,
          seg |-> NoSeg8, adj |-> NoAdj, quant |-> [y_ac |-> 10], refresh_last |-> TRUE, golden |-> "keep", alternate |-> "keep",
          refresh_entropy_probs |-> TRUE, coeff |-> <<>>, mv |-> <<>>, modes |-> <<>>]
Seg8 == [NoSeg8 EXCEPT !.enabled = TRUE, !.update_map = TRUE, !.update_data = TRUE, !.quantizer = (1 :> 5),
                       !.lf = (2 :> -3), !.probs = 90]
Parts8 ==
  {[seg |-> Seg8], [seg |-> [Seg8 EXCEPT !.update_map = FALSE, !.quantizer = (3 :> 7)]],
   [seg |-> [Seg8 EXCEPT !.update_data = FALSE]], [seg |-> [Seg8 EXCEPT !.update_data = FALSE, !.update_map = FALSE]],
   [adj |-> [NoAdj EXCEPT !.enable = TRUE]],
   [adj |-> [enable |-> TRUE, delta_update |-> TRUE, refs |-> (1 :> 2), modes |-> (4 :> -2)]],
   [coeff |-> (1 :> 200), mv |-> (1 :> 0)], [coeff |-> (2 :> 3), mv |-> (1 :> 100), modes |-> (1 :> "new_y")],
   [quant |-> [y_ac |-> 3, uv_dc |-> -2], modes |-> (2 :> "new_uv"), golden |-> "frame", alternate |-> "golden"],
   [partitions |-> <<4, 0, 9>>], [partitions |-> <<10>>, length |-> 33], [partitions |-> <<10>>, length |-> 32]}
MCVp8Frames ==
  {f \in UNION {Variants([Base8 EXCEPT !.key_frame = k, !.refresh_entropy_probs = e], Parts8, 1) : k \in BOOLEAN, e \in BOOLEAN} :
     f.refresh_entropy_probs \/ f.coeff # <<>>}
  \cup {[Base8 EXCEPT !.key_frame = k, !.seg = Seg8, !.cut = c] : k \in BOOLEAN, c \in {"segmentation", "quant"}}

NoLf == [level |-> 40, delta_enabled |-> FALSE, delta_update |-> FALSE, ref_deltas |-> <<>>, mode_deltas |-> <<>>]
NoSeg9 == [enabled |-> FALSE, update_map |-> FALSE, probs |-> 0, temporal_update |-> FALSE, update_data |-> FALSE,
           abs_or_delta_update |-> FALSE, features |-> <<>>]
Base9 == [show_existing_frame |-> FALSE, key_frame |-> FALSE, intra_only |-> FALSE, error_resilient_mode |-> FALSE,
          profile |-> 0, color |-> [bit_depth |-> 10, space |-> "bt709", range |-> "full", subsampling |-> <<FALSE, TRUE>>],
          size |-> <<64, 64>>, render_size |-> <<>>, found_ref |-> 1, ref_frame_idx |-> <<1, 0, 0>>,
          refresh_frame_flags |-> {0}, refresh_frame_context |-> TRUE, lf |-> [NoLf EXCEPT !.delta_enabled = TRUE],
          quant |-> [base_q_idx |-> 60, y_dc |-> 0, uv_dc |-> -3, uv_ac |-> 0], seg |-> NoSeg9,
          tile_increments |-> 1, cut |-> "none"]
Value(m, n) == [magnitude |-> m, negative |-> n]
Seg9 == [enabled |-> TRUE, update_map |-> TRUE, probs |-> 70, temporal_update |-> TRUE, update_data |-> TRUE,
         abs_or_delta_update |-> TRUE,
         features |-> (<<1, "alt_q">> :> Value(90, FALSE)) @@ (<<1, "ref_frame">> :> Value(1, FALSE))]
Parts9 ==
  {[lf |-> NoLf], [lf |-> [NoLf EXCEPT !.level = 0]],
   [lf |-> [level |-> 20, delta_enabled |-> TRUE, delta_update |-> TRUE, ref_deltas |-> (1 :> 5), mode_deltas |-> (1 :> -2)]],
   [seg |-> Seg9], [seg |-> [Seg9 EXCEPT !.update_data = FALSE]], [seg |-> [Seg9 EXCEPT !.update_map = FALSE, !.update_data = FALSE]],
   [seg |-> [Seg9 EXCEPT !.abs_or_delta_update = FALSE, !.features = (<<0, "alt_l">> :> Value(31, TRUE)) @@ (<<1, "skip">> :> Value(0, FALSE))]]}
Keys9 == Variants([Base9 EXCEPT !.key_frame = TRUE], {[lf |-> NoLf], [seg |-> Seg9], [seg |-> [Seg9 EXCEPT !.update_data = FALSE]], [profile |-> 2, size |-> <<4160, 64>>],
  [profile |-> 1, color |-> [Base9.color EXCEPT !.space = "srgb"]], [cut |-> "size"], [cut |-> "segmentation"]}, 1)
Inters9 == Variants(Base9, Parts9 \cup {[found_ref |-> 0, size |-> <<512, 256>>, refresh_frame_flags |-> {1}],
  [error_resilient_mode |-> TRUE], [intra_only |-> TRUE, size |-> <<130, 64>>, refresh_frame_flags |-> {1}],
  [intra_only |-> TRUE, profile |-> 2], [ref_frame_idx |-> <<0, 0, 0>>, refresh_frame_flags |-> {1}], [found_ref |-> 2],
  [render_size |-> <<32, 32>>]}, 1)
  \cup {p @@ [Base9 EXCEPT !.cut = c] : p \in {q \in Parts9 : "lf" \in DOMAIN q \/ q.seg = Seg9}, c \in {"segmentation", "tiles"}}
Shown9 == [show_existing_frame |-> TRUE, slot |-> 1]
Hidden9 == {[Base9 EXCEPT !.found_ref = 0, !.size = <<512, 256>>, !.refresh_frame_flags = {1}]}
Whole(frames) == [frames |-> frames, index |-> IF Len(frames) = 1 THEN "none" ELSE "good"]
MCVp9Chunks ==
  {Whole(<<f>>) : f \in Keys9 \cup Inters9 \cup {Shown9}}
  \cup {Whole(<<f, g>>) : f \in Hidden9, g \in {Shown9, Base9} \cup {p @@ Base9 : p \in {[found_ref |-> 2], [lf |-> NoLf]}}}
  \cup {Whole(<<Base9, g>>) : g \in Hidden9}
  \cup {[frames |-> <<Base9, Shown9>>, index |-> "broken"], Whole([i \in 1 .. 9 |-> Shown9])}
=============================================================================
