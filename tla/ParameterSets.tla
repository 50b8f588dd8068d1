---------------------------- MODULE ParameterSets ---------------------------
(***************************************************************************)
(* A stream of parameter sets and slices, of H.264 or H.265, from the      *)
(* writer to the parser.  The sender holds the sets it has sent last; the  *)
(* parser keeps the sets it was given by id (active_spses, active_ppses),  *)
(* and a picture set keeps the sequence set it found when it was parsed    *)
(* (pps.sps, a reference-counted pointer), under which every slice is read.*)
(***************************************************************************)
EXTENDS Integers, Sequences, SequencesExt

CONSTANTS
  Spses, Ppses,   (* the sets the sender uses, by codec, and ...            *)
  Slices(_, _, _),(* ... its slices, by codec, sequence and picture set     *)
  Vpses,          (* its video parameter sets (H.265)                       *)
  Predictions,    (* predicted short-term sets: [ref, delta, flags]         *)
  Configs,        (* the configurations of the crate's own encoders         *)
  Followed,       (* bound: the sequence sets that more headers follow      *)
  MaxSets,        (* MAX_SPS_COUNT and MAX_PPS_COUNT                        *)
  Careful         (* does the sender repeat a picture set after a sequence  *)
                  (* set with other content, before a slice refers to it?   *)

H264 == INSTANCE H264Syntax
H265 == INSTANCE H265Syntax

-----------------------------------------------------------------------------
(* The parameter sets the low-delay predictors of the crate build from a   *)
(* configuration: encoder/stateless/h264/predictor.rs over SpsBuilder and  *)
(* PpsBuilder, encoder/stateless/h265/predictor.rs over the block sizes a  *)
(* driver reports.  A configuration c is [profile, width, height, limit,   *)
(* min_quality, max_quality, quality, color, caps]; quality is the QP of   *)
(* RateControl::ConstantQuality or -1.                                     *)

Clamp(v, lo, hi) == IF v < lo THEN lo ELSE IF v > hi THEN hi ELSE v
Least(a, b) == IF a < b THEN a ELSE b
Most(a, b) == IF a < b THEN b ELSE a
\* ilog2
Log2(n) == CHOOSE k \in 0 .. 30 : 2^k <= n /\ n < 2^(k + 1)
AlignUp(x, a) == ((x + a - 1) \div a) * a

(********************************** H.264 **********************************)
\* pic_width_in_mbs_minus1, pic_height_in_map_units_minus1 and, where the
\* size is not a multiple of 16, the crop in chroma samples
Resolution(sps, width, height) ==
  LET w      == AlignUp(width, 16)
      h      == AlignUp(height, 16)
      unit_x == IF sps.chroma_format_idc > 2 THEN 1 ELSE 2
      unit_y == (IF sps.chroma_format_idc > 1 THEN 1 ELSE 2) * (IF sps.frame_mbs_only = 1 THEN 1 ELSE 2)
      coded  == [sps EXCEPT !.width_in_mbs = w \div 16 - 1, !.height_in_units = h \div 16 - 1]
  IN IF w = width /\ h = height THEN coded
     ELSE [coded EXCEPT !.cropping = 1, !.crop_bottom = (h - height) \div unit_y,
                        !.crop_right = (w - width) \div unit_x]

\* video_signal_type of the builder turns the VUI on.
SignalVui(vui, color) ==
  IF color THEN [vui EXCEPT !.video_signal_type_present = 1, !.colour_description_present = 1] ELSE vui

\* The middle of the bounds without a constant quality
InitQp(c, min_qp, max_qp) ==
  IF c.quality >= 0 THEN Clamp(c.quality, min_qp, max_qp) ELSE (min_qp + max_qp) \div 2

BuildH264(c) ==
  LET base == [H264!DefaultSps EXCEPT
                 !.profile = CASE c.profile = "main" -> 77 [] c.profile = "ten" -> 110 [] c.profile = "422" -> 122,
                 !.chroma_format_idc = IF c.profile = "422" THEN 2 ELSE 1,
                 !.log2_max_frame_num = Log2(c.limit) - 4, !.log2_max_poc_lsb = Log2(2 * c.limit) - 4,
                 !.max_num_ref_frames = 1, !.frame_mbs_only = 1, !.vui_present = 1]
      vui  == [H264!DefaultVui EXCEPT !.aspect_ratio_info_present = 1, !.aspect_ratio_idc = 1, !.timing_info_present = 1]
      rate == [f \in {"num_units_in_tick", "time_scale"} |-> IF f = "time_scale" THEN 2 * c.framerate ELSE 1]
      sps  == [Resolution(base, c.width, c.height) EXCEPT !.vui = rate @@ SignalVui(vui, c.color)]
      qp   == InitQp(c, Most(c.min_quality, 1), Least(c.max_quality, 51))
  IN [sps |-> sps, pps |-> [H264!NewPps(sps) EXCEPT !.init_qp = qp - 26, !.deblocking_control = 1]]

(********************************** H.265 **********************************)
FloorPow2(v, lo, hi) == 2^Log2(Clamp(v, lo, hi))

\* BlockSizes::from_caps of [ctb, min_tb, max_tb]
BlockSizes(caps) ==
  LET ctb    == FloorPow2(caps.ctb, 16, 64)
      max_tb == Least(FloorPow2(caps.max_tb, 4, 32), ctb)
      min_cb == IF ctb >= 32 THEN 16 ELSE 8
      min_tb == Least(Least(FloorPow2(caps.min_tb, 4, 32), max_tb), min_cb \div 2)
  IN [ctb |-> ctb, min_cb |-> min_cb, min_tb |-> min_tb, max_tb |-> max_tb]

\* The smallest that covers twice the limit, at most 12
\* Mutant: that covers the limit once.
Log2Covering(limit) == LET fits == {v \in 0 .. 12 : 2^(v + 4) >= limit} IN CHOOSE v \in fits : \A w \in fits : v <= w
Log2MaxPocLsbMinus4(limit) ==
  LET need == 2 * Most(limit, 1)
      fits == {v \in 0 .. 12 : 2^(v + 4) >= need}
  IN IF fits = {} THEN 12 ELSE CHOOSE v \in fits : \A w \in fits : v <= w

BuildPtl(profile) ==
  LET idc == CASE profile = "main" -> 1 [] profile = "ten" -> 2 [] profile = "422" -> 4
  IN [H265!DefaultProfile EXCEPT !.idc = idc, !.compat = {idc}]

\* profile_format and sub_wh_c
ProfileFormat(profile) ==
  CASE profile = "main" -> [depth |-> 0, chroma |-> 1, sub |-> <<2, 2>>]
    [] profile = "ten" -> [depth |-> 2, chroma |-> 1, sub |-> <<2, 2>>]
    [] profile = "422" -> [depth |-> 2, chroma |-> 2, sub |-> <<2, 1>>]

TransformHierarchyDepth == 2

PickInitQp(c) ==
  LET min_qp == Most(c.min_quality, 1)
  IN InitQp(c, min_qp, Most(Least(c.max_quality, 51), min_qp))

BuildH265(c) ==
  LET blocks  == BlockSizes(c.caps)
      coded_w == AlignUp(c.width, blocks.min_cb)
      coded_h == AlignUp(c.height, blocks.min_cb)
      format  == ProfileFormat(c.profile)
      depth   == Least(TransformHierarchyDepth, Log2(blocks.ctb) - Log2(blocks.min_tb))
      sps     == [H265!DefaultSps EXCEPT
        !.temporal_nesting = 1, !.profile = BuildPtl(c.profile), !.chroma_format_idc = format.chroma,
        !.width = coded_w, !.height = coded_h,
        !.conformance_window_flag = IF coded_w # c.width \/ coded_h # c.height THEN 1 ELSE 0,
        !.win_right = (coded_w - c.width) \div format.sub[1], !.win_bottom = (coded_h - c.height) \div format.sub[2],
        !.bit_depth_luma = format.depth, !.bit_depth_chroma = format.depth,
        !.log2_max_poc_lsb_minus4 = Log2MaxPocLsbMinus4(c.limit), !.ordering_info_present = 1,
        !.max_dec_pic_buffering_minus1 = 1,
        !.log2_min_cb_minus3 = Log2(blocks.min_cb) - 3, !.log2_diff_cb = Log2(blocks.ctb) - Log2(blocks.min_cb),
        !.log2_min_tb_minus2 = Log2(blocks.min_tb) - 2, !.log2_diff_tb = Log2(blocks.max_tb) - Log2(blocks.min_tb),
        !.hierarchy_inter = depth, !.hierarchy_intra = depth, !.amp = 1,
        !.vui = IF c.color THEN [SignalVui(H265!DefaultVui, TRUE) EXCEPT !.present = 1] ELSE H265!DefaultVui]
      pps     == [H265!DefaultPps EXCEPT !.init_qp = PickInitQp(c) - 26, !.cu_qp_delta = 1, !.across_slices = 1]
      vps     == [H265!DefaultVps EXCEPT !.temporal_nesting = 1, !.profile = BuildPtl(c.profile),
                    !.ordering_info_present = 1]
  IN [vps |-> vps, sps |-> sps, pps |-> pps]

\* The pictures of a group get different order counts, and the one before
\* the current one is less than half a cycle away.
NoPocWraps(c, sps) == 2 * c.limit <= 2^(sps.log2_max_poc_lsb_minus4 + 4)

-----------------------------------------------------------------------------

VARIABLES
  codec,    (* "h264" or "h265", for the whole stream                       *)
  own,      (* the sender's sets by id: [sps, pps], pps with "repeated"     *)
  active,   (* the parser's: [sps, pps], pps as [pps, sps]                  *)
  unit      (* the unit sent last: [kind, header, under, taken]; taken      *)
            (* says whether the parser has accepted it                      *)

vars == <<codec, own, active, unit>>

None == [kind |-> "none"]

Put(map, id, set) == (id :> set) @@ map

Init ==
  /\ codec \in {"h264", "h265"}
  /\ own = [sps |-> <<>>, pps |-> <<>>]
  /\ active = [sps |-> <<>>, pps |-> <<>>]
  /\ unit = None

----------------------------------------------------------------------------
(* The writer's and the parser's view of a unit                             *)

WrittenSps(sps) == IF codec = "h264" THEN H264!WriteSps(sps) ELSE H265!WriteSps(sps)
ReadSps(sps) == IF codec = "h264" THEN H264!ReadSps(H264!ParsedSps(sps)) ELSE H265!ReadSps(sps)
ParsedSps(sps) == IF codec = "h264" THEN H264!ParsedSps(sps) ELSE sps
AcceptsSps(sps) == IF codec = "h264" THEN H264!AcceptsSps(sps) ELSE H265!AcceptsSps(sps)

WrittenPps(pps, sps) == IF codec = "h264" THEN H264!WritePps(pps, sps) ELSE H265!WritePps(pps)
ReadPps(pps, sps) == IF codec = "h264" THEN H264!ReadPps(pps, sps) ELSE H265!ReadPps(pps)
ParsedPps(pps, sps) == IF codec = "h264" THEN H264!ParsedPps(pps, sps) ELSE pps
AcceptsPps(pps, sps) == IF codec = "h264" THEN H264!AcceptsPps(pps, sps) ELSE H265!AcceptsPps(pps, sps)

\* The program that writes H.264 slices is not part of the crate: it follows
\* the syntax that parse_slice_header reads.
WrittenSlice(s, sps, pps) ==
  IF codec = "h264" THEN H264!ReadSlice(s.header, sps, pps, s.nalu)
  ELSE H265!WriteSlice(s.nalu, s.header, sps, pps)
ReadSlice(s, sps, pps) ==
  IF codec = "h264" THEN H264!ReadSlice(H264!ParsedSlice(s.header, pps), sps, pps, s.nalu)
  ELSE H265!ReadSlice(s.nalu, s.header, sps, pps)
ParsedSlice(s, sps, pps) ==
  IF codec = "h264" THEN H264!ParsedSlice(s.header, pps)
  ELSE H265!ParsedSlice(s.nalu, s.header, sps, pps)
AcceptsSlice(s, sps, pps) ==
  IF codec = "h264" THEN H264!AcceptsSlice(s.header) ELSE H265!AcceptsSlice(s.nalu, s.header, sps, pps)

----------------------------------------------------------------------------

\* Bounds: a header that changes no set is the last, and a sequence set that
\* is not Followed is the only one.
GoesOn ==
  /\ unit.kind \in {"none", "sps", "pps"}
  /\ \A i \in DOMAIN own.sps : own.sps[i] \in Followed[codec]

HasRoom(table) == Cardinality(DOMAIN table) < MaxSets

\* parse_sps: a full table refuses a set, the one it would replace as well;
\* a careful sender fills its table and sends no set after that.
SendSps(sps) ==
  LET room == HasRoom(active.sps)
  IN /\ (Careful => HasRoom(own.sps))
     /\ AcceptsSps(sps)
     /\ own' = [sps |-> Put(own.sps, sps.id, sps),
                pps |-> [i \in DOMAIN own.pps |->
                           IF own.pps[i].pps.sps_id = sps.id /\ sps.id \in DOMAIN own.sps /\ own.sps[sps.id] # sps
                           THEN [own.pps[i] EXCEPT !.repeated = FALSE] ELSE own.pps[i]]]
     /\ active' = IF room THEN [active EXCEPT !.sps = Put(@, sps.id, ParsedSps(sps))] ELSE active
     /\ unit' = [kind |-> "sps", header |-> sps, taken |-> room]
     /\ UNCHANGED codec

\* parse_pps: the set it refers to must be there.
SendPps(pps) ==
  LET room == HasRoom(active.pps)
  IN /\ (Careful => HasRoom(own.pps))
     /\ pps.sps_id \in DOMAIN own.sps /\ AcceptsPps(pps, own.sps[pps.sps_id])
     /\ own' = [own EXCEPT !.pps = Put(@, pps.id, [pps |-> pps, repeated |-> TRUE])]
     /\ active' = IF room /\ pps.sps_id \in DOMAIN active.sps
                  THEN LET sps == active.sps[pps.sps_id]
                       IN [active EXCEPT !.pps = Put(@, pps.id, [pps |-> ParsedPps(pps, sps), sps |-> sps])]
                  ELSE active
     /\ unit' = [kind |-> "pps", header |-> pps, sps |-> own.sps[pps.sps_id],
                 taken |-> room /\ pps.sps_id \in DOMAIN active.sps]
     /\ UNCHANGED codec

\* A slice under picture set i of the sender, and the sequence set with the
\* id that one names.
SendSlice(i) ==
  LET pps == own.pps[i].pps
      sps == own.sps[pps.sps_id]
  IN /\ (Careful => own.pps[i].repeated)
     /\ \E s \in Slices(codec, sps, pps) :
          /\ AcceptsSlice(s, sps, pps)
          /\ unit' = [kind |-> "slice", header |-> s, sps |-> sps, pps |-> pps,
                      taken |-> i \in DOMAIN active.pps]
     /\ UNCHANGED <<codec, own, active>>

SendVps(v) ==
  /\ unit' = [kind |-> "vps", header |-> v, taken |-> TRUE]
  /\ UNCHANGED <<codec, own, active>>

\* A short-term set coded as a difference to another, by another encoder
SendPrediction(p) ==
  /\ unit' = [kind |-> "prediction", header |-> p, taken |-> TRUE]
  /\ UNCHANGED <<codec, own, active>>

\* The sets an encoder of the crate builds for configuration c
SendBuilt(c) ==
  /\ unit' = [kind |-> "built", header |-> c, taken |-> TRUE]
  /\ UNCHANGED <<codec, own, active>>

Next ==
  \/ GoesOn /\ \E sps \in IF unit = None THEN Spses[codec] ELSE Followed[codec] : SendSps(sps)
  \/ GoesOn /\ \E pps \in Ppses[codec] : SendPps(pps)
  \/ GoesOn /\ \E i \in DOMAIN own.pps : SendSlice(i)
  \/ codec = "h265" /\ unit = None /\ \E v \in Vpses : SendVps(v)
  \/ codec = "h265" /\ unit = None /\ \E p \in Predictions : SendPrediction(p)
  \/ unit = None /\ \E c \in Configs : SendBuilt(c)

Spec == Init /\ [][Next]_vars

----------------------------------------------------------------------------

\* The written sequence but for the bits a reader may leave at its end
SameElements(written, read) ==
  /\ Len(read) <= Len(written)
  /\ SubSeq(written, 1, Len(read)) = read
  /\ \A i \in Len(read) + 1 .. Len(written) : written[i][2] = "reserved"

\* A header in the form the parser gives it, whatever the one it came from:
\* each element is read where it was written, in the same width and code,
\* up to the last.  For a slice the writer uses the sender's parameter sets
\* and the parser those it holds, whatever sets were sent in between.
ReadAsWritten ==
  LET h == unit.header
      Sps == SameElements(WrittenSps(h), ReadSps(h))
      Pps == SameElements(WrittenPps(h, unit.sps), ReadPps(h, active.pps[h.id].sps))
      Slice == LET held == active.pps[unit.pps.id]
               IN SameElements(WrittenSlice(h, unit.sps, unit.pps), ReadSlice(h, held.sps, held.pps))
  IN unit.kind \in {"vps", "sps", "pps", "slice"} =>
       /\ unit.taken
       /\ CASE unit.kind = "vps" -> SameElements(H265!WriteVps(h), H265!ReadVps(h))
            [] unit.kind = "sps" -> Sps
            [] unit.kind = "pps" -> Pps
            [] OTHER -> Slice

\* The set made of a difference to another is that set, moved by the
\* difference, with the picture the difference names itself: without the
\* current one, by distance, marked as the flags say (7.4.8 of H.265).
PredictedSetIsMoved ==
  unit.kind = "prediction" =>
    LET p     == unit.header
        pocs  == [i \in DOMAIN p.ref.s0 |-> p.ref.s0[i].poc] \o [i \in DOMAIN p.ref.s1 |-> p.ref.s1[i].poc] \o <<0>>
        moved == {<<pocs[i] + p.delta, p.flags[i].used>> :
                    i \in {j \in DOMAIN pocs : p.flags[j].use = 1 /\ pocs[j] + p.delta # 0}}
        set   == H265!PredictRps(p.ref, p.delta, p.flags)
        Pairs(s) == {<<s[i].poc, s[i].used>> : i \in DOMAIN s}
    IN /\ Pairs(set.s0) = {m \in moved : m[1] < 0} /\ Pairs(set.s1) = {m \in moved : m[1] > 0}
       /\ \A i, j \in DOMAIN set.s0 : i < j => set.s0[i].poc > set.s0[j].poc
       /\ \A i, j \in DOMAIN set.s1 : i < j => set.s1[i].poc < set.s1[j].poc

\* The tiles of a picture set leave no block of the picture out and none is
\* empty, under the sequence set the parser found for it.
TilesCoverPicture ==
  codec = "h265" /\ unit.kind = "pps" /\ unit.header.tiles = 1 =>
    LET pps  == unit.header
        held == active.pps[pps.id].sps
        Covers(sizes, n) ==
          LET tiles == H265!TileSizes(sizes, pps.uniform, n)
          IN (\A i \in DOMAIN tiles : tiles[i] > 0) /\ SumFunction(tiles) = n
    IN unit.taken => Covers(pps.cols, H265!WidthInCtbs(held)) /\ Covers(pps.rows, H265!HeightInCtbs(held))

\* The sets of the crate's encoders are taken by its own parser, say what
\* was configured and show the pictures in their configured size.
BuiltSetsAreTaken ==
  unit.kind = "built" =>
    LET c == unit.header
    IN IF codec = "h264"
       THEN LET sps == BuildH264(c).sps
                pps == BuildH264(c).pps
            IN /\ H264!AcceptsSps(sps) /\ H264!AcceptsPps(pps, H264!ParsedSps(sps))
               /\ H264!WriteSps(sps) = H264!ReadSps(H264!ParsedSps(sps))
               /\ H264!ChromaArrayType(H264!ParsedSps(sps)) = H264!ChromaArrayType(sps)
               /\ H264!VisibleRectangle(H264!ParsedSps(sps)) = <<0, 0, c.width, c.height>>
       ELSE LET set == BuildH265(c)
            IN /\ H265!AcceptsSps(set.sps) /\ H265!AcceptsPps(set.pps, set.sps)
               /\ H265!WriteSps(set.sps) = H265!ReadSps(set.sps) /\ H265!WritePps(set.pps) = H265!ReadPps(set.pps)
               /\ H265!WriteVps(set.vps) = H265!ReadVps(set.vps)
               /\ H265!VisibleRectangle(set.sps) = <<0, 0, c.width, c.height>>
               /\ NoPocWraps(c, set.sps)
=============================================================================
