------------------------------ MODULE Av1Syntax -----------------------------
(***************************************************************************)
(* The headers of an AV1 stream as codec/av1/synthesizer.rs writes them    *)
(* (Write...) and as codec/av1/parser.rs reads them (Read..., Parsed... for*)
(* what an absent element stands for, Accepts... for what is refused),     *)
(* with the processes the parser runs on the way: frame sizes, tiles, the  *)
(* choice of references and of the frames of skip mode.  Fields keep the   *)
(* names of the structures, shortened; a list field starts at index 1.     *)
(***************************************************************************)
EXTENDS Syntax, FiniteSets, SequencesExt

NUM_REF_FRAMES == 8
REFS_PER_FRAME == 7
PRIMARY_REF_NONE == 7
SELECT_SCREEN_CONTENT_TOOLS == 2
SELECT_INTEGER_MV == 2
SUPERRES_NUM == 8
MAX_TILE_COLS == 64
MAX_TILE_ROWS == 64
MAX_TILE_WIDTH == 4096
MAX_TILE_AREA == 4096 * 2304

Slots == 0 .. NUM_REF_FRAMES - 1
ALL_FRAMES == Slots

\* An element of su(n), two's complement, and of uvlc and leb128
Su(n, f, v) == El(100 + n, f, v)
Uvlc(f, v) == El(0, f, v)

(*********************************** units *********************************)
\* obu_header and the extension; the size follows where has_size is set.
WriteObuHeader(o) ==
  El(1, "forbidden", 0) \o U(4, o, <<"type">>) \o U(1, o, <<"extension", "has_size">>) \o Reserved(1)
    \o When(o.extension = 1, U(3, o, <<"temporal_id">>) \o U(2, o, <<"spatial_id">>) \o Reserved(3))

ReadObuHeader(o) ==
  LET first == El(1, "forbidden", 0) \o U(4, o, <<"type">>) \o U(1, o, <<"extension", "has_size">>) \o Reserved(1)
  IN IF o.extension = 1
     THEN first \o U(3, o, <<"temporal_id">>) \o U(2, o, <<"spatial_id">>) \o Reserved(3)
     ELSE first

(****************************** sequence header ****************************)
\* ops is a sequence of [idc, level, tier, model, delay]: the layers, the
\* level and whether a decoder model and a display delay are given.
DefaultOp == [idc |-> {}, level |-> 0, tier |-> 0, model |-> 0, delay |-> 0]

DefaultSequence ==
  [profile |-> 0, still |-> 0, reduced |-> 0, timing |-> 0, equal_interval |-> 0, model |-> 0,
   buffer_delay_length |-> 1, removal_length |-> 1, presentation_length |-> 1, display_delay |-> 0,
   ops |-> <<DefaultOp>>, width_bits |-> 16, height_bits |-> 16, max_width |-> 128, max_height |-> 128,
   ids |-> 0, delta_id_length |-> 2, additional_id_length |-> 1, sb128 |-> 0, tools |-> 0,
   inter_tools |-> 0, warped |-> 0, order_hint |-> 0, jnt_comp |-> 0, ref_mvs |-> 0, choose_sct |-> 0, force_sct |-> 0,
   choose_imv |-> 0, force_imv |-> SELECT_INTEGER_MV, hint_bits |-> 0, superres |-> 0, cdef |-> 0,
   restoration |-> 0, film_grain |-> 0, high |-> 0, twelve |-> 0, mono |-> 0, described |-> 0, srgb |-> 0,
   range |-> 0, ssx |-> 1, ssy |-> 1, sample_position |-> 0, separate_uv |-> 0]

FrameIdLength(s) == s.delta_id_length + s.additional_id_length
NumPlanes(s) == IF s.mono = 1 THEN 1 ELSE 3
BitDepth(s) == IF s.profile = 2 /\ s.high = 1 /\ s.twelve = 1 THEN 12 ELSE IF s.high = 1 THEN 10 ELSE 8

WriteColorConfig(s) ==
  LET full == s.described = 1 /\ s.srgb = 1
  IN U(1, s, <<"high">>) \o When(s.profile = 2 /\ s.high = 1, U(1, s, <<"twelve">>))
       \o When(s.profile # 1, U(1, s, <<"mono">>)) \o U(1, s, <<"described">>)
       \o When(s.described = 1, U(8, s, <<"srgb", "transfer", "matrix">>))
       \o Either(s.mono = 1, U(1, s, <<"range">>),
            When(~full, U(1, s, <<"range">>)
                          \o When(s.profile = 2 /\ BitDepth(s) = 12,
                                  U(1, s, <<"ssx">>) \o When(s.ssx = 1, U(1, s, <<"ssy">>)))
                          \o When(s.ssx = 1 /\ s.ssy = 1, U(2, s, <<"sample_position">>)))
              \o U(1, s, <<"separate_uv">>))

\* What the parser makes of a color configuration: the sampling follows from
\* the profile but where it is read.
ParsedColorConfig(s) ==
  LET mono   == IF s.profile = 1 THEN 0 ELSE s.mono
      srgb   == IF s.described = 1 THEN s.srgb ELSE 0
      twelve == IF s.profile = 2 /\ s.high = 1 THEN s.twelve ELSE 0
      sub    == CASE mono = 1 -> <<1, 1>>
                  [] mono = 0 /\ srgb = 1 -> <<0, 0>>
                  [] mono = 0 /\ srgb = 0 /\ s.profile = 0 -> <<1, 1>>
                  [] mono = 0 /\ srgb = 0 /\ s.profile = 1 -> <<0, 0>>
                  [] mono = 0 /\ srgb = 0 /\ s.profile = 2 /\ twelve = 1 -> <<s.ssx, s.ssx * s.ssy>>
                  [] OTHER -> <<1, 0>>
  IN [s EXCEPT !.mono = mono, !.srgb = srgb, !.twelve = twelve, !.ssx = sub[1], !.ssy = sub[2],
               !.range = IF mono = 0 /\ srgb = 1 THEN 1 ELSE @, !.separate_uv = IF mono = 1 THEN 0 ELSE @,
               !.sample_position = IF mono = 0 /\ srgb = 0 /\ sub = <<1, 1>> THEN @ ELSE 0]

ReadColorConfig(s) ==
  LET depth   == U(1, s, <<"high">>) \o When(s.profile = 2 /\ s.high = 1, U(1, s, <<"twelve">>))
      mono    == IF s.profile = 1 THEN <<>> ELSE U(1, s, <<"mono">>)
      colors  == U(1, s, <<"described">>) \o When(s.described = 1, U(8, s, <<"srgb", "transfer", "matrix">>))
      sampled == IF s.profile = 2 /\ BitDepth(s) = 12
                 THEN U(1, s, <<"ssx">>) \o When(s.ssx = 1, U(1, s, <<"ssy">>)) ELSE <<>>
      chroma  == CASE s.srgb = 1 -> <<>>
                   [] OTHER -> U(1, s, <<"range">>) \o sampled
                                 \o When(s.ssx = 1 /\ s.ssy = 1, U(2, s, <<"sample_position">>))
  IN depth \o mono \o colors
       \o IF s.mono = 1 THEN U(1, s, <<"range">>) ELSE chroma \o U(1, s, <<"separate_uv">>)

WriteTimingInfo(s) ==
  U(32, s, <<"tick", "time_scale">>) \o U(1, s, <<"equal_interval">>)
    \o When(s.equal_interval = 1, Uvlc("ticks", Val(s, "ticks")))
WriteDecoderModelInfo(s) ==
  U(5, s, <<"buffer_delay_length">>) \o U(32, s, <<"decoding_tick">>) \o U(5, s, <<"removal_length", "presentation_length">>)
WriteOperatingParameters(s, op) ==
  U(s.buffer_delay_length, op, <<"decoder_delay", "encoder_delay">>) \o U(1, op, <<"low_delay">>)

WriteOperatingPoint(s, op) ==
  El(12, "idc", op.idc) \o U(5, op, <<"level">>) \o When(op.level > 7, U(1, op, <<"tier">>))
    \o When(s.model = 1, U(1, op, <<"model">>) \o When(op.model = 1, WriteOperatingParameters(s, op)))
    \o When(s.display_delay = 1, U(1, op, <<"delay">>) \o When(op.delay = 1, U(4, op, <<"delay_length">>)))

WriteSequenceTools(s) ==
  U(1, s, <<"inter_tools", "masked", "warped", "dual_filter", "order_hint">>)
    \o When(s.order_hint = 1, U(1, s, <<"jnt_comp", "ref_mvs">>))
    \o U(1, s, <<"choose_sct">>) \o When(s.choose_sct = 0, U(1, s, <<"force_sct">>))
    \o When(s.force_sct > 0, U(1, s, <<"choose_imv">>) \o When(s.choose_imv = 0, U(1, s, <<"force_imv">>)))
    \o When(s.order_hint = 1, U(3, s, <<"hint_bits">>))

WriteSequence(s) ==
  U(3, s, <<"profile">>) \o U(1, s, <<"still", "reduced">>)
    \o Either(s.reduced = 1, U(5, s.ops[1], <<"level">>),
         U(1, s, <<"timing">>)
           \o When(s.timing = 1, WriteTimingInfo(s) \o U(1, s, <<"model">>)
                                   \o When(s.model = 1, WriteDecoderModelInfo(s)))
           \o U(1, s, <<"display_delay">>) \o El(5, "ops", Len(s.ops) - 1)
           \o Each(Len(s.ops), LAMBDA i : WriteOperatingPoint(s, s.ops[i])))
    \o U(4, s, <<"width_bits", "height_bits">>)
    \o U(s.width_bits, s, <<"max_width">>) \o U(s.height_bits, s, <<"max_height">>)
    \o When(s.reduced = 0, U(1, s, <<"ids">>))
    \o When(s.ids = 1, U(4, s, <<"delta_id_length">>) \o U(3, s, <<"additional_id_length">>))
    \o U(1, s, <<"sb128", "filter_intra", "intra_edge">>)
    \o When(s.reduced = 0, WriteSequenceTools(s))
    \o U(1, s, <<"superres", "cdef", "restoration">>) \o WriteColorConfig(s) \o U(1, s, <<"film_grain">>)

\* The parser sets what is not there itself.
ParsedOperatingPoint(s, op) ==
  [op EXCEPT !.tier = IF op.level > 7 THEN @ ELSE 0, !.model = IF s.model = 1 THEN @ ELSE 0,
             !.delay = IF s.display_delay = 1 THEN @ ELSE 0]

ParsedSequence(s) ==
  LET r     == s.reduced
      given == [f \in {"timing", "display_delay", "ids", "order_hint", "inter_tools", "warped"} |-> IF r = 1 THEN 0 ELSE s[f]]
      sct   == IF r = 1 \/ s.choose_sct = 1 THEN SELECT_SCREEN_CONTENT_TOOLS ELSE s.force_sct
      hint  == given.order_hint
      imv   == IF r = 0 /\ sct > 0 /\ s.choose_imv = 0 THEN s.force_imv ELSE SELECT_INTEGER_MV
      model == IF given.timing = 1 THEN s.model ELSE 0
      base  == given @@ [s EXCEPT !.model = model]
  IN ParsedColorConfig(
       [base EXCEPT !.force_sct = sct, !.force_imv = imv, !.hint_bits = IF hint = 1 THEN @ ELSE 0,
                    !.jnt_comp = hint * @, !.ref_mvs = hint * @,
                    !.ops = IF r = 1 THEN <<[DefaultOp EXCEPT !.level = s.ops[1].level]>>
                            ELSE [i \in DOMAIN s.ops |-> ParsedOperatingPoint(base, s.ops[i])]])

ReadTimingInfo(s) ==
  LET same == IF s.equal_interval = 1 THEN Uvlc("ticks", Val(s, "ticks")) ELSE <<>>
  IN U(32, s, <<"tick", "time_scale">>) \o U(1, s, <<"equal_interval">>) \o same
ReadDecoderModelInfo(s) ==
  El(5, "buffer_delay_length", s.buffer_delay_length) \o El(32, "decoding_tick", Val(s, "decoding_tick"))
    \o El(5, "removal_length", s.removal_length) \o El(5, "presentation_length", s.presentation_length)
ReadOperatingParameters(s, op) ==
  LET n == s.buffer_delay_length
  IN El(n, "decoder_delay", Val(op, "decoder_delay")) \o El(n, "encoder_delay", Val(op, "encoder_delay"))
       \o U(1, op, <<"low_delay">>)

ReadOperatingPoint(s, op) ==
  LET tier  == IF op.level > 7 THEN U(1, op, <<"tier">>) ELSE <<>>
      model == IF s.model = 1 THEN U(1, op, <<"model">>) \o When(op.model = 1, ReadOperatingParameters(s, op)) ELSE <<>>
      delay == IF s.display_delay = 1 THEN U(1, op, <<"delay">>) \o When(op.delay = 1, U(4, op, <<"delay_length">>)) ELSE <<>>
  IN El(12, "idc", op.idc) \o U(5, op, <<"level">>) \o tier \o model \o delay

ReadSequenceTools(s) ==
  LET mvs  == IF s.order_hint = 1 THEN U(1, s, <<"jnt_comp", "ref_mvs">>) ELSE <<>>
      sct  == U(1, s, <<"choose_sct">>) \o (IF s.choose_sct = 1 THEN <<>> ELSE U(1, s, <<"force_sct">>))
      imv  == IF s.force_sct = 0 THEN <<>>
              ELSE U(1, s, <<"choose_imv">>) \o (IF s.choose_imv = 1 THEN <<>> ELSE U(1, s, <<"force_imv">>))
      bits == IF s.order_hint = 1 THEN U(3, s, <<"hint_bits">>) ELSE <<>>
  IN U(1, s, <<"inter_tools", "masked", "warped", "dual_filter", "order_hint">>) \o mvs \o sct \o imv \o bits

ReadSequence(s) ==
  LET timed  == s.timing = 1
      points == U(1, s, <<"timing">>)
                  \o When(timed, ReadTimingInfo(s) \o U(1, s, <<"model">>))
                  \o When(timed /\ s.model = 1, ReadDecoderModelInfo(s))
                  \o U(1, s, <<"display_delay">>) \o El(5, "ops", Len(s.ops) - 1)
                  \o Each(Len(s.ops), LAMBDA i : ReadOperatingPoint(s, s.ops[i]))
  IN U(3, s, <<"profile">>) \o U(1, s, <<"still", "reduced">>)
       \o (IF s.reduced = 1 THEN U(5, s.ops[1], <<"level">>) ELSE points)
       \o U(4, s, <<"width_bits", "height_bits">>)
       \o El(s.width_bits, "max_width", s.max_width) \o El(s.height_bits, "max_height", s.max_height)
       \o (IF s.reduced = 1 THEN <<>> ELSE U(1, s, <<"ids">>))
       \o When(s.ids = 1, U(4, s, <<"delta_id_length">>) \o U(3, s, <<"additional_id_length">>))
       \o U(1, s, <<"sb128", "filter_intra", "intra_edge">>)
       \o (IF s.reduced = 1 THEN <<>> ELSE ReadSequenceTools(s))
       \o U(1, s, <<"superres", "cdef", "restoration">>) \o ReadColorConfig(s) \o U(1, s, <<"film_grain">>)

AcceptsSequence(s) ==
  /\ s.profile \in 0 .. 2 /\ Len(s.ops) \in 1 .. 32
  /\ s.max_width \in 1 .. 2^s.width_bits /\ s.max_height \in 1 .. 2^s.height_bits
  /\ s.ids = 1 => FrameIdLength(s) <= 16

-----------------------------------------------------------------------------
(***************************************************************************)
(* The frame header of AV1 (codec/av1: parser.rs, synthesizer.rs and       *)
(* helpers.rs).  A header h is what a stream codes; s is the sequence      *)
(* header it is read under and slots the parser's knowledge of the eight   *)
(* reference slots (ref_info).  Frame types are "key", "inter",            *)
(* "intra_only" and "switch"; refresh is the set of refreshed slots, refs  *)
(* the slots of LAST .. ALTREF, hints the order hints a stream repeats.    *)
(***************************************************************************)

LAST == 1
LAST2 == 2
LAST3 == 3
GOLDEN == 4
BWDREF == 5
ALTREF2 == 6
ALTREF == 7

IsIntra(h) == h.type \in {"key", "intra_only"}
ShownKey(h) == h.type = "key" /\ h.show = 1
TypeCode(h) == CASE h.type = "key" -> 0 [] h.type = "inter" -> 1 [] h.type = "intra_only" -> 2 [] OTHER -> 3

(******************************* order of frames ***************************)
\* get_relative_dist: the difference of two order hints of s.hint_bits bits,
\* as a signed number of that width
\* Mutant: the difference is not wrapped.
RelativeDistUnwrapped(s, a, b) == IF s.order_hint = 0 THEN 0 ELSE a - b
RelativeDist(s, a, b) ==
  IF s.order_hint = 0 THEN 0
  ELSE LET m == 2^(s.hint_bits - 1)
           d == (a - b) % (2 * m)
       IN IF d >= m THEN d - 2 * m ELSE d

\* find_latest_backward, find_earliest_backward, find_latest_forward: a slot
\* outside used after (not before) or before the frame at hint 0; -1 if none
Latest(dist, S) == IF S = {} THEN -1
  ELSE CHOOSE i \in S : \A j \in S : dist[j] < dist[i] \/ (dist[j] = dist[i] /\ j <= i)
Earliest(dist, S) == IF S = {} THEN -1
  ELSE CHOOSE i \in S : \A j \in S : dist[i] < dist[j] \/ (dist[j] = dist[i] /\ i <= j)
FindLatestBackward(dist, used) == Latest(dist, {i \in Slots \ used : dist[i] >= 0})
FindEarliestBackward(dist, used) == Earliest(dist, {i \in Slots \ used : dist[i] >= 0})
FindLatestForward(dist, used) == Latest(dist, {i \in Slots \ used : dist[i] < 0})

\* How set_frame_refs fills the references one by one
RefSteps ==
  <<<<ALTREF, "latest">>, <<BWDREF, "earliest">>, <<ALTREF2, "earliest">>, <<LAST2, "forward">>, <<LAST3, "forward">>,
    <<BWDREF, "forward">>, <<ALTREF2, "forward">>, <<ALTREF, "forward">>>>

Found(step, dist, used) ==
  CASE step[2] = "latest" -> FindLatestBackward(dist, used)
    [] step[2] = "earliest" -> FindEarliestBackward(dist, used)
    [] OTHER -> FindLatestForward(dist, used)

Assign(refs, step, dist, used) ==
  LET slot == Found(step, dist, used)
  IN IF refs[step[1]] >= 0 \/ slot < 0 THEN refs ELSE [refs EXCEPT ![step[1]] = slot]

\* 7.8: the references of a header that names LAST and GOLDEN only
SetFrameRefs(h, s, slots) ==
  LET dist  == [i \in Slots |-> RelativeDist(s, slots[i].hint, h.order_hint)]
      given == [r \in 1 .. REFS_PER_FRAME |-> IF r = LAST THEN h.last ELSE IF r = GOLDEN THEN h.gold ELSE -1]
      Used(refs) == {refs[r] : r \in 1 .. REFS_PER_FRAME} \ {-1}
      refs[k \in 0 .. Len(RefSteps)] ==
        IF k = 0 THEN given ELSE Assign(refs[k - 1], RefSteps[k], dist, Used(refs[k - 1]))
      final == refs[Len(RefSteps)]
  IN [r \in 1 .. REFS_PER_FRAME |-> IF final[r] < 0 THEN Earliest(dist, Slots) ELSE final[r]]

AcceptsShortSignaling(h, s, slots) ==
  RelativeDist(s, slots[h.last].hint, h.order_hint) < 0 /\ RelativeDist(s, slots[h.gold].hint, h.order_hint) < 0

Refs(h, s, slots) == IF s.order_hint = 1 /\ h.short = 1 THEN SetFrameRefs(h, s, slots) ELSE h.refs

\* parse_skip_mode_params: the references nearest before and nearest after
\* the frame, or the two nearest before it; <<>> if skip mode is not allowed.
\* Does a reference with this hint come closer than the best so far?
SkipSearch(s, hint, frame, best) ==
  IF RelativeDist(s, hint, frame) < 0 THEN best.forward < 0 \/ RelativeDist(s, hint, best.forward_hint) > 0
  ELSE best.backward < 0 \/ RelativeDist(s, hint, best.backward_hint) < 0

NearestRefs(h, s, hints) ==
  LET best[k \in 0 .. REFS_PER_FRAME] ==
        IF k = 0 THEN [forward |-> -1, forward_hint |-> 0, backward |-> -1, backward_hint |-> 0]
        ELSE LET b == best[k - 1]
                 d == RelativeDist(s, hints[k], h.order_hint)
             IN IF d = 0 \/ ~SkipSearch(s, hints[k], h.order_hint, b) THEN b
                ELSE IF d < 0 THEN [b EXCEPT !.forward = k, !.forward_hint = hints[k]]
                ELSE [b EXCEPT !.backward = k, !.backward_hint = hints[k]]
  IN best[REFS_PER_FRAME]

SecondForward(s, hints, first) ==
  LET second[k \in 0 .. REFS_PER_FRAME] ==
        IF k = 0 THEN -1
        ELSE IF /\ RelativeDist(s, hints[k], first) < 0
                /\ second[k - 1] < 0 \/ RelativeDist(s, hints[k], hints[second[k - 1]]) > 0
             THEN k ELSE second[k - 1]
  IN second[REFS_PER_FRAME]

SkipModeFrames(h, s, hints) ==
  LET best   == NearestRefs(h, s, hints)
      other  == IF best.backward >= 0 THEN best.backward ELSE SecondForward(s, hints, best.forward_hint)
      frames == IF best.forward < other THEN <<best.forward, other>> ELSE <<other, best.forward>>
  IN IF IsIntra(h) \/ h.reference_select = 0 \/ s.order_hint = 0 \/ best.forward < 0 \/ other < 0 THEN <<>> ELSE frames

(******************************** frame size *******************************)
\* compute_image_size, in units of four samples
MiSize(n) == 2 * ((n + 7) \div 8)

SuperresDenom(h, s) == IF s.superres = 1 /\ h.use_superres = 1 THEN h.denom ELSE SUPERRES_NUM
FrameWidth(upscaled, denom) == (upscaled * SUPERRES_NUM + denom \div 2) \div denom

SizeOf(upscaled, height, rwidth, rheight, denom) ==
  [upscaled |-> upscaled, width |-> FrameWidth(upscaled, denom), height |-> height, rwidth |-> rwidth, rheight |-> rheight]

\* parse_frame_size and parse_render_size
OwnSize(h, s) ==
  LET upscaled == IF h.override = 1 THEN h.width ELSE s.max_width
      height   == IF h.override = 1 THEN h.height ELSE s.max_height
      shown    == IF h.render = 1 THEN <<h.rwidth, h.rheight>> ELSE <<upscaled, height>>
  IN SizeOf(upscaled, height, shown[1], shown[2], SuperresDenom(h, s))

\* The size of a reference, but for the scaling, which is the frame's own
TakenSize(from, denom) == SizeOf(from.upscaled, from.height, from.rwidth, from.rheight, denom)

\* The size of a frame; found is the reference frame_size_with_refs takes it
\* from (0 for none)
FrameSize(h, s, slots) ==
  IF ~IsIntra(h) /\ h.override = 1 /\ h.error_res = 0 /\ h.found > 0
  THEN TakenSize(slots[Refs(h, s, slots)[h.found]], SuperresDenom(h, s)) ELSE OwnSize(h, s)

(********************************** tiles **********************************)
\* tile_log2: the least k with blk << k at least target
TileLog2(blk, target) == CHOOSE k \in 0 .. 31 : blk * 2^k >= target /\ (k = 0 \/ blk * 2^(k - 1) < target)
Least(a, b) == IF a < b THEN a ELSE b
Most(a, b) == IF a < b THEN b ELSE a
Widest(sizes) == CHOOSE w \in ToSet(sizes) : \A v \in ToSet(sizes) : v <= w

SbShift(s) == IF s.sb128 = 1 THEN 5 ELSE 4
InSbs(mi, s) == CeilDiv(mi, 2^SbShift(s))

\* Bounds of the logarithms of the numbers of tiles, for a frame of cols by
\* rows superblocks
TileLimits(s, cols, rows) ==
  LET size     == SbShift(s) + 2
      max_w    == MAX_TILE_WIDTH \div 2^size
      max_area == MAX_TILE_AREA \div 2^(2 * size)
      min_cols == TileLog2(max_w, cols)
  IN [max_w |-> max_w, min_cols |-> min_cols, max_cols |-> TileLog2(1, Least(cols, MAX_TILE_COLS)),
      max_rows |-> TileLog2(1, Least(rows, MAX_TILE_ROWS)), min_tiles |-> Most(min_cols, TileLog2(max_area, rows * cols))]

\* Tile boundaries in superblocks, 2^log2 equal ones or sizes as given
EvenStarts(n, log2) == LET step == CeilDiv(n, 2^log2) IN [i \in 1 .. CeilDiv(n, step) |-> (i - 1) * step]
GivenStarts(sizes) == [i \in DOMAIN sizes |-> SumFunction([j \in 1 .. i - 1 |-> sizes[j]])]

\* parse_tile_info: the boundaries (the last one is the size of the frame) in
\* units of four samples; h.tiles is [uniform, cols, rows] with the increments
\* of the logarithms or the sizes of the tiles
InMi(starts, s, mi) == [i \in 1 .. Len(starts) + 1 |-> IF i <= Len(starts) THEN starts[i] * 2^SbShift(s) ELSE mi]

EvenTiles(s, mi_cols, mi_rows, cols_log2, rows_log2) ==
  [cols |-> InMi(EvenStarts(InSbs(mi_cols, s), cols_log2), s, mi_cols),
   rows |-> InMi(EvenStarts(InSbs(mi_rows, s), rows_log2), s, mi_rows),
   cols_log2 |-> cols_log2, rows_log2 |-> rows_log2]
GivenTiles(h, s, mi_cols, mi_rows) ==
  [cols |-> InMi(GivenStarts(h.tiles.cols), s, mi_cols), rows |-> InMi(GivenStarts(h.tiles.rows), s, mi_rows),
   cols_log2 |-> TileLog2(1, Len(h.tiles.cols)), rows_log2 |-> TileLog2(1, Len(h.tiles.rows))]

ColsLog2(h, lim) == Least(lim.min_cols + h.tiles.cols, Most(lim.min_cols, lim.max_cols))
RowsLog2(h, lim) ==
  LET least == Most(lim.min_tiles - ColsLog2(h, lim), 0) IN Least(least + h.tiles.rows, Most(least, lim.max_rows))

TileInfo(h, s, mi_cols, mi_rows) ==
  LET lim == TileLimits(s, InSbs(mi_cols, s), InSbs(mi_rows, s))
  IN IF h.tiles.uniform = 1 THEN EvenTiles(s, mi_cols, mi_rows, ColsLog2(h, lim), RowsLog2(h, lim))
     ELSE GivenTiles(h, s, mi_cols, mi_rows)
NumTiles(info) == (Len(info.cols) - 1) * (Len(info.rows) - 1)

\* The sizes a stream can code, ns(n) with n what is left of the frame or the
\* largest size
AcceptsTiles(h, s, mi_cols, mi_rows) ==
  LET sb_cols == InSbs(mi_cols, s)
      sb_rows == InSbs(mi_rows, s)
      lim     == TileLimits(s, sb_cols, sb_rows)
      widest  == IF h.tiles.cols = <<>> THEN 1 ELSE Widest(h.tiles.cols)
      area    == IF lim.min_tiles > 0 THEN (sb_rows * sb_cols) \div 2^(lim.min_tiles + 1) ELSE sb_rows * sb_cols
      max_h   == Most(area \div widest, 1)
      Fill(sizes, n, most) == SumFunction(sizes) = n /\ \A i \in DOMAIN sizes : Within(sizes[i], 1, most)
  IN h.tiles.uniform = 1 \/ (Fill(h.tiles.cols, sb_cols, lim.max_w) /\ Fill(h.tiles.rows, sb_rows, max_h))

(******************************* header syntax *****************************)
\* Absent parts of a header: no quantizer offsets, segments or filters
DefaultFrame ==
  [show_existing |-> 0, idx |-> 0, display_id |-> 0, type |-> "key", show |-> 1, showable |-> 0, error_res |-> 1,
   disable_cdf |-> 0, sct |-> 0, imv |-> 0, id |-> 0, override |-> 0, order_hint |-> 0, primary |-> PRIMARY_REF_NONE,
   refresh |-> ALL_FRAMES, hints |-> [i \in Slots |-> 0], short |-> 0, last |-> 0, gold |-> 0,
   refs |-> [r \in 1 .. REFS_PER_FRAME |-> 0], deltas |-> [r \in 1 .. REFS_PER_FRAME |-> 1],
   width |-> 128, height |-> 128, use_superres |-> 0, denom |-> SUPERRES_NUM, render |-> 0, rwidth |-> 128, rheight |-> 128,
   found |-> 0, intrabc |-> 0, hp_mv |-> 0, switchable |-> 0, filter |-> 0, motion |-> 0, ref_mvs |-> 0, end_cdf |-> 0,
   tiles |-> [uniform |-> 1, cols |-> 0, rows |-> 0],
   base |-> 0, y_dc |-> 0, diff_uv |-> 0, u_dc |-> 0, u_ac |-> 0, v_dc |-> 0, v_ac |-> 0, qmatrix |-> 0,
   seg |-> 0, update_map |-> 1, temporal |-> 0, update_data |-> 1, features |-> {}, delta_q |-> 0, delta_lf |-> 0,
   lf0 |-> 0, lf1 |-> 0, lf_enabled |-> 0, lf_update |-> 0, lf_deltas |-> <<0, 0, 0, 0, 0, 0, 0, 0, 0, 0>>,
   cdef_bits |-> 0, cdef_sec |-> 0, lr |-> <<"none", "none", "none">>, lr_shift |-> 0, lr_uv_shift |-> 0, tx_select |-> 1,
   reference_select |-> 0, skip_mode |-> 0, warped |-> 0, reduced_tx |-> 1,
   gm |-> [r \in 1 .. REFS_PER_FRAME |-> "identity"], grain |-> 0]

\* What the parser sets itself: a frame that starts anew, or one under a
\* sequence header that leaves no choice
ParsedFrame(h, s) ==
  LET type  == IF s.reduced = 1 THEN "key" ELSE h.type
      intra == type \in {"key", "intra_only"}
      show  == IF s.reduced = 1 THEN 1 ELSE h.show
      fresh == type = "switch" \/ (type = "key" /\ show = 1)
      res   == IF s.reduced = 0 /\ fresh THEN 1 ELSE IF s.reduced = 1 THEN 0 ELSE h.error_res
      sct   == IF s.force_sct = SELECT_SCREEN_CONTENT_TOOLS THEN h.sct ELSE s.force_sct
      imv   == IF sct = 0 THEN 0 ELSE IF s.force_imv = SELECT_INTEGER_MV THEN h.imv ELSE s.force_imv
      color == IF s.mono = 1 THEN 0 ELSE 1
      diff  == s.separate_uv * h.diff_uv
  IN [h EXCEPT !.show_existing = 0, !.type = type, !.show = show, !.error_res = res, !.sct = sct, !.imv = IF intra THEN 1 ELSE imv,
               !.showable = IF show = 1 THEN (IF type = "key" THEN 0 ELSE 1) ELSE @,
               !.id = s.ids * @, !.override = IF type = "switch" THEN 1 ELSE IF s.reduced = 1 THEN 0 ELSE @,
               !.order_hint = IF s.order_hint = 1 THEN @ ELSE 0, !.short = s.order_hint * @,
               !.primary = IF intra \/ res = 1 THEN PRIMARY_REF_NONE ELSE @,
               !.refresh = IF fresh THEN ALL_FRAMES ELSE @,
               !.use_superres = s.superres * @, !.denom = IF s.superres * h.use_superres = 1 THEN @ ELSE SUPERRES_NUM,
               !.reference_select = IF intra THEN 0 ELSE @, !.diff_uv = diff, !.u_dc = color * @, !.u_ac = color * @,
               !.v_dc = color * (IF diff = 1 THEN @ ELSE h.u_dc), !.v_ac = color * (IF diff = 1 THEN @ ELSE h.u_ac)]

\* The identifiers and times of a frame shown from its slot
WriteShown(h, s) ==
  U(3, h, <<"idx">>)
    \o When(s.model = 1 /\ s.equal_interval = 0, El(s.presentation_length, "time", 0))
    \o When(s.ids = 1, El(FrameIdLength(s), "display_id", h.display_id))
ReadShown(h, s) ==
  LET time == IF s.model = 1 /\ s.equal_interval = 0 THEN El(s.presentation_length, "time", 0) ELSE <<>>
      id   == IF s.ids = 1 THEN El(FrameIdLength(s), "display_id", h.display_id) ELSE <<>>
  IN U(3, h, <<"idx">>) \o time \o id

\* A frame of its own: writer and parser differ in when it carries a time.
WriteKind(h, s) ==
  El(2, "type", TypeCode(h)) \o U(1, h, <<"show">>)
    \o When(h.show = 1 /\ s.model = 1 /\ s.equal_interval = 0, El(s.presentation_length, "time", 0))
    \o When(h.show = 0, U(1, h, <<"showable">>))
    \o When(h.type # "switch" /\ ~ShownKey(h), U(1, h, <<"error_res">>))
ReadKind(h, s) ==
  LET time == IF h.show = 1 /\ s.model = 1 /\ s.equal_interval = 1 THEN El(s.presentation_length, "time", 0) ELSE <<>>
      more == IF h.show = 1 THEN <<>> ELSE U(1, h, <<"showable">>)
      res  == IF h.type = "switch" \/ ShownKey(h) THEN <<>> ELSE U(1, h, <<"error_res">>)
  IN El(2, "type", TypeCode(h)) \o U(1, h, <<"show">>) \o time \o more \o res

\* Is the removal time of operating point op coded in a frame of the layers
\* of unit o?
RemovalTime(op, o) == op.model = 1 /\ (op.idc = {} \/ <<Val(o, "temporal_id"), Val(o, "spatial_id")>> \in op.idc)

\* The writer writes the removal times whether they are present or not.
WriteRemovalTimes(h, s) ==
  When(s.model = 1, U(1, h, <<"removal">>)
    \o Each(Len(s.ops), LAMBDA i : When(RemovalTime(s.ops[i], h), El(s.removal_length, "removal_time", 0))))
ReadRemovalTimes(h, s) ==
  When(s.model = 1, U(1, h, <<"removal">>)
    \o When(Val(h, "removal") = 1,
         Each(Len(s.ops), LAMBDA i : When(RemovalTime(s.ops[i], h), El(s.removal_length, "removal_time", 0)))))

RefreshMask(h) == [i \in 1 .. NUM_REF_FRAMES |-> IF i - 1 \in h.refresh THEN 1 ELSE 0]
RepeatsHints(h, s) == (~IsIntra(h) \/ h.refresh # ALL_FRAMES) /\ h.error_res = 1 /\ s.order_hint = 1

\* From the tools to the refreshed slots
WriteStart(h, s) ==
  U(1, h, <<"disable_cdf">>)
    \o When(s.force_sct = SELECT_SCREEN_CONTENT_TOOLS, U(1, h, <<"sct">>))
    \o When(h.sct = 1 /\ s.force_imv = SELECT_INTEGER_MV, U(1, h, <<"imv">>))
    \o When(s.ids = 1, El(FrameIdLength(s), "id", h.id))
    \o When(h.type # "switch" /\ s.reduced = 0, U(1, h, <<"override">>))
    \o When(s.hint_bits > 0, El(s.hint_bits, "order_hint", h.order_hint))
    \o When(~IsIntra(h) /\ h.error_res = 0, U(3, h, <<"primary">>))
    \o WriteRemovalTimes(h, s)
    \o When(h.type # "switch" /\ ~ShownKey(h), El(8, "refresh", RefreshMask(h)))
    \o When(RepeatsHints(h, s), Each(NUM_REF_FRAMES, LAMBDA i : El(s.hint_bits, "hint", h.hints[i - 1])))
ReadStart(h, s) ==
  LET imv     == IF h.sct > 0 /\ s.force_imv = SELECT_INTEGER_MV THEN El(1, "imv", h.imv) ELSE <<>>
      sct     == IF s.force_sct = SELECT_SCREEN_CONTENT_TOOLS THEN U(1, h, <<"sct">>) ELSE <<>>
      id      == IF s.ids = 1 THEN El(FrameIdLength(s), "id", h.id) ELSE <<>>
      size    == IF h.type = "switch" \/ s.reduced = 1 THEN <<>> ELSE U(1, h, <<"override">>)
      hint    == IF s.order_hint = 1 THEN El(s.hint_bits, "order_hint", h.order_hint) ELSE <<>>
      primary == IF IsIntra(h) \/ h.error_res = 1 THEN <<>> ELSE U(3, h, <<"primary">>)
      refresh == IF h.type = "switch" \/ ShownKey(h) THEN <<>> ELSE El(8, "refresh", RefreshMask(h))
      hints   == IF RepeatsHints(h, s) THEN Each(NUM_REF_FRAMES, LAMBDA i : El(s.hint_bits, "hint", h.hints[i - 1])) ELSE <<>>
  IN U(1, h, <<"disable_cdf">>) \o sct \o imv \o id \o size \o hint \o primary \o ReadRemovalTimes(h, s) \o refresh \o hints

Superres(h, s) == When(s.superres = 1, U(1, h, <<"use_superres">>)) \o When(h.use_superres = 1, U(3, h, <<"denom">>))
RenderSize(h) == U(1, h, <<"render">>) \o When(h.render = 1, U(16, h, <<"rwidth", "rheight">>))
CodedSize(h, s) == El(s.width_bits, "width", h.width) \o El(s.height_bits, "height", h.height)

\* The writer leaves the scaling out where the size is overridden.
WriteSize(h, s) == Either(h.override = 1, CodedSize(h, s), Superres(h, s)) \o RenderSize(h)
ReadSize(h, s) ==
  LET with_refs == ~IsIntra(h) /\ h.override = 1 /\ h.error_res = 0
      size      == (IF h.override = 1 THEN CodedSize(h, s) ELSE <<>>) \o Superres(h, s) \o RenderSize(h)
      bits      == Each(IF h.found = 0 THEN REFS_PER_FRAME ELSE h.found, LAMBDA i : El(1, "found", IF i = h.found THEN 1 ELSE 0))
  IN CASE with_refs /\ h.found > 0 -> bits \o Superres(h, s)
       [] with_refs /\ h.found = 0 -> bits \o size
       [] OTHER -> size

\* The writer takes the difference of the frame's identifier to the number of
\* the slot, the parser to the identifier in the slot.
WriteReferences(h, s) ==
  When(s.order_hint = 1, U(1, h, <<"short">>) \o When(h.short = 1, U(3, h, <<"last", "gold">>)))
    \o Each(REFS_PER_FRAME, LAMBDA r :
         When(h.short = 0, El(3, "ref", h.refs[r]))
           \o When(s.ids = 1, El(s.delta_id_length, "delta_id", (h.id - h.refs[r]) % 2^FrameIdLength(s))))
ReadReferences(h, s) ==
  LET short == IF s.order_hint = 0 THEN <<>>
               ELSE U(1, h, <<"short">>) \o (IF h.short = 1 THEN U(3, h, <<"last", "gold">>) ELSE <<>>)
      one(r) == When(h.short = 0, El(3, "ref", h.refs[r])) \o When(s.ids = 1, El(s.delta_id_length, "delta_id", h.deltas[r]))
  IN short \o Each(REFS_PER_FRAME, one)

WriteInter(h, s) ==
  WriteReferences(h, s) \o WriteSize(h, s)
    \o When(h.imv = 0, U(1, h, <<"hp_mv">>)) \o U(1, h, <<"switchable">>) \o When(h.switchable = 0, U(2, h, <<"filter">>))
    \o U(1, h, <<"motion">>) \o When(h.error_res = 0 /\ s.ref_mvs = 1, U(1, h, <<"ref_mvs">>))
ReadInter(h, s) ==
  LET hp     == IF h.imv > 0 THEN <<>> ELSE U(1, h, <<"hp_mv">>)
      filter == IF h.switchable = 1 THEN U(1, h, <<"switchable">>) ELSE El(1, "switchable", 0) \o U(2, h, <<"filter">>)
      mvs    == IF h.error_res = 1 \/ s.ref_mvs = 0 THEN <<>> ELSE U(1, h, <<"ref_mvs">>)
  IN ReadReferences(h, s) \o ReadSize(h, s) \o hp \o filter \o U(1, h, <<"motion">>) \o mvs

Scaled(h) == h.use_superres = 1 /\ FrameWidth(h.width, h.denom) # h.width
WriteIntra(h, s) == WriteSize(h, s) \o When(h.sct = 1 /\ ~Scaled(h), U(1, h, <<"intrabc">>))
ReadIntra(h, s) == ReadSize(h, s) \o (IF h.sct > 0 /\ ~Scaled(h) THEN U(1, h, <<"intrabc">>) ELSE <<>>)

\* A single tile: the writer closes the search for the numbers of columns and
\* rows with a bit each, the parser reads no bit where there is no choice.
WriteTileInfo(h) == El(1, "uniform", 1) \o El(1, "increment_cols", 0) \o El(1, "increment_rows", 0)
ReadTileInfo(h, s, mi_cols, mi_rows) ==
  LET lim  == TileLimits(s, InSbs(mi_cols, s), InSbs(mi_rows, s))
      info == TileInfo(h, s, mi_cols, mi_rows)
      Increments(name, least, log2, most) ==
        Each(log2 - least, LAMBDA i : El(1, name, 1)) \o When(log2 < most, El(1, name, 0))
      even == Increments("increment_cols", lim.min_cols, info.cols_log2, lim.max_cols)
                \o Increments("increment_rows", Most(lim.min_tiles - info.cols_log2, 0), info.rows_log2, lim.max_rows)
      Given(name, sizes) == Each(Len(sizes), LAMBDA i : El(0, name, sizes[i] - 1))
      given == Given("width_in_sbs", h.tiles.cols) \o Given("height_in_sbs", h.tiles.rows)
      bits  == info.cols_log2 + info.rows_log2
  IN U(1, h.tiles, <<"uniform">>) \o (IF h.tiles.uniform = 1 THEN even ELSE given)
       \o When(bits > 0, El(bits, "context_update_tile_id", 0) \o El(2, "tile_size_bytes", 0))

DeltaQ(h, f) == El(1, f, IF h[f] = 0 THEN 0 ELSE 1) \o When(h[f] # 0, Su(7, f, h[f]))
WriteQuantization(h, s) ==
  U(8, h, <<"base">>) \o DeltaQ(h, "y_dc")
    \o When(NumPlanes(s) > 1,
         When(s.separate_uv = 1, U(1, h, <<"diff_uv">>)) \o DeltaQ(h, "u_dc") \o DeltaQ(h, "u_ac")
           \o When(h.diff_uv = 1, DeltaQ(h, "v_dc") \o DeltaQ(h, "v_ac")))
    \o U(1, h, <<"qmatrix">>)
    \o When(h.qmatrix = 1, U(4, h, <<"qm_y", "qm_u">>) \o When(s.separate_uv = 1, U(4, h, <<"qm_v">>)))
ReadQuantization(h, s) ==
  LET diff   == s.separate_uv = 1 /\ h.diff_uv = 1
      flag   == IF s.separate_uv = 1 THEN U(1, h, <<"diff_uv">>) ELSE <<>>
      chroma == flag \o DeltaQ(h, "u_dc") \o DeltaQ(h, "u_ac") \o When(diff, DeltaQ(h, "v_dc") \o DeltaQ(h, "v_ac"))
      matrix == U(4, h, <<"qm_y", "qm_u">>) \o (IF s.separate_uv = 0 THEN <<>> ELSE U(4, h, <<"qm_v">>))
  IN U(8, h, <<"base">>) \o DeltaQ(h, "y_dc") \o (IF s.mono = 1 THEN <<>> ELSE chroma)
       \o U(1, h, <<"qmatrix">>) \o When(h.qmatrix = 1, matrix)

FEATURE_BITS == <<8, 6, 6, 6, 6, 3, 0, 0>>
\* A feature of a segment, signed up to the loop filter levels
Feature(h, i, j) ==
  El(1, "enabled", IF <<i, j>> \in h.features THEN 1 ELSE 0)
    \o When(<<i, j>> \in h.features /\ FEATURE_BITS[j] > 0,
         IF j <= 5 THEN Su(FEATURE_BITS[j] + 1, "feature", 0) ELSE El(FEATURE_BITS[j], "feature", 0))
Features(h) == Each(8, LAMBDA i : Each(8, LAMBDA j : Feature(h, i, j)))

\* The writer writes the temporal flag in the place of the one for the data.
WriteSegmentation(h) ==
  U(1, h, <<"seg">>)
    \o When(h.seg = 1,
         When(h.primary # PRIMARY_REF_NONE,
              U(1, h, <<"update_map">>) \o When(h.update_map = 1, U(1, h, <<"temporal">>)) \o U(1, h, <<"temporal">>))
           \o When(h.update_data = 1, Features(h)))
ReadSegmentation(h) ==
  LET update == IF h.primary = PRIMARY_REF_NONE THEN <<>>
                ELSE U(1, h, <<"update_map">>) \o When(h.update_map = 1, U(1, h, <<"temporal">>)) \o U(1, h, <<"update_data">>)
      data   == h.primary = PRIMARY_REF_NONE \/ h.update_data = 1
  IN U(1, h, <<"seg">>) \o (IF h.seg = 0 THEN <<>> ELSE update \o When(data, Features(h)))

\* The writer has a delta of the filter in frames with intra block copy, the
\* parser in those without.
WriteDeltas(h) ==
  When(h.base > 0, U(1, h, <<"delta_q">>) \o When(h.delta_q = 1, U(2, h, <<"delta_q_res">>)))
    \o When(h.delta_q = 1 /\ h.intrabc = 1,
         U(1, h, <<"delta_lf">>) \o When(h.delta_lf = 1, U(2, h, <<"delta_lf_res">>) \o U(1, h, <<"delta_lf_multi">>)))
ReadDeltas(h) ==
  LET present == h.base > 0 /\ h.delta_q = 1
      lf == U(1, h, <<"delta_lf">>) \o When(h.delta_lf = 1, U(2, h, <<"delta_lf_res">>) \o U(1, h, <<"delta_lf_multi">>))
  IN (IF h.base > 0 THEN U(1, h, <<"delta_q">>) ELSE <<>>) \o When(present, U(2, h, <<"delta_q_res">>))
       \o When(present /\ h.intrabc = 0, lf)

\* get_qindex and what follows from it: is every segment lossless?  (No
\* feature of the model changes the quantizer.)
CodedLossless(h) == \A f \in {"base", "y_dc", "u_dc", "u_ac", "v_dc", "v_ac"} : h[f] = 0
AllLossless(h) == CodedLossless(h) /\ ~Scaled(h)

\* The writer has no flag before a delta, the parser one for each; they also
\* differ in when the levels of the chroma planes are there.
WriteLoopFilter(h, s) ==
  When(~CodedLossless(h) /\ h.intrabc = 0,
    U(6, h, <<"lf0", "lf1">>) \o When(NumPlanes(s) > 1 /\ h.lf0 # 0 /\ h.lf1 # 0, U(6, h, <<"lf2", "lf3">>))
      \o U(3, h, <<"sharpness">>) \o U(1, h, <<"lf_enabled">>)
      \o When(h.lf_enabled = 1, U(1, h, <<"lf_update">>)
           \o When(h.lf_update = 1, Each(10, LAMBDA i : Su(7, "lf_delta", h.lf_deltas[i])))))
ReadLoopFilter(h, s) ==
  LET chroma == NumPlanes(s) > 1 /\ (h.lf0 > 0 \/ h.lf1 > 0)
      deltas == Each(10, LAMBDA i : IF h.lf_deltas[i] = 0 THEN El(1, "update", 0) ELSE El(1, "update", 1) \o Su(7, "lf_delta", h.lf_deltas[i]))
      update == U(1, h, <<"lf_update">>) \o When(h.lf_update = 1, deltas)
  IN IF CodedLossless(h) \/ h.intrabc = 1 THEN <<>>
     ELSE U(6, h, <<"lf0", "lf1">>) \o When(chroma, U(6, h, <<"lf2", "lf3">>)) \o U(3, h, <<"sharpness">>)
            \o U(1, h, <<"lf_enabled">>) \o When(h.lf_enabled = 1, update)

\* A secondary strength of 4 is coded as 3.
WriteCdef(h, s) ==
  When(~CodedLossless(h) /\ h.intrabc = 0 /\ s.cdef = 1,
    U(2, h, <<"damping", "cdef_bits">>)
      \o Each(2^h.cdef_bits, LAMBDA i :
           U(4, h, <<"y_pri">>) \o El(2, "cdef_sec", IF h.cdef_sec = 4 THEN 3 ELSE h.cdef_sec)
             \o When(NumPlanes(s) > 1, U(4, h, <<"uv_pri">>) \o El(2, "cdef_sec", IF h.cdef_sec = 4 THEN 3 ELSE h.cdef_sec))))
ReadCdef(h, s) ==
  LET sec == El(2, "cdef_sec", CHOOSE c \in 0 .. 3 : h.cdef_sec = IF c = 3 THEN 4 ELSE c)
      one == U(4, h, <<"y_pri">>) \o sec \o (IF NumPlanes(s) = 1 THEN <<>> ELSE U(4, h, <<"uv_pri">>) \o sec)
  IN IF CodedLossless(h) \/ h.intrabc = 1 \/ s.cdef = 0 THEN <<>>
     ELSE U(2, h, <<"damping", "cdef_bits">>) \o Each(2^h.cdef_bits, LAMBDA i : one)

\* The writer writes the number of a filter, the parser reads its code; the
\* writer has three planes always.
RestorationType(n) == CASE n = 0 -> "none" [] n = 1 -> "wiener" [] n = 2 -> "sgrproj" [] OTHER -> "switchable"
RemapLrType(n) == CASE n = 0 -> "none" [] n = 1 -> "switchable" [] n = 2 -> "wiener" [] OTHER -> "sgrproj"
UsesLr(h, planes) == \E i \in planes : h.lr[i] # "none"

LrSize(h, s, chroma) ==
  Either(s.sb128 = 1, El(1, "lr_shift", h.lr_shift - 1),
         El(1, "lr_shift", IF h.lr_shift > 0 THEN 1 ELSE 0) \o When(h.lr_shift > 0, El(1, "lr_extra", h.lr_shift - 1)))
    \o When(s.ssx = 1 /\ s.ssy = 1 /\ chroma, U(1, h, <<"lr_uv_shift">>))
WriteRestoration(h, s) ==
  When(~AllLossless(h) /\ h.intrabc = 0 /\ s.restoration = 1,
    Each(3, LAMBDA i : El(2, "lr", CHOOSE n \in 0 .. 3 : RestorationType(n) = h.lr[i]))
      \o When(UsesLr(h, 1 .. 3), LrSize(h, s, UsesLr(h, 2 .. 3))))
ReadRestoration(h, s) ==
  LET n == NumPlanes(s)
  IN IF AllLossless(h) \/ h.intrabc = 1 \/ s.restoration = 0 THEN <<>>
     ELSE Each(n, LAMBDA i : El(2, "lr", CHOOSE c \in 0 .. 3 : RemapLrType(c) = h.lr[i]))
            \o When(UsesLr(h, 1 .. n), LrSize(h, s, UsesLr(h, 2 .. n)))

\* The writer has no skip mode.
WriteModes(h, s) ==
  When(~CodedLossless(h), U(1, h, <<"tx_select">>)) \o When(~IsIntra(h), U(1, h, <<"reference_select">>))
    \o When(~IsIntra(h) /\ h.error_res = 0 /\ s.warped = 1, U(1, h, <<"warped">>)) \o U(1, h, <<"reduced_tx">>)
ReadModes(h, s, hints) ==
  LET tx   == IF CodedLossless(h) THEN <<>> ELSE U(1, h, <<"tx_select">>)
      refs == IF IsIntra(h) THEN <<>> ELSE U(1, h, <<"reference_select">>)
      skip == IF SkipModeFrames(h, s, hints) = <<>> THEN <<>> ELSE U(1, h, <<"skip_mode">>)
      warp == IF IsIntra(h) \/ h.error_res = 1 \/ s.warped = 0 THEN <<>> ELSE U(1, h, <<"warped">>)
  IN tx \o refs \o skip \o warp \o U(1, h, <<"reduced_tx">>)

\* read_global_param is not supported by the writer, which stops there.
GlobalFlags(h, r) ==
  El(1, "is_global", IF h.gm[r] = "identity" THEN 0 ELSE 1)
    \o When(h.gm[r] # "identity", El(1, "is_rot_zoom", IF h.gm[r] = "rotzoom" THEN 1 ELSE 0)
         \o When(h.gm[r] # "rotzoom", El(1, "is_translation", IF h.gm[r] = "translation" THEN 1 ELSE 0)))
WriteGlobalMotion(h) == When(~IsIntra(h), Each(REFS_PER_FRAME, LAMBDA r : GlobalFlags(h, r)))
GlobalParams(type) ==
  CASE type = "identity" -> <<>> [] type = "translation" -> <<0, 1>> [] type = "rotzoom" -> <<2, 3, 0, 1>>
    [] OTHER -> <<2, 3, 4, 5, 0, 1>>
ReadGlobalMotion(h) ==
  LET one(r) == GlobalFlags(h, r) \o Each(Len(GlobalParams(h.gm[r])), LAMBDA i : El(-1, "gm", GlobalParams(h.gm[r])[i]))
  IN IF IsIntra(h) THEN <<>> ELSE Each(REFS_PER_FRAME, one)

\* The grain itself is not supported by the writer.
WriteFilmGrain(h, s) == When(s.film_grain = 1 /\ (h.show = 1 \/ h.showable = 1), U(1, h, <<"grain">>))

\* Points of the scaling functions, then the coefficients of the filter
GrainPoints(h, n, f) == El(4, f, n) \o Each(n, LAMBDA i : U(8, h, <<"point", "scaling">>))
GrainCoefs(h, s, y, cb, cr, from_luma) ==
  LET lag    == Val(h, "ar_coeff_lag")
      luma   == 2 * lag * (lag + 1)
      chroma == IF y > 0 THEN luma + 1 ELSE luma
      Coefs(n) == Each(n, LAMBDA i : U(8, h, <<"ar_coef">>))
  IN When(y > 0, Coefs(luma)) \o When(from_luma \/ cb > 0, Coefs(chroma)) \o When(from_luma \/ cr > 0, Coefs(chroma))
ReadFilmGrain(h, s) ==
  LET y         == Val(h, "y_points")
      from_luma == s.mono = 0 /\ Val(h, "from_luma") = 1
      none      == s.mono = 1 \/ from_luma \/ (s.ssx = 1 /\ s.ssy = 1 /\ y = 0)
      cb        == IF none THEN 0 ELSE Val(h, "cb_points")
      cr        == IF none THEN 0 ELSE Val(h, "cr_points")
      Mult(n)   == When(n > 0, U(8, h, <<"mult", "luma_mult">>) \o U(9, h, <<"offset">>))
      update    == h.type # "inter" \/ Val(h, "update_grain") = 1
      points    == GrainPoints(h, y, "y_points") \o When(s.mono = 0, U(1, h, <<"from_luma">>))
                     \o When(~none, GrainPoints(h, cb, "cb_points") \o GrainPoints(h, cr, "cr_points"))
      own       == points \o U(2, h, <<"scaling", "ar_coeff_lag">>) \o GrainCoefs(h, s, y, cb, cr, from_luma)
                     \o U(2, h, <<"ar_shift", "grain_shift">>) \o Mult(cb) \o Mult(cr) \o U(1, h, <<"overlap", "clip">>)
  IN IF s.film_grain = 0 \/ (h.show = 0 /\ h.showable = 0) THEN <<>>
     ELSE IF h.grain = 0 THEN U(1, h, <<"grain">>)
     ELSE U(1, h, <<"grain">>) \o U(16, h, <<"seed">>) \o When(h.type = "inter", U(1, h, <<"update_grain">>))
            \o (IF update THEN own ELSE U(3, h, <<"grain_ref">>))

\* uncompressed_header of the writer ...
WriteFrame(h, s) ==
  IF s.reduced = 0 /\ h.show_existing = 1 THEN El(1, "show_existing", 1) \o WriteShown(h, s)
  ELSE When(s.reduced = 0, El(1, "show_existing", 0) \o WriteKind(h, s)) \o WriteStart(h, s)
         \o Either(IsIntra(h), WriteIntra(h, s), WriteInter(h, s))
         \o When(s.reduced = 0 /\ h.disable_cdf = 0, U(1, h, <<"end_cdf">>))
         \o WriteTileInfo(h) \o WriteQuantization(h, s) \o WriteSegmentation(h) \o WriteDeltas(h)
         \o WriteLoopFilter(h, s) \o WriteCdef(h, s) \o WriteRestoration(h, s) \o WriteModes(h, s)
         \o WriteGlobalMotion(h) \o WriteFilmGrain(h, s)

\* ... and of the parser, for a frame of mi_cols by mi_rows whose references
\* have the order hints hints
ReadFrame(h, s, mi_cols, mi_rows, hints) ==
  LET own == (IF s.reduced = 1 THEN <<>> ELSE El(1, "show_existing", 0) \o ReadKind(h, s)) \o ReadStart(h, s)
               \o (IF IsIntra(h) THEN ReadIntra(h, s) ELSE ReadInter(h, s))
               \o (IF s.reduced = 1 \/ h.disable_cdf = 1 THEN <<>> ELSE U(1, h, <<"end_cdf">>))
               \o ReadTileInfo(h, s, mi_cols, mi_rows) \o ReadQuantization(h, s) \o ReadSegmentation(h) \o ReadDeltas(h)
               \o ReadLoopFilter(h, s) \o ReadCdef(h, s) \o ReadRestoration(h, s) \o ReadModes(h, s, hints)
               \o ReadGlobalMotion(h) \o ReadFilmGrain(h, s)
  IN IF s.reduced = 0 /\ h.show_existing = 1 THEN El(1, "show_existing", 1) \o ReadShown(h, s) ELSE own
=============================================================================
