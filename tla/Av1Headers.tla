------------------------------ MODULE Av1Headers ----------------------------
(***************************************************************************)
(* An AV1 stream from a writer to the parser: a sequence header, frames    *)
(* that fill the reference slots, and a frame to look at; or the stream of *)
(* the crate's own encoder (encoder/stateless/av1/predictor.rs), picture   *)
(* by picture.                                                             *)
(***************************************************************************)
EXTENDS Av1Parser

CONSTANTS
  ObuHeaders,         (* The headers of units.                             *)
  SequenceHeaders,    (* The sequence headers of a stream.                 *)
  Frames(_),          (* The frames looked at under a sequence header.     *)
  Refilled,           (* Bound: the sequence headers under which slots are *)
                      (* filled before the frame,                          *)
  Groups, Hints,      (* one group after the other, and the order hints    *)
                      (* they are given.                                   *)
  Av1Configs,         (* The encoder's configurations.                     *)
  ForcedAt,           (* Bound: the counters at which a keyframe is forced.*)
  OneTileOnly         (* Bound: are only sizes encoded for which one tile  *)
                      (* is a choice the stream has?                       *)

VARIABLES own, active, unit

vars == <<own, active, unit>>

NoConfig == <<>>
NoUnit == [kind |-> "none"]

Init ==
  /\ own = [config |-> NoConfig, counter |-> 0, filled |-> 0]
  /\ active = NewParser
  /\ unit = NoUnit

----------------------------------------------------------------------------
(* The encoder                                                              *)

\* LEVEL_LIMITS: <<level, samples, width, height, samples per second / 64,
\* kbit/s in the main and in the high tier>>
LEVEL_LIMITS ==
  <<<<0, 147456, 2048, 1152, 69120, 1500, 0>>, <<1, 278784, 2816, 1584, 130680, 3000, 0>>,
    <<4, 665856, 4352, 2448, 312120, 6000, 0>>, <<5, 1065024, 5504, 3096, 499230, 10000, 0>>,
    <<8, 2359296, 6144, 3456, 1105920, 12000, 30000>>, <<9, 2359296, 6144, 3456, 2211840, 20000, 50000>>,
    <<12, 8912896, 8192, 4352, 4177920, 30000, 100000>>, <<13, 8912896, 8192, 4352, 8355840, 40000, 160000>>,
    <<14, 8912896, 8192, 4352, 16711680, 60000, 240000>>, <<15, 8912896, 8192, 4352, 16711680, 60000, 240000>>,
    <<16, 35651584, 16384, 8704, 16711680, 60000, 240000>>, <<17, 35651584, 16384, 8704, 33423360, 100000, 480000>>,
    <<18, 35651584, 16384, 8704, 66846720, 160000, 800000>>, <<19, 35651584, 16384, 8704, 66846720, 160000, 800000>>>>
LEVEL_7_3 == 23

\* guess_level: <<level, tier>>
HoldsPicture(l, c) ==
  /\ c.width * c.height <= l[2] /\ c.width <= l[3] /\ c.height <= l[4]
  /\ CeilDiv(c.width * c.height * c.framerate, 64) <= l[5]
HoldsRate(l, kbps) == kbps <= l[6] \/ (l[7] # 0 /\ kbps <= l[7])
GuessLevel(c) ==
  LET fit == {i \in DOMAIN LEVEL_LIMITS : HoldsPicture(LEVEL_LIMITS[i], c) /\ HoldsRate(LEVEL_LIMITS[i], c.kbps)}
      l   == LEVEL_LIMITS[CHOOSE i \in fit : \A j \in fit : i <= j]
  IN IF fit = {} THEN <<LEVEL_7_3, 1>> ELSE <<l[1], IF c.kbps <= l[6] THEN 0 ELSE 1>>

\* create_sequence_header
CreateSequenceHeader(c) ==
  [DefaultSequence EXCEPT !.order_hint = 1, !.hint_bits = 8, !.max_width = c.width, !.max_height = c.height,
     !.ops = <<[DefaultOp EXCEPT !.level = GuessLevel(c)[1], !.tier = GuessLevel(c)[2]]>>,
     !.high = IF c.profile = "ten" THEN 1 ELSE 0, !.described = IF c.color THEN 1 ELSE 0]

\* create_frame_header
BaseQIndex(c) ==
  LET low  == Least(c.min_quality, 255)
      high == Most(low, Least(c.max_quality, 255))
  IN IF c.quality >= 0 THEN Most(low, Least(c.quality, high)) ELSE (low + high) \div 2
CreateFrameHeader(c, counter, type) ==
  [DefaultFrame EXCEPT !.type = type, !.showable = IF type = "key" THEN 0 ELSE 1, !.order_hint = counter % 256,
     !.refresh = IF type = "key" THEN ALL_FRAMES ELSE {0}, !.base = BaseQIndex(c),
     !.width = c.width, !.height = c.height, !.rwidth = c.width, !.rheight = c.height]

\* request_keyframe and request_interframe
KeyFrame(c, counter) == CreateFrameHeader(c, counter, "key")
InterFrame(c, counter) ==
  [CreateFrameHeader(c, counter, "inter") EXCEPT !.hints[0] = (counter - 1) % 256]

----------------------------------------------------------------------------
(* The stream                                                               *)

SendObuHeader(o) ==
  /\ unit' = [kind |-> "obu", header |-> o]
  /\ UNCHANGED <<own, active>>

SendSequence(s) ==
  LET r == ParseSequence(active, s)
  IN /\ active' = r.parser
     /\ unit' = [kind |-> "sequence", header |-> s, taken |-> r.ok]
     /\ UNCHANGED own

\* A frame is parsed, decoded and kept in the slots it refreshes.
Kept(r) == IF r.ok /\ AcceptsUpdate(r.header) THEN RefFrameUpdate(ParseTileGroup(r.parser, TRUE), r.header) ELSE r.parser

Filler(hint) ==
  LET i == own.filled
  IN IF i = 0 THEN [DefaultFrame EXCEPT !.order_hint = hint]
     ELSE [DefaultFrame EXCEPT !.type = "intra_only", !.error_res = 0, !.order_hint = hint, !.showable = 1, !.refresh = Groups[i]]
Fill(hint) ==
  LET r == ParseFrameHeader(active, Filler(hint))
  IN /\ unit.kind \in {"sequence", "fill"} /\ active.seq \in Refilled
     /\ own.filled <= Len(Groups) /\ hint < 2^active.seq.hint_bits
     /\ active' = Kept(r)
     /\ own' = [own EXCEPT !.filled = @ + 1]
     /\ unit' = [kind |-> "fill", taken |-> r.ok]

\* What writer and parser need besides the header
Hinted(p, h) == [r \in 1 .. REFS_PER_FRAME |-> p.slots[h.refs[r]].hint]
SendFrame ==
  /\ unit.kind \in {"sequence", "fill"} /\ active.seq # NoSequence
  /\ unit.kind = "fill" => own.filled = Len(Groups) + 1
  /\ \E h \in Frames(active.seq) :
       LET r == ParseFrameHeader(active, h)
       IN /\ active' = r.parser
          /\ unit' = [kind |-> "frame", header |-> h, taken |-> r.ok, parsed |-> r.header]
  /\ UNCHANGED own

\* The encoder's next picture: a keyframe where its counter starts again or
\* where the client forces one; only the first has a sequence header.
Encode(c, forced) ==
  LET key   == own.counter = 0 \/ forced
      h     == IF key THEN KeyFrame(c, own.counter) ELSE InterFrame(c, own.counter)
      begun == IF own.counter = 0 THEN ParseSequence(active, CreateSequenceHeader(c)).parser ELSE active
      r     == ParseFrameHeader(ParseDelimiter(begun), h)
  IN /\ forced => own.counter \in ForcedAt
     /\ active' = Kept(r)
     /\ own' = [own EXCEPT !.config = c, !.counter = (@ + 1) % c.limit]
     /\ unit' = [kind |-> "encoded", header |-> h, taken |-> r.ok, parsed |-> r.header, under |-> r.parser.slots]

Choosable(c) ==
  LET s == CreateSequenceHeader(c)
      l == TileLimits(s, InSbs(MiSize(c.width), s), InSbs(MiSize(c.height), s))
  IN l.min_tiles = 0 /\ l.max_cols > 0 /\ l.max_rows > 0

Next ==
  \/ unit = NoUnit /\ \E o \in ObuHeaders : SendObuHeader(o)
  \/ unit = NoUnit /\ \E s \in SequenceHeaders : SendSequence(s)
  \/ \E hint \in Hints : Fill(hint)
  \/ SendFrame
  \/ /\ unit = NoUnit
     /\ \E c \in Av1Configs : (OneTileOnly => Choosable(c)) /\ Encode(c, FALSE)
  \/ unit.kind = "encoded" /\ \E forced \in BOOLEAN : Encode(own.config, forced)

Spec == Init /\ [][Next]_vars

----------------------------------------------------------------------------

\* What the writer takes: it has no parameters of global motion or film
\* grain, no size that is taken from a reference, one tile.
Supported(h, s) ==
  /\ s.reduced = 0 /\ h.show_existing = 0
  /\ h.override = 1 => IsIntra(h) \/ h.error_res = 1
  /\ \A r \in 1 .. REFS_PER_FRAME : h.gm[r] = "identity"
  /\ h.grain = 0 /\ h.tiles = [uniform |-> 1, cols |-> 0, rows |-> 0]

\* ... and where it writes what its parser reads.  The clauses are the parts
\* of a header that the two disagree about, see the README.
Agreed(h, s, p) ==
  LET hints == Hinted(p, h)
      lim   == TileLimits(s, InSbs(MiSize(h.width), s), InSbs(MiSize(h.height), s))
  IN /\ lim.min_tiles = 0 /\ lim.max_cols > 0 /\ lim.max_rows > 0
     /\ h.override = 1 => s.superres = 0
     /\ s.model = 1 => h.show = 0 /\ \A i \in DOMAIN s.ops : ~RemovalTime(s.ops[i], h)
     /\ s.ids = 1 => IsIntra(h)
     /\ h.seg = 1 => h.primary = PRIMARY_REF_NONE
     /\ h.delta_q = 0 /\ h.lf_update = 0 /\ (h.lf0 = 0 <=> h.lf1 = 0)
     /\ s.restoration = 0 \/ (~UsesLr(h, 1 .. 3) /\ s.mono = 0) \/ h.intrabc = 1 \/ AllLossless(h)
     /\ SkipModeFrames(h, s, hints) = <<>>

Read(h, p) == ReadFrame(h, p.seq, MiSize(h.width), MiSize(h.height), Hinted(p, h))

\* A header in the form the parser gives it is read element by element where
\* the writer has put it.
ReadAsWritten ==
  /\ unit.kind = "obu" => WriteObuHeader(unit.header) = ReadObuHeader(unit.header)
  /\ unit.kind = "sequence" /\ unit.taken => WriteSequence(active.seq) = ReadSequence(active.seq)
  /\ unit.kind = "frame" /\ unit.taken =>
       LET h == unit.parsed
       IN Supported(h, active.seq) /\ Agreed(h, active.seq, active) => WriteFrame(h, active.seq) = Read(h, active)

\* How far hint a is ahead of hint b in the order of display, which the hints
\* count modulo a power of two: the stream keeps to half of it.
Ahead(s, a, b) == CHOOSE d \in -2^(s.hint_bits - 1) .. 2^(s.hint_bits - 1) - 1 : (a - b - d) % 2^s.hint_bits = 0

\* A frame that names LAST and GOLDEN only (set_frame_refs): the frames after
\* it in order of display are reached first, the last of them as ALTREF and
\* the nearest two others as BWDREF and ALTREF2; LAST2, LAST3 and what is
\* left go back in order of display; no slot has two names as long as a frame
\* before this one has none.
ReferencesAreOrdered ==
  unit.kind = "frame" /\ unit.taken /\ ~IsIntra(unit.header) /\ unit.parsed.short = 1 =>
    LET h        == unit.parsed
        dist     == [i \in Slots |-> Ahead(active.seq, active.slots[i].hint, h.order_hint)]
        named    == {h.refs[r] : r \in 1 .. REFS_PER_FRAME}
        after    == {i \in Slots : dist[i] >= 0}
        At(r)    == dist[h.refs[r]]
        back     == {r \in {BWDREF, ALTREF2, ALTREF} : h.refs[r] \in after}
        forward  == {r \in 1 .. REFS_PER_FRAME \ {LAST, GOLDEN} : h.refs[r] \notin after}
    IN /\ h.refs[LAST] = h.last /\ h.refs[GOLDEN] = h.gold
       /\ Cardinality(back) = Least(Cardinality(after), 3)
       /\ after # {} => ALTREF \in back /\ \A i \in after : dist[i] <= At(ALTREF)
       /\ back = {BWDREF, ALTREF2, ALTREF} =>
            /\ At(BWDREF) <= At(ALTREF2) /\ At(ALTREF2) <= At(ALTREF)
            /\ \A i \in after \ named : At(ALTREF2) <= dist[i]
       /\ \A i \in Slots \ (after \cup named) : \A r \in forward : dist[i] <= At(r)
       /\ \A i \in Slots \ (after \cup named), r, q \in 1 .. REFS_PER_FRAME :
            h.refs[r] = h.refs[q] => r = q \/ {r, q} = {LAST, GOLDEN}

\* Skip mode predicts from the nearest frame before and the nearest after the
\* picture, or from the two nearest before it (parse_skip_mode_params).
SkipModeIsNearest ==
  unit.kind = "frame" /\ unit.taken =>
    LET h      == unit.parsed
        dist   == [r \in 1 .. REFS_PER_FRAME |-> Ahead(active.seq, Hinted(active, h)[r], h.order_hint)]
        before == {dist[r] : r \in {q \in DOMAIN dist : dist[q] < 0}}
        later  == {dist[r] : r \in {q \in DOMAIN dist : dist[q] > 0}}
        Top(S) == CHOOSE n \in S : \A m \in S : m <= n
        Low(S) == CHOOSE n \in S : \A m \in S : n <= m
        frames == SkipModeFrames(h, active.seq, Hinted(active, h))
        used   == {dist[frames[i]] : i \in DOMAIN frames}
    IN h.reference_select = 1 /\ active.seq.order_hint = 1 =>
         CASE before # {} /\ later # {} -> used = {Top(before), Low(later)}
           [] later = {} /\ Cardinality(before) > 1 -> used = {Top(before), Top(before \ {Top(before)})}
           [] OTHER -> frames = <<>>

\* The tiles of a frame cover it without a gap or an overlap, and none is
\* larger than a decoder must take (parse_tile_info).
TilesCoverPicture ==
  unit.kind = "frame" /\ unit.taken =>
    LET s    == active.seq
        h    == unit.parsed
        mi   == <<MiSize(h.width), MiSize(h.height)>>
        info == TileInfo(h, s, mi[1], mi[2])
        Covers(starts, n) ==
          /\ starts[1] = 0 /\ starts[Len(starts)] = n
          /\ \A i \in 1 .. Len(starts) - 1 : starts[i] < starts[i + 1]
    IN h.show_existing = 0 =>
         /\ Covers(info.cols, mi[1]) /\ Covers(info.rows, mi[2])
         /\ Len(info.cols) - 1 <= Most(2^info.cols_log2, 1) /\ Len(info.rows) - 1 <= Most(2^info.rows_log2, 1)
         /\ \A i \in 1 .. Len(info.cols) - 1 : 4 * (info.cols[i + 1] - info.cols[i]) <= MAX_TILE_WIDTH

\* The crate's encoder: its headers are read as it means them, each frame is
\* one tile, and an inter frame refers to the picture before it, which the
\* slot it names then holds, with the order hint it repeats.
EncodedIsTaken ==
  unit.kind = "encoded" =>
    LET c == own.config
        h == unit.parsed
        s == CreateSequenceHeader(c)
    IN /\ AcceptsSequence(s) /\ s.ops[1].tier = 1 => s.ops[1].level > 7
       /\ WriteSequence(s) = ReadSequence(active.seq)
       /\ unit.taken /\ active.tiles = 1
       /\ WriteFrame(unit.header, s) = Read(h, active)
       /\ h.width = c.width /\ h.height = c.height /\ h.rwidth = c.width /\ h.rheight = c.height
       /\ Within(h.base, 0, 255)
       /\ h.type = "inter" =>
            \A r \in 1 .. REFS_PER_FRAME :
              LET slot == unit.under[h.refs[r]]
              IN slot.valid /\ Ahead(active.seq, h.order_hint, slot.hint) = 1
=============================================================================
