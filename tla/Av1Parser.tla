------------------------------ MODULE Av1Parser -----------------------------
(***************************************************************************)
(* What the AV1 parser keeps between the units of a stream                 *)
(* (codec/av1/parser.rs): the sequence header, the identifier of the last  *)
(* frame, whether a frame header is being repeated, the number of tiles,   *)
(* and of each reference slot what later headers are read with (ref_info). *)
(* A step gives the parser after it, kept also where the step fails, and   *)
(* the header, complete with its references and sizes.                     *)
(***************************************************************************)
EXTENDS Av1Syntax

NoSequence == <<>>
NoHeader == <<>>

EmptySlot == [valid |-> FALSE, hint |-> 0, id |-> 0, display_id |-> 0, type |-> "key", showable |-> 0,
              upscaled |-> 0, width |-> 0, height |-> 0, rwidth |-> 0, rheight |-> 0]

NewParser == [seq |-> NoSequence, slots |-> [i \in Slots |-> EmptySlot], seen |-> FALSE, last |-> NoHeader, id |-> 0,
              tiles |-> 0]

\* The layers of the chosen operating point, always the first one, and
\* highest_operating_point (-1 for no layers)
Layers(p) == IF p.seq = NoSequence THEN {} ELSE p.seq.ops[1].idc
HighestSpatialLayer(p) ==
  LET spatial == {l[2] : l \in Layers(p)} IN IF spatial = {} THEN -1 ELSE CHOOSE n \in spatial : \A m \in spatial : m <= n

ParseSequence(p, s) ==
  LET parsed == ParsedSequence(s)
  IN [ok |-> AcceptsSequence(s), parser |-> IF AcceptsSequence(s) THEN [p EXCEPT !.seq = parsed] ELSE p]

\* parse_temporal_delimiter_obu
ParseDelimiter(p) == [p EXCEPT !.seen = FALSE]

----------------------------------------------------------------------------
(* A frame shown from its slot                                              *)

AcceptsShown(p, h) ==
  LET slot == p.slots[h.idx]
  IN slot.showable = 1 /\ (p.seq.ids = 1 => slot.valid /\ slot.display_id = h.display_id)

SizeFields == {"upscaled", "width", "height", "rwidth", "rheight"}

\* load_reference_frame: the order hint is not loaded.
LoadReference(p, h) ==
  LET slot == p.slots[h.idx]
      key  == slot.type = "key"
  IN With([DefaultFrame EXCEPT !.show_existing = 1, !.idx = h.idx, !.display_id = h.display_id, !.type = slot.type,
             !.show = 0, !.refresh = IF key THEN ALL_FRAMES ELSE {}, !.id = IF key THEN slot.id ELSE 0],
          [f \in SizeFields |-> slot[f]])

----------------------------------------------------------------------------
(* A frame of its own                                                       *)

ForgetAll(slots) == [i \in Slots |-> [slots[i] EXCEPT !.valid = FALSE, !.hint = 0]]
Invalidated(slots, S) == [i \in Slots |-> [slots[i] EXCEPT !.valid = @ /\ i \notin S]]

\* The identifier of a frame follows the one before; is_first_frame is never
\* set.
AcceptsId(p, h) ==
  LET n    == 2^FrameIdLength(p.seq)
      diff == IF h.id > p.id THEN h.id - p.id ELSE n + h.id - p.id
  IN p.seq.ids = 1 /\ ~ShownKey(h) => h.id # p.id /\ diff < n \div 2

\* mark_ref_frames: the slots with identifiers too far from the frame's
TooFar(slots, h, s) ==
  LET far == 2^s.delta_id_length
      Old(id) == IF h.id > far THEN id > h.id \/ id < h.id - far
                 ELSE id > h.id /\ id < 2^FrameIdLength(s) + h.id - far
  IN IF s.ids = 1 THEN {i \in Slots : Old(slots[i].id)} ELSE {}

\* The slots whose order hints are not the ones the header repeats
OtherHint(slots, h, s) == IF RepeatsHints(h, s) THEN {i \in Slots : h.hints[i] # slots[i].hint} ELSE {}

\* The slots from the reset of a key frame to the hints
SlotsFor(p, h) ==
  LET fresh  == IF ShownKey(h) THEN ForgetAll(p.slots) ELSE p.slots
      marked == Invalidated(fresh, TooFar(fresh, h, p.seq))
  IN IF AcceptsId(p, h) THEN Invalidated(marked, OtherHint(marked, h, p.seq)) ELSE fresh

AcceptsReferences(h, s, slots) ==
  LET Expected(r) == (h.id + 2^FrameIdLength(s) - (h.deltas[r] + 1)) % 2^FrameIdLength(s)
  IN IsIntra(h) \/ (/\ h.short = 1 => AcceptsShortSignaling(h, s, slots)
                    /\ s.ids = 1 => \A r \in 1 .. REFS_PER_FRAME : slots[Refs(h, s, slots)[r]].id = Expected(r))

AcceptsPrimary(h, s, slots) ==
  h.primary # PRIMARY_REF_NONE => slots[Refs(h, s, slots)[h.primary + 1]].valid

\* A header with its references and its size
Complete(h, s, slots) ==
  With([h EXCEPT !.refs = IF IsIntra(h) THEN @ ELSE Refs(h, s, slots)], FrameSize(h, s, slots))

\* The end of a complete header, where what is before its tiles is accepted
ParseTiles(p, h, accepted) ==
  LET mi_cols == MiSize(h.width)
      mi_rows == MiSize(h.height)
      ok      == accepted /\ AcceptsTiles(h, p.seq, mi_cols, mi_rows)
  IN [ok |-> ok, header |-> IF ok THEN h ELSE NoHeader,
      parser |-> IF ok THEN [p EXCEPT !.tiles = NumTiles(TileInfo(h, p.seq, mi_cols, mi_rows))] ELSE p]

\* parse_uncompressed_frame_header
ParseOwn(p, coded) ==
  LET h == ParsedFrame(coded, p.seq)
      q == [p EXCEPT !.slots = SlotsFor(p, h), !.id = h.id]
  IN ParseTiles(q, Complete(h, p.seq, q.slots),
       AcceptsId(p, h) /\ AcceptsReferences(h, p.seq, q.slots) /\ AcceptsPrimary(h, p.seq, q.slots))

\* Mutant: the header is not kept for its repetitions.
ParseFrameHeaderUnsaved(p, h) ==
  LET shown == p.seq.reduced = 0 /\ h.show_existing = 1
  IN CASE p.seen -> [ok |-> p.last # NoHeader, parser |-> p, header |-> p.last]
       [] ~p.seen /\ p.seq = NoSequence -> [ok |-> FALSE, parser |-> p, header |-> NoHeader]
       [] ~p.seen /\ p.seq # NoSequence /\ shown ->
            [ok |-> AcceptsShown(p, h), parser |-> [p EXCEPT !.last = NoHeader], header |-> LoadReference(p, h)]
       [] OTHER -> [ParseOwn(p, h) EXCEPT !.parser.seen = TRUE, !.parser.last = NoHeader]

\* parse_frame_header_obu: while the tiles of a frame are still to come, a
\* header is the one before again; a header that fails is never taken back.
ParseFrameHeader(p, h) ==
  LET shown == p.seq.reduced = 0 /\ h.show_existing = 1
      Saved(own) == [own EXCEPT !.parser.seen = TRUE, !.parser.last = IF own.ok THEN own.header ELSE @]
  IN CASE p.seen -> [ok |-> p.last # NoHeader, parser |-> p, header |-> p.last]
       [] ~p.seen /\ p.seq = NoSequence -> [ok |-> FALSE, parser |-> [p EXCEPT !.seen = TRUE], header |-> NoHeader]
       [] ~p.seen /\ p.seq # NoSequence /\ shown ->
            IF AcceptsShown(p, h) THEN [ok |-> TRUE, parser |-> [p EXCEPT !.seen = FALSE, !.last = NoHeader], header |-> LoadReference(p, h)]
            ELSE [ok |-> FALSE, parser |-> [p EXCEPT !.seen = TRUE], header |-> NoHeader]
       [] OTHER -> Saved(ParseOwn(p, h))

\* parse_tile_group_obu: the group with the last tile ends the frame.
ParseTileGroup(p, ends) == [p EXCEPT !.seen = @ /\ ~ends]

\* ref_frame_update, after the frame is decoded
AcceptsUpdate(h) == ~(h.type = "intra_only" /\ h.refresh = ALL_FRAMES) \/ h.show_existing = 1
\* Mutant: nothing is kept of a frame that is shown again.
RefFrameUpdateOwn(p, h) ==
  LET slot == With([EmptySlot EXCEPT !.valid = TRUE, !.hint = h.order_hint, !.id = h.id, !.type = h.type,
                      !.showable = h.showable],
                   [f \in SizeFields |-> h[f]])
  IN IF h.show_existing = 1 THEN p
     ELSE [p EXCEPT !.slots = [i \in Slots |-> IF i \in h.refresh THEN slot ELSE @[i]]]
RefFrameUpdate(p, h) ==
  LET slot == With([EmptySlot EXCEPT !.valid = TRUE, !.hint = h.order_hint, !.id = h.id, !.display_id = h.display_id,
                      !.type = h.type, !.showable = h.showable],
                   [f \in SizeFields |-> h[f]])
  IN IF h.show_existing = 1 /\ h.type # "key" THEN p
     ELSE [p EXCEPT !.slots = [i \in Slots |-> IF i \in h.refresh THEN slot ELSE @[i]]]
=============================================================================
