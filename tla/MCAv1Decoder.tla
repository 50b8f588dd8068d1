---------------------------- MODULE MCAv1Decoder ----------------------------
(* Instances of Av1Decoder for TLC.                                        *)
EXTENDS Av1Decoder

CONSTANTS f1, f2

Sequence(f, ids, idc) ==
  [DefaultSequence EXCEPT !.order_hint = 1, !.hint_bits = 3, !.ids = ids, !.ops = <<[DefaultOp EXCEPT !.idc = idc]>>]
    @@ [name |-> f]
Unit(kind, ends, last, layer, header) == [kind |-> kind, ends |-> ends, last |-> last, layer |-> layer, header |-> header]

Key == [DefaultFrame EXCEPT !.id = 5]
HiddenKey == [DefaultFrame EXCEPT !.id = 6, !.show = 0, !.showable = 1, !.order_hint = 1, !.refresh = {2}]
Inter(hint, show, refresh) ==
  [DefaultFrame EXCEPT !.type = "inter", !.error_res = 0, !.order_hint = hint, !.id = 5 + hint, !.show = show,
     !.showable = 1, !.refresh = refresh, !.deltas = [r \in 1 .. REFS_PER_FRAME |-> hint - 1]]
Resilient == [Inter(2, 1, {1}) EXCEPT !.error_res = 1, !.hints = [i \in Slots |-> IF i = 1 THEN 1 ELSE 0]]
Small == [Inter(1, 1, {1}) EXCEPT !.override = 1, !.width = 72, !.height = 72, !.rwidth = 72, !.rheight = 72]
AsFirst == [Inter(2, 1, {0}) EXCEPT !.override = 1, !.found = 1, !.refs = [r \in 1 .. REFS_PER_FRAME |-> 1], !.primary = 0]
Again(i) == [DefaultFrame EXCEPT !.show_existing = 1, !.idx = i, !.refresh = {}]
IntraOnly == [DefaultFrame EXCEPT !.type = "intra_only", !.error_res = 0, !.order_hint = 3, !.id = 8]

Frame(h) == Unit("frame", TRUE, TRUE, 0, h)
MCChunks ==
  {Unit("sequence", FALSE, FALSE, 0, Sequence(f1, 0, {})), Unit("sequence", FALSE, TRUE, 0, Sequence(f2, 1, {})),
   Unit("sequence", FALSE, FALSE, 0, Sequence(f1, 0, {<<0, 0>>, <<0, 1>>})),
   Frame(Key), Frame(HiddenKey), Frame(Inter(1, 0, {2, 3})), Frame(Small), Frame(AsFirst), Frame(Resilient), Frame(IntraOnly),
   Unit("frame", TRUE, TRUE, 1, Inter(1, 1, {1})), Unit("frame", FALSE, FALSE, 0, Inter(2, 1, {1})),
   Unit("header", FALSE, FALSE, 0, Inter(1, 1, {1})), Unit("header", FALSE, TRUE, 0, Again(2)),
   Unit("tiles", FALSE, FALSE, 0, Key), Unit("tiles", TRUE, TRUE, 0, Key), Unit("tiles", TRUE, FALSE, 0, Key),
   Unit("delimiter", FALSE, FALSE, 0, Key), Unit("tile_list", FALSE, TRUE, 0, Key), Unit("other", FALSE, TRUE, 0, Key)}

MCProfiles ==
  {[retries_same_chunk |-> TRUE, drains_all_events |-> TRUE, flushes_anytime |-> FALSE, max_chunks |-> 5]}
=============================================================================
