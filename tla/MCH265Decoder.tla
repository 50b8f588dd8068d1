---------------------------- MODULE MCH265Decoder ----------------------------
(* Instances of H265Decoder for TLC.                                       *)
EXTENDS H265Decoder

Set(format, pics, buffers, reorder, latency) ==
  [format |-> format, max_num_pics |-> pics, max_dec_pic_buffering |-> buffers,
   max_num_reorder_pics |-> reorder, max_latency_increase_plus1 |-> latency, max_lsb |-> 8]
StreamOf(sets, types, pictures) ==
  [sets |-> sets, types |-> types, layers |-> {0}, long_term |-> FALSE, spares |-> FALSE,
   hides |-> FALSE, seeks |-> FALSE, max_pictures |-> pictures]

(* Reordering by one and by two, with and without a limit on latency; a    *)
(* level that is too low; leading pictures; layers, and pictures that are  *)
(* no references or not for output; long-term references; spliced streams  *)
(* with two formats, and seeks.                                            *)
MCReordering ==
  {StreamOf({Set(1, 3, 3, 1, 0)}, {"IDR", "TRAIL_R"}, 5),
   [StreamOf({Set(1, 4, 4, 2, 0)}, {"IDR", "TRAIL_R"}, 4) EXCEPT !.seeks = TRUE],
   StreamOf({Set(1, 3, 3, 1, 1)}, {"IDR", "TRAIL_R"}, 4),
   [StreamOf({Set(1, 4, 4, 2, 1)}, {"IDR", "TRAIL_R"}, 4) EXCEPT !.seeks = TRUE],
   StreamOf({Set(1, 2, 3, 1, 0)}, {"IDR", "TRAIL_R"}, 4)}
MCReferences ==
  {StreamOf({Set(1, 3, 3, 1, 0)}, {"CRA", "RADL", "RASL", "TRAIL_R"}, 4),
   [StreamOf({Set(1, 3, 3, 1, 0)}, {"IDR", "TRAIL_R", "TRAIL_N"}, 3) EXCEPT
      !.layers = {0, 1}, !.hides = TRUE],
   [StreamOf({Set(1, 3, 3, 0, 0)}, {"IDR", "TRAIL_R"}, 4) EXCEPT
      !.long_term = TRUE, !.spares = TRUE]}
MCSplices ==
  {[StreamOf({Set(1, 2, 2, 1, 0), Set(2, 3, 3, 0, 0)}, {"IDR", "CRA", "BLA", "TRAIL_R"}, 3) EXCEPT
      !.seeks = TRUE]}
MCStreams == MCReordering \cup MCReferences \cup MCSplices
=============================================================================
