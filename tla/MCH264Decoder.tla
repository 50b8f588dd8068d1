---------------------------- MODULE MCH264Decoder ----------------------------
(* Instances of H264Decoder for TLC.                                       *)
EXTENDS H264Decoder

Sps(pics, refs, gaps) ==
  [max_num_pics |-> pics, max_num_ref_frames |-> refs, max_num_reorder_frames |-> pics,
   gaps_in_frame_num_value_allowed_flag |-> gaps]
Stream(limits, adaptive, loses, pictures) ==
  [sps |-> limits, adaptive |-> adaptive, loses |-> loses, max_pictures |-> pictures]

(* Plain streams, with room for reordering; with lost pictures, allowed    *)
(* for or not; with memory management operations.                          *)
MCAdaptive == {Stream(Sps(2, 2, FALSE), TRUE, FALSE, 4)}
MCStreams ==
  {Stream(Sps(2, 2, FALSE), FALSE, FALSE, 5), Stream(Sps(3, 2, FALSE), FALSE, FALSE, 5),
   Stream(Sps(2, 1, TRUE), FALSE, TRUE, 4), Stream(Sps(2, 2, TRUE), FALSE, TRUE, 5),
   Stream(Sps(2, 0, FALSE), FALSE, TRUE, 3),
   Stream(Sps(2, 2, TRUE), TRUE, TRUE, 3), Stream(Sps(3, 2, TRUE), TRUE, TRUE, 3)} \cup MCAdaptive

(* What the theorem on references supposes holds of these streams.         *)
ASSUME MCNumbersSuffice == NumbersSuffice
=============================================================================
