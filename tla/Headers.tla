------------------------------- MODULE Headers ------------------------------
(***************************************************************************)
(* The headers of a stream: of H.264, H.265 or AV1, from a writer of the   *)
(* crate (codec/*/synthesizer.rs) or its encoders to its parsers           *)
(* (codec/*/parser.rs): ParameterSets for the first two, Av1Headers for    *)
(* the third, which share the sender, the parser and the unit in between;  *)
(* of VP8 or VP9, from two parsers with different pasts: VpxHeaders.       *)
(***************************************************************************)
EXTENDS Integers, Sequences

CONSTANTS
  Spses, Ppses, Slices(_, _, _), Vpses, Predictions, Configs, Followed, MaxSets, Careful,
  ObuHeaders, SequenceHeaders, Frames(_), Refilled, Groups, Hints, Av1Configs, ForcedAt, OneTileOnly,
  Vp8Frames, Vp9Chunks, CoeffPlaces, MvPlaces, Vp9Slots, Segments, MaxChunks, RefusesSuperframes

ASSUME HeadersAssumption ==
  /\ MaxSets \in Nat \ {0}
  /\ MaxChunks \in Nat
  /\ {Careful, RefusesSuperframes, OneTileOnly} \subseteq BOOLEAN

VARIABLES codec, own, active, unit

vars == <<codec, own, active, unit>>

Sets == INSTANCE ParameterSets
Av1 == INSTANCE Av1Headers
Vpx == INSTANCE VpxHeaders WITH Slots <- Vp9Slots

Init ==
  \/ Sets!Init
  \/ codec = "av1" /\ Av1!Init
  \/ Vpx!Init

Next ==
  \/ codec \in {"h264", "h265"} /\ Sets!Next
  \/ codec = "av1" /\ Av1!Next /\ UNCHANGED codec
  \/ codec \in {"vp8", "vp9"} /\ Vpx!Next

Spec == Init /\ [][Next]_vars

----------------------------------------------------------------------------

\* A header in the form a parser gives it, whatever the one it came from, is
\* read element by element where it was written, up to its last element
\* (synthesizer.rs and parser.rs of the three codecs), under the parameter
\* sets that the writer used and those that the parser holds.
ReadAsWritten ==
  /\ codec = "av1" => Av1!ReadAsWritten
  /\ codec \in {"h264", "h265"} => Sets!ReadAsWritten

\* A short-term set coded as a difference (parse_short_term_ref_pic_set) is
\* the other set moved by the difference.
PredictedSetIsMoved == codec = "h265" => Sets!PredictedSetIsMoved

\* The tiles that parse_pps of H.265 and parse_tile_info of AV1 and VP9 accept
\* cover the picture, each with something in it and none too large, and the
\* partitions of a VP8 frame fill it.
PartsCoverPicture ==
  /\ codec = "av1" => Av1!TilesCoverPicture
  /\ codec = "h265" => Sets!TilesCoverPicture
  /\ codec \in {"vp8", "vp9"} => Vpx!PartsCoverFrame

\* What the crate's encoders put in front of their pictures (predictor.rs,
\* builders of the parsers) is taken by the crate's parsers and says what was
\* configured, from the first picture to the one after the counters wrap.
BuiltSetsAreTaken ==
  /\ codec = "av1" => Av1!EncodedIsTaken
  /\ codec \in {"h264", "h265"} => Sets!BuiltSetsAreTaken

\* set_frame_refs and parse_skip_mode_params of AV1 choose by the order of
\* display, across the wrap of the order hints.
ReferencesAreNearest == codec = "av1" => Av1!ReferencesAreOrdered /\ Av1!SkipModeIsNearest

\* A VP8 or VP9 header depends on the chunks since the last key frame only,
\* and on each of them once, refused or not (parse_frame, parse_chunk).
StreamDecidesHeaders == codec \in {"vp8", "vp9"} => Vpx!StreamDecidesHeaders
=============================================================================
