---------------------------- MODULE MCVp9Decoder ----------------------------
(* Instances of Vp9Decoder for TLC.  Format f1 is the larger one.          *)
EXTENDS Vp9Decoder

CONSTANTS f1, f2

MCRoomFor == {<<f1, f1>>, <<f2, f2>>, <<f1, f2>>}

Show(s) == [show_existing_frame |-> TRUE, slot |-> s, format |-> NoFormat]
Key(f, show) ==
  [show_existing_frame |-> FALSE, key_frame |-> TRUE, show_frame |-> show,
   format |-> f, refresh |-> Slots]
Inter(f, show, refresh) ==
  [show_existing_frame |-> FALSE, key_frame |-> FALSE, show_frame |-> show,
   format |-> f, refresh |-> refresh]

(* Plain frames of both formats, a hidden one with another that is shown   *)
(* again, two layers (only the larger one shown, or only the first), and   *)
(* an inter frame before any key frame.                                    *)
MCChunks ==
  {<<Key(f1, TRUE)>>, <<Key(f2, TRUE)>>,
   <<Inter(f2, TRUE, {1})>>,
   <<Inter(f1, FALSE, {2}), Show(1)>>,
   <<Show(2)>>,
   <<Key(f2, FALSE), Inter(f1, TRUE, {2})>>,
   <<Inter(f1, TRUE, {1}), Inter(f2, FALSE, {2})>>,
   <<Inter(NoFormat, TRUE, {1})>>}

Client(same, all, anytime, chunks) ==
  [retries_same_chunk |-> same, drains_all_events |-> all,
   flushes_anytime |-> anytime, max_chunks |-> chunks]
MCProfiles ==
  {Client(TRUE, TRUE, FALSE, 3), Client(FALSE, FALSE, TRUE, 3)}
=============================================================================
