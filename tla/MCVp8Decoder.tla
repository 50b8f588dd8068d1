---------------------------- MODULE MCVp8Decoder ----------------------------
(* Instances of Vp8Decoder for TLC.                                        *)
EXTENDS Vp8Decoder

CONSTANTS f1, f2

Key(f) ==
  [key_frame |-> TRUE, format |-> f, show_frame |-> TRUE,
   alt |-> "kept", golden |-> "kept", refresh_last |-> FALSE]

Inter(f, show, alt, golden, last) ==
  [key_frame |-> FALSE, format |-> f, show_frame |-> show,
   alt |-> alt, golden |-> golden, refresh_last |-> last]

(* A hidden alternate reference, a plain predicted frame that makes the    *)
(* last one golden, a swap of the two, and a broken header.                *)
MCChunks ==
  {Key(f) : f \in Formats}
    \cup {Inter(f, TRUE, "kept", "last", TRUE) : f \in Formats}
    \cup {Inter(f1, FALSE, "decoded", "kept", FALSE),
          Inter(f1, TRUE, "golden", "alt", TRUE),
          Inter(f1, TRUE, "last", "invalid", TRUE)}

(* The client the trait asks for; and one that looks at one event, or at   *)
(* none, of those pending, may submit something else than it was refused,  *)
(* and seeks while a format change is due.                                 *)
Client(same, all, anytime, chunks) ==
  [retries_same_chunk |-> same, drains_all_events |-> all,
   flushes_anytime |-> anytime, max_chunks |-> chunks]
MCProfiles ==
  {Client(TRUE, TRUE, FALSE, 5), Client(FALSE, FALSE, TRUE, 3)}
MCSeeker == {Client(TRUE, TRUE, TRUE, 5)}
=============================================================================
