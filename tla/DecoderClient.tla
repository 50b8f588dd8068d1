---------------------------- MODULE DecoderClient ----------------------------
(***************************************************************************)
(* The thread that drives a stateless decoder, as C2DecoderWorker          *)
(* (src/c2_wrapper/c2_decoder.rs) and the contract of                      *)
(* StatelessVideoDecoder (src/decoder/stateless.rs) have it:               *)
(*   - it submits one chunk of the stream at a time, and after a refusal   *)
(*     (CheckEvents, NotEnoughOutputBuffers) the same chunk again, once it *)
(*     has looked at the pending events;                                   *)
(*   - frames come out of a pool it owns (alloc_cb); a frame goes back     *)
(*     when the last handle on it is dropped, and FormatChanged makes it   *)
(*     replace the pool, the frames of the old one then going nowhere;     *)
(*   - any other error ends the session.                                   *)
(*                                                                         *)
(* The same calls are made by whatever codec the decoder is for, so this   *)
(* module leaves the decode call itself to the codec modules.              *)
(***************************************************************************)
EXTENDS StatelessDecoder, FiniteSets, SequencesExt

CONSTANTS
  Chunks,           (* What decode can be called with.                     *)
  NoChunk,
  PoolSize,         (* Frames in the client's pool: min_num_frames.        *)
  Profiles          (* The kinds of client there are.                      *)

(* A client that does not retry the same chunk may drop a refused chunk    *)
(* and submit another one, as happens after C2Wrapper::flush.  One that    *)
(* does not drain all events retries after any of them, which the trait    *)
(* allows; the C2 worker waits for next_event to return None.  One that    *)
(* does not flush anytime waits for the FormatChanged event if one is due. *)
(* max_chunks, the number of chunks accepted, bounds the model.            *)
ASSUME ClientAssumption ==
  /\ NoChunk \notin Chunks
  /\ PoolSize \in Nat \ {0}
  /\ Profiles \subseteq
       [retries_same_chunk : BOOLEAN, drains_all_events : BOOLEAN,
        flushes_anytime : BOOLEAN, max_chunks : Nat]

VARIABLES
  profile,      (* What kind of client this is.                            *)
  chunk,        (* The refused chunk that must be submitted again.         *)
  outcome,      (* What the last decode call returned.                     *)
  attended,     (* Have the events been looked at since it was refused?    *)
  held,         (* The handles the client has not dropped yet.             *)
  delivered,    (* History: the handles next_event returned, in order.     *)
  num_chunks,   (* Number of accepted chunks.                              *)
  num_handles,  (* Number of handles the backend has made so far.          *)
  pool_start    (* Handles above this number hold frames of this pool.     *)

client_vars == <<profile, chunk, outcome, attended, held, delivered,
                 num_chunks, num_handles, pool_start>>

Handle == [id : Nat, format : Formats]
Refusals == {"CheckEvents", "NotEnoughOutputBuffers"}

ClientInit ==
  /\ profile \in Profiles
  /\ chunk = NoChunk
  /\ outcome = "Ok"
  /\ attended = FALSE
  /\ held = {}
  /\ delivered = <<>>
  /\ num_chunks = 0
  /\ num_handles = 0
  /\ pool_start = 0

-----------------------------------------------------------------------------
(* The decode call.                                                        *)

MayDecode(c) ==
  /\ client_thread = "running"
  /\ \/ outcome = "Ok" /\ num_chunks < profile.max_chunks
     \/ outcome \in Refusals /\ attended /\ (profile.retries_same_chunk => c = chunk)

Accepted(handles) ==
  /\ outcome' = "Ok"
  /\ chunk' = NoChunk
  /\ attended' = FALSE
  /\ num_chunks' = num_chunks + 1
  /\ num_handles' = num_handles + handles
  /\ UNCHANGED <<profile, held, delivered, pool_start>>

Refused(c, why) ==
  /\ outcome' = why
  /\ chunk' = c
  /\ attended' = FALSE
  /\ UNCHANGED <<profile, held, delivered, num_chunks, num_handles, pool_start>>

Failed ==
  /\ outcome' = "Error"
  /\ UNCHANGED <<profile, chunk, attended, held, delivered, num_chunks,
                 num_handles, pool_start>>

(* alloc_cb takes frames from the pool, which is empty until the first     *)
(* FormatChanged fills it, given the handles the codec keeps as references.*)
PoolFrames(references) ==
  {h \in references \cup held \cup ToSet(ready_queue) : h.id > pool_start}

FreeFrames(references) ==
  IF accepted_format = NoFormat
    THEN 0 ELSE PoolSize - Cardinality(PoolFrames(references))

CanAlloc(n, references) == n <= FreeFrames(references)

-----------------------------------------------------------------------------
(* next_event, its three results, and what the client does with them.      *)

TakeFrame ==
  /\ client_thread = "running"
  /\ FrameReady
  /\ held' = held \cup {Head(ready_queue)}
  /\ delivered' = Append(delivered, Head(ready_queue))
  /\ attended' = (attended \/ ~profile.drains_all_events)
  /\ UNCHANGED <<decoding_state, awaiting_format_event, accepted_format,
                 backend_format, profile, chunk, outcome, num_chunks,
                 num_handles, pool_start>>

TakeFormatChange ==
  /\ client_thread = "running"
  /\ FormatChanged
  /\ pool_start' = num_handles
  /\ attended' = (attended \/ ~profile.drains_all_events)
  /\ UNCHANGED <<ready_queue, ready_poll_fd, backend_format, profile, chunk,
                 outcome, held, delivered, num_chunks, num_handles>>

TakeNothing ==
  /\ client_thread = "running"
  /\ NoEvent
  /\ attended' = TRUE
  /\ UNCHANGED <<decoder_vars, profile, chunk, outcome, held, delivered,
                 num_chunks, num_handles, pool_start>>

(* The client is done with a frame.                                        *)
DropFrame(h) ==
  /\ client_thread = "running"
  /\ h \in held
  /\ held' = held \ {h}
  /\ UNCHANGED <<decoder_vars, profile, chunk, outcome, attended, delivered,
                 num_chunks, num_handles, pool_start>>

(* The client's half of a flush call (a seek, the end of the stream): a    *)
(* refused chunk is given up.                                              *)
AbandonChunk ==
  /\ client_thread = "running"
  /\ outcome # "Error"
  /\ chunk' = NoChunk
  /\ outcome' = "Ok"
  /\ attended' = FALSE
  /\ UNCHANGED <<profile, held, delivered, num_chunks, num_handles, pool_start>>

-----------------------------------------------------------------------------
ClientTypeOK ==
  /\ profile \in Profiles
  /\ chunk \in Chunks \cup {NoChunk}
  /\ outcome \in {"Ok", "Error"} \cup Refusals
  /\ attended \in BOOLEAN
  /\ held \in SUBSET Handle
  /\ delivered \in Seq(Handle)
  /\ num_chunks \in Nat
  /\ num_handles \in Nat
  /\ pool_start \in Nat

(* The caller's thread is never put to sleep by a call on the decoder, as  *)
(* long as it takes every event before it submits a chunk again: no read   *)
(* of an event descriptor finds its counter at zero (next, query_next_     *)
(* event, wait_for_drc_flush).                                             *)
CallsNeverBlock == profile.drains_all_events => client_thread = "running"

(* A client that does not flush while a FormatChanged event is due never   *)
(* has a frame decoded by a backend that is configured for another format  *)
(* than the one its output buffers were allocated for.                     *)
DecodesAcceptedFormat == ~profile.flushes_anytime => DecodingInAcceptedFormat
=============================================================================
