--------------------------- MODULE StatelessDecoder ---------------------------
(***************************************************************************)
(* The codec-independent half of a stateless video decoder                 *)
(* (src/decoder/stateless.rs) and the queue of decoded frames it owns      *)
(* (src/decoder.rs).                                                       *)
(*                                                                         *)
(* The decoder is a passive object: one client thread calls decode, flush  *)
(* and next_event on it and polls its file descriptor.  This module has    *)
(* the state the codec modules share and the pieces of the calls that do   *)
(* not depend on the codec; a codec module (Vp8Decoder, Vp9Decoder) adds   *)
(* its own state and composes the pieces into whole calls.                 *)
(*                                                                         *)
(* An event file descriptor is a boolean, "its counter is not zero": both  *)
(* descriptors are plain (non-semaphore, blocking) ones, so a read resets  *)
(* the counter whatever it was, and a read of a zero counter blocks the    *)
(* calling thread until another thread writes.  No other thread holds      *)
(* these descriptors: a client that blocks stays blocked.                  *)
(***************************************************************************)
EXTENDS Integers, Sequences

CONSTANTS
  Formats,      (* The stream formats (resolution, bit depth, profile).    *)
  NoFormat      (* "No format yet".                                        *)

ASSUME FormatAssumption == NoFormat \notin Formats

VARIABLES
  decoding_state,         (* DecodingState<F>, with its payload.           *)
  ready_queue,            (* Handles of the frames waiting for the client. *)
  ready_poll_fd,          (* The counter of ready_queue.poll_fd is > 0.    *)
  awaiting_format_event,  (* The counter of this descriptor is > 0.        *)
  accepted_format,        (* The format the client has acknowledged.       *)
  backend_format,         (* The format the backend is configured for.     *)
  client_thread           (* Is the caller's thread running or blocked?    *)

decoder_vars == <<decoding_state, ready_queue, ready_poll_fd,
                  awaiting_format_event, accepted_format, backend_format,
                  client_thread>>

-----------------------------------------------------------------------------
State(name) == [name |-> name, format |-> NoFormat]
AwaitingFormat(f) == [name |-> "AwaitingFormat", format |-> f]

DecodingStates ==
  {State(n) : n \in {"AwaitingStreamInfo", "Decoding", "Reset",
                     "FlushingForDRC"}}
    \cup {AwaitingFormat(f) : f \in Formats}

InState(name) == decoding_state.name = name

DecoderInit ==
  /\ decoding_state = State("AwaitingStreamInfo")
  /\ ready_queue = <<>>
  /\ ready_poll_fd = FALSE
  /\ awaiting_format_event = FALSE
  /\ accepted_format = NoFormat
  /\ backend_format = NoFormat
  /\ client_thread = "running"

-----------------------------------------------------------------------------
(* ReadyFramesQueue.                                                       *)

(* push, or extend, with the handles of a sequence; writing the number of  *)
(* handles, zero of them leaves the counter as it was.                     *)
PushReady(handles) ==
  /\ ready_queue' = ready_queue \o handles
  /\ ready_poll_fd' = (ready_poll_fd \/ handles # <<>>)

(* Mutant: the descriptor is read at every pop, not at the last one.       *)
PopReadyEager ==
  /\ ready_queue' = Tail(ready_queue)
  /\ ready_poll_fd' = FALSE
  /\ client_thread' = IF ready_poll_fd THEN "running" ELSE "blocked"

(* Iterator::next on a queue that is not empty: the descriptor is read     *)
(* when the last handle leaves.                                            *)
PopReady ==
  /\ ready_queue' = Tail(ready_queue)
  /\ IF Tail(ready_queue) = <<>>
       THEN /\ ready_poll_fd' = FALSE
            /\ client_thread' = IF ready_poll_fd THEN "running" ELSE "blocked"
       ELSE UNCHANGED <<ready_poll_fd, client_thread>>

-----------------------------------------------------------------------------
(* Mutant: the payload of AwaitingFormat is lost.                          *)
AwaitFormatChangeEmpty(f) ==
  /\ decoding_state' = State("AwaitingFormat")
  /\ backend_format' = f
  /\ awaiting_format_event' = TRUE

(* await_format_change, after the backend's new_sequence(f).               *)
AwaitFormatChange(f) ==
  /\ decoding_state' = AwaitingFormat(f)
  /\ backend_format' = f
  /\ awaiting_format_event' = TRUE

(* wait_for_drc_flush, as each decode call starts: either the call goes on *)
(* in StateAfterDrcFlush, or it ends here.                                 *)
DrcFlushPending == InState("FlushingForDRC") /\ ready_queue # <<>>

StateAfterDrcFlush ==
  IF InState("FlushingForDRC") THEN State("Reset") ELSE decoding_state

(* ... reading the descriptor before CheckEvents is returned.              *)
RefuseUntilDrained ==
  /\ DrcFlushPending
  /\ awaiting_format_event' = FALSE
  /\ client_thread' = IF awaiting_format_event THEN "running" ELSE "blocked"

(* query_next_event: a frame, or the format change the client then         *)
(* acknowledges, or nothing.                                               *)
FrameReady == ready_queue # <<>> /\ PopReady

(* Mutant: a format change overtakes the frames in the queue.              *)
FormatChangedFirst ==
  /\ InState("AwaitingFormat")
  /\ accepted_format' = decoding_state.format
  /\ decoding_state' = State("Reset")
  /\ awaiting_format_event' = FALSE
  /\ UNCHANGED client_thread

(* Mutant: the format is announced but not applied (no on_format_changed). *)
FormatChangedUnapplied ==
  /\ ready_queue = <<>>
  /\ InState("AwaitingFormat")
  /\ decoding_state' = State("Reset")
  /\ awaiting_format_event' = FALSE
  /\ UNCHANGED <<accepted_format, client_thread>>

FormatChanged ==
  /\ ready_queue = <<>>
  /\ InState("AwaitingFormat")
  /\ accepted_format' = decoding_state.format
  /\ decoding_state' = State("Reset")
  /\ awaiting_format_event' = FALSE
  /\ client_thread' = IF awaiting_format_event THEN "running" ELSE "blocked"

NoEvent == ready_queue = <<>> /\ ~InState("AwaitingFormat")

(* What epoll_fd tells a thread that polls it.                             *)
PollIn == ready_poll_fd \/ awaiting_format_event

-----------------------------------------------------------------------------
DecoderTypeOK(Handles) ==
  /\ decoding_state \in DecodingStates
  /\ ready_queue \in Seq(Handles)
  /\ ready_poll_fd \in BOOLEAN
  /\ awaiting_format_event \in BOOLEAN
  /\ accepted_format \in Formats \cup {NoFormat}
  /\ backend_format \in Formats \cup {NoFormat}
  /\ client_thread \in {"running", "blocked"}

(* A thread sleeping on the decoder's descriptor is woken for every event: *)
(* the queue's descriptor is readable exactly while frames wait in it      *)
(* (whatever the pushes and pops between), and the format descriptor is    *)
(* readable as long as the client owes an answer to a format change.       *)
EventsAreSignalled ==
  /\ ready_poll_fd <=> ready_queue # <<>>
  /\ InState("AwaitingFormat") => awaiting_format_event

(* Frames are decoded with a backend configured for the format the client  *)
(* has allocated its output buffers for.  This does not hold of a client   *)
(* that flushes while a format waits for its answer: see the README.       *)
DecodingInAcceptedFormat ==
  InState("Decoding") =>
    /\ accepted_format \in Formats
    /\ backend_format = accepted_format
=============================================================================
