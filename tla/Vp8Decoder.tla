------------------------------ MODULE Vp8Decoder ------------------------------
(***************************************************************************)
(* The VP8 stateless decoder (src/decoder/stateless/vp8.rs): one frame per *)
(* decode call, three reference slots, and a dynamic resolution change     *)
(* (DRC) when a key frame of another size comes while decoding.            *)
(*                                                                         *)
(* A frame header is reduced to what the decoder looks at: is it a key     *)
(* frame, its format, is it shown, and what it does to each reference.     *)
(***************************************************************************)
EXTENDS DecoderClient

CONSTANT NoHandle   (* An empty reference slot.                            *)

ASSUME Vp8Assumption == NoHandle \notin Handle

VARIABLES
  last_picture, golden_ref_picture, alt_ref_picture,
  stream_format     (* Environment: the format of the last key frame.      *)

references == <<last_picture, golden_ref_picture, alt_ref_picture>>
vars == <<decoder_vars, client_vars, references, stream_format>>

(* Headers.  alt and golden name the source of the new reference.          *)
Header ==
  [key_frame : BOOLEAN, format : Formats, show_frame : BOOLEAN,
   alt : {"decoded", "kept", "last", "golden", "invalid"},
   golden : {"decoded", "kept", "last", "alt", "invalid"},
   refresh_last : BOOLEAN]

ASSUME ChunksAreHeaders == Chunks \subseteq Header

ReferenceSet == ToSet(references) \ {NoHandle}

Init ==
  /\ DecoderInit
  /\ ClientInit
  /\ last_picture = NoHandle
  /\ golden_ref_picture = NoHandle
  /\ alt_ref_picture = NoHandle
  /\ stream_format = NoFormat

-----------------------------------------------------------------------------
(* An inter frame has no size of its own: it belongs to the stream of the  *)
(* key frame before it.                                                    *)
Submits(c) ==
  /\ MayDecode(c)
  /\ c # chunk /\ ~c.key_frame => c.format = stream_format
  /\ stream_format' = c.format

(* replace_reference(.., source) under "if let Some(source)".              *)
CopyOf(source, old) == IF source = NoHandle THEN old ELSE source

NewAlt(c, h) ==
  CASE c.alt = "decoded" -> h
    [] c.alt = "last"    -> CopyOf(last_picture, alt_ref_picture)
    [] c.alt = "golden"  -> CopyOf(golden_ref_picture, alt_ref_picture)
    [] OTHER             -> alt_ref_picture

(* A copy from the alternate reference sees the one just updated.          *)
NewGolden(c, h) ==
  CASE c.golden = "decoded" -> h
    [] c.golden = "last"    -> CopyOf(last_picture, golden_ref_picture)
    [] c.golden = "alt"     -> CopyOf(NewAlt(c, h), golden_ref_picture)
    [] OTHER                -> golden_ref_picture

SetReferences(h) ==
  /\ last_picture' = h
  /\ golden_ref_picture' = h
  /\ alt_ref_picture' = h

UpdateReferences(c, h) ==
  IF c.key_frame
    THEN SetReferences(h)
    ELSE /\ alt_ref_picture' = NewAlt(c, h)
         /\ golden_ref_picture' = NewGolden(c, h)
         /\ last_picture' = IF c.refresh_last THEN h ELSE last_picture

ValidUpdate(c) == c.key_frame \/ "invalid" \notin {c.alt, c.golden}

ClearReferences == SetReferences(NoHandle)

-----------------------------------------------------------------------------
(* decode: its outcomes, in the order of its returns.                      *)

Renegotiates(c) == c.key_frame /\ c.format # accepted_format

(* Mutant: any frame resumes decoding after a reset.                       *)
DispatchStateAnyFrame(c) ==
  IF StateAfterDrcFlush = State("Reset")
    THEN State("Decoding") ELSE StateAfterDrcFlush

(* The state the frame is dispatched on, when it does not renegotiate.     *)
DispatchState(c) ==
  IF c.key_frame /\ StateAfterDrcFlush = State("Reset")
    THEN State("Decoding") ELSE StateAfterDrcFlush

StillDraining(c) ==
  /\ Submits(c)
  /\ RefuseUntilDrained
  /\ Refused(c, "CheckEvents")
  /\ UNCHANGED <<decoding_state, ready_queue, ready_poll_fd, accepted_format,
                 backend_format, references>>

StartDrc(c) ==
  /\ Submits(c)
  /\ Renegotiates(c)
  /\ InState("Decoding")
  /\ ClearReferences
  /\ decoding_state' = State("FlushingForDRC")
  /\ awaiting_format_event' = TRUE
  /\ Refused(c, "CheckEvents")
  /\ UNCHANGED <<ready_queue, ready_poll_fd, accepted_format, backend_format,
                 client_thread>>

NewSequence(c) ==
  /\ Submits(c)
  /\ ~DrcFlushPending
  /\ Renegotiates(c)
  /\ ~InState("Decoding")
  /\ AwaitFormatChange(c.format)
  /\ Refused(c, "CheckEvents")
  /\ UNCHANGED <<ready_queue, ready_poll_fd, accepted_format, client_thread,
                 references>>

(* No key frame seen yet: the frame is swallowed.                          *)
Skip(c) ==
  /\ Submits(c)
  /\ ~DrcFlushPending /\ ~Renegotiates(c)
  /\ DispatchState(c).name \in {"AwaitingStreamInfo", "Reset"}
  /\ decoding_state' = DispatchState(c)
  /\ Accepted(0)
  /\ UNCHANGED <<ready_queue, ready_poll_fd, awaiting_format_event,
                 accepted_format, backend_format, client_thread, references>>

StillAwaitingFormat(c) ==
  /\ Submits(c)
  /\ ~Renegotiates(c)
  /\ InState("AwaitingFormat")
  /\ Refused(c, "CheckEvents")
  /\ UNCHANGED <<decoder_vars, references>>

ReadyToDecode(c) ==
  /\ Submits(c)
  /\ ~DrcFlushPending /\ ~Renegotiates(c)
  /\ DispatchState(c) = State("Decoding")
  /\ decoding_state' = State("Decoding")
  /\ UNCHANGED <<awaiting_format_event, accepted_format, backend_format,
                 client_thread>>

NoOutputBuffer(c) ==
  /\ ReadyToDecode(c)
  /\ ~CanAlloc(1, ReferenceSet)
  /\ Refused(c, "NotEnoughOutputBuffers")
  /\ UNCHANGED <<ready_queue, ready_poll_fd, references>>

HandleFrame(c) ==
  LET h == [id |-> num_handles + 1, format |-> c.format] IN
  /\ ReadyToDecode(c)
  /\ CanAlloc(1, ReferenceSet)
  /\ ValidUpdate(c)
  /\ UpdateReferences(c, h)
  /\ PushReady(IF c.show_frame THEN <<h>> ELSE <<>>)
  /\ Accepted(1)

(* An invalid copy flag is noticed after the frame was submitted: alt may  *)
(* have been updated by then, golden and last have not.                    *)
InvalidUpdate(c) ==
  LET h == [id |-> num_handles + 1, format |-> c.format] IN
  /\ ReadyToDecode(c)
  /\ CanAlloc(1, ReferenceSet)
  /\ ~ValidUpdate(c)
  /\ alt_ref_picture' = NewAlt(c, h)
  /\ Failed
  /\ UNCHANGED <<ready_queue, ready_poll_fd, last_picture, golden_ref_picture>>

(* reset_backend, new_sequence, or new_picture and submit_picture fail.    *)
BackendFails(c) ==
  /\ Submits(c)
  /\ ~DrcFlushPending
  /\ \/ InState("FlushingForDRC") /\ UNCHANGED decoding_state
     \/ /\ Renegotiates(c) /\ ~InState("Decoding")
        /\ decoding_state' = StateAfterDrcFlush
     \/ /\ ~Renegotiates(c) /\ DispatchState(c) = State("Decoding")
        /\ decoding_state' = State("Decoding")
  /\ Failed
  /\ UNCHANGED <<ready_queue, ready_poll_fd, awaiting_format_event,
                 accepted_format, backend_format, client_thread, references>>

Decode(c) ==
  \/ StillDraining(c) \/ StartDrc(c) \/ NewSequence(c) \/ Skip(c)
  \/ StillAwaitingFormat(c) \/ NoOutputBuffer(c) \/ HandleFrame(c)
  \/ InvalidUpdate(c) \/ BackendFails(c)

(* flush.  The frames already decoded are in the ready queue.              *)
Flush ==
  /\ profile.flushes_anytime \/ ~InState("AwaitingFormat")
  /\ AbandonChunk
  /\ ClearReferences
  /\ decoding_state' = State("Reset")
  /\ UNCHANGED <<ready_queue, ready_poll_fd, awaiting_format_event,
                 accepted_format, backend_format, client_thread, stream_format>>

NextEvent ==
  /\ TakeFrame \/ TakeFormatChange \/ TakeNothing
  /\ UNCHANGED <<references, stream_format>>

Drop(h) == DropFrame(h) /\ UNCHANGED <<references, stream_format>>

Next ==
  \/ \E c \in Chunks : Decode(c)
  \/ Flush
  \/ NextEvent
  \/ \E h \in held : Drop(h)

(* The client goes on with what it has begun: it submits a refused chunk   *)
(* again, takes the pending events, and drops every frame it was given.    *)
Fairness ==
  /\ WF_vars(outcome \in Refusals /\ \E c \in Chunks : Decode(c))
  /\ WF_vars(NextEvent)
  /\ WF_vars(\E h \in held : Drop(h))

Spec == Init /\ [][Next]_vars /\ Fairness

-----------------------------------------------------------------------------
TypeOK ==
  /\ DecoderTypeOK(Handle)
  /\ ClientTypeOK
  /\ last_picture \in Handle \cup {NoHandle}
  /\ golden_ref_picture \in Handle \cup {NoHandle}
  /\ alt_ref_picture \in Handle \cup {NoHandle}
  /\ stream_format \in Formats \cup {NoFormat}

(* The calls of the client and what it is told fit together: it finds the  *)
(* descriptors readable while there is something to take, no call puts it  *)
(* to sleep, and what it acknowledged is what is decoded in (decode,       *)
(* next_event, flush, wait_for_drc_flush).                                 *)
Safety == EventsAreSignalled /\ CallsNeverBlock /\ DecodesAcceptedFormat

(* Whenever an inter frame could be decoded, all three references it may   *)
(* predict from exist, are frames of the stream's own format, and live in  *)
(* the client's current pool, not in one a format change has replaced.  A  *)
(* key frame waiting for an output buffer is the only time they may be     *)
(* missing while decoding (handle_frame, flush, decode); a client that     *)
(* submits another frame in its place has it decoded without them.         *)
ReferencesUsable ==
  InState("Decoding") /\ outcome = "Ok" /\ profile.retries_same_chunk =>
    \A r \in {last_picture, golden_ref_picture, alt_ref_picture} :
      /\ r # NoHandle
      /\ r.format = accepted_format
      /\ r.id > pool_start

(* The decoder keeps the promises of the trait it implements; its frames   *)
(* are of the acknowledged format itself.                                  *)
Service == INSTANCE DecoderService WITH
  Fits <- {<<f, f>> : f \in Formats},
  output <- delivered \o ready_queue,
  taken <- delivered,
  format <- accepted_format

ServiceSpec == Service!Spec

(* A refused chunk is accepted in the end (or the session fails, or the    *)
(* chunk is given up), if the client submits it again, attends to all      *)
(* events and gives frames back: no sequence of refusals goes on forever,  *)
(* through DRC included.                                                   *)
RefusedChunkIsAccepted ==
  (profile.drains_all_events /\ profile.retries_same_chunk /\ outcome \in Refusals)
    ~> (outcome \in {"Ok", "Error"})
=============================================================================
