--------------------------- MODULE Vp8DecoderProofs ---------------------------
(***************************************************************************)
(* Theorems of Vp8Decoder, for every set of formats, every set of chunks,  *)
(* every pool size and every kind of client.                               *)
(***************************************************************************)
EXTENDS Vp8Decoder, SequenceTheorems, TLAPS

USE FormatAssumption

-----------------------------------------------------------------------------
(* Facts about the pieces the steps are made of.                           *)

LEMMA StateTypes ==
  /\ State("AwaitingStreamInfo") \in DecodingStates
  /\ State("Decoding") \in DecodingStates
  /\ State("Reset") \in DecodingStates
  /\ State("FlushingForDRC") \in DecodingStates
  /\ \A f \in Formats : AwaitingFormat(f) \in DecodingStates
  /\ \A s \in DecodingStates :
       s.name = "AwaitingFormat" => s.format \in Formats /\ s = AwaitingFormat(s.format)
  /\ \A n \in {"AwaitingStreamInfo", "Decoding", "Reset", "FlushingForDRC"} :
       State(n).name = n
  /\ \A f : AwaitingFormat(f).name = "AwaitingFormat" /\ AwaitingFormat(f).format = f
<1> USE DEF State, AwaitingFormat
<1>1. /\ State("AwaitingStreamInfo") \in DecodingStates
      /\ State("Decoding") \in DecodingStates
      /\ State("Reset") \in DecodingStates
      /\ State("FlushingForDRC") \in DecodingStates
  BY DEF DecodingStates
<1>2. \A f \in Formats : AwaitingFormat(f) \in DecodingStates
  BY DEF DecodingStates
<1>3. \A s \in DecodingStates :
        s.name = "AwaitingFormat" => s.format \in Formats /\ s = AwaitingFormat(s.format)
  BY DEF DecodingStates
<1>4. /\ \A n \in {"AwaitingStreamInfo", "Decoding", "Reset", "FlushingForDRC"} :
            State(n).name = n
      /\ \A f : AwaitingFormat(f).name = "AwaitingFormat" /\ AwaitingFormat(f).format = f
  OBVIOUS
<1>5. QED BY <1>1, <1>2, <1>3, <1>4

LEMMA ChunkTypes ==
  ASSUME NEW c \in Chunks
  PROVE  /\ c.key_frame \in BOOLEAN
         /\ c.show_frame \in BOOLEAN
         /\ c.refresh_last \in BOOLEAN
         /\ c.format \in Formats
         /\ c # NoChunk
  BY ChunksAreHeaders, ClientAssumption DEF Header

(* The handle HandleFrame makes of a chunk.                                *)
NewHandle(c) == [id |-> num_handles + 1, format |-> c.format]

LEMMA NewHandleType ==
  ASSUME NEW c \in Chunks, num_handles \in Nat
  PROVE  NewHandle(c) \in Handle /\ NewHandle(c) # NoHandle
  BY ChunkTypes, Vp8Assumption DEF NewHandle, Handle

(* Pushing one frame, or none, at the back of the queue.                   *)
LEMMA PushReadyFacts ==
  ASSUME NEW h \in Handle, NEW show \in BOOLEAN, ready_queue \in Seq(Handle),
         PushReady(IF show THEN <<h>> ELSE <<>>)
  PROVE  /\ ready_queue' \in Seq(Handle)
         /\ ready_queue' = IF show THEN Append(ready_queue, h) ELSE ready_queue
         /\ ready_poll_fd' = (ready_poll_fd \/ show)
<1>1. CASE show
  <2>1. ready_queue' = ready_queue \o <<h>> /\ ready_poll_fd' = TRUE
    BY <1>1 DEF PushReady
  <2>2. Append(ready_queue, h) = ready_queue \o <<h>>
    BY AppendIsConcat
  <2>3. QED BY <1>1, <2>1, <2>2, AppendProperties
<1>2. CASE ~show
  <2>1. ready_queue' = ready_queue \o <<>> /\ ready_poll_fd' = (ready_poll_fd \/ <<>> # <<>>)
    BY <1>2 DEF PushReady
  <2>2. ready_queue \o <<>> = ready_queue
    BY ConcatEmptySeq
  <2>3. QED BY <1>2, <2>1, <2>2
<1>3. QED BY <1>1, <1>2

LEMMA NewReferenceTypes ==
  ASSUME NEW c \in Chunks, NEW h \in Handle,
         last_picture \in Handle \cup {NoHandle},
         golden_ref_picture \in Handle \cup {NoHandle},
         alt_ref_picture \in Handle \cup {NoHandle}
  PROVE  /\ NewAlt(c, h) \in Handle \cup {NoHandle}
         /\ NewGolden(c, h) \in Handle \cup {NoHandle}
  BY DEF NewAlt, NewGolden, CopyOf

(* An accepted chunk leaves the client's variables in their types.         *)
LEMMA AcceptedType ==
  ASSUME NEW n \in Nat, ClientTypeOK, Accepted(n)
  PROVE  ClientTypeOK'
<1> USE DEF ClientTypeOK, Accepted
<1>1. num_chunks' \in Nat /\ num_handles' \in Nat /\ pool_start' \in Nat
  OBVIOUS
<1>2. chunk' \in Chunks \cup {NoChunk} /\ attended' \in BOOLEAN
  OBVIOUS
<1>3. held' \in SUBSET Handle /\ delivered' \in Seq(Handle)
  OBVIOUS
<1>4. outcome' \in {"Ok", "Error"} \cup Refusals
  OBVIOUS
<1>5. profile' \in Profiles
  OBVIOUS
<1>6. QED BY <1>1, <1>2, <1>3, <1>4, <1>5

(* A client does not change its ways.                                      *)
LEMMA ProfileFixed ==
  ASSUME [Next]_vars
  PROVE  profile' = profile
<1>1. ASSUME NEW c \in Chunks, Decode(c) PROVE profile' = profile
  BY <1>1 DEF Decode, StillDraining, StartDrc, NewSequence, Skip,
              StillAwaitingFormat, NoOutputBuffer, HandleFrame, InvalidUpdate,
              BackendFails, Accepted, Refused, Failed
<1>2. ASSUME Flush PROVE profile' = profile
  BY <1>2 DEF Flush, AbandonChunk
<1>3. ASSUME NextEvent PROVE profile' = profile
  BY <1>3 DEF NextEvent, TakeFrame, TakeFormatChange, TakeNothing
<1>4. ASSUME NEW h \in held, Drop(h) PROVE profile' = profile
  BY <1>4 DEF Drop, DropFrame
<1>5. CASE UNCHANGED vars
  BY <1>5 DEF vars, client_vars
<1>6. QED BY <1>1, <1>2, <1>3, <1>4, <1>5 DEF Next

-----------------------------------------------------------------------------
(* Every variable keeps its type.                                          *)
THEOREM TypeCorrect == Spec => []TypeOK
<1>1. Init => TypeOK
  <2>1. Init => DecoderTypeOK(Handle)
    BY StateTypes, EmptySeq DEF Init, DecoderInit, DecoderTypeOK
  <2>2. Init => ClientTypeOK
    <3> SUFFICES ASSUME ClientInit PROVE ClientTypeOK
      BY DEF Init
    <3> USE DEF ClientInit
    <3>1. held \in SUBSET Handle /\ delivered \in Seq(Handle)
      BY EmptySeq
    <3>2. num_chunks \in Nat /\ num_handles \in Nat /\ pool_start \in Nat
      OBVIOUS
    <3>3. chunk \in Chunks \cup {NoChunk} /\ attended \in BOOLEAN
      OBVIOUS
    <3>4. profile \in Profiles /\ outcome \in {"Ok", "Error"} \cup Refusals
      OBVIOUS
    <3>5. QED BY <3>1, <3>2, <3>3, <3>4 DEF ClientTypeOK
  <2>3. QED BY <2>1, <2>2 DEF Init, TypeOK
<1>2. TypeOK /\ [Next]_vars => TypeOK'
  <2> SUFFICES ASSUME TypeOK, [Next]_vars PROVE TypeOK'
    OBVIOUS
  <2> USE DEF TypeOK, DecoderTypeOK, ClientTypeOK, references
  <2>1. ASSUME NEW c \in Chunks, StillDraining(c) PROVE TypeOK'
    BY <2>1, StateTypes, ChunkTypes
       DEF StillDraining, Submits, RefuseUntilDrained, Refused, Refusals
  <2>2. ASSUME NEW c \in Chunks, StartDrc(c) PROVE TypeOK'
    BY <2>2, StateTypes, ChunkTypes
       DEF StartDrc, Submits, ClearReferences, SetReferences, Refused, Refusals
  <2>3. ASSUME NEW c \in Chunks, NewSequence(c) PROVE TypeOK'
    BY <2>3, StateTypes, ChunkTypes
       DEF NewSequence, Submits, AwaitFormatChange, Refused, Refusals
  <2>4. ASSUME NEW c \in Chunks, Skip(c) PROVE TypeOK'
    <3>1. decoding_state' \in DecodingStates
      BY <2>4, StateTypes DEF Skip, DispatchState, StateAfterDrcFlush
    <3>2. stream_format' \in Formats
      BY <2>4, ChunkTypes DEF Skip, Submits
    <3>3. ClientTypeOK'
      BY <2>4, AcceptedType DEF Skip
    <3>4. QED BY <2>4, <3>1, <3>2, <3>3 DEF Skip
  <2>5. ASSUME NEW c \in Chunks, StillAwaitingFormat(c) PROVE TypeOK'
    BY <2>5, ChunkTypes
       DEF StillAwaitingFormat, Submits, Refused, Refusals, decoder_vars
  <2>6. ASSUME NEW c \in Chunks, NoOutputBuffer(c) PROVE TypeOK'
    BY <2>6, StateTypes, ChunkTypes
       DEF NoOutputBuffer, ReadyToDecode, Submits, Refused, Refusals
  <2>7. ASSUME NEW c \in Chunks, HandleFrame(c) PROVE TypeOK'
    <3>1. NewHandle(c) \in Handle
      BY NewHandleType
    <3>2. ready_queue' \in Seq(Handle) /\ ready_poll_fd' \in BOOLEAN
      BY <2>7, <3>1, PushReadyFacts, ChunkTypes DEF HandleFrame, NewHandle
    <3>3. /\ last_picture' \in Handle \cup {NoHandle}
          /\ golden_ref_picture' \in Handle \cup {NoHandle}
          /\ alt_ref_picture' \in Handle \cup {NoHandle}
      BY <2>7, <3>1, NewReferenceTypes
         DEF HandleFrame, NewHandle, UpdateReferences, SetReferences
    <3>4. ClientTypeOK'
      BY <2>7, AcceptedType DEF HandleFrame
    <3>5. decoding_state' \in DecodingStates /\ stream_format' \in Formats
      BY <2>7, StateTypes, ChunkTypes DEF HandleFrame, ReadyToDecode, Submits
    <3>6. QED
      BY <2>7, <3>2, <3>3, <3>4, <3>5 DEF HandleFrame, ReadyToDecode
  <2>8. ASSUME NEW c \in Chunks, InvalidUpdate(c) PROVE TypeOK'
    <3>1. NewHandle(c) \in Handle
      BY NewHandleType
    <3>2. alt_ref_picture' \in Handle \cup {NoHandle}
      BY <2>8, <3>1, NewReferenceTypes
         DEF InvalidUpdate, NewHandle
    <3>3. QED
      BY <2>8, <3>2, StateTypes, ChunkTypes
         DEF InvalidUpdate, ReadyToDecode, Submits, Failed
  <2>9. ASSUME NEW c \in Chunks, BackendFails(c) PROVE TypeOK'
    BY <2>9, StateTypes, ChunkTypes
       DEF BackendFails, Submits, StateAfterDrcFlush, Failed
  <2>10. ASSUME Flush PROVE TypeOK'
    BY <2>10, StateTypes DEF Flush, AbandonChunk, ClearReferences, SetReferences
  <2>11. ASSUME TakeFrame, UNCHANGED <<references, stream_format>> PROVE TypeOK'
    <3>1. Head(ready_queue) \in Handle /\ Tail(ready_queue) \in Seq(Handle)
      BY <2>11, HeadTailProperties DEF TakeFrame, FrameReady
    <3>2. delivered' \in Seq(Handle)
      BY <2>11, <3>1, AppendProperties DEF TakeFrame
    <3>3. QED
      BY <2>11, <3>1, <3>2, ZenonT(60) DEF TakeFrame, FrameReady, PopReady
  <2>12. ASSUME TakeFormatChange, UNCHANGED <<references, stream_format>> PROVE TypeOK'
    BY <2>12, StateTypes DEF TakeFormatChange, FormatChanged, InState
  <2>13. ASSUME TakeNothing, UNCHANGED <<references, stream_format>> PROVE TypeOK'
    BY <2>13 DEF TakeNothing, decoder_vars
  <2>14. ASSUME NEW h \in held, Drop(h) PROVE TypeOK'
    BY <2>14 DEF Drop, DropFrame, decoder_vars
  <2>15. CASE UNCHANGED vars
    BY <2>15 DEF vars, decoder_vars, client_vars
  <2>16. QED
    BY <2>1, <2>2, <2>3, <2>4, <2>5, <2>6, <2>7, <2>8, <2>9, <2>10, <2>11,
       <2>12, <2>13, <2>14, <2>15 DEF Next, Decode, NextEvent
<1>3. QED BY <1>1, <1>2, PTL DEF Spec

-----------------------------------------------------------------------------
(* Every event stays signalled until the client has taken it.              *)
THEOREM Signalled == Spec => []EventsAreSignalled
<1> USE DEF EventsAreSignalled, InState
<1>1. Init => EventsAreSignalled
  BY StateTypes DEF Init, DecoderInit
<1>2. TypeOK /\ EventsAreSignalled /\ [Next]_vars => EventsAreSignalled'
  <2> SUFFICES ASSUME TypeOK, EventsAreSignalled, [Next]_vars
               PROVE  EventsAreSignalled'
    OBVIOUS
  <2>a. /\ ready_queue \in Seq(Handle)
        /\ decoding_state \in DecodingStates
        /\ num_handles \in Nat
    BY DEF TypeOK, DecoderTypeOK, ClientTypeOK
  <2>1. ASSUME NEW c \in Chunks, StillDraining(c) PROVE EventsAreSignalled'
    BY <2>1 DEF StillDraining, RefuseUntilDrained, DrcFlushPending
  <2>2. ASSUME NEW c \in Chunks, StartDrc(c) PROVE EventsAreSignalled'
    BY <2>2 DEF StartDrc
  <2>3. ASSUME NEW c \in Chunks, NewSequence(c) PROVE EventsAreSignalled'
    BY <2>3 DEF NewSequence, AwaitFormatChange
  <2>4. ASSUME NEW c \in Chunks, Skip(c) PROVE EventsAreSignalled'
    BY <2>4 DEF Skip
  <2>5. ASSUME NEW c \in Chunks, StillAwaitingFormat(c) PROVE EventsAreSignalled'
    BY <2>5 DEF StillAwaitingFormat, decoder_vars
  <2>6. ASSUME NEW c \in Chunks, NoOutputBuffer(c) PROVE EventsAreSignalled'
    BY <2>6, StateTypes DEF NoOutputBuffer, ReadyToDecode
  <2>7. ASSUME NEW c \in Chunks, HandleFrame(c) PROVE EventsAreSignalled'
    <3>1. NewHandle(c) \in Handle /\ c.show_frame \in BOOLEAN
      BY <2>a, NewHandleType, ChunkTypes
    <3>2. /\ ready_queue' = IF c.show_frame THEN Append(ready_queue, NewHandle(c))
                                            ELSE ready_queue
          /\ ready_poll_fd' = (ready_poll_fd \/ c.show_frame)
      BY <2>7, <2>a, <3>1, PushReadyFacts DEF HandleFrame, NewHandle
    <3>3. Append(ready_queue, NewHandle(c)) # <<>>
      BY <2>a, <3>1, AppendProperties
    <3>4. ready_poll_fd' <=> ready_queue' # <<>>
      BY <3>2, <3>3
    <3>5. decoding_state'.name # "AwaitingFormat"
      BY <2>7, StateTypes DEF HandleFrame, ReadyToDecode
    <3>6. QED BY <3>4, <3>5
  <2>8. ASSUME NEW c \in Chunks, InvalidUpdate(c) PROVE EventsAreSignalled'
    BY <2>8, StateTypes DEF InvalidUpdate, ReadyToDecode
  <2>9. ASSUME NEW c \in Chunks, BackendFails(c) PROVE EventsAreSignalled'
    BY <2>9, StateTypes DEF BackendFails, StateAfterDrcFlush
  <2>10. ASSUME Flush PROVE EventsAreSignalled'
    BY <2>10, StateTypes DEF Flush
  <2>11. ASSUME TakeFrame PROVE EventsAreSignalled'
    BY <2>11 DEF TakeFrame, FrameReady, PopReady
  <2>12. ASSUME TakeFormatChange PROVE EventsAreSignalled'
    BY <2>12, StateTypes DEF TakeFormatChange, FormatChanged
  <2>13. ASSUME TakeNothing PROVE EventsAreSignalled'
    BY <2>13 DEF TakeNothing, decoder_vars
  <2>14. ASSUME NEW h \in held, Drop(h) PROVE EventsAreSignalled'
    BY <2>14 DEF Drop, DropFrame, decoder_vars
  <2>15. CASE UNCHANGED vars
    BY <2>15 DEF vars, decoder_vars
  <2>16. QED
    BY <2>1, <2>2, <2>3, <2>4, <2>5, <2>6, <2>7, <2>8, <2>9, <2>10, <2>11,
       <2>12, <2>13, <2>14, <2>15 DEF Next, Decode, NextEvent
<1>3. QED BY <1>1, <1>2, TypeCorrect, PTL DEF Spec

-----------------------------------------------------------------------------
(* A client that takes every event before it retries is never blocked: it  *)
(* answers a refusal by emptying the queue, so that a chunk submitted      *)
(* while a DRC flush is pending either finds the queue empty or the event  *)
(* descriptor written by the refusal that began the flush.                 *)
Attentive ==
  /\ client_thread = "running"
  /\ EventsAreSignalled
  /\ InState("FlushingForDRC") => outcome \in {"CheckEvents", "Error"}
  /\ attended => ready_queue = <<>>

AttentiveIfDraining == profile.drains_all_events => Attentive

THEOREM NeverBlocks == Spec => []CallsNeverBlock
<1> USE DEF Attentive, EventsAreSignalled, InState
<1>1. Init => AttentiveIfDraining
  BY StateTypes DEF Init, DecoderInit, ClientInit, AttentiveIfDraining
<1>2. TypeOK /\ EventsAreSignalled' /\ AttentiveIfDraining /\ [Next]_vars
        => AttentiveIfDraining'
  <2> SUFFICES ASSUME TypeOK, EventsAreSignalled', Attentive, [Next]_vars,
                      profile.drains_all_events
               PROVE  Attentive'
    BY ProfileFixed DEF AttentiveIfDraining
  <2>a. /\ ready_queue \in Seq(Handle)
        /\ decoding_state \in DecodingStates
        /\ num_handles \in Nat
    BY DEF TypeOK, DecoderTypeOK, ClientTypeOK
  <2>1. ASSUME NEW c \in Chunks, StillDraining(c) PROVE Attentive'
    <3>1. FALSE
      BY <2>1 DEF StillDraining, Submits, MayDecode, RefuseUntilDrained,
                  DrcFlushPending, Refusals
    <3>2. QED BY <3>1
  <2>2. ASSUME NEW c \in Chunks, StartDrc(c) PROVE Attentive'
    BY <2>2, StateTypes DEF StartDrc, Refused
  <2>3. ASSUME NEW c \in Chunks, NewSequence(c) PROVE Attentive'
    BY <2>3, StateTypes DEF NewSequence, AwaitFormatChange, Refused
  <2>4. ASSUME NEW c \in Chunks, Skip(c) PROVE Attentive'
    BY <2>4, StateTypes DEF Skip, Accepted
  <2>5. ASSUME NEW c \in Chunks, StillAwaitingFormat(c) PROVE Attentive'
    BY <2>5 DEF StillAwaitingFormat, decoder_vars, Refused
  <2>6. ASSUME NEW c \in Chunks, NoOutputBuffer(c) PROVE Attentive'
    BY <2>6, StateTypes DEF NoOutputBuffer, ReadyToDecode, Refused
  <2>7. ASSUME NEW c \in Chunks, HandleFrame(c) PROVE Attentive'
    BY <2>7, StateTypes DEF HandleFrame, ReadyToDecode, Accepted
  <2>8. ASSUME NEW c \in Chunks, InvalidUpdate(c) PROVE Attentive'
    BY <2>8, StateTypes DEF InvalidUpdate, ReadyToDecode, Failed
  <2>9. ASSUME NEW c \in Chunks, BackendFails(c) PROVE Attentive'
    BY <2>9, StateTypes DEF BackendFails, Failed
  <2>10. ASSUME Flush PROVE Attentive'
    BY <2>10, StateTypes DEF Flush, AbandonChunk
  <2>11. ASSUME TakeFrame PROVE Attentive'
    <3>1. attended' = FALSE /\ client_thread' = "running"
      BY <2>11 DEF TakeFrame, FrameReady, PopReady
    <3>2. QED BY <2>11, <3>1 DEF TakeFrame
  <2>12. ASSUME TakeFormatChange PROVE Attentive'
    BY <2>12, StateTypes DEF TakeFormatChange, FormatChanged
  <2>13. ASSUME TakeNothing PROVE Attentive'
    BY <2>13 DEF TakeNothing, decoder_vars, NoEvent
  <2>14. ASSUME NEW h \in held, Drop(h) PROVE Attentive'
    BY <2>14 DEF Drop, DropFrame, decoder_vars
  <2>15. CASE UNCHANGED vars
    BY <2>15 DEF vars, decoder_vars, client_vars
  <2>16. QED
    BY <2>1, <2>2, <2>3, <2>4, <2>5, <2>6, <2>7, <2>8, <2>9, <2>10, <2>11,
       <2>12, <2>13, <2>14, <2>15 DEF Next, Decode, NextEvent
<1>3. AttentiveIfDraining => CallsNeverBlock
  BY DEF AttentiveIfDraining, CallsNeverBlock
<1>4. QED BY <1>1, <1>2, <1>3, TypeCorrect, Signalled, PTL DEF Spec

-----------------------------------------------------------------------------
(* Where the formats the session knows of agree.  Inter frames carry no    *)
(* size: what ties them to the accepted format is the key frame before     *)
(* them, through stream_format and the chunk that was refused.             *)
FormatsAgree ==
  /\ InState("Decoding") =>
       accepted_format \in Formats /\ stream_format = accepted_format
  /\ outcome \in Refusals => chunk.format = stream_format
  /\ outcome = "Ok" => chunk = NoChunk

LEMMA StreamFormat == Spec => []FormatsAgree
<1> USE DEF FormatsAgree, InState, Refusals
<1>1. Init => FormatsAgree
  BY StateTypes DEF Init, DecoderInit, ClientInit
<1>2. TypeOK /\ FormatsAgree /\ [Next]_vars => FormatsAgree'
  <2> SUFFICES ASSUME TypeOK, FormatsAgree, [Next]_vars
               PROVE  FormatsAgree'
    OBVIOUS
  <2>a. decoding_state \in DecodingStates /\ accepted_format \in Formats \cup {NoFormat}
    BY DEF TypeOK, DecoderTypeOK
  <2>b. ASSUME NEW c \in Chunks, Submits(c)
        PROVE  /\ c.format \in Formats
               /\ stream_format' = c.format
               /\ ~c.key_frame => c.format = stream_format
    BY <2>b, ChunkTypes DEF Submits, MayDecode
  <2>c. ASSUME NEW c \in Chunks, Submits(c), ~Renegotiates(c),
               StateAfterDrcFlush = State("Decoding") \/ c.key_frame
        PROVE  accepted_format \in Formats /\ c.format = accepted_format
    <3>1. CASE c.key_frame
      BY <2>c, <2>b, <3>1 DEF Renegotiates
    <3>2. CASE ~c.key_frame
      BY <2>c, <2>b, <3>2, StateTypes DEF StateAfterDrcFlush
    <3>3. QED BY <3>1, <3>2
  <2>d. ASSUME NEW c \in Chunks, Submits(c), ~Renegotiates(c),
               DispatchState(c) = State("Decoding")
        PROVE  accepted_format \in Formats /\ c.format = accepted_format
    BY <2>c, <2>d, StateTypes DEF DispatchState
  <2>1. ASSUME NEW c \in Chunks, StillDraining(c) PROVE FormatsAgree'
    BY <2>1, <2>b DEF StillDraining, RefuseUntilDrained, DrcFlushPending, Refused
  <2>2. ASSUME NEW c \in Chunks, StartDrc(c) PROVE FormatsAgree'
    BY <2>2, <2>b, StateTypes DEF StartDrc, Refused
  <2>3. ASSUME NEW c \in Chunks, NewSequence(c) PROVE FormatsAgree'
    BY <2>3, <2>b, StateTypes DEF NewSequence, AwaitFormatChange, Refused
  <2>4. ASSUME NEW c \in Chunks, Skip(c) PROVE FormatsAgree'
    BY <2>4 DEF Skip, Accepted
  <2>5. ASSUME NEW c \in Chunks, StillAwaitingFormat(c) PROVE FormatsAgree'
    BY <2>5, <2>b DEF StillAwaitingFormat, decoder_vars, Refused
  <2>6. ASSUME NEW c \in Chunks, NoOutputBuffer(c) PROVE FormatsAgree'
    BY <2>6, <2>b, <2>d DEF NoOutputBuffer, ReadyToDecode, Refused
  <2>7. ASSUME NEW c \in Chunks, HandleFrame(c) PROVE FormatsAgree'
    BY <2>7, <2>b, <2>d DEF HandleFrame, ReadyToDecode, Accepted
  <2>8. ASSUME NEW c \in Chunks, InvalidUpdate(c) PROVE FormatsAgree'
    BY <2>8, <2>b, <2>d DEF InvalidUpdate, ReadyToDecode, Failed
  <2>9. ASSUME NEW c \in Chunks, BackendFails(c) PROVE FormatsAgree'
    <3>1. Submits(c) /\ outcome' = "Error" /\ accepted_format' = accepted_format
      BY <2>9 DEF BackendFails, Failed
    <3>2. CASE InState("FlushingForDRC") /\ UNCHANGED decoding_state
      BY <3>1, <3>2
    <3>3. CASE /\ Renegotiates(c) /\ ~InState("Decoding")
               /\ decoding_state' = StateAfterDrcFlush
      BY <3>1, <3>3, StateTypes DEF StateAfterDrcFlush
    <3>4. CASE /\ ~Renegotiates(c) /\ DispatchState(c) = State("Decoding")
               /\ decoding_state' = State("Decoding")
      BY <3>1, <3>4, <2>b, <2>d
    <3>5. QED BY <2>9, <3>2, <3>3, <3>4 DEF BackendFails
  <2>10. ASSUME Flush PROVE FormatsAgree'
    BY <2>10, StateTypes DEF Flush, AbandonChunk
  <2>11. ASSUME TakeFrame, UNCHANGED stream_format PROVE FormatsAgree'
    BY <2>11 DEF TakeFrame
  <2>12. ASSUME TakeFormatChange, UNCHANGED stream_format PROVE FormatsAgree'
    BY <2>12, StateTypes DEF TakeFormatChange, FormatChanged
  <2>13. ASSUME TakeNothing, UNCHANGED stream_format PROVE FormatsAgree'
    BY <2>13 DEF TakeNothing, decoder_vars
  <2>14. ASSUME NEW h \in held, Drop(h) PROVE FormatsAgree'
    BY <2>14 DEF Drop, DropFrame, decoder_vars
  <2>15. CASE UNCHANGED vars
    BY <2>15 DEF vars, decoder_vars, client_vars
  <2>16. QED
    BY <2>1, <2>2, <2>3, <2>4, <2>5, <2>6, <2>7, <2>8, <2>9, <2>10, <2>11,
       <2>12, <2>13, <2>14, <2>15 DEF Next, Decode, NextEvent
<1>3. QED BY <1>1, <1>2, TypeCorrect, PTL DEF Spec

-----------------------------------------------------------------------------
(* The backend is configured for the format the client acknowledged, but   *)
(* for the one it has still to acknowledge.  A flush in AwaitingFormat     *)
(* would forget which of the two it is.                                    *)
BackendAgrees ==
  /\ InState("Decoding") => accepted_format \in Formats
  /\ InState("AwaitingFormat") => backend_format = decoding_state.format
  /\ ~InState("AwaitingFormat") => backend_format = accepted_format

BackendAgreesIfPatient == ~profile.flushes_anytime => BackendAgrees

THEOREM AcceptedFormat == Spec => []DecodesAcceptedFormat
<1> USE DEF BackendAgrees, InState
<1>1. Init => BackendAgreesIfPatient
  BY StateTypes DEF Init, DecoderInit, BackendAgreesIfPatient
<1>2. TypeOK /\ BackendAgreesIfPatient /\ [Next]_vars => BackendAgreesIfPatient'
  <2> SUFFICES ASSUME TypeOK, BackendAgrees, [Next]_vars,
                      ~profile.flushes_anytime
               PROVE  BackendAgrees'
    BY ProfileFixed DEF BackendAgreesIfPatient
  <2>a. decoding_state \in DecodingStates
    BY DEF TypeOK, DecoderTypeOK
  <2>d. ASSUME NEW c \in Chunks, ~Renegotiates(c), DispatchState(c) = State("Decoding")
        PROVE  /\ accepted_format \in Formats
               /\ backend_format = accepted_format
    <3>1. CASE c.key_frame /\ StateAfterDrcFlush = State("Reset")
      BY <2>a, <2>d, <3>1, StateTypes, ChunkTypes DEF StateAfterDrcFlush, Renegotiates
    <3>2. CASE ~(c.key_frame /\ StateAfterDrcFlush = State("Reset"))
      BY <2>d, <3>2, StateTypes DEF DispatchState, StateAfterDrcFlush
    <3>3. QED BY <3>1, <3>2
  <2>1. ASSUME NEW c \in Chunks, StillDraining(c) PROVE BackendAgrees'
    BY <2>1 DEF StillDraining
  <2>2. ASSUME NEW c \in Chunks, StartDrc(c) PROVE BackendAgrees'
    BY <2>2, StateTypes DEF StartDrc
  <2>3. ASSUME NEW c \in Chunks, NewSequence(c) PROVE BackendAgrees'
    BY <2>3, StateTypes DEF NewSequence, AwaitFormatChange
  <2>4. ASSUME NEW c \in Chunks, Skip(c) PROVE BackendAgrees'
    <3>1. /\ DispatchState(c) # State("Decoding")
          /\ decoding_state' = DispatchState(c)
          /\ UNCHANGED <<accepted_format, backend_format>>
      BY <2>4, StateTypes DEF Skip
    <3>2. decoding_state' = decoding_state \/ ~InState("AwaitingFormat")
      BY <3>1, StateTypes DEF DispatchState, StateAfterDrcFlush
    <3>3. decoding_state'.name \in {"AwaitingStreamInfo", "Reset"}
      BY <2>4 DEF Skip
    <3>4. QED BY <3>1, <3>2, <3>3
  <2>5. ASSUME NEW c \in Chunks, StillAwaitingFormat(c) PROVE BackendAgrees'
    BY <2>5 DEF StillAwaitingFormat, decoder_vars
  <2>6. ASSUME NEW c \in Chunks, NoOutputBuffer(c) PROVE BackendAgrees'
    BY <2>6, <2>d, StateTypes DEF NoOutputBuffer, ReadyToDecode
  <2>7. ASSUME NEW c \in Chunks, HandleFrame(c) PROVE BackendAgrees'
    BY <2>7, <2>d, StateTypes DEF HandleFrame, ReadyToDecode
  <2>8. ASSUME NEW c \in Chunks, InvalidUpdate(c) PROVE BackendAgrees'
    BY <2>8, <2>d, StateTypes DEF InvalidUpdate, ReadyToDecode
  <2>9. ASSUME NEW c \in Chunks, BackendFails(c) PROVE BackendAgrees'
    <3>1. UNCHANGED <<accepted_format, backend_format>>
      BY <2>9 DEF BackendFails
    <3>2. CASE InState("FlushingForDRC") /\ UNCHANGED decoding_state
      BY <3>1, <3>2
    <3>3. CASE /\ Renegotiates(c) /\ ~InState("Decoding")
               /\ decoding_state' = StateAfterDrcFlush
      BY <3>1, <3>3, StateTypes DEF StateAfterDrcFlush
    <3>4. CASE /\ ~Renegotiates(c) /\ DispatchState(c) = State("Decoding")
               /\ decoding_state' = State("Decoding")
      BY <3>1, <3>4, <2>d, StateTypes
    <3>5. QED BY <2>9, <3>2, <3>3, <3>4 DEF BackendFails
  <2>10. ASSUME Flush PROVE BackendAgrees'
    BY <2>10, StateTypes DEF Flush
  <2>11. ASSUME TakeFrame PROVE BackendAgrees'
    BY <2>11 DEF TakeFrame
  <2>12. ASSUME TakeFormatChange PROVE BackendAgrees'
    BY <2>12, StateTypes DEF TakeFormatChange, FormatChanged
  <2>13. ASSUME TakeNothing PROVE BackendAgrees'
    BY <2>13 DEF TakeNothing, decoder_vars
  <2>14. ASSUME NEW h \in held, Drop(h) PROVE BackendAgrees'
    BY <2>14 DEF Drop, DropFrame, decoder_vars
  <2>15. CASE UNCHANGED vars
    BY <2>15 DEF vars, decoder_vars
  <2>16. QED
    BY <2>1, <2>2, <2>3, <2>4, <2>5, <2>6, <2>7, <2>8, <2>9, <2>10, <2>11,
       <2>12, <2>13, <2>14, <2>15 DEF Next, Decode, NextEvent
<1>3. BackendAgreesIfPatient => DecodesAcceptedFormat
  BY DEF BackendAgreesIfPatient, DecodesAcceptedFormat, DecodingInAcceptedFormat
<1>4. QED BY <1>1, <1>2, <1>3, TypeCorrect, PTL DEF Spec

-----------------------------------------------------------------------------
(* While the decoder decodes, all three references are frames of the       *)
(* accepted format in the current pool; but for a key frame that waits     *)
(* for an output buffer, and whatever an error has left.                   *)
Usable(r) == r \in Handle /\ r.format = accepted_format /\ r.id > pool_start

AllUsable == Usable(last_picture) /\ Usable(golden_ref_picture) /\ Usable(alt_ref_picture)

ReferencesKept ==
  /\ pool_start <= num_handles
  /\ profile.retries_same_chunk /\ InState("Decoding") =>
       \/ AllUsable
       \/ outcome = "Error"
       \/ outcome \in Refusals /\ chunk.key_frame /\ chunk.format = accepted_format

LEMMA UsableUpdate ==
  ASSUME NEW c \in Chunks, NEW h, Usable(h), UpdateReferences(c, h),
         UNCHANGED <<accepted_format, pool_start>>, c.key_frame \/ AllUsable
  PROVE  AllUsable'
<1>1. CASE c.key_frame
  <2>1. last_picture' = h /\ golden_ref_picture' = h /\ alt_ref_picture' = h
    BY <1>1 DEF UpdateReferences, SetReferences
  <2>2. QED BY <2>1 DEF AllUsable, Usable
<1>2. CASE ~c.key_frame
  <2>1. /\ alt_ref_picture' = NewAlt(c, h)
        /\ golden_ref_picture' = NewGolden(c, h)
        /\ last_picture' = IF c.refresh_last THEN h ELSE last_picture
        /\ Usable(last_picture) /\ Usable(golden_ref_picture) /\ Usable(alt_ref_picture)
    BY <1>2 DEF UpdateReferences, AllUsable
  <2>2. Usable(NewAlt(c, h))
    BY <2>1 DEF NewAlt, CopyOf
  <2>3. Usable(NewGolden(c, h))
    BY <2>1, <2>2 DEF NewGolden, CopyOf
  <2>4. QED BY <2>1, <2>2, <2>3 DEF AllUsable, Usable
<1>3. QED BY <1>1, <1>2

LEMMA NewUsable ==
  ASSUME NEW c \in Chunks, num_handles \in Nat, pool_start \in Nat, pool_start <= num_handles,
         c.format = accepted_format
  PROVE  Usable(NewHandle(c))
<1>1. NewHandle(c) \in Handle /\ NewHandle(c).format = c.format /\ NewHandle(c).id = num_handles + 1
  BY NewHandleType DEF NewHandle
<1>2. num_handles + 1 > pool_start
  OBVIOUS
<1>3. QED BY <1>1, <1>2 DEF Usable

(* A frame that is decoded is of the accepted format, and unless it is a   *)
(* key frame has its references, if the client repeats a refused frame.    *)
LEMMA ReadyFrame ==
  ASSUME TypeOK, FormatsAgree, ReferencesKept, profile.retries_same_chunk,
         NEW c \in Chunks, ReadyToDecode(c)
  PROVE  c.format = accepted_format /\ (c.key_frame \/ (InState("Decoding") /\ AllUsable))
<1>1. /\ Submits(c) /\ MayDecode(c) /\ ~Renegotiates(c)
      /\ DispatchState(c) = State("Decoding")
  BY DEF ReadyToDecode, Submits
<1>2. CASE c.key_frame
  BY <1>1, <1>2 DEF Renegotiates
<1>3. CASE ~c.key_frame
  <2>1. InState("Decoding")
    BY <1>1, <1>3, StateTypes DEF DispatchState, StateAfterDrcFlush, InState
  <2>2. c.format = stream_format
    BY <1>1, <1>3, ChunkTypes DEF Submits, MayDecode, FormatsAgree
  <2>3. outcome # "Error" /\ (outcome \in Refusals => c = chunk)
    BY <1>1 DEF MayDecode, Refusals
  <2>4. AllUsable
    BY <1>3, <2>1, <2>3 DEF ReferencesKept
  <2>5. QED BY <2>1, <2>2, <2>4 DEF FormatsAgree
<1>4. QED BY <1>2, <1>3

LEMMA ReferencesKeptAlways == Spec => []ReferencesKept
<1>1. Init => ReferencesKept
  BY StateTypes DEF Init, DecoderInit, ClientInit, ReferencesKept, InState
<1>2. TypeOK /\ FormatsAgree /\ ReferencesKept /\ [Next]_vars => ReferencesKept'
  <2> SUFFICES ASSUME TypeOK, FormatsAgree, ReferencesKept, [Next]_vars
               PROVE  ReferencesKept'
    OBVIOUS
  <2>a. /\ num_handles \in Nat /\ pool_start \in Nat /\ pool_start <= num_handles
        /\ profile' = profile
    BY ProfileFixed DEF TypeOK, ClientTypeOK, ReferencesKept
  <2>b. ASSUME UNCHANGED <<pool_start, num_handles>>, ~InState("Decoding")' \/ outcome' = "Error"
        PROVE  ReferencesKept'
    BY <2>a, <2>b DEF ReferencesKept
  <2>c. ASSUME UNCHANGED <<pool_start, num_handles, decoding_state, accepted_format, references,
                           outcome, chunk>>
        PROVE  ReferencesKept'
    BY <2>a, <2>c DEF ReferencesKept, AllUsable, Usable, InState, references
  <2>1. ASSUME NEW c \in Chunks, StillDraining(c) PROVE ReferencesKept'
    BY <2>1, <2>b DEF StillDraining, RefuseUntilDrained, DrcFlushPending, Refused, InState
  <2>2. ASSUME NEW c \in Chunks, StartDrc(c) PROVE ReferencesKept'
    BY <2>2, <2>b, StateTypes DEF StartDrc, Refused, InState
  <2>3. ASSUME NEW c \in Chunks, NewSequence(c) PROVE ReferencesKept'
    BY <2>3, <2>b, StateTypes DEF NewSequence, AwaitFormatChange, Refused, InState
  <2>4. ASSUME NEW c \in Chunks, Skip(c) PROVE ReferencesKept'
    <3>1. ~InState("Decoding")' /\ UNCHANGED pool_start /\ num_handles' = num_handles + 0
      BY <2>4 DEF Skip, Accepted, InState
    <3>2. num_handles' = num_handles
      BY <2>a, <3>1
    <3>3. QED BY <3>1, <3>2, <2>b
  <2>5. ASSUME NEW c \in Chunks, StillAwaitingFormat(c) PROVE ReferencesKept'
    BY <2>5, <2>b DEF StillAwaitingFormat, decoder_vars, Refused, InState
  <2>6. ASSUME NEW c \in Chunks, NoOutputBuffer(c) PROVE ReferencesKept'
    <3>1. /\ ReadyToDecode(c) /\ outcome' = "NotEnoughOutputBuffers" /\ chunk' = c
          /\ UNCHANGED <<pool_start, num_handles, accepted_format, references>>
      BY <2>6 DEF NoOutputBuffer, ReadyToDecode, Refused
    <3>2. ASSUME profile.retries_same_chunk
          PROVE  AllUsable' \/ (chunk'.key_frame /\ chunk'.format = accepted_format')
      <4>1. c.format = accepted_format /\ (c.key_frame \/ AllUsable)
        BY <3>1, <3>2, ReadyFrame
      <4>2. QED BY <3>1, <4>1 DEF AllUsable, Usable, references
    <3>3. QED BY <2>a, <3>1, <3>2 DEF ReferencesKept, Refusals
  <2>7. ASSUME NEW c \in Chunks, HandleFrame(c) PROVE ReferencesKept'
    <3>1. /\ ReadyToDecode(c) /\ UpdateReferences(c, NewHandle(c))
          /\ num_handles' = num_handles + 1
          /\ UNCHANGED <<pool_start, accepted_format>>
      BY <2>7 DEF HandleFrame, ReadyToDecode, Accepted, NewHandle
    <3>2. pool_start' <= num_handles'
      BY <2>a, <3>1
    <3>3. ASSUME profile.retries_same_chunk PROVE AllUsable'
      <4>1. c.format = accepted_format /\ (c.key_frame \/ AllUsable)
        BY <3>1, <3>3, ReadyFrame
      <4>2. Usable(NewHandle(c))
        BY <2>a, <4>1, NewUsable
      <4>3. QED BY <3>1, <4>1, <4>2, UsableUpdate
    <3>4. QED BY <2>a, <3>2, <3>3 DEF ReferencesKept
  <2>8. ASSUME NEW c \in Chunks, InvalidUpdate(c) PROVE ReferencesKept'
    BY <2>8, <2>b DEF InvalidUpdate, Failed
  <2>9. ASSUME NEW c \in Chunks, BackendFails(c) PROVE ReferencesKept'
    BY <2>9, <2>b DEF BackendFails, Failed
  <2>10. ASSUME Flush PROVE ReferencesKept'
    BY <2>10, <2>b, StateTypes DEF Flush, AbandonChunk, InState
  <2>11. ASSUME TakeFrame, UNCHANGED references PROVE ReferencesKept'
    BY <2>11, <2>c DEF TakeFrame
  <2>12. ASSUME TakeFormatChange PROVE ReferencesKept'
    <3>1. ~InState("Decoding")' /\ pool_start' = num_handles /\ num_handles' = num_handles
      BY <2>12, StateTypes DEF TakeFormatChange, FormatChanged, InState
    <3>2. pool_start' <= num_handles'
      BY <2>a, <3>1
    <3>3. QED BY <3>1, <3>2 DEF ReferencesKept
  <2>13. ASSUME TakeNothing, UNCHANGED references PROVE ReferencesKept'
    BY <2>13, <2>c DEF TakeNothing, decoder_vars
  <2>14. ASSUME NEW h \in held, Drop(h) PROVE ReferencesKept'
    BY <2>14, <2>c DEF Drop, DropFrame, decoder_vars
  <2>15. CASE UNCHANGED vars
    BY <2>15, <2>c DEF vars, decoder_vars, client_vars, references
  <2>16. QED
    BY <2>1, <2>2, <2>3, <2>4, <2>5, <2>6, <2>7, <2>8, <2>9, <2>10, <2>11,
       <2>12, <2>13, <2>14, <2>15 DEF Next, Decode, NextEvent
<1>3. QED BY <1>1, <1>2, TypeCorrect, StreamFormat, PTL DEF Spec

(* An inter frame finds all three references, in its own format and in the *)
(* pool the client has now (handle_frame, update_references, flush).       *)
THEOREM ReferencesStayUsable == Spec => []ReferencesUsable
<1>1. ReferencesKept => ReferencesUsable
  <2> SUFFICES ASSUME ReferencesKept, InState("Decoding"), outcome = "Ok", profile.retries_same_chunk,
                      NEW r \in {last_picture, golden_ref_picture, alt_ref_picture}
               PROVE  r # NoHandle /\ r.format = accepted_format /\ r.id > pool_start
    BY DEF ReferencesUsable
  <2>1. Usable(r)
    BY DEF ReferencesKept, Refusals, AllUsable
  <2>2. QED BY <2>1, Vp8Assumption DEF Usable
<1>2. QED BY <1>1, ReferencesKeptAlways, PTL

-----------------------------------------------------------------------------
(* The decoder implements the abstract service: the output stream only     *)
(* grows at its end, in the accepted format, and is handed over in order;  *)
(* the format changes when nothing is left to hand over.                   *)
LEMMA OutputStreamTypes ==
  ASSUME TypeOK
  PROVE  /\ delivered \in Seq(Handle)
         /\ ready_queue \in Seq(Handle)
         /\ delivered \o ready_queue \in Seq(Handle)
         /\ Len(delivered \o ready_queue) = Len(delivered) + Len(ready_queue)
         /\ Len(delivered) \in Nat
         /\ Len(ready_queue) \in Nat
BY ConcatProperties, LenProperties DEF TypeOK, DecoderTypeOK, ClientTypeOK

LEMMA ServiceOutput ==
  ASSUME TypeOK, NEW h \in Handle, h.format = accepted_format,
         accepted_format \in Formats,
         ready_queue' = Append(ready_queue, h),
         UNCHANGED <<delivered, accepted_format>>
  PROVE  Service!Next
<1> DEFINE out == delivered \o ready_queue
           new == SubSeq(out', Len(out) + 1, Len(out'))
<1>1. /\ delivered \in Seq(Handle) /\ ready_queue \in Seq(Handle)
      /\ out \in Seq(Handle) /\ <<h>> \in Seq(Handle) /\ Len(<<h>>) = 1
      /\ Len(out) \in Nat
  BY OutputStreamTypes
<1>2. out' = out \o <<h>>
  <2>1. ready_queue' = ready_queue \o <<h>>
    BY <1>1, AppendIsConcat
  <2>2. QED BY <1>1, <2>1, ConcatAssociative
<1>3. Len(out') = Len(out) + 1
  BY <1>1, <1>2, ConcatProperties
<1>4. new = <<h>>
  <2> HIDE DEF out
  <2>1. new = SubSeq(<<h>>, 1, 1)
    BY <1>1, <1>2, <1>3, SubSeqOfConcat2
  <2>2. SubSeq(<<h>>, 1, 1) = <<h>>
    BY <1>1, SubSeqFull
  <2>3. QED BY <2>1, <2>2
<1>5. \A i \in DOMAIN new : new[i].format = accepted_format
  <2> HIDE DEF new
  <2>1. QED BY <1>4
<1>6. Service!Output(new)
  <2> HIDE DEF new
  <2>1. out' = out \o new
    BY <1>2, <1>4
  <2>2. QED BY <1>5, <2>1 DEF Service!Output
<1>7. QED BY <1>6 DEF Service!Next

LEMMA ServiceTake ==
  ASSUME TypeOK, TakeFrame
  PROVE  Service!Next
<1> DEFINE out == delivered \o ready_queue
           h == Head(ready_queue)
<1>1. /\ delivered \in Seq(Handle) /\ ready_queue \in Seq(Handle)
      /\ ready_queue # <<>>
      /\ ready_queue' = Tail(ready_queue)
      /\ delivered' = Append(delivered, h)
      /\ UNCHANGED accepted_format
  BY OutputStreamTypes DEF TakeFrame, FrameReady, PopReady
<1>2. /\ h \in Handle /\ Tail(ready_queue) \in Seq(Handle)
      /\ Len(ready_queue) \in Nat \ {0}
      /\ <<h>> \in Seq(Handle)
  BY <1>1, HeadTailProperties, EmptySeq, LenProperties
<1>3. ready_queue = <<h>> \o Tail(ready_queue)
  <2>1. ready_queue = SubSeq(ready_queue, 1, Len(ready_queue))
    BY <1>1, SubSeqFull
  <2>2. SubSeq(ready_queue, 1, Len(ready_queue))
          = <<ready_queue[1]>> \o SubSeq(ready_queue, 2, Len(ready_queue))
    BY <1>1, <1>2, SubSeqRecursiveFirst
  <2>3. Tail(ready_queue) = SubSeq(ready_queue, 2, Len(ready_queue))
    BY <1>1, TailIsSubSeq
  <2>4. h = ready_queue[1]
    BY <1>1 
  <2>5. QED BY <2>1, <2>2, <2>3, <2>4
<1>4. out' = out
  <2>1. delivered' = delivered \o <<h>>
    BY <1>1, <1>2, AppendIsConcat
  <2>2. out' = (delivered \o <<h>>) \o Tail(ready_queue)
    BY <1>1, <2>1
  <2>3. (delivered \o <<h>>) \o Tail(ready_queue)
          = delivered \o (<<h>> \o Tail(ready_queue))
    BY <1>1, <1>2, ConcatAssociative
  <2>4. QED BY <1>3, <2>2, <2>3
<1>5. Len(delivered) < Len(out) /\ out[Len(delivered) + 1] = h
  <2>1. Len(delivered) \in Nat
    BY <1>1, LenProperties
  <2>2. /\ Len(out) = Len(delivered) + Len(ready_queue)
        /\ out[Len(delivered) + 1] = ready_queue[1]
    BY <1>1, <1>2, <2>1, ConcatProperties
  <2>3. h = ready_queue[1]
    BY <1>1
  <2>4. QED BY <1>2, <2>1, <2>2, <2>3
<1>6. Service!Take
  BY <1>1, <1>4, <1>5 DEF Service!Take
<1>7. QED BY <1>6 DEF Service!Next

(* What the run checks in one: signals, sleep and format.                  *)
THEOREM Safe == Spec => []Safety
<1>1. EventsAreSignalled /\ CallsNeverBlock /\ DecodesAcceptedFormat => Safety
  BY DEF Safety
<1>2. QED BY <1>1, Signalled, NeverBlocks, AcceptedFormat, PTL

THEOREM ImplementsService == Spec => ServiceSpec
<1> USE DEF InState
<1>1. Init => Service!Init
  <2> SUFFICES ASSUME Init PROVE Service!Init
    OBVIOUS
  <2>1. delivered = <<>> /\ ready_queue = <<>> /\ accepted_format = NoFormat
    BY DEF Init, DecoderInit, ClientInit
  <2>2. <<>> \o <<>> = <<>>
    BY ConcatEmptySeq, EmptySeq
  <2>3. QED BY <2>1, <2>2 DEF Service!Init
<1>2. TypeOK /\ FormatsAgree /\ [Next]_vars => [Service!Next]_Service!vars
  <2> SUFFICES ASSUME TypeOK, FormatsAgree, [Next]_vars
               PROVE  [Service!Next]_Service!vars
    OBVIOUS
  <2>a. ASSUME UNCHANGED <<delivered, ready_queue, accepted_format>>
        PROVE  UNCHANGED Service!vars
    BY <2>a DEF Service!vars
  <2>b. decoding_state \in DecodingStates /\ ready_queue \in Seq(Handle)
    BY DEF TypeOK, DecoderTypeOK
  <2>1. ASSUME NEW c \in Chunks, StillDraining(c) PROVE UNCHANGED Service!vars
    BY <2>1, <2>a DEF StillDraining, Refused
  <2>2. ASSUME NEW c \in Chunks, StartDrc(c) PROVE UNCHANGED Service!vars
    BY <2>2, <2>a DEF StartDrc, Refused
  <2>3. ASSUME NEW c \in Chunks, NewSequence(c) PROVE UNCHANGED Service!vars
    BY <2>3, <2>a DEF NewSequence, Refused
  <2>4. ASSUME NEW c \in Chunks, Skip(c) PROVE UNCHANGED Service!vars
    BY <2>4, <2>a DEF Skip, Accepted
  <2>5. ASSUME NEW c \in Chunks, StillAwaitingFormat(c) PROVE UNCHANGED Service!vars
    BY <2>5, <2>a DEF StillAwaitingFormat, Refused, decoder_vars
  <2>6. ASSUME NEW c \in Chunks, NoOutputBuffer(c) PROVE UNCHANGED Service!vars
    BY <2>6, <2>a DEF NoOutputBuffer, ReadyToDecode, Refused
  <2>7. ASSUME NEW c \in Chunks, HandleFrame(c) PROVE [Service!Next]_Service!vars
    <3>1. NewHandle(c) \in Handle /\ c.show_frame \in BOOLEAN
      BY NewHandleType, ChunkTypes DEF TypeOK, ClientTypeOK
    <3>2. accepted_format \in Formats /\ c.format = accepted_format
      <4>1. CASE c.key_frame
        BY <2>7, <4>1, ChunkTypes DEF HandleFrame, ReadyToDecode, Renegotiates
      <4>2. CASE ~c.key_frame
        <5>1. InState("Decoding")
          BY <2>7, <4>2, StateTypes
             DEF HandleFrame, ReadyToDecode, DispatchState, StateAfterDrcFlush
        <5>2. c.format = stream_format
          BY <2>7, <4>2, ChunkTypes
             DEF HandleFrame, ReadyToDecode, Submits, MayDecode, FormatsAgree
        <5>3. QED BY <5>1, <5>2 DEF FormatsAgree
      <4>3. QED BY <4>1, <4>2
    <3>3. ready_queue' = IF c.show_frame THEN Append(ready_queue, NewHandle(c))
                                         ELSE ready_queue
      BY <2>7, <2>b, <3>1, PushReadyFacts DEF HandleFrame, NewHandle
    <3>4. UNCHANGED <<delivered, accepted_format>>
      BY <2>7 DEF HandleFrame, ReadyToDecode, Accepted
    <3>5. CASE c.show_frame
      BY <3>1, <3>2, <3>3, <3>4, <3>5, ServiceOutput DEF NewHandle
    <3>6. CASE ~c.show_frame
      BY <3>3, <3>4, <3>6, <2>a
    <3>7. QED BY <3>5, <3>6
  <2>8. ASSUME NEW c \in Chunks, InvalidUpdate(c) PROVE UNCHANGED Service!vars
    BY <2>8, <2>a DEF InvalidUpdate, ReadyToDecode, Failed
  <2>9. ASSUME NEW c \in Chunks, BackendFails(c) PROVE UNCHANGED Service!vars
    BY <2>9, <2>a DEF BackendFails, Failed
  <2>10. ASSUME Flush PROVE UNCHANGED Service!vars
    BY <2>10, <2>a DEF Flush, AbandonChunk
  <2>11. ASSUME TakeFrame PROVE Service!Next
    BY <2>11, ServiceTake
  <2>12. ASSUME TakeFormatChange PROVE Service!Next
    <3>1. /\ ready_queue = <<>> /\ UNCHANGED <<delivered, ready_queue>>
          /\ accepted_format' \in Formats
      BY <2>12, <2>b, StateTypes DEF TakeFormatChange, FormatChanged
    <3>2. delivered \o ready_queue = delivered
      BY <3>1, OutputStreamTypes, ConcatEmptySeq
    <3>3. Service!ChangeFormat(accepted_format')
      BY <3>1, <3>2 DEF Service!ChangeFormat
    <3>4. QED BY <3>1, <3>3 DEF Service!Next
  <2>13. ASSUME TakeNothing PROVE UNCHANGED Service!vars
    BY <2>13, <2>a DEF TakeNothing, decoder_vars
  <2>14. ASSUME NEW h \in held, Drop(h) PROVE UNCHANGED Service!vars
    BY <2>14, <2>a DEF Drop, DropFrame, decoder_vars
  <2>15. CASE UNCHANGED vars
    BY <2>15, <2>a DEF vars, decoder_vars, client_vars
  <2>16. QED
    BY <2>1, <2>2, <2>3, <2>4, <2>5, <2>6, <2>7, <2>8, <2>9, <2>10, <2>11,
       <2>12, <2>13, <2>14, <2>15 DEF Next, Decode, NextEvent
<1>3. QED BY <1>1, <1>2, TypeCorrect, StreamFormat, PTL DEF Spec, ServiceSpec, Service!Spec
=============================================================================
