# cros-codecs: models, checks and proofs

cros-codecs decodes and encodes video with hardware that keeps no state of its own
("stateless" codecs): the library parses the bitstream, keeps the reference pictures,
orders the output and negotiates formats, and a backend (VA-API or V4L2) does the pixels.
This directory models the parts that keep state, in TLA+: TLC checks them on small
instances, and the TLA+ proof system proves what matters most of nine of them, the five
decoders, both encoders and both C2 workers, for every instance. The parsers and writers of headers,
which keep little state but decide everything the rest is given, are modelled as functions
and compared with each other.

File names below are relative to the crate's sources (`src/src/` in `PROJECT.json`).

1. [Inventory](#1-inventory)
2. [The modules and how they correspond to the code](#2-the-modules-and-how-they-correspond-to-the-code)
3. [What the runs check](#3-what-the-runs-check)
4. [Fairness](#4-fairness)
5. [What is proved](#5-what-is-proved)
6. [Where the code departs from what it says](#6-where-the-code-departs-from-what-it-says)
7. [What is not modelled](#7-what-is-not-modelled)
8. [Plan](#8-plan)

## 1. Inventory

| component | state it keeps | operations | interacts with |
|---|---|---|---|
| stateless decoder core: `decoder.rs`, `decoder/stateless.rs` | `DecodingState`, ready queue, two event descriptors behind one epoll descriptor, negotiated stream info | `decode`, `flush`, `next_event`, `wait_for_next_event` | called by one client thread; calls the codec half, the backend, and `alloc_cb` for output frames |
| VP8, VP9, AV1 decoders: `decoder/stateless/{vp8,vp9,av1}.rs` | reference slots; segmentation, operating point, AV1's picture in progress | the codec half of `decode` and `flush` | parser, backend, core |
| H.264, H.265 decoders: `decoder/stateless/{h264,h265}.rs`, `codec/{h264,h265}/{dpb,picture}.rs` | decoded picture buffer (DPB), picture in progress, `prev_ref_pic_info`, `prev_pic_info`, max. long-term index | the same, picture by picture: marking, bumping, gaps in `frame_num` | the same |
| backends: `backend/vaapi`, `backend/v4l2`, `device/v4l2` | per-picture state (new, begin, render, end, sync), surface pools, request and queue slots | `new_sequence`, `new_picture`, `submit_picture`, handle `sync` | decoders, drivers |
| frame pools: `video_frame/frame_pool.rs`, `backend/vaapi/surface_pool.rs` | free frames, frames lent out (weak pointers) | `alloc`, `resize`, drop of a frame | client and backend |
| C2 wrapper: `c2_wrapper.rs` | `C2State` and job queue under locks, a semaphore event descriptor, the worker's thread | `start`, `stop`, `reset`, `queue`, `flush`, `drain` | one worker thread per session |
| C2 workers: `c2_wrapper/{c2_decoder,c2_encoder}.rs` | the decoder or encoder, its frame pools; jobs in flight | `new`, `process_loop` | wrapper, decoder or encoder |
| stateless encoder: `encoder.rs`, `encoder/stateless.rs`, predictors | frames to be predicted, references, coded queue | `encode`, `tune`, `drain`, `poll` | backends, C2 worker |
| stateful encoder: `encoder/stateful.rs`, `backend/v4l2/encoder.rs` | frames to be queued, requests in the device, coded queue, OUTPUT and CAPTURE buffers, tunings on the device | the same | V4L2 device, C2 worker |
| parsers, synthesizers, bit readers: `codec/*`, `bitstream_utils.rs` | active parameter sets; AV1's slots; VP8's and VP9's segmentation, loop filter deltas, probabilities | parse, write | decoders, encoders |
| image processing, utilities, tools | none | loops over pixels; command lines | |

Which behaviours are hard, and what makes each component correct:

* **Core and codec decoders.** Nothing runs concurrently inside a decoder; what is hard is
  the *protocol* between it and its client. A `decode` may be refused for two reasons
  (`CheckEvents`, `NotEnoughOutputBuffers`) at several depths of the call, and what was done
  by then stays done; a resolution change (DRC) needs the client to drain the old frames,
  acknowledge the format, replace its pool and submit the same chunk again; a flush may come
  at any point of it; frames hold output buffers while they are references or waiting.
  Correct means: the client is woken for every event and never put to sleep by a call; frames
  come out once and in order; a format change comes after the frames of the old format and
  before those of the new; the backend is configured for the acknowledged format when it
  decodes; references exist and live in the current pool; a refused chunk is accepted in the
  end.
* **DPB decoders.** Output order and reference windows come out of a sequence of pictures
  with wrap-around numbers, gaps, refused calls between the halves of a picture, and a
  buffer at its limit. Correct means: each picture is output once, in output order, neither
  early nor late; the windows hold the pictures the standard's would; there is room.
* **C2 wrapper and workers.** Two threads share a queue, a state and an event descriptor
  under separate locks, so every call interleaves with the worker's loop. Correct means: no
  job is lost, reordered or leaked into a later session; no wake-up is lost; drain reaches
  the end and stop returns.
* **Stateless encoder.** The predictor holds a frame back until a reference for it has been
  reconstructed, the backend finishes in its own time, and a call looks at two queues of
  promises; key frames, tunings and parameter sets change between a frame's `encode` and its
  request. Correct means: each frame comes out once, in order, and `drain` leaves none; key
  frames come when due and when forced; an inter frame is predicted from the frame before
  it; a change of tunings reaches the frames after it and no others; parameter sets are
  in the stream before the frames that name them.
* **Stateful encoder.** The device works between any two steps of a call, the queues are short, and
  drain is a conversation of four messages. Correct means what it means for the stateless one, and that
  the metadata and the tunings of a frame are its own.
* **Parsers and writers.** Hundreds of conditional elements are written by one function and read by another, under
  conditions phrased separately; parsers keep state across frames, and decoders parse a chunk before they
  know that they will refuse it. Correct means: what is written is what is read; tables of sets, predicted reference sets,
  tiles and order hints keep their meaning at the edges; and a header depends on the stream, not on what happened to the parser.
* **Pools and decoder backends.** Not modelled: see [section 7](#7-what-is-not-modelled).

`PROJECT.json` lists the hazards one by one, at the lines where they bite.

## 2. The modules and how they correspond to the code

```
DecoderService            what a decoder promises, whatever the codec
   ^ refined by
StatelessDecoder          decoder.rs, stateless.rs: state shared by all codecs
   ^ EXTENDS
DecoderClient             the thread that calls a decoder, and its frame pool
   ^ EXTENDS
Vp8Decoder  Vp9Decoder    the whole calls of two codecs
   ^ EXTENDS
Vp8DecoderProofs, Vp9DecoderProofs   theorems, each on one of them

DecoderClient, Av1Parser
   ^ EXTENDS
Av1Decoder                av1.rs (decoder), unit by unit, over the parser's slots
   ^ EXTENDS
Av1DecoderProofs          theorems

H264Dpb, H265Dpb          dpb.rs as operators on the buffer's value
   ^ EXTENDS
H264Decoder, H265Decoder  h264.rs, h265.rs, picture by picture
   ^ EXTENDS
H264DecoderProofs, H265DecoderProofs   theorems, and what is proved of the buffers' operators

EncoderService            what an encoder promises, whatever the codec
   ^ refined by
StatelessEncoder          stateless.rs (encoder): queues of promises, the calls
   EXTENDS LowDelay       predictor.rs and the four codecs' delegates
   ^ EXTENDS
StatelessEncoderProofs    theorems

StatefulEncoder           stateful.rs, refines EncoderService
   EXTENDS V4L2Encoder    backend/v4l2/encoder.rs, the device and its controls
   ^ EXTENDS
StatefulEncoderProofs     theorems, and what is proved of sequences

Headers                   a stream of any of the five codecs
   INSTANCE ParameterSets   H.264, H.265: sets and slices, sender, parser, builders
       INSTANCE H264Syntax, H265Syntax  (EXTEND Syntax)   synthesizer.rs, parser.rs
   INSTANCE Av1Headers      AV1: sequence and frame headers
       EXTENDS Av1Parser > Av1Syntax > Syntax  synthesizer.rs, parser.rs
   INSTANCE VpxHeaders      VP8, VP9: two parsers of one stream
       INSTANCE Vp8Parser, Vp9Parser                      parser.rs

C2Wrapper                 c2_wrapper.rs: the component's calls
   ^ EXTENDS
C2DecoderWorker (also EXTENDS StatelessDecoder)    c2_decoder.rs
C2EncoderWorker                                    c2_encoder.rs
   ^ EXTENDS
C2Proofs                  theorems of both
```

`C2Proofs` begins with the facts about the component's calls and about sequences of jobs that both workers rest on. Since it extends both, what the encoder's
worker has under the same name as the decoder's bears the prefix `Encoder` (`EncoderSpec`, `EncoderSafety`). `StatefulEncoderProofs` begins with what is
proved of sequences, among it an induction theorem.

Modules named `MC...` give the constants values for TLC. Operators whose comment starts
with "Mutant:" are wrong variants of a definition; nothing uses them but the mutation
runs listed in `PROJECT.json`, which show that each property can be broken by a plausible bug.

**StatelessDecoder.** `decoding_state` is `DecodingState<T>` with its payload;
`ready_queue`/`ready_poll_fd` are `ReadyFramesQueue`; an event descriptor is a boolean, since
both are plain eventfds (a read takes the whole count) that *block* when the count is zero.
`client_thread` becomes `"blocked"` when a call reads such a descriptor; no other thread
holds it, so the state is final. `AwaitFormatChange` is `await_format_change` with the
backend's `new_sequence` before it, `DrcFlushPending`, `StateAfterDrcFlush` and
`RefuseUntilDrained` are `wait_for_drc_flush`, `FrameReady`, `FormatChanged` and `NoEvent` the three
results of `query_next_event`. A format is a model value: resolution, bit depth and
profile are compared as a whole.

**DecoderClient.** One thread that makes the calls in sequence. A `profile` says how well
it behaves: whether it submits the refused chunk again or another one, whether it takes all
pending events before it does, whether it seeks while a format change is due. The pool is
a number of frames; a frame is busy while the client, the ready queue or a reference slot
holds it; `FormatChanged` replaces the pool (`pool_start`).

**Vp8Decoder, Vp9Decoder.** `decode` is one action per way it can return, in the order of the
returns; `Decode(c)` is their disjunction. VP8: `UpdateReferences` with the copy flags, key
frames renegotiate, `Skip` before the first key frame, an invalid flag noticed *after*
submission. VP9: a chunk is a superframe; it is negotiated for its largest frame, all
pictures are allocated up front, then frames are handled one by one, so an error leaves the
first of them decoded and output. Reference slots are cut from 8 to `Slots`.

**DecoderService.** Three variables (`output`, `taken`, `format`) and three actions. The
refinement maps `output` to what the client has taken followed by the ready queue.

**H264Dpb.** `entries` stands for the `Vec`: the searches return the first match,
so order is state. It is a function from places to pictures, where places are numbered in storage order and a picture keeps
its own when others are removed (`stored` counts the places given). Loops (`bump_as_needed`, `drain`, the repeated sliding window) are
recursive functions or closed forms. For frames `frame_num_wrap = pic_num`. `MemoryManagementOp`
dispatches `mmco_op_1` to `mmco_op_6`.

**H264Decoder.** One action per picture: the call that brings a picture's first slice also
finishes the picture before it (`Finished`: marking, then output or storage) and begins the new one
(`BeginPicture`: IDR handling, gaps in `frame_num`, picture numbers, bumping). `stream` (limits of
the SPS, whether it uses memory management operations, whether pictures are lost), `sent`,
`encoder_frame_num` and `seeking` are the environment, an encoder that conforms to the
standard but for losses; `held` is which pictures the standard's decoder (C.4.5.3) still
holds, in closed form.

**H265Dpb, H265Decoder.** `entries` is a function from the numbers of the pictures, in decoding order, which is the order of the `Vec`. The same granularity: the call with a picture's first slice finishes the picture before it,
negotiates, computes the order count (`PicOrderCntMsb` from the right one of the pictures before), derives and marks the
reference picture set, drops RASL pictures, and bumps (`NeedsBumping`, `NeedsAdditionalBumping`). Calls are refused for a format or for a frame after
the picture before has been finished, as in the code. The environment is an encoder that conforms: temporal layers, leading pictures, long-term
references, splices with new parameter sets, seeks.

**Av1Parser, Av1Decoder.** `Av1Parser` is what the parser keeps between units: sequence, slots (`ref_info`), the frame header
being repeated, tile counts. `Av1Decoder` is the loop of `decode` over one unit: sequence headers, frames, tile groups, shown-existing frames,
spatial layers, submission and output. References exist twice, as handles in the decoder and as facts in the parser; both are variables.

**Syntax and the header modules.** A header's syntax is a sequence of elements *(width, name, value)*. `Write...` is the sequence the
synthesizer emits, `Read...` the one the parser consumes while the stream carries those values, `Parsed...` what absent elements stand for, `Accepts...`
the range checks. Two functions with the same conditions in different words give the same sequence or they do not, and the first difference is where a parser would lose its place;
no bit is modelled. Scaling lists and tables are cut to their first entries.

**ParameterSets.** The sender's sets and the parser's tables (`active_spses`, `active_ppses`, each picture set holding the sequence
set it was parsed under); slices are read under the parser's. It also has what the crate's own predictors put in the sets they build.

**Av1Headers** is the same for AV1: slots filled group after group, then a frame, or the stream of the crate's own encoder. **Vp8Parser, Vp9Parser,
VpxHeaders:** the crate has no writer for VP8 and VP9, so the second party is another parser, which has begun at the last key frame and saw every chunk once; a frame's data may end ("cut") after any part.

**LowDelay.** One codec of four per behaviour. `next_request` is its loop, a turn at a time:
`RequestKeyframe` goes on, `RequestInterframe`, `AwaitReference` and `QueueEmpty` leave it; `pop_tunings` is
`PopTunings`, part of each. A request carries the references, the number the codec gives the
frame (`order`), the tunings, and for H.264 the tunings its parameter sets were built from
(`sets`): `apply_tunings` builds them from the tunings *before* (`Previous`), since `self.tunings` is
assigned after it returns. Tunings are a value and the number of the `tune` call.

**StatelessEncoder.** A call is several steps (`pc`, `call`): into the predictor, to the backend, over the
pending bitstreams, over the pending reconstructions. `is_ready` is a choice, blocking the
step that must be taken (`Waits`). `encode_slice` and both kinds of `sync` may fail, once. `asked`, `wanted`,
`latest`, `last_key`, `written` and `failed` are history. The client `"worker"` is `simple_encode_loop` and the C2
encoder worker; the other one calls anything in any order until one fails (after
which it polls and drains).

**EncoderService.** The frames still to be coded, the coded ones not returned, and whether a drain runs; the
refinement maps the first to the pending bitstreams, the requests and the predictor's queue, one after
another. A drain that fails (`DrainFails`) loses some of what it had collected, and is over. It is what `C2EncoderWorker` assumes of its encoder.

**V4L2Encoder, StatefulEncoder.** `ApplyTunings` writes the controls in the order of the code, and what was written before a failure stays
(`mixed`). Buffers are counted (`output_queue`, `output_done`, `capture_free`, `capture_done`); the device codes one frame, gives one buffer back, or ends a drain in a step of its own.
The encoder's calls are sequences of small steps as above: the end of a drain is the last poll (`DequeueLast`) and the restart (`DrainEnds`), and the buffer marked as the last one may come
before, between or after them (then it is the first one the next poll finds: `NotStale`). `Errors` are the calls of `drain` and `sync` that the kernel or `poll` refuses; once the device is stopped the client gives the encoder up (`GivesUp`),
as the worker in `c2_encoder.rs:188-193` does.

**C2Wrapper, C2DecoderWorker, C2EncoderWorker.** A call of the component is several steps, one per lock
taken or event written (`Submit`/`Extend`/`Write`, `Flush`/`TakeBack`, `Stop`/`Join`); the worker's loop is one
step per lock, wait or call (`LoopTest`, `Wake...`, `Pop`, `Decode`..., `Check...`). Shared variables
(`state`, `work_queue`, `awaiting_job_event`) are touched in one step at a time. The decoder below the
worker is the `StatelessDecoder` of this directory; the encoder below it is the contract of `VideoEncoder`
(external). The worker's job is `job`, in `C2Wrapper`. `disciplined` is a component used as the `ccdec` and `ccenc` tools do.

## 3. What the runs check

| run | states | what it checks | |
|---|---|---|---|
| `Vp8Decoder` | 115,623 | `Safety` (descriptors readable while there is something to take, no call blocks, frames in the acknowledged format only), `ReferencesUsable`, refinement of `DecoderService`, and that every refused chunk is accepted in the end | holds |
| `Vp9Decoder` | 252,178 | superframes: `Safety` (references in the current pool), refinement of `DecoderService`, `RequestIsExact` (the number in `NotEnoughOutputBuffers`), negotiation ends. What VP9 shares with VP8 is checked there | holds |
| `H264Decoder` | 88,480 | `Safety` (each picture once, room in the buffer), order, neither early nor late; `ReferencesAsMarked` (windows through wrap-around and gaps, long-term indices) | holds |
| `H265Decoder` | 203,371 | each picture once, in order; `ReferencesAsMeant`: every picture is decoded with the references its encoder meant, across wrap-around, seeks, splices and refused calls | holds |
| `Av1Decoder` | 121,307 | `SlotsDescribeFrames` (the decoder's handles and the parser's facts agree), refinement of `DecoderService`, `RetryIsHarmless` | holds |
| `Headers` | 254,383 | what is written is what is read; predicted reference sets; tiles and partitions; the crate's encoders against its parsers; AV1's choice of references; VP8 and VP9 headers depend on the stream only | holds |
| `Vp9RetryRereads` | | the last, where superframes may be refused | violated |
| `StatelessEncoder` | 507,547 | `Safety` (frames counted, the predictor's drain never called, tunings never early, parameter sets written); key frames in time; tunings on time for a client that blocks; references; refinement of `EncoderService`; drain returns | holds |
| `StatefulEncoder` | 189,822 | each frame with its own metadata and under its own tunings, refinement of `EncoderService`, drain returns, errors included | holds |
| `C2Decoder` | 323,000 | `Safety` (no job lost, reordered or in the wrong session; no wake-up lost; a component that stops an ended worker can start again), drain | holds |
| `C2Encoder` | 178,000 | `EncoderSafety` (one event per job, each job its own bitstream, jobs accounted for), drain | holds |
| `C2StopHangs` | | `stop` returns | violated |

"Violated" runs are findings: they state what a comment of the repository says, and TLC's
trace is a behaviour of the code that does otherwise (section 6, which also lists the findings that have no run of their own).

**Bounds, and why they are enough.** *VP8:* two formats, so that a stream can change and
change back; a pool of four, one more than the three references, so that it runs dry; a
conforming client decodes up to five chunks and a careless one three; seven headers cover
hidden frames, both copies between golden and alt, and a broken header. A DRC with frames
queued, retried and followed by an inter frame in the new format takes three chunks.
*VP9:* two slots (each is refreshed or not independently), two formats of which one contains
the other, superframes of up to two frames: shown-again, hidden, two layers in either
order. *H.264:* `MaxFrameNum` 4 wraps within the five pictures of a stream; buffers of two and three
frames are filled, with windows of zero, one and two references; picture order counts up to 4
give every output order of that many pictures, which includes bumping with reordering;
losses, gaps and operations are enabled stream by stream, and in one all together. `max_num_reorder_frames` is the size of
the buffer: `needs_bumping` looks at it only when the buffer is full, where it makes no
difference. *C2:* three or four jobs in two sessions cover a batch, a drain and a job after it; two
formats make a resolution change; one output frame makes every second job wait for a release.

*H.265:* eight lsb values wrap within the pictures of a stream, also below zero; buffers of two to four pictures, with and without reordering, latency limits and
temporal layers; one seek or splice. *AV1:* units of two sequences, shown and shown-existing frames, two spatial layers, a frame in one unit or in header and tile groups, a pool
of two so that it runs dry; the stream keeps to 6.8.1 and 7.5 of the AV1 specification (`Submits`): the first frame of a sequence is a key frame that is shown, and
a frame unit or a new sequence never comes while a header still waits for tiles. *Headers:* per codec a few sets, slices and frames that between them take every branch of the writer and the parser, tables of two sets, which a careful sender fills to the last place and then leaves alone (two sequence sets, two picture sets, each under either), AV1's slots filled in five groups with three order hints that span the wrap,
VP8 and VP9 streams of three chunks (a key frame, a change, and what shows it), two slots and two segments; the encoders' configurations cross the wrap of their counters. *Stateful encoder:* two CAPTURE buffers and one OUTPUT
buffer, so that each can be what is missing; three frames, two changes of tunings, devices that lack a control or refuse one.

*Stateless encoder:* three codecs, one for each way to number and choose references (VP9 is
AV1 without the number); periods of two and three, so that a period ends, a key frame can be forced inside one
and changes of tunings can cross its end; six calls of `encode` and `tune` together for the worker's client and four for the other, any number of `poll` and `drain`;
two values of tunings, so that a change can be taken back; one failure (its effect on the encoder stays, and calls that
change something end). Blocking with the worker's client, and no blocking with a client that calls in any order: the other
combinations are behaviours of the second.

`CHECK_DEADLOCK FALSE` where streams are bounded, sessions end, and a failed session stops; the
encoder can always be polled, so there deadlock is checked.

## 4. Fairness

* *Decoders:* weak fairness of submitting a refused chunk again, of `next_event`, and of
  dropping a frame. The decoder itself does nothing on its own. The trait asks for the first
  ("the client is responsible for calling this method again with the same data",
  `decoder/stateless.rs:185-186`), the second is how events are delivered, and the third what a
  frame pool is for. Nothing obliges the client to go on with a *new* chunk or to flush.
  `RefusedChunkIsAccepted` claims nothing for a client that ignores events.
* *C2:* weak fairness of the worker's steps taken together, since a thread runs; of the rest
  of a call begun, since the component's thread runs too; and of a frame's release. Starting a
  call is not fair, nor is any error. `DrainCompletes` in `C2Decoder` carries the exception that is
  shown to be real by `JobsAreTaken` (section 6): a worker asleep over a job that was refused.
* *Stateless encoder:* weak fairness of the steps of a call begun, taken together. They include
  `sync`, so this is the assumption that the backend finishes every frame it has accepted. Starting a call is not fair, nor is an error.
* *AV1:* as the other decoders; `ServiceSpec` has no liveness part, and progress of refused units is checked as an action property (`RetryIsHarmless`).
* *Stateful encoder:* weak fairness of the steps of a call begun, and of the device, which finishes what it was given when it has a buffer for it. Nothing obliges the client to call, nor an error to happen.
* *H.264, H.265, headers:* safety only.

## 5. What is proved

### VP8 decoder

`Vp8DecoderProofs`, for every set of formats and of headers, every pool size and every set
of client profiles; the assumptions are `FormatAssumption`, `ClientAssumption`, `Vp8Assumption` and
`ChunksAreHeaders`, which say that the constants have the shapes the code gives them.

| theorem | statement | argument |
|---|---|---|
| `TypeCorrect` | `Spec => []TypeOK` | inductive as it stands; the lemma `StateTypes` is what makes the record-valued state tractable |
| `Signalled` | `Spec => []EventsAreSignalled` | inductive with `TypeOK` |
| `NeverBlocks` | `Spec => []CallsNeverBlock` | `Attentive` strengthens it: while a DRC flush is pending the last outcome is `CheckEvents` (the refusal that began it left the descriptor readable) or an error, and a client that has attended has an empty queue. Without the second, a decode call could find frames queued and the descriptor read |
| `AcceptedFormat` | `Spec => []DecodesAcceptedFormat` | `BackendAgrees`: the backend's format is the acknowledged one, except in `AwaitingFormat`, where it is the payload of the state. A flush in that state forgets the payload and breaks the invariant: hence the premise on the profile (section 6) |
| `Safe` | `Spec => []Safety`, the invariant of the run | the three above |
| `ImplementsService` | `Spec => ServiceSpec` | every step is a step of `DecoderService` or a stutter. An inter frame carries no size, so that it is of the acknowledged format needs `FormatsAgree` (`StreamFormat`): the stream's format is the acknowledged one while decoding, and a refused chunk's is the stream's |
| `ReferencesStayUsable` | `Spec => []ReferencesUsable` | `ReferencesKept`: for a client that repeats refused chunks, while decoding all three references are frames of the current pool in the acknowledged format, *or* the call that entered `Decoding` was refused for want of a buffer and the chunk to be repeated is a key frame in that format. The second arm is what makes it inductive: a key frame changes the state before it gets a picture (`vp8.rs:256`) |

`ProfileFixed`, `PushReadyFacts`, `AcceptedType` and the other lemmas are about single pieces of the
steps and are cited by name.

### Stateless encoder

`StatelessEncoderProofs`, for every set of codecs, periods, tunings and clients and any number of calls, under
`LowDelayAssumption` (periods are positive; the initial tunings are tunings).

| theorem | statement | argument |
|---|---|---|
| `TypeCorrect` | `Spec => []TypeOK` | needs `PocBase`: in H.265, inside a period, `poc_base` is at most the counter, or the picture order count would leave `Nat` |
| `Accounted` | `Spec => []FramesAreCounted` | `Counted`, which says the same but for what a failed call leaves |
| `NeverDrained` | `Spec => []PredictorIsNeverDrained` | a frame waits only while a promise is in flight. That is not inductive: between `reconstructed` and the next request nothing is in flight, but a reference is at hand. `InHand`, `Started` and `Waiting` say where in a call which of the two holds, and that inside a period there is always one |
| `ImplementsService` | `Spec => ServiceSpec` | a request moves a frame from the predictor's queue to the requests, `Execute` from there to the pending bitstreams: their concatenation stays. `PollOutput` is `FrameCoded`, failures drop a stretch, and a drain ends with nothing held by `Counted` |
| `NeverEarly` | `Spec => []TuningsNeverEarly` | `TuningsInv`: a change waits for a counter no frame asked before it will reach: the entry's `when` lies behind every such frame in the queue (`NotBefore`), the tunings in force are no newer than any frame that waits (`Applied`), and nothing is newer than the last `tune` (`AskedLast`). A counter that goes back only delays a change |
| `SetsWritten` | `Spec => []ParameterSetsWritten` | `SetsInv`: the sets in force are the ones written last, or `update_params_sets` is set |
| `KeysInTime` | `Spec => KeyframesInTime` | an action property. `Places` = `Numbered` (frames are predicted in the order of their numbers), `InPeriod` (the counter is the frame's place in the period: from the last key frame in H.264, from the first frame elsewhere, which needs uniqueness of the remainder, `RemainderUnique`) and `Ordered` (what number the codec gives it) |
| `OnTime` | `Spec => []TuningsOnTimeIfCareful` | `OneByOne`: a client that polls until nothing comes, of an encoder that blocks, has one frame in the encoder at a time. It is with the predictor and the last one is at hand (`Fresh`), or on its way to the backend (`Sent`), or the backend has it or it is the reference for the next one (`Done`); and what was asked for last is in force or due exactly at the next frame (`Tuned`) |
| `FromLast` | `Spec => LastFrameIfCareful` | `OneByOne` and `Places`: the only reference at hand is the last frame's, under its number |
| `Safe` | `Spec => []Safety`, the invariant of the run | `Accounted`, `NeverDrained`, `NeverEarly`, `SetsWritten` |

### Stateful encoder

`StatefulEncoderProofs`, for every set of codecs, devices and tunings, any number of buffers and any number of calls, under the
assumptions that frames can be numbered without reaching `TimestampLimit` (a timestamp of 2^63 comes back as 0: section 6) and that the rate
modes are those of the enumeration `RateControl`.

| theorem | statement | argument |
|---|---|---|
| `OutputsAreOwn` | `Spec => []OwnMetadata` | `IInv` below: a timestamp the device copies is the number of its frame, the table of metadata holds each frame's own under that number (`Entries`), and it has exactly the frames the device has or has coded (`Held`) |
| `KeepsService` | `Spec => ServiceSpec` | step by step: a request leaves the queue for the device or is lost with the call that fails, the device codes the oldest frame it has, a poll takes the oldest coded one; the mapping's `Encoding` and `CodedOut` are concatenations of the queues, and a drain that ends holds nothing by `Held`, and one that fails keeps a part of what had been coded |
| `FramesAreTuned` | `Spec => []TunedForFrame` | `Steady` and `Modes`: as long as no change has failed, the device has every control the tunings in force ask for. `ApplyTunings` is a list of writes, each on what the one before left (`ApplyChain`); what one has set stays until another sets it again (`Stays`), so that writes that went well change nothing when they are repeated (`Repeated`), and no tunings touch the header mode |

`IInv` is the conjunction of `Control` (where in which call), `Requests`, `Frames`, `Buffers` (only the last CAPTURE buffer of a drain is empty, and one left of the drain before, in front), `Entries`,
`Outputs`, `Order` (the coded buffers, the device's frames and the requests are, one after another, in the order of their numbers), `Held` and `Counted` (`processing` is
what the backend knows and a drain has collected). `Fresh` goes with it: once a drain has all its frames no empty buffer waits but the last one, which the device still owes or has just filled. They hold each other up: that a buffer finds its entry takes `Held`, that no other entry is overwritten takes
`Order`, that a drain leaves nothing takes `Control` and both.

### C2 components

`C2Proofs`, for any number of jobs and sessions, any pool, batch size and kind of component, under the
named assumptions of `C2Wrapper` and `C2DecoderWorker`, which give the constants their shapes. The encoder never looks at what a job asks for, and no proof about it cites `C2DecoderAssumption`. A step of either thread is taken with the other one anywhere.

| theorem | statement | argument |
|---|---|---|
| decoder, `TypeCorrect` | `Spec => []TypeOK` | the worker's local variables have a type only at the labels where they are live |
| decoder, `Safe` | `Spec => []Safety` | `Shape` (types, and which places of component and worker go together), `Order` (the job in the worker's hand, the queue and what is being submitted form one line in the order of their numbers, and what has been decoded lies before it), `Session` (a careful component has nothing of an earlier session in the line, and nothing behind the end of the stream), `Wakes` (the events written, the one about to be written and the one the worker follows are enough for the batches in the line), `Stopped` (what ends a worker is over before a careful component stops it) and `NoJobLost` |
| encoder, `EncoderSafe` | `EncoderSpec => []EncoderSafety` | `Chain` (jobs that came back, are in flight, in the worker's hand, queued, being submitted: their numbers grow from place to place), `Known` (a job is in one of the places, or settled), `Paired` (the worker's record of what is in flight is what the encoder has, in its order), `Careful` and `OneEventPerJob` (queue and event counter differ by the write still to come and the event the worker follows) |
| encoder, `NeverMissesJob` | the worker never panics on an empty queue | the same, in the first session of a careful component; in later ones the event `stop` leaves breaks it (section 6) |

### AV1 decoder

`Av1DecoderProofs`, for every set of formats and of units, every pool size and every set of client profiles, under `Av1Assumption` (the shapes of
the units: a header has the fields of a header, its `idx` is a slot). Two more things are hypotheses of the theorems, not assumptions, because the code breaks what they
state without them: `~SplitsUnits`, that a frame header is given in a call that holds no picture waiting for its end (section 6 has the run where it does), and
`Retries`, that a client gives a refused unit again, as the trait's text asks. A client that drops a refused first key frame is left with slots in which the parser already
sees the new sequence and the decoder still holds the frames of the old one.

| theorem | statement | argument |
|---|---|---|
| `SlotsTell` | `~SplitsUnits /\ Spec => []SlotsDescribeFrames` | `Told`: a slot of the parser says, of the frame the decoder holds for it, what that frame's own header said, and so does the header of the picture in progress, its own or one shown again. A call parses, allocates, submits and updates slots in an order that differs with the unit, so the same is shown of the call's intermediate value (`WorkTold`) after each of its steps: `StartTold`, `HeadTold`, `TilesTold`, `SubmitTold` |
| `RetryWorks` | `~SplitsUnits /\ Retries /\ Spec => RetryIsHarmless` | an action property: the second call for a unit refused for want of a buffer never fails. The first call has changed the parser already. `RetryReady` says how: the header is kept and the second call returns it (`Kept`), or the slots are those of the first parse or fewer of them valid (`SlotsAgain`, `Weaker`), and a parse that was accepted from more is accepted from them (`TakenAgain`) |
| `ImplementsService` | `~SplitsUnits /\ Retries /\ Spec => ServiceSpec` | step by step; that every picture output is of the accepted format is `FramesFit`: the picture in progress is, and the reference slots' frames are, *or* the first frame of a sequence is still to come (`begins`), was refused (`FirstRefused`) or is in progress (`Replaces`), and replaces them all. A frame may be *shown again* from a slot, so without this a picture of the old format would come out under the new one |

### VP9 decoder

`Vp9DecoderProofs`, for every set of formats, of superframes and of slots, every pool size and every set of client profiles, under `Vp9Assumption` (a superframe has
frames of the shapes the parser gives; `can_contain` is an order; a key frame has a size and refreshes every slot, and a coded frame behind it in the superframe has a size too). Two of the theorems have a hypothesis
more, `Layered`: of two frames of a superframe one is at least as wide and as high as the other. The pool is allocated for the frame `max_by` returns, and of sizes that cannot be
compared that one need not contain the others (section 6); spatial layers can be compared.

| theorem | statement | argument |
|---|---|---|
| `TypeCorrect` | `Spec => []TypeOK` | with `Streams`: a chunk has a size once its stream has one, and no format is accepted before. It is what keeps a frame of unknown size from reaching the backend in a state that knows no format |
| `Safe` | `Layered /\ Spec => []Safety`, the invariant of the run | `FramesFit` (the slots hold frames of the client's pool that fit in the accepted format, and nothing unless the decoder is decoding) and `ReferencesKept` (in an ordinary stream of a client that repeats refused chunks every slot is filled while decoding, *or* the chunk to be repeated begins with a key frame) |
| `ImplementsService` | `Layered /\ Spec => ServiceSpec` | the frames a call makes visible are appended to the output, and each fits: a coded one because the largest layer does (`LargestFacts`), one shown again by `FramesFit` |
| `RequestsAreExact` | `Spec => RequestIsExact` | the handles in use are finitely many at any time (`HeldFinite`, `ReferencesFinite`), so that the number of free buffers is a number |

A superframe is decoded frame by frame, each on the result of the one before, and the chain can end early at a slot that holds nothing. `HandleFrames` and `Largest` are functions on the
prefixes of the superframe; `LargestChain` and `HandledChain` give their values up to any place, and `HandleFramesFacts` carries the claims from each place to the next: slots and ready
frames fit, no slot is emptied, and after a key frame at the start every slot is filled.

### H.264 decoder

`H264DecoderProofs`, for every set of streams, any limits of the buffer, any `MaxFrameNum` and any number of pictures, under `H264Assumption` (the constants have their
shapes, and neither the window nor the reordering limit is larger than the buffer).

| theorem | statement | argument |
|---|---|---|
| `InvariantHolds` | `Spec => []InvBase` | the inductive invariant, for *all* streams: `StateTypes`; `Accounted`; `CurrentBegun` (the picture in progress has the number of the last one sent, and after an IDR picture the buffer is empty until that picture is stored); `Tidy`, without operations (the buffer has room for what it must hold and nothing without use in it, so that bumping frees a place); `EncoderAgrees`, without losses (decoder and encoder agree which `frame_num` the last reference had, so that no gap is found); and `RoomIsMadeBySliding` |
| `SafetyHolds` | `Spec => []Safety`, the invariant of the run | `Accounted` partitions the pictures sent: output (each once: the queue is injective), waiting, discarded, in progress. That nothing fails for a full buffer is `Tidy`: the sliding window leaves fewer references than the buffer has places (`SlidingMakesRoom`), and `bump_as_needed` removes what it outputs until one is free (`BumpingMakesRoom`) |
| `OrderHolds` | `Spec => []InvOrder` | for streams without operations: what waits in the buffer is exactly `held`, what the standard's decoder still holds; everything output lies before everything that waits; the pictures of a sequence that are gone lie before the picture in progress (`CurrentConforms`, which comes from the encoder's obligation at the time the picture was begun) |
| `OutputOrderHolds` | `Spec => []OutputInOrder` | the queue's half of `OrderHolds` |
| `BumpingHolds` | `Spec => []BumpsAsTheStandard` | `held = Waits(dpb)` is part of `OrderHolds`. The loop is characterized in `BumpedAsNeeded` (after each round: what has been output, in order, and why it went), and `RegularPlaced` shows that it stops at the set the closed form describes |
| `LongTermsHold` | `Spec => []InvLong` | for *all* streams: `LongUnique`; no more references than declared; `CurrentMarked` (the `pic_num`s are those for the picture in progress, and its marking will leave a place: the encoder's obligation, kept from the time the picture was begun to the call that finishes it); `EncoderCounts` (both count `frame_num` from the same reference, operation 5 resets both, and where pictures are lost all are made up for) |
| `WindowHolds` | `NumbersSuffice => (Spec => []InvWindow)` | `Ranked`: the places of the references, taken from the newest back, are the last frame numbers in a row; `HoldsNewest`: their pictures are the newest of the sequence. The sliding window looks for the smallest `pic_num`; that it finds the oldest is `SlidingRanked`, and a frame inferred or finished takes the next number (`GapRefs`, `FinishedRanked`) |
| `ReferencesHold` | `NumbersSuffice => (Spec => []ReferencesAsMarked)` | the two above; the closed forms of the property are turned into `Ranked` and `HoldsNewest` by `NumberOfAge` and by counting (`HeldAreNewest`) |

`NumbersSuffice` says that `MaxFrameNum` is larger than 3 and than any `max_num_ref_frames`. The parser accepts 16 references with `frame_num`s of four bits (`parser.rs:2081` and `2105`
of `codec/h264`); with 16 short-term references in a row the oldest would then have the picture's own `frame_num`, be numbered as the newest, and the window would let another one go. Every other stream the
parser accepts satisfies the hypothesis; so do those of the run (`MCNumbersSuffice`). The theorems without the hypothesis hold for the rest as well.

A call works on a buffer value and a session value in many steps, several of them loops (`BumpAsNeeded`, `Drain`, `AllOps`, `InferMissing`), so the facts are about values first. `Survives` and
`Remarked` say what an operator may do to a buffer (take pictures away that do not wait; change marks and numbers only), they compose, and every operator of `H264Dpb` is shown to be one of them; `Sound` and
`Account` are kept by both. The loops are functions on the number of rounds; `NeededChain`, `DrainChain` and `InferredChain` carry the claims from round to round by `SetInduction`.
Then come the halves of a call, `FinishedFacts` (finish the picture before) and `BegunSession` (gap, IDR, renumbering), and then the actions.

### H.265 decoder

`H265DecoderProofs`, for every set of streams, any limits of the buffer and any number of pictures, under `H265Assumption` (the constants have their shapes: among
others, at least two lsb values, of which the parser has sixteen and more).

| theorem | statement | argument |
|---|---|---|
| `InvariantHolds` | `Spec => []Invariant` | the inductive invariant: types; `ModesRight` (which state the decoder is in when the stream goes on, begins a sequence, or is sought); `StreamRight` (the environment: references point back, a sequence has a picture the next can be numbered after, no two of its pictures have the same order count); `PlacesRight` (the buffer holds pictures of the sequence sent last); `CountsRight` (there is *one* offset by which the order counts of the buffer, of the picture in progress and of the picture the next is numbered after differ from the stream's); `RoomRight`; `AccountRight` |
| `PicturesOnce` | `Spec => []EveryPictureOnce` | `AccountRight` partitions the pictures for output: queue (each once), buffer, picture in progress, dropped. Bumping finds *the* picture with the lowest order count only because no two have the same, which is `CountsRight` with `StreamRight`: `Recovered` shows that the msb is derived right from the right predecessor, through wrap-around (a step of the stream is shorter than half the range) and from any offset after a seek or a splice. That no call fails for a full buffer is `RoomRight`: bumping before decoding goes on while the buffer has as many pictures as the stream declares (`UpdateBumps`: or nothing waits any more, and what is left is referenced, of which the encoder keeps fewer) |
| `ReferencesFound` | `Spec => []ReferencesAsMeant` | on top of `Invariant`, `RefsFound`, of every state: what the stream may still refer to (`KeptRight`) is in the buffer unless it was dropped, and then it is a RASL picture behind the random access point where decoding began (`FlagRight`); long-term marks are where the stream has them; every order count of a sequence that leads its random access point is near it (`NearRight`); and the counts are off by a multiple of the range of the low bits, and off at all only in a sequence that was joined (`MsbRight`, `JoinedRight`). From there `SetFound`: of a header's set, each short-term picture is found by its count because the counts in the buffer are distinct (`ShortListFound`), each long-term one by its low bits because the header says more where those of another picture are the same (`LowBitsSuffice`, `LongListFound`), what was dropped is not found, and all else loses its mark. Bumping and room before decoding remove nothing that is marked (`UpdateMarks`). The lists of a slice hold just the pictures in use, in any length from their number on, by default order and by entries (`ListHoldsAll`, `MeantLists`) |

As for H.264 the facts are about buffer values first: `BumpedAsNeeded` (the loop, round by round), `Drained`, `StorePictureFacts`, and `DerivedFacts` for the marking of a reference picture set, which changes marks only.
`FinishedFacts`, `DrainedFacts` and `UpdateFacts` carry the claims through a call, and then come the actions. For the references, `StepKinds` first sorts the steps into four kinds
(the pictures stay as they are; a call settles the picture before; it fails; a picture is sent, which by `Coming` starts a sequence or goes on with it), and there is a lemma for each. Lists in order of their counts
are unique (`Listed`, `ListedFacts`), which is how what the decoder lists and what the stream meant are the same.

### What stays with TLC

Liveness (`RefusedChunkIsAccepted`, `DrainCompletes`, `DrainReturns`), which rests on fairness and `ENABLED`; of H.265
`OutputInOrder`; the headers. The induction theorems of the library take an operator as parameter and cannot be used, but induction over a *set* can be stated
(`SetInduction` of `StatefulEncoderProofs`: the set of the numbers for which the claim holds takes the place of the predicate), and it carries the proofs about
the recursive functions of `ApplyTunings`, of VP9's superframes and of the loops of both picture buffers. The properties of the header modules compare two walks over a header, conditional element by conditional element; they are TLC's kind of work.

## 6. Where the code departs from what it says

Shown by a run (`PROJECT.json`, "findings", quotes the text each one contradicts):

* **C2: `stop` hangs** if the worker is asleep: it joins before it writes the event
  (`c2_wrapper.rs:304`, against `c2_wrapper.rs:293`). `C2StopHangs`.
* **VP9: a refused superframe is read differently the second time.** The parser reads every frame of a chunk before
  `decode` refuses it, and keeps the sizes, loop filter deltas and segmentation of the later frames
  (`vp9.rs:242`, against `decoder/stateless.rs:170-171`). `Vp9RetryRereads`.

Found by TLC too, with a property that is in the module but in no run. Each is reproduced by the named run's `.cfg` with the changes given, and the property as its only one:

| what | property | run, changes |
|---|---|---|
| VP8, VP9: a flush in `AwaitingFormat` drops the pending format but leaves the backend configured for it; a key frame in the old format resumes decoding (`vp8.rs:294`, against `stateless.rs:91`) | invariant `DecodingInAcceptedFormat` | `Vp8Decoder`: `Profiles <- MCSeeker` |
| H.264: no room after a memory management operation has unmarked a picture already output: `bump_as_needed` leaves its loop without `remove_unused` (`dpb.rs:492`, against `h264.rs:915-919`), and a conforming stream of four pictures fails with `DpbIsFull` | invariant `RoomIsMade` | `H264Decoder`: `MaxPoc = 3`, `Streams <- MCAdaptive` |
| C2 decoder: a refused job may never be retried, because the worker sleeps once the event that announced it is used up (`c2_decoder.rs:323`, against `decoder/stateless.rs:185-186`) | temporal `JobsAreTaken` | `C2Decoder`: `MaxSessions = 1`, `PoolSize = 8`, `Disciplines = {TRUE}` |
| C2: the worker may fail after `stop` has begun: `stop` returns in `C2Error`, and the next `start` is refused (`c2_wrapper.rs:299`, against `c2_wrapper.rs:297`) | invariant `EveryStopLasts` | `C2Decoder`: `Disciplines = {FALSE}` |
| C2 encoder: `flush` leaves the events of the jobs it takes, and the worker panics on the next (`c2_encoder.rs:186`) | invariant `FindsJob` | `C2Encoder`: `MaxJobs = 3`, `MaxSessions = 1`, `Disciplines = {FALSE}` |
| Stateless encoder: a key frame clears the references, but the reconstruction of an earlier frame may be in flight; in non-blocking mode it becomes the reference of the next inter frame, under the numbers of the key frame's successor (`predictor.rs:112`, against `encoder.rs:100-101`) | temporal `PredictedFromLastFrame` | `StatelessEncoder`: `Values = {"low"}`, `Uses <- MCWorker` |
| H.264, H.265: a full table of parameter sets refuses also the set that replaces one of its own (`codec/h264/parser.rs:2149`); a slice is read under the sequence set its picture set was parsed under, after that has been replaced (`codec/h264/parser.rs:1612`) | invariant `ReadAsWritten` | `Headers`: `Careful = FALSE` (the first); with `MaxSets = 3` also (the second) |
| AV1: the header that follows a picture brought by a frame header and tile groups, in another unit given to the same `decode`, is parsed before that picture is submitted (`av1.rs:398`, against `av1.rs:456-458`) | temporal `HeadersFollowTheirReferences` | `Av1Decoder`: `SplitsUnits = TRUE` |
| Stateful encoder: `drain` hangs with more frames in the encoder than CAPTURE buffers (16): polls have taken all coded frames, nothing queues a buffer again, the device has none to fill (`backend/v4l2/encoder.rs:1009`, against `stateful.rs:76-77`) | temporal `DrainReturns` | `StatefulEncoder`: `Devices <- MCDevice`, `TuningSets <- MCOneTuning`, `MaxInFlight = 3`, `MaxTunes = 0` |

Met while modelling, in the models:

* Encoder: the frame a change of tunings waits for is `counter + queue.len()`, while the counter wraps at `limit`
  (`predictor.rs:188`): with frames waiting near the end of a period the change comes late, or never. `tune` compares with the first
  pending change instead of the last (`predictor.rs:174`): A, B, A while the first A waits ends with B. Hence the premise
  of `TuningsOnTimeIfCareful`. `pop_tunings` calls `apply_tunings` before it assigns `self.tunings` (`predictor.rs:93`),
  so H.264 and H.265 build parameter sets (frame rate, initial QP) from the tunings before the change until the next key frame.
  A failed `encode_slice` may leave frames counted that nobody holds any more, and then `drain` fails.
  `limit = 0` divides by zero (`predictor.rs:116`).
* VP9 decodes on from any frame after a flush, and renegotiates and flushes on an inter frame of another size (`vp9.rs:281`), where
  `stateless.rs:91` ("after seeing a key frame") and `vp9.rs:271` name key frames: inter frames then reach the backend with empty
  slots. `ReferencesUsable` is for streams that resume on a key frame.

* A client that takes one event and retries, which the trait's text allows
  (`decoder/stateless.rs:169-171`), blocks in `wait_for_drc_flush` at its second refusal
  (`stateless.rs:424`). `CallsNeverBlock` has the premise `drains_all_events` for that reason.
* `vp8.rs:263` signals the start of a DRC although no event may be behind the signal;
  `wait_for_next_event` then returns for nothing (`stateless.rs:213`).
* VP9: with a shown-again frame before the one that got no buffer,
  `num_required_pictures - i` (`vp9.rs:312`) asks for too few, or underflows. An inter frame of
  unknown size after a flush, before any stream info, enters `Decoding`. "Largest" frame of
  incomparable sizes need not contain the others.
* H.264: a picture unmarked by an operation keeps its place until the next removal, and the
  bumping forced by it can output another picture ahead of its turn (`dpb.rs:490`): `OutputInOrder` and
  `BumpsAsTheStandard` are for streams without operations. Frames inferred for lost pictures may exceed the window when all references left are long-term ones, which the sliding window does not touch
  (`LongTermIndicesDiffer` counts references of other streams only). After a gap followed by a
  non-reference picture the same gap is found, and filled, again (`h264.rs:963`). The POC type 0
  computation compares with `prev_ref_pic_info.pic_order_cnt_lsb` where the standard has
  `prevPicOrderCntLsb`; they differ after operation 5.
* C2: on drain `C2Stopped` is visible before the last frames are handed over
  (`c2_decoder.rs:294`, against `c2_wrapper.rs:352-353`). `stop` writes one event too many, which the next session of
  an encoder takes for a job (`c2_wrapper.rs:312`, `c2_encoder.rs:181-182`).
* H.265 decoder: the latency of pictures waiting is compared with `sps_max_latency_increase_plus1` itself and counts
  all pictures, so pictures leave too early in streams that limit latency and reorder by more than one, or by one if some
  pictures are not for output (the premise `LimitsLatency` of `OutputInOrder`). A CRA picture that resumes after a seek takes its order count from the sequence
  left behind (`picture.rs:116-132`), right up to a multiple of `MaxPicOrderCntLsb` only if the sets agree on it (the premise `JoinsAlike` of `OutputInOrder` and `ReferencesAsMeant`). `max_pic_order_cnt_lsb` is that of the SPS parsed last, whatever its id (`h265.rs:1153`). After a flush and a new SPS a
  CRA picture resumes without `NoRaslOutputFlag`. Each slice of a dropped RASL picture begins it again. A stream whose
  level allows fewer pictures than `max_dec_pic_buffering` fails in `store_picture`.
* AV1 parser and decoder: the condition for `frame_presentation_time` is reversed; tile columns are sized from `mi_row_starts`; Annex B counters
  advance again when a unit is re-read; `display_frame_id` in the slots is always 0; a key frame shown again refreshes
  all slots with order hint 0; the flag for a repeated header stays up after a header that failed; `ref_frame_update` may fail after references and output have changed;
  a frame OBU with frame ids that was refused for want of a buffer fails when it is decoded again (`RetryIsHarmless` is for
  streams without); a tile group after a frame OBU is an error; flush keeps `current_pic`.
* VP8 parser: `segment_prob` is read inside the update of the segment data only (`vp8/parser.rs:466-477`): a frame that updates the map
  without the data is misread. VP9 parser: segmentation features are read as signed numbers of their magnitude's width and then negated again (`vp9/parser.rs:969`), so large ones change sign;
  the feature without a value reads no bits but computes `num_bits - 1`. A parse error in the middle of a header leaves what was read so far.
* H.264, H.265 writers and builders: all 255 offsets of an order count cycle are written; the PPS tail is left out where the second
  chroma offset is 0; `bit_depth_chroma` sets luma; an all-zero scaling list is written as absent; a key frame period must be a power of two of at least 16 (H.264) and one above 32768 wraps the
  order count (H.265); odd sizes lose a column or row.
* AV1 writer: frame size override drops superres; segmentation writes the temporal flag twice; updates of loop filter
  deltas lack bits; chroma levels need both to be non-zero; skip mode is never written; the tile info always has two increment bits, so the headers of
  the crate's own encoder are misread for frames of at most 64 pixels and of more than 4096 (`OneTileOnly` leaves these sizes out). The frames of the `Headers` run are those the writer supports.
* Stateful encoder: tunings that validate may not fit the device's controls; the change fails at `encode`, the request is lost and the
  device keeps the part already written (`mixed`; `TunedForFrame` is for devices where this has not happened). Two frames in flight with one timestamp overwrite each other's
  metadata; timestamps of 2^63 and more come back as 0. A drain that fails drops what it has collected and never restarts the device (`DrainFails`); the properties are about encoders given up then. A last buffer that comes after the restart counts as an output that is not there yet. `sync` waits for CAPTURE only, and
  could sleep on a device that gives OUTPUT buffers back late. Controls take effect at once, possibly for frames queued earlier.

## 7. What is not modelled

* Pixels, entropy coding, the drivers, and logging: data the properties do not tell apart.
* **H.264:** field pairs in the buffer, a change of SPS in mid-stream, reference lists (a picture
  arrives with its order count). **H.265:** several sequence sets in use at once, reference lists of screen content, and of slices that ask for references and have none (without screen content coding the code looks for them for ever, `h265.rs:303`).
  **AV1:** large-scale tiles, film grain and global motion parameters as values.
* **C2:** two workers alive at once after an early `C2Stopped` (`Start` waits), pixel format conversions, and `reset`, which is `stop`.
* **Stateless encoder:** the case where the backend owns the H.264 parameter sets (`emit_parameter_sets`). **Stateful encoder:** format and
  selection negotiation, buffer sizes, memory other than mapped buffers.
* **Headers:** the bit readers and writers themselves (emulation prevention, Exp-Golomb, the bool decoder): a symbol is taken to come back as it was
  written. SEI messages and extension data. The compressed header of VP9 is the hardware's.
* **Frame pools** and **decoder backends** (VA-API, V4L2 requests): the pool is part of `DecoderClient`; a backend accepts, fails or finishes.
* Video frames, image processing and the command-line tools keep no state worth a model.

## 8. Plan

Done, in this order: the core, VP8 and its theorems; VP9; C2; the H.264 buffer picture by picture; the stateless encoder and its theorems; H.265; AV1 with its parser;
the stateful encoder; the headers of all five codecs; the theorems of the C2 components, of both encoders, of AV1, of VP9, of the H.264 decoder, and of the H.265 decoder's accounts and references.

What would come next: the last of H.265's theorems, the order of output, along the lines of H.264's; `FramePool` (a frame returns to the pool it
came from and only if it still fits); the two decoder backends; fields in H.264; the bit-level functions against a reference definition.
