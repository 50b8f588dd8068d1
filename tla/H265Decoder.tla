------------------------------ MODULE H265Decoder ------------------------------
(***************************************************************************)
(* The H.265 stateless decoder from picture to picture                     *)
(* (src/decoder/stateless/h265.rs, src/codec/h265/picture.rs).  The call   *)
(* with the first slice of a picture first finishes the one before, then   *)
(* negotiates, computes the picture order count, finds and marks the       *)
(* reference picture set, and makes room.  A picture stands for all its    *)
(* slices; the others build their lists from the same set.  ready_queue    *)
(* keeps what was added to it; the client of a stateless decoder is in     *)
(* DecoderClient.                                                          *)
(*                                                                         *)
(* Streams are what an encoder that conforms to the standard may send,     *)
(* spliced and joined at random access points; the limits its parameter    *)
(* set declares are taken as the semantics of the standard have them, not  *)
(* as what a decoder does with them.                                       *)
(***************************************************************************)
EXTENDS H265Dpb

CONSTANTS
  NoPicture, NoSet,
  Streams               (* The kinds of streams: see stream.               *)

(* format stands for what NegotiationInfo has; max_num_pics is what the    *)
(* level allows (max_dpb_size); max_lsb is MaxPicOrderCntLsb.              *)
Sets == [format : Nat, max_num_pics : Nat \ {0}, max_dec_pic_buffering : Nat \ {0},
         max_num_reorder_pics : Nat, max_latency_increase_plus1 : Nat, max_lsb : Nat \ {0, 1}]
Types == {"IDR", "BLA", "CRA", "RADL", "RASL", "TRAIL_R", "TRAIL_N"}

(* types and layers: of the pictures, and their temporal ids; long_term:   *)
(* there are long-term references; spares: a picture may keep one it could *)
(* use and does not; hides: some are not for output; seeks: the client     *)
(* flushes; max_pictures bounds the model.                                 *)
Stream ==
  [sets : SUBSET Sets, types : SUBSET Types, layers : SUBSET Nat, long_term : BOOLEAN,
   spares : BOOLEAN, hides : BOOLEAN, seeks : BOOLEAN, max_pictures : Nat]

(* PictureData and RefPicSet.                                              *)
Picture ==
  [n : Nat, type : Types, lsb : Nat, msb : Int, poc : Int, no_rasl_output_flag : BOOLEAN,
   pic_output_flag : BOOLEAN, valid_for_prev_tid0_pic : BOOLEAN,
   no_output_of_prior_pics_flag : BOOLEAN, reference : {"None", "ShortTerm", "LongTerm"},
   pic_latency_cnt : Nat, needed_for_output : BOOLEAN]
RefPicSet ==
  [st_curr_before : Seq(Nat), st_curr_after : Seq(Nat), st_foll : Seq(Nat),
   lt_curr : Seq(Nat), lt_foll : Seq(Nat)]

ASSUME H265Assumption ==
  /\ Streams \subseteq Stream
  /\ NoSet \notin Sets \cup Nat
  /\ NoPicture \notin Picture \cup [pic : Picture, rps : RefPicSet]

VARIABLES
  decoding_state,       (* With the set of AwaitingFormat in awaited.      *)
  awaited,
  sps,                  (* The parser's, and the current one.              *)
  max_pic_order_cnt_lsb,
  negotiation_info,     (* The format applied last.                        *)
  dpb,
  current_pic,          (* With the pictures of its RefPicSet.             *)
  prev_tid_0_pic,
  first_picture_after_eos, first_picture_in_bitstream,
  irap_no_rasl_output_flag,
  ready_queue,          (* History: all that was pushed, by number.        *)
  outcome,              (* Of the last call: only Error matters here.      *)
  stream,               (* Environment, fixed: what kind of stream it is.  *)
  sent,                 (* Environment: the pictures sent, in order.       *)
  next,                 (* Environment: what may come next.                *)
  dropped               (* History: not decoded (RASL), or discarded by    *)
                        (* no_output_of_prior_pics_flag.                   *)

format_vars == <<decoding_state, awaited, sps, max_pic_order_cnt_lsb, negotiation_info>>
picture_vars == <<dpb, current_pic, prev_tid_0_pic, first_picture_after_eos,
                  first_picture_in_bitstream, irap_no_rasl_output_flag, ready_queue, outcome>>
stream_vars == <<stream, sent, next, dropped>>
vars == <<format_vars, picture_vars, stream_vars>>

Init ==
  /\ stream \in Streams
  /\ decoding_state = "AwaitingStreamInfo"
  /\ awaited = NoSet /\ sps = NoSet
  /\ max_pic_order_cnt_lsb = 0
  /\ negotiation_info = NoSet
  /\ dpb = EmptyDpb(0)
  /\ current_pic = NoPicture
  /\ prev_tid_0_pic = NoPicture
  /\ first_picture_after_eos = TRUE /\ first_picture_in_bitstream = TRUE
  /\ irap_no_rasl_output_flag = FALSE
  /\ ready_queue = <<>>
  /\ outcome = "Ok"
  /\ sent = <<>>
  /\ next = "IRAP"
  /\ dropped = {}

-----------------------------------------------------------------------------
(* PictureData::new_from_slice.                                            *)

IsIrap(type) == type \in {"IDR", "BLA", "CRA"}
IsLeading(type) == type \in {"RADL", "RASL"}

NoRaslOutputFlag(h) ==
  \/ h.type \in {"IDR", "BLA"}
  \/ h.type = "CRA" /\ first_picture_in_bitstream
  \/ first_picture_after_eos
StartsSequence(h) == IsIrap(h.type) /\ NoRaslOutputFlag(h)

(* 8-1, given the last picture that counts.                                *)
PicOrderCntMsb(h, prev, max_lsb) ==
  LET ahead == h.lsb < prev.lsb /\ prev.lsb - h.lsb >= max_lsb \div 2
      behind == h.lsb > prev.lsb /\ h.lsb - prev.lsb > max_lsb \div 2
  IN IF ahead THEN prev.msb + max_lsb ELSE IF behind THEN prev.msb - max_lsb ELSE prev.msb

(* Mutant: a picture of any type is the one the next is numbered after.    *)
ValidForAnyType(h) == h.tid = 0

ValidForPrevTid0Pic(h) == h.tid = 0 /\ ~IsLeading(h.type) /\ h.type # "TRAIL_N"

NewPicture(h, prev) ==
  LET msb == IF StartsSequence(h) \/ prev = NoPicture
               THEN 0 ELSE PicOrderCntMsb(h, prev, max_pic_order_cnt_lsb)
  IN [n |-> Len(sent) + 1, type |-> h.type, lsb |-> h.lsb, msb |-> msb, poc |-> msb + h.lsb,
      no_rasl_output_flag |-> NoRaslOutputFlag(h),
      pic_output_flag |-> h.pic_output_flag /\ ~(h.type = "RASL" /\ NoRaslOutputFlag(h)),
      valid_for_prev_tid0_pic |-> ValidForPrevTid0Pic(h),
      no_output_of_prior_pics_flag |->
        /\ StartsSequence(h) /\ ~first_picture_in_bitstream
        /\ h.type = "CRA" \/ h.no_output_of_prior_pics_flag,
      reference |-> "None", pic_latency_cnt |-> 0, needed_for_output |-> FALSE]

-----------------------------------------------------------------------------
(* The reference picture set, 8.3.2.  What a header has of it: s0 and s1   *)
(* are the short-term pictures before and after in output order, by the    *)
(* difference in POC, lt the long-term ones, by their low bits or in full. *)
(* The entries that decode_rps leaves in the lists beyond their counts are *)
(* marked again, and unmarked by step 4 as nothing names them.             *)

(* The elements of a finite set, one after the other.                      *)
InOrder(S, Precedes(_, _)) ==
  [i \in 1..Cardinality(S) |->
     CHOOSE x \in S : Cardinality({y \in S : Precedes(y, x)}) = i - 1]
Increasing(S) == InOrder(S, <)

PocsOf(pic, deltas, used) ==
  LET chosen == Increasing({i \in DOMAIN deltas : deltas[i].used = used})
  IN [i \in DOMAIN chosen |-> pic.poc + deltas[chosen[i]].delta]

FoundShortTerm(d, pocs) == [i \in DOMAIN pocs |-> FindShortTermRefByPoc(d, pocs[i])]

PocLt(pic, l) ==
  l.poc_lsb + pic.poc - l.delta_poc_msb_cycle * max_pic_order_cnt_lsb
            - (pic.poc % max_pic_order_cnt_lsb)
FoundLongTerm(d, pic, lts, used) ==
  LET chosen == Increasing({i \in DOMAIN lts : lts[i].used = used})
      Found(l) == IF l.delta_poc_msb_present_flag
                    THEN FindRefByPoc(d, PocLt(pic, l))
                    ELSE FindRefByPocMasked(d, l.poc_lsb, max_pic_order_cnt_lsb)
  IN [i \in DOMAIN chosen |-> Found(lts[chosen[i]])]

RpsPictures(rps) ==
  (Range(rps.st_curr_before) \cup Range(rps.st_curr_after) \cup Range(rps.st_foll)
     \cup Range(rps.lt_curr) \cup Range(rps.lt_foll)) \ {Missing}

(* derive_and_mark_rps: the long-term pictures are marked before the       *)
(* short-term ones are looked for, and what is in no list is unmarked; as  *)
(* no two pictures of the buffer have the same POC, numbers do for step 4. *)
DeriveAndMark(d, pic, h) ==
  LET lt_curr == FoundLongTerm(d, pic, h.lt, TRUE)
      lt_foll == FoundLongTerm(d, pic, h.lt, FALSE)
      marked == MarkAs(d, Range(lt_curr) \cup Range(lt_foll), "LongTerm")
      rps == [st_curr_before |-> FoundShortTerm(marked, PocsOf(pic, h.s0, TRUE)),
              st_curr_after |-> FoundShortTerm(marked, PocsOf(pic, h.s1, TRUE)),
              st_foll |-> FoundShortTerm(marked, PocsOf(pic, h.s0, FALSE) \o PocsOf(pic, h.s1, FALSE)),
              lt_curr |-> lt_curr, lt_foll |-> lt_foll]
      others == DOMAIN d.entries \ RpsPictures(rps)
  IN [dpb |-> MarkAs(marked, others, "None"), rps |-> rps]

DecodeRps(d, pic, h) ==
  DeriveAndMark(IF IsIrap(pic.type) /\ pic.no_rasl_output_flag THEN MarkAllAsUnusedForRef(d) ELSE d,
                pic, IF h.type = "IDR" THEN [h EXCEPT !.s0 = <<>>, !.s1 = <<>>, !.lt = <<>>] ELSE h)

(* 8.3.4: a temporary list goes through all of the set again and again     *)
(* until it has the entries asked for, or all of the set if that is more;  *)
(* the list is its beginning, or what list_entry picks from it.  This is   *)
(* for sets with pictures, as slices that ask for lists have: in an empty  *)
(* one the code would look for entries for ever.                           *)
RefPicList(all, num_ref_idx_active, list_entry) ==
  LET num_pic_total_curr == Len(all)
      temp == [i \in 1..Max({num_ref_idx_active, num_pic_total_curr}) |->
                 all[((i - 1) % num_pic_total_curr) + 1]]
  IN [i \in 1..num_ref_idx_active |-> temp[IF list_entry = <<>> THEN i ELSE list_entry[i] + 1]]

RefPicList0(rps, active, entries) ==
  RefPicList(rps.st_curr_before \o rps.st_curr_after \o rps.lt_curr, active, entries)
RefPicList1(rps, active, entries) ==
  RefPicList(rps.st_curr_after \o rps.st_curr_before \o rps.lt_curr, active, entries)

-----------------------------------------------------------------------------
(* A call works on s: the parts of the state that change as it goes, what  *)
(* it outputs, and whether it has failed.                                  *)
Session ==
  [dpb |-> dpb, prev_tid_0_pic |-> prev_tid_0_pic, out |-> <<>>, cleared |-> {}, ok |-> TRUE]
Bumped(s, b) == [s EXCEPT !.dpb = b.dpb, !.out = @ \o b.out]

FinishPicture(s, pic) ==
  LET numbered == [s EXCEPT !.prev_tid_0_pic = IF pic.valid_for_prev_tid0_pic THEN pic ELSE @] IN
  IF IsFull(s.dpb)
    THEN [numbered EXCEPT !.ok = FALSE]
    ELSE Bumped(numbered, BumpAsNeeded(StorePicture(s.dpb, pic), sps, "AfterDecoding"))

Finished == IF current_pic = NoPicture THEN Session ELSE FinishPicture(Session, current_pic.pic)
DrainAll(s) == Bumped(s, Drain(s.dpb))

(* negotiation_possible, of the current set.                               *)
NegotiationPossible(d) ==
  negotiation_info # sps.format \/ d.max_num_pics # sps.max_num_pics

(* By now first_picture_after_eos is never set.                            *)
UpdateDpbBeforeDecoding(s, pic) ==
  IF ~(IsIrap(pic.type) /\ pic.no_rasl_output_flag)
    THEN Bumped(s, BumpAsNeeded(RemoveUnused(s.dpb), sps, "BeforeDecoding"))
    ELSE IF pic.no_output_of_prior_pics_flag
           THEN [s EXCEPT !.dpb = Clear(@), !.cleared = Waiting(s.dpb)]
           ELSE DrainAll(s)

-----------------------------------------------------------------------------
(* What comes next in the stream.  A picture of it has the set of earlier  *)
(* pictures it keeps as references, those of them it uses, those that are  *)
(* long-term, and the coded video sequence (seq); joined: the client has   *)
(* come to the sequence by a seek.                                         *)

Latest == sent[Len(sent)]
Sequence == IF sent = <<>> THEN 0 ELSE Latest.seq
OfSequence(n) == sent[n].seq = Sequence
Numbers == {n \in DOMAIN sent : OfSequence(n)}
LastIrap == Max({n \in Numbers : IsIrap(sent[n].type)})
Anchor == Max({n \in Numbers : sent[n].tid = 0 /\ (IsIrap(sent[n].type) \/ sent[n].type = "TRAIL_R")})
Poc(n) == sent[n].poc

Pocs == {Poc(n) : n \in Numbers}
NewPocs(type) ==
  LET half == sps.max_lsb \div 2
      near == ((Poc(Anchor) - half + 1)..(Poc(Anchor) + half - 1)) \ Pocs
      before == {Poc(n) : n \in {n \in Numbers : n < LastIrap}}
      rasl == {Poc(n) : n \in {n \in Numbers : n > LastIrap /\ sent[n].type = "RASL"}}
      radl == {Poc(n) : n \in {n \in Numbers : n > LastIrap /\ sent[n].type = "RADL"}}
  IN CASE IsIrap(type) -> {p \in near : \A q \in Pocs : p > q}
       [] type \in {"TRAIL_R", "TRAIL_N"} -> {p \in near : p > Poc(LastIrap)}
       [] type = "RADL" -> {p \in near : p < Poc(LastIrap) /\ \A q \in before \cup rasl : p > q}
       [] type = "RASL" ->
            {p \in near : /\ p < Poc(LastIrap) /\ \A q \in radl : p < q
                          /\ \A n \in Numbers : IsIrap(sent[n].type) /\ n < LastIrap => p > Poc(n)}

(* The pictures that a picture of this type may keep, and may use.         *)
Kept == Latest.refs \cup {Len(sent)}
Keepable(type) ==
  {n \in Kept :
     CASE ~IsLeading(type) -> n >= LastIrap /\ ~IsLeading(sent[n].type)
       [] OTHER -> n <= LastIrap \/ IsLeading(sent[n].type)}
Usable(type, tid) ==
  {n \in Keepable(type) :
     /\ ~IsIrap(type)
     /\ type = "RADL" => n >= LastIrap /\ sent[n].type # "RASL"
     /\ sent[n].type # "TRAIL_N" /\ sent[n].tid <= tid}

Follows(type) ==
  CASE IsIrap(type) -> TRUE
    [] IsLeading(type) -> /\ sent[LastIrap].type # "IDR" \/ type = "RADL"
                          /\ \A n \in Numbers : n > LastIrap => IsLeading(sent[n].type)
    [] OTHER -> TRUE

(* What the set of parameters promises of pictures of a sequence: how many *)
(* may precede a picture in decoding order and follow it in output order,  *)
(* how many the other way round, and how many a decoder must hold.         *)
SeqOut(pics) == {n \in DOMAIN pics : pics[n].seq = pics[Len(pics)].seq /\ pics[n].pic_output_flag}
OutputAfter(pics, n) ==
  {m \in SeqOut(pics) : m < n /\ pics[m].poc > pics[n].poc}
Overtakes(pics, n) ==
  {m \in SeqOut(pics) : m > n /\ pics[m].poc < pics[n].poc}
HeldAt(pics, n) ==
  pics[n].refs \cup {m \in SeqOut(pics) :
                       m < n /\ \E k \in n..Len(pics) : pics[k].poc < pics[m].poc}
KeepsPromises(pics) ==
  \A n \in {n \in DOMAIN pics : pics[n].seq = pics[Len(pics)].seq} :
    /\ Cardinality(OutputAfter(pics, n)) <= sps.max_num_reorder_pics
    /\ sps.max_latency_increase_plus1 = 0 \/
         Cardinality(Overtakes(pics, n))
           <= sps.max_num_reorder_pics + sps.max_latency_increase_plus1 - 1
    /\ Cardinality(HeldAt(pics, n)) < sps.max_dec_pic_buffering

(* A new sequence: an IDR or BLA picture, or a CRA picture where one has   *)
(* ended or is joined; of the sequence that is cut off, or that it leads   *)
(* to, a CRA or BLA picture and its leading ones may still name pictures.  *)
Elsewhere == [delta |-> -1, used |-> FALSE]
Starts ==
  {p \in [type : stream.types \cap {"IDR", "BLA", "CRA"}, tid : {0}, lsb : {0, sps.max_lsb - 2},
          pic_output_flag : {TRUE}, no_output_of_prior_pics_flag : BOOLEAN,
          s0 : {<<>>, <<Elsewhere>>}, s1 : {<<>>}, lt : {<<>>}] :
     /\ p.type = "IDR" => p.lsb = 0 /\ p.s0 = <<>>
     /\ p.type = "CRA" => next \in {"IRAP", "IRAP after a seek"} /\ ~p.no_output_of_prior_pics_flag}

StartOf(h) ==
  [type |-> h.type, tid |-> 0, poc |-> h.lsb, pic_output_flag |-> TRUE, refs |-> {}, long_term |-> {},
   use |-> {}, seq |-> Sequence + 1, joined |-> h.type = "CRA" /\ next = "IRAP after a seek"]

(* A picture that goes on with the sequence; an encoder that has not been  *)
(* cut off sends no BLA.                                                   *)
Conceivable(type, tid) ==
  [type : {type}, tid : {tid}, poc : NewPocs(type),
   pic_output_flag : IF stream.hides THEN BOOLEAN ELSE {TRUE},
   refs : SUBSET Keepable(type), use : SUBSET Usable(type, tid),
   long_term : IF stream.long_term THEN SUBSET Keepable(type) ELSE {{}},
   seq : {Sequence}, joined : {Latest.joined}]
Continuations ==
  {p \in UNION {Conceivable(type, tid) : type \in {t \in stream.types \ {"IDR", "BLA"} : Follows(t)},
                                        tid \in stream.layers} :
     /\ IsIrap(p.type) => p.tid = 0
     /\ p.use \subseteq p.refs
     /\ stream.spares \/ p.use = p.refs \cap Usable(p.type, p.tid)
     /\ p.long_term \subseteq p.refs
     /\ Latest.long_term \cap p.refs \subseteq p.long_term
     /\ \A n \in p.long_term : ~IsLeading(sent[n].type)
     /\ KeepsPromises(Append(sent, p))}

(* The header of it.  The high bits of a long-term picture are there if    *)
(* the low ones do not tell it from the others.                            *)
Ambiguous(n) == \E m \in Kept : m # n /\ (Poc(m) - Poc(n)) % sps.max_lsb = 0
LongTermEntry(p, n, present) ==
  [poc_lsb |-> Poc(n) % sps.max_lsb, used |-> n \in p.use, delta_poc_msb_present_flag |-> present,
   delta_poc_msb_cycle |->
     IF present THEN (p.poc - (p.poc % sps.max_lsb) - Poc(n) + (Poc(n) % sps.max_lsb)) \div sps.max_lsb
                ELSE 0]
Deltas(p, pictures) ==
  [i \in DOMAIN pictures |-> [delta |-> Poc(pictures[i]) - p.poc, used |-> pictures[i] \in p.use]]
Before(p) ==
  InOrder({n \in p.refs \ p.long_term : Poc(n) < p.poc}, LAMBDA m, n : Poc(m) > Poc(n))
After(p) ==
  InOrder({n \in p.refs \ p.long_term : Poc(n) > p.poc}, LAMBDA m, n : Poc(m) < Poc(n))
LongTerms(p) == Increasing(p.long_term)

Headers(p) ==
  {[type |-> p.type, tid |-> p.tid, lsb |-> p.poc % sps.max_lsb,
    pic_output_flag |-> p.pic_output_flag, no_output_of_prior_pics_flag |-> FALSE,
    s0 |-> Deltas(p, Before(p)), s1 |-> Deltas(p, After(p)),
    lt |-> [i \in DOMAIN LongTerms(p) |->
              LongTermEntry(p, LongTerms(p)[i], present \/ Ambiguous(LongTerms(p)[i]))]] :
   present \in IF p.long_term = {} THEN {FALSE} ELSE BOOLEAN}

-----------------------------------------------------------------------------
(* The calls.                                                              *)

Keep(s) ==
  /\ dpb' = s.dpb
  /\ prev_tid_0_pic' = s.prev_tid_0_pic
  /\ ready_queue' = ready_queue \o s.out

Running == outcome = "Ok" /\ Len(sent) < stream.max_pictures

(* decode, of a set of sequence parameters; the picture being decoded is   *)
(* not finished by it.  The first one opens the negotiation.               *)
FirstSps(set) ==
  /\ decoding_state = "AwaitingStreamInfo"
  /\ sps' = set
  /\ decoding_state' = "AwaitingFormat" /\ awaited' = set
  /\ UNCHANGED <<max_pic_order_cnt_lsb, negotiation_info, picture_vars, stream_vars>>

(* A set with other contents comes before a new sequence only.             *)
NewSps(set) ==
  /\ Running
  /\ decoding_state \in {"Decoding", "Reset"}
  /\ decoding_state = "Reset" \/ set # sps
  /\ sps' = set
  /\ max_pic_order_cnt_lsb' = set.max_lsb
  /\ decoding_state' = "Decoding"
  /\ next' = IF set # sps /\ next = "any" THEN "new sequence" ELSE next
  /\ UNCHANGED <<awaited, negotiation_info, picture_vars, stream, sent, dropped>>

(* next_event, of the format change: apply_sps.  The set comes again with  *)
(* the call that was refused, or has come already.                         *)
AcceptFormat ==
  /\ decoding_state = "AwaitingFormat"
  /\ Keep(DrainAll([Session EXCEPT !.dpb.max_num_pics = awaited.max_num_pics]))
  /\ negotiation_info' = awaited.format
  /\ max_pic_order_cnt_lsb' = awaited.max_lsb
  /\ decoding_state' = "Decoding" /\ awaited' = NoSet
  /\ UNCHANGED <<sps, current_pic, first_picture_after_eos, first_picture_in_bitstream,
                 irap_no_rasl_output_flag, outcome, stream_vars>>

EndOfSequence ==
  /\ Running
  /\ decoding_state = "Decoding" /\ next = "any"
  /\ first_picture_after_eos' = TRUE
  /\ next' = "IRAP"
  /\ UNCHANGED <<format_vars, dpb, current_pic, prev_tid_0_pic, first_picture_in_bitstream,
                 irap_no_rasl_output_flag, ready_queue, outcome, stream, sent, dropped>>

EndOfBitstream ==
  /\ Running
  /\ decoding_state = "Decoding" /\ first_picture_after_eos /\ sent # <<>>
  /\ first_picture_in_bitstream' = TRUE
  /\ UNCHANGED <<format_vars, dpb, current_pic, prev_tid_0_pic, first_picture_after_eos,
                 irap_no_rasl_output_flag, ready_queue, outcome, stream_vars>>

(* decode, of the first slice of a picture p of the stream with header h;  *)
(* s is how the picture before was finished.  After a flush an IDR picture *)
(* resumes, any other waits for a set of parameters.                       *)
Decodable(s, h) ==
  /\ outcome = "Ok" /\ s.ok
  /\ decoding_state = "Decoding" \/ (decoding_state = "Reset" /\ h.type = "IDR")

Renegotiate(s, h) ==
  /\ Decodable(s, h) /\ NegotiationPossible(s.dpb)
  /\ Keep(DrainAll(s))
  /\ current_pic' = NoPicture
  /\ decoding_state' = "AwaitingFormat" /\ awaited' = sps
  /\ UNCHANGED <<sps, max_pic_order_cnt_lsb, negotiation_info, first_picture_after_eos,
                 first_picture_in_bitstream, irap_no_rasl_output_flag, outcome, stream_vars>>

(* new_picture gets no frame from the client: the picture before has been  *)
(* finished by then, and is not there any more when the slice comes again. *)
NoOutputBuffer(s, h) ==
  /\ Decodable(s, h) /\ ~NegotiationPossible(s.dpb)
  /\ Keep(s)
  /\ current_pic' = NoPicture
  /\ decoding_state' = "Decoding"
  /\ UNCHANGED <<awaited, sps, max_pic_order_cnt_lsb, negotiation_info, first_picture_after_eos,
                 first_picture_in_bitstream, irap_no_rasl_output_flag, outcome, stream_vars>>

Begins(s, p, h) ==
  /\ Decodable(s, h) /\ ~NegotiationPossible(s.dpb)
  /\ first_picture_after_eos' = FALSE /\ first_picture_in_bitstream' = FALSE
  /\ decoding_state' = "Decoding"
  /\ sent' = Append(sent, p)
  /\ next' = "any"
  /\ UNCHANGED <<awaited, sps, max_pic_order_cnt_lsb, negotiation_info, outcome, stream>>

(* A RASL picture whose references are not there is dropped, slice by      *)
(* slice: each of them begins it again.                                    *)
Droppable(h) == h.type = "RASL" /\ irap_no_rasl_output_flag
DropPicture(s, p, h) ==
  /\ Begins(s, p, h) /\ Droppable(h)
  /\ Keep(s)
  /\ current_pic' = NoPicture
  /\ dropped' = dropped \cup {Len(sent')}
  /\ UNCHANGED irap_no_rasl_output_flag

DecodePicture(s, p, h) ==
  /\ Begins(s, p, h) /\ ~Droppable(h)
  /\ \E pic \in {NewPicture(h, s.prev_tid_0_pic)} :
     \E marked \in {DecodeRps(s.dpb, pic, h)} :
     \E after \in {UpdateDpbBeforeDecoding([s EXCEPT !.dpb = marked.dpb], pic)} :
       /\ Keep(after)
       /\ current_pic' = [pic |-> pic, rps |-> marked.rps]
       /\ dropped' = dropped \cup after.cleared
       /\ irap_no_rasl_output_flag' =
            IF IsIrap(h.type) THEN pic.no_rasl_output_flag ELSE irap_no_rasl_output_flag

(* The picture before cannot be stored: the call fails, decode or flush.   *)
FinishFails(s) ==
  /\ outcome = "Ok" /\ ~s.ok
  /\ Keep(s)
  /\ current_pic' = NoPicture
  /\ outcome' = "Error"
  /\ UNCHANGED <<format_vars, first_picture_after_eos, first_picture_in_bitstream,
                 irap_no_rasl_output_flag, stream_vars>>

(* flush; all but parameter sets are skipped until decoding resumes.       *)
Flush(s) ==
  /\ stream.seeks /\ outcome = "Ok" /\ s.ok
  /\ Keep(DrainAll(s))
  /\ current_pic' = NoPicture
  /\ decoding_state' = "Reset" /\ awaited' = NoSet
  /\ next' = IF sent = <<>> THEN next ELSE "IRAP after a seek"
  /\ UNCHANGED <<sps, max_pic_order_cnt_lsb, negotiation_info, first_picture_after_eos,
                 first_picture_in_bitstream, irap_no_rasl_output_flag, outcome,
                 stream, sent, dropped>>

Decode(s, p, h) ==
  \/ Renegotiate(s, h)
  \/ NoOutputBuffer(s, h)
  \/ DropPicture(s, p, h)
  \/ DecodePicture(s, p, h)

Next ==
  \/ \E set \in stream.sets : FirstSps(set) \/ NewSps(set)
  \/ AcceptFormat
  \/ EndOfSequence
  \/ EndOfBitstream
  \/ \E s \in {Finished} :
       \/ Running /\ decoding_state \in {"Decoding", "Reset"} /\ sps # NoSet
            /\ \E h \in Starts : Decode(s, StartOf(h), h)
       \/ Running /\ decoding_state = "Decoding" /\ next = "any"
            /\ \E p \in Continuations : \E h \in Headers(p) : Decode(s, p, h)
       \/ FinishFails(s)
       \/ Flush(s)

Spec == Init /\ [][Next]_vars

-----------------------------------------------------------------------------
IsCurrent(n) == current_pic # NoPicture /\ current_pic.pic.n = n
Waits == Waiting(dpb)

(* Every picture is being decoded, or waits in the buffer, or was dropped  *)
(* because its references are missing or a sequence that starts asks for   *)
(* it, or was output once; one that is not meant for output never is.  No  *)
(* call fails for want of room if the level allows as many pictures as the *)
(* stream needs (finish_picture, drain, update_dpb_before_decoding).       *)
EveryPictureOnce ==
  /\ outcome = "Error" =>
       \E set \in stream.sets : set.max_num_pics < set.max_dec_pic_buffering
  /\ outcome = "Ok" =>
       \A n \in DOMAIN sent :
         LET times == Cardinality({k \in DOMAIN ready_queue : ready_queue[k] = n}) IN
         times = IF IsCurrent(n) \/ n \in Waits \cup dropped \/ ~sent[n].pic_output_flag
                   THEN 0 ELSE 1

(* The decoder takes the order counts of the sequence before for those of  *)
(* one that the client joins, which may be in other units.                 *)
JoinsAlike == stream.seeks => \A a, b \in stream.sets : a.max_lsb = b.max_lsb

(* What is output is in output order: all of a sequence before the next,   *)
(* and within it by increasing picture order count (needs_bumping, bump).  *)
(* The decoder counts the latency of a picture otherwise than the standard *)
(* does and outputs too early for streams that limit it and reorder by     *)
(* more than one, or by one if pictures are not for output.                *)
LimitsLatency ==
  \E set \in stream.sets :
    /\ set.max_latency_increase_plus1 # 0
    /\ set.max_num_reorder_pics > IF stream.hides THEN 0 ELSE 1
OutputInOrder ==
  ~LimitsLatency /\ JoinsAlike =>
    \A k \in 1..(Len(ready_queue) - 1) :
      LET a == sent[ready_queue[k]] b == sent[ready_queue[k + 1]] IN
      a.seq < b.seq \/ (a.seq = b.seq /\ a.poc < b.poc)

(* A picture is decoded with the references its encoder meant, each in its *)
(* list and in its place, and they are in the buffer, through wrap-around  *)
(* of the picture order count, marking, bumping, seeks and dropped         *)
(* pictures (decode_rps, derive_and_mark_rps, build_ref_pic_lists).  What  *)
(* was dropped is not found, nor what is left of another sequence.  Where  *)
(* the client has joined a sequence the order counts may be off by as much *)
(* for all of its pictures.                                                *)
Found(pictures) == [i \in DOMAIN pictures |-> IF pictures[i] \in dropped THEN Missing ELSE pictures[i]]
Meant(p) ==
  LET Used(pictures, used) ==
        LET chosen == Increasing({i \in DOMAIN pictures : (pictures[i] \in p.use) = used})
        IN [i \in DOMAIN chosen |-> pictures[chosen[i]]]
  IN [st_curr_before |-> Found(Used(Before(p), TRUE)),
      st_curr_after |-> Found(Used(After(p), TRUE)),
      st_foll |-> Found(Used(Before(p), FALSE) \o Used(After(p), FALSE)),
      lt_curr |-> Found(Used(LongTerms(p), TRUE)),
      lt_foll |-> Found(Used(LongTerms(p), FALSE))]
ReferencesAsMeant ==
  JoinsAlike /\ current_pic # NoPicture =>
    LET rps == current_pic.rps IN
    /\ \/ current_pic.pic.poc = Latest.poc
       \/ Latest.joined /\ (current_pic.pic.poc - Latest.poc) % sps.max_lsb = 0
    /\ rps = Meant(Latest) \/ (Latest.refs = {} /\ RpsPictures(rps) = {})
    /\ Latest.use \subseteq References(dpb)
    /\ LET total == Cardinality(Latest.use) IN
       total > 0 =>
         /\ \A active \in {total, total + 1} :
              /\ Range(RefPicList0(rps, active, <<>>)) = Latest.use
              /\ Range(RefPicList1(rps, active, <<>>)) = Latest.use
         /\ Latest.use = {RefPicList0(rps, 1, <<entry>>)[1] : entry \in 0..(total - 1)}
         /\ Latest.use = {RefPicList1(rps, 1, <<entry>>)[1] : entry \in 0..(total - 1)}
=============================================================================
