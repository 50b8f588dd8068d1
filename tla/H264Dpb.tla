-------------------------------- MODULE H264Dpb --------------------------------
(***************************************************************************)
(* The decoded picture buffer of the H.264 decoder (src/codec/h264/dpb.rs) *)
(* as operators on its value, for streams of frames (interlaced = false).  *)
(*                                                                         *)
(* entries is a function from places to pictures.  Places are numbered in  *)
(* the order of storage, in which the Vec has its pictures, and keep their *)
(* number when others go; stored counts those given so far.  Two entries   *)
(* may be equal in all but their place, and every search returns the first *)
(* of those that qualify.  A picture is known by n, its number in decoding *)
(* order, 0 for one that was inferred from a gap and does not exist.  For  *)
(* a frame frame_num_wrap and pic_num are the same number, and so are      *)
(* long_term_pic_num and long_term_frame_idx.                              *)
(***************************************************************************)
EXTENDS Integers, Sequences, FiniteSets, Functions

EmptyDpb(max_num_pics, max_num_reorder_frames) ==
  [entries |-> <<>>, stored |-> 0, max_num_pics |-> max_num_pics,
   max_num_reorder_frames |-> max_num_reorder_frames]

IsRef(p) == p.reference # "None"
At(dpb, Test(_)) == {i \in DOMAIN dpb.entries : Test(dpb.entries[i])}
References(dpb) == At(dpb, IsRef)
ShortTerms(dpb) == At(dpb, LAMBDA p : p.reference = "ShortTerm")
LongTerms(dpb) == At(dpb, LAMBDA p : p.reference = "LongTerm")
NumRefFrames(dpb) == Cardinality(References(dpb))

(* The place of the first of the smallest, by Key.                         *)
Least(dpb, places, Key(_)) ==
  CHOOSE i \in places : \A j \in places :
    \/ Key(dpb.entries[i]) < Key(dpb.entries[j])
    \/ Key(dpb.entries[i]) = Key(dpb.entries[j]) /\ i <= j

Change(dpb, places, To(_)) ==
  [dpb EXCEPT !.entries = [i \in DOMAIN @ |-> IF i \in places THEN To(@[i]) ELSE @[i]]]

Unmark(dpb, places) ==
  Change(dpb, places, LAMBDA p : [p EXCEPT !.reference = "None"])

MarkAllAsUnusedForRef(dpb) == Unmark(dpb, DOMAIN dpb.entries)

(* Mutant: what is no reference goes, even if it waits for output.         *)
RemoveUnreferenced(dpb) ==
  [dpb EXCEPT !.entries = RestrictValues(@, LAMBDA p : IsRef(p))]

RemoveUnused(dpb) ==
  [dpb EXCEPT !.entries = RestrictValues(@, LAMBDA p : IsRef(p) \/ p.needed_for_output)]

(* clear: the limit on reordering is forgotten, the size is not.           *)
Clear(dpb) == EmptyDpb(dpb.max_num_pics, 0)

(* store_picture: if it fails, and if not.                                 *)
Fullness(dpb) == Cardinality(DOMAIN dpb.entries)
IsFull(dpb) == Fullness(dpb) >= dpb.max_num_pics
StorePicture(dpb, pic) ==
  [dpb EXCEPT
     !.entries = [i \in DOMAIN @ \cup {dpb.stored + 1} |->
                    IF i \in DOMAIN @ THEN @[i]
                                      ELSE [pic EXCEPT !.needed_for_output = ~pic.nonexisting]],
     !.stored = @ + 1]

UpdatePicNums(dpb, frame_num, max_frame_num) ==
  Change(dpb, ShortTerms(dpb),
         LAMBDA p : [p EXCEPT !.pic_num =
                       IF p.frame_num > frame_num THEN p.frame_num - max_frame_num
                                                  ELSE p.frame_num])

-----------------------------------------------------------------------------
(* Bumping, C.4.5.3.  out is what was bumped, in order.                    *)

(* Mutant: the last buffer is left free.                                   *)
HasTwoEmptyFrameBuffers(dpb) == Fullness(dpb) + 1 < dpb.max_num_pics

HasEmptyFrameBuffer(dpb) == Fullness(dpb) < dpb.max_num_pics
Bumpable(dpb) == At(dpb, LAMBDA p : p.needed_for_output)

NeedsBumping(dpb, pic) ==
  /\ ~HasEmptyFrameBuffer(dpb)
  /\ \/ pic.nonexisting
     \/ IsRef(pic) /\ ~pic.is_idr
     \/ \E i \in Bumpable(dpb) : dpb.entries[i].poc < pic.poc

BumpAt(s, i) ==
  [dpb |-> Change(s.dpb, {i}, LAMBDA p : [p EXCEPT !.needed_for_output = FALSE]),
   out |-> Append(s.out, s.dpb.entries[i].n)]

(* Mutant: the oldest picture is bumped.                                   *)
BumpOldest(s) == BumpAt(s, Least(s.dpb, Bumpable(s.dpb), LAMBDA p : p.n))

Bump(s) == BumpAt(s, Least(s.dpb, Bumpable(s.dpb), LAMBDA p : p.poc))

(* A round of the loop, and all of them: each bumps an entry, so that it   *)
(* has ended after as many rounds as there are entries that wait.          *)
BumpOnceIfNeeded(s, pic) ==
  IF /\ NeedsBumping(s.dpb, pic)
     /\ Fullness(s.dpb) >= s.dpb.max_num_reorder_frames
     /\ Bumpable(s.dpb) # {}
    THEN [Bump(s) EXCEPT !.dpb = RemoveUnused(@)]
    ELSE s

BumpAsNeeded(dpb, pic) ==
  LET after[round \in 0..Cardinality(Bumpable(dpb))] ==
        IF round = 0 THEN [dpb |-> dpb, out |-> <<>>]
                     ELSE BumpOnceIfNeeded(after[round - 1], pic)
  IN after[Cardinality(Bumpable(dpb))]

Drain(dpb) ==
  LET after[round \in 0..Cardinality(Bumpable(dpb))] ==
        IF round = 0 THEN [dpb |-> dpb, out |-> <<>>]
                     ELSE Bump(after[round - 1])
  IN [after[Cardinality(Bumpable(dpb))] EXCEPT !.dpb = Clear(@)]

-----------------------------------------------------------------------------
(* Reference picture marking, 8.2.5.                                       *)

(* The short-term references with the lowest frame_num_wrap go until there *)
(* is room for one more; long-term ones stay, whatever their number.       *)
SlidingWindowMarking(dpb, max_num_ref_frames) ==
  LET window == IF max_num_ref_frames = 0 THEN 1 ELSE max_num_ref_frames
      excess == NumRefFrames(dpb) - window + 1
      older(i, j) == \/ dpb.entries[j].pic_num < dpb.entries[i].pic_num
                     \/ dpb.entries[j].pic_num = dpb.entries[i].pic_num /\ j < i
      oldest == {i \in ShortTerms(dpb) :
                   Cardinality({j \in ShortTerms(dpb) : older(i, j)}) < excess}
  IN IF excess <= 0 THEN dpb ELSE RemoveUnused(Unmark(dpb, oldest))

(* The memory management operations: each takes and returns the buffer and *)
(* the current picture m.pic, which is not in it.  Those that look for a   *)
(* picture fail if there is none, or (3) none that exists.                 *)
ShortTermWith(dpb, pic_num) ==
  {i \in ShortTerms(dpb) : dpb.entries[i].pic_num = pic_num}
LongTermWith(dpb, idx) ==
  {i \in LongTerms(dpb) : dpb.entries[i].long_term_frame_idx = idx}
First(places) == {i \in places : \A j \in places : i <= j}

(* Of the pictures with an index that is assigned anew the first goes.     *)
FreeLongTermIdx(dpb, idx) == Unmark(dpb, First(LongTermWith(dpb, idx)))
AssignLongTerm(p, idx) == [p EXCEPT !.reference = "LongTerm", !.long_term_frame_idx = idx]
Assign(dpb, places, idx) == Change(dpb, places, LAMBDA p : AssignLongTerm(p, idx))

MmcoOp1(m, op) ==
  LET target == First(ShortTermWith(m.dpb, op.pic_num)) IN
  IF target = {} THEN [m EXCEPT !.ok = FALSE] ELSE [m EXCEPT !.dpb = Unmark(@, target)]

MmcoOp2(m, op) ==
  LET target == First(LongTermWith(m.dpb, op.idx)) IN
  IF target = {} THEN [m EXCEPT !.ok = FALSE] ELSE [m EXCEPT !.dpb = Unmark(@, target)]

MmcoOp3(m, op) ==
  LET target == First(ShortTermWith(m.dpb, op.pic_num)) IN
  IF target = {} \/ \E i \in target : m.dpb.entries[i].nonexisting
    THEN [m EXCEPT !.ok = FALSE]
    ELSE [m EXCEPT !.dpb = Assign(FreeLongTermIdx(@, op.idx), target, op.idx)]

MmcoOp4(m, op) ==
  [m EXCEPT !.dpb = Unmark(@, {i \in LongTerms(@) : @.entries[i].long_term_frame_idx > op.idx})]

(* The picture takes the place of an IDR picture in what follows.          *)
MmcoOp5(m) ==
  [m EXCEPT !.dpb = MarkAllAsUnusedForRef(@),
            !.pic = [@ EXCEPT !.has_mmco_5 = TRUE, !.frame_num = 0, !.poc = 0]]

(* Mutant: the index is assigned anew without being freed.                 *)
MmcoOp6Keeping(m, op) == [m EXCEPT !.pic = AssignLongTerm(@, op.idx)]

MmcoOp6(m, op) ==
  [m EXCEPT !.dpb = FreeLongTermIdx(@, op.idx), !.pic = AssignLongTerm(@, op.idx)]

(* handle_memory_management_ops, up to the first that fails.               *)
MemoryManagementOp(m, op) ==
  CASE ~m.ok -> m
    [] m.ok /\ op.op = 1 -> MmcoOp1(m, op)
    [] m.ok /\ op.op = 2 -> MmcoOp2(m, op)
    [] m.ok /\ op.op = 3 -> MmcoOp3(m, op)
    [] m.ok /\ op.op = 4 -> MmcoOp4(m, op)
    [] m.ok /\ op.op = 5 -> MmcoOp5(m)
    [] m.ok /\ op.op = 6 -> MmcoOp6(m, op)

AllOps(m, ops) ==
  LET after[k \in 0..Len(ops)] ==
        IF k = 0 THEN m ELSE MemoryManagementOp(after[k - 1], ops[k])
  IN after[Len(ops)]

(* reference_pic_marking, for a current picture that is a reference.       *)
ReferencePicMarking(dpb, pic, marking, max_num_ref_frames) ==
  LET m == [dpb |-> dpb, pic |-> pic, ok |-> TRUE] IN
  CASE pic.is_idr ->
         [m EXCEPT !.dpb = MarkAllAsUnusedForRef(@),
                   !.pic = IF marking.long_term_reference_flag
                             THEN AssignLongTerm(@, 0) ELSE @]
    [] ~pic.is_idr /\ marking.adaptive -> AllOps(m, marking.ops)
    [] OTHER -> [m EXCEPT !.dpb = SlidingWindowMarking(@, max_num_ref_frames)]
=============================================================================
