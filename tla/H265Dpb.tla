-------------------------------- MODULE H265Dpb --------------------------------
(***************************************************************************)
(* The decoded picture buffer of the H.265 decoder (src/codec/h265/dpb.rs) *)
(* as operators on its value.  entries is a function from the numbers of   *)
(* the pictures, in decoding order, to the pictures.  They are stored in   *)
(* that order, so that it is the one of the Vec, and every search returns  *)
(* the first that qualifies, or Missing if there is none.                  *)
(***************************************************************************)
EXTENDS Integers, Sequences, FiniteSets, FiniteSetsExt

Missing == 0

EmptyDpb(max_num_pics) == [entries |-> <<>>, max_num_pics |-> max_num_pics]

IsRef(p) == p.reference # "None"
At(dpb, Test(_)) == {n \in DOMAIN dpb.entries : Test(dpb.entries[n])}
References(dpb) == At(dpb, IsRef)

Change(dpb, To(_)) == [dpb EXCEPT !.entries = [n \in DOMAIN @ |-> To(@[n])]]

MarkAllAsUnusedForRef(dpb) == Change(dpb, LAMBDA p : [p EXCEPT !.reference = "None"])
MarkAs(dpb, pictures, reference) ==
  LET Marked(p) == [p EXCEPT !.reference = reference] IN
  [dpb EXCEPT !.entries = [n \in DOMAIN @ |-> IF n \in pictures THEN Marked(@[n]) ELSE @[n]]]

First(pictures) == IF pictures = {} THEN Missing ELSE Min(pictures)

FindRefByPoc(dpb, poc) == First(At(dpb, LAMBDA p : IsRef(p) /\ p.poc = poc))

(* mask is max_lsb - 1, a power of two less one.                           *)
FindRefByPocMasked(dpb, poc, max_lsb) ==
  First(At(dpb, LAMBDA p : IsRef(p) /\ p.poc % max_lsb = poc))

FindShortTermRefByPoc(dpb, poc) ==
  First(At(dpb, LAMBDA p : p.reference = "ShortTerm" /\ p.poc = poc))

(* Mutant: what is no reference goes, even if it waits for output.         *)
RemoveUnreferenced(dpb) == [dpb EXCEPT !.entries = RestrictValues(@, IsRef)]

RemoveUnused(dpb) ==
  [dpb EXCEPT !.entries = RestrictValues(@, LAMBDA p : p.needed_for_output \/ IsRef(p))]

Clear(dpb) == EmptyDpb(dpb.max_num_pics)

(* store_picture: if it fails, and if not.                                 *)
Fullness(dpb) == Cardinality(DOMAIN dpb.entries)
IsFull(dpb) == Fullness(dpb) >= dpb.max_num_pics
StorePicture(dpb, pic) ==
  LET Later(p) == [p EXCEPT !.pic_latency_cnt = p.pic_latency_cnt + 1]
      stored == [pic EXCEPT !.needed_for_output = pic.pic_output_flag, !.reference = "ShortTerm"]
  IN [dpb EXCEPT !.entries =
        [n \in DOMAIN @ \cup {pic.n} |-> IF n = pic.n THEN stored ELSE Later(@[n])]]

-----------------------------------------------------------------------------
(* Bumping.  out is what was bumped, in order.                             *)

Waiting(dpb) == At(dpb, LAMBDA p : p.needed_for_output)

(* Mutant: a picture does not wait for the last of those reordered.        *)
NeedsAdditionalBumpingEarly(dpb, sps) ==
  Cardinality(Waiting(dpb)) >= sps.max_num_reorder_pics

(* C.5.2.3, after a picture, and C.5.2.2, before one.                      *)
NeedsAdditionalBumping(dpb, sps) ==
  \/ Cardinality(Waiting(dpb)) > sps.max_num_reorder_pics
  \/ /\ sps.max_latency_increase_plus1 # 0
     /\ \E n \in Waiting(dpb) : dpb.entries[n].pic_latency_cnt >= sps.max_latency_increase_plus1
NeedsBumping(dpb, sps) ==
  NeedsAdditionalBumping(dpb, sps) \/ Fullness(dpb) >= sps.max_dec_pic_buffering

(* The first picture that has the lowest POC of those waiting.             *)
LowestPocForBumping(dpb) ==
  LET lowest == Min({dpb.entries[n].poc : n \in Waiting(dpb)}) IN
  Min(At(dpb, LAMBDA p : p.poc = lowest))

Bump(s, flush) ==
  LET n == LowestPocForBumping(s.dpb) IN
  [dpb |-> IF IsRef(s.dpb.entries[n]) /\ ~flush
             THEN [s.dpb EXCEPT !.entries[n].needed_for_output = FALSE]
             ELSE [s.dpb EXCEPT !.entries = Restrict(@, DOMAIN @ \ {n})],
   out |-> Append(s.out, n)]

(* The loops, by when they run.  They have ended after as many rounds as   *)
(* there are entries, as each round bumps a picture that waits.            *)
Needed(dpb, sps, when) ==
  \/ when = "BeforeDecoding" /\ NeedsBumping(dpb, sps)
  \/ when = "AfterDecoding" /\ NeedsAdditionalBumping(dpb, sps)
  \/ when = "Draining"

BumpOnceIfNeeded(s, sps, when) ==
  IF Waiting(s.dpb) # {} /\ Needed(s.dpb, sps, when) THEN Bump(s, when = "Draining") ELSE s

BumpAsNeeded(dpb, sps, when) ==
  LET after[round \in 0..Fullness(dpb)] ==
        IF round = 0 THEN [dpb |-> dpb, out |-> <<>>]
                     ELSE BumpOnceIfNeeded(after[round - 1], sps, when)
  IN after[Fullness(dpb)]

Drain(dpb) == [BumpAsNeeded(dpb, <<>>, "Draining") EXCEPT !.dpb = Clear(dpb)]
=============================================================================
