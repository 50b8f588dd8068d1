--------------------------- MODULE H264DecoderProofs ---------------------------
(***************************************************************************)
(* Theorems of H264Decoder, for every set of streams, any number of        *)
(* pictures and any limits of the decoded picture buffer.                  *)
(***************************************************************************)
EXTENDS H264Decoder, FiniteSetTheorems, SequenceTheorems, WellFoundedInduction, TLAPS

(* Induction over a number of rounds.                                      *)
LEMMA SetInduction ==
  ASSUME NEW S, 0 \in S, \A n \in Nat : n \in S => n + 1 \in S
  PROVE  \A n \in Nat : n \in S
<1> DEFINE R == OpToRel(<, Nat)
           T == Nat \ S
<1> SUFFICES ASSUME T # {} PROVE FALSE
  OBVIOUS
<1>1. IsWellFoundedOn(R, Nat)
  BY NatLessThanWellFounded
<1>2. \A m, n \in Nat : m < n => <<m, n>> \in R
  BY DEF OpToRel
<1>3. T \in SUBSET Nat /\ T # {}
  OBVIOUS
<1> HIDE DEF R
<1>4. PICK n \in T : \A m \in T : ~ (<<m, n>> \in R)
  <2> HIDE DEF T
  <2>1. QED BY <1>1, <1>3, WFMin
<1>5. n \in Nat /\ n # 0 /\ n \notin S
  BY <1>4
<1>6. n - 1 \in Nat /\ (n - 1) + 1 = n /\ n - 1 < n
  BY <1>5
<1>7. n - 1 \in S
  BY <1>2, <1>4, <1>5, <1>6
<1>8. QED BY <1>5, <1>6, <1>7

-----------------------------------------------------------------------------
(* A decoded picture buffer as a value.                                    *)

IsBuffer(d) ==
  /\ d \in [entries : {d.entries}, stored : Nat, max_num_pics : Nat \ {0},
            max_num_reorder_frames : Nat]
  /\ d.max_num_reorder_frames <= d.max_num_pics
  /\ DOMAIN d.entries \subseteq 1..d.stored
  /\ d.entries \in [DOMAIN d.entries -> Picture]

Waits(d) == {d.entries[i].n : i \in Bumpable(d)}

LEMMA PlaceSets ==
  ASSUME NEW d
  PROVE  /\ \A i : i \in Bumpable(d) <=> i \in DOMAIN d.entries /\ d.entries[i].needed_for_output
         /\ \A i : i \in References(d) <=> i \in DOMAIN d.entries /\ d.entries[i].reference # "None"
         /\ \A i : i \in ShortTerms(d) <=> i \in DOMAIN d.entries /\ d.entries[i].reference = "ShortTerm"
         /\ \A i : i \in LongTerms(d) <=> i \in DOMAIN d.entries /\ d.entries[i].reference = "LongTerm"
  BY DEF Bumpable, References, ShortTerms, LongTerms, At, IsRef

LEMMA PlacesFinite ==
  ASSUME NEW d, IsBuffer(d)
  PROVE  /\ DOMAIN d.entries \subseteq Nat
         /\ \A S \in SUBSET DOMAIN d.entries : IsFiniteSet(S) /\ Cardinality(S) \in Nat
         /\ Fullness(d) \in Nat
<1>1. DOMAIN d.entries \in SUBSET Nat /\ d.stored \in Nat /\ \A i \in DOMAIN d.entries : i <= d.stored
  BY DEF IsBuffer
<1>2. IsFiniteSet(DOMAIN d.entries)
  BY <1>1, FS_BoundedSetOfNaturals
<1>3. QED BY <1>1, <1>2, FS_Subset, FS_CardinalityType DEF Fullness

LEMMA RemoveUnusedFacts ==
  ASSUME NEW d, IsBuffer(d), NEW e, e = RemoveUnused(d)
  PROVE  /\ IsBuffer(e)
         /\ e.stored = d.stored /\ e.max_num_pics = d.max_num_pics
         /\ e.max_num_reorder_frames = d.max_num_reorder_frames
         /\ DOMAIN e.entries = References(d) \cup Bumpable(d)
         /\ \A i \in DOMAIN e.entries : e.entries[i] = d.entries[i]
<1> DEFINE kept == {i \in DOMAIN d.entries : IsRef(d.entries[i]) \/ d.entries[i].needed_for_output}
           f == [i \in kept |-> d.entries[i]]
<1>1. e = [d EXCEPT !.entries = f]
  BY DEF RemoveUnused, RestrictValues, Restrict
<1>2. kept = References(d) \cup Bumpable(d)
  BY PlaceSets DEF IsRef
<1>3. QED BY <1>1, <1>2 DEF IsBuffer

LEMMA UnmarkFacts ==
  ASSUME NEW d, IsBuffer(d), NEW places, NEW e, e = Unmark(d, places)
  PROVE  /\ IsBuffer(e)
         /\ e.stored = d.stored /\ e.max_num_pics = d.max_num_pics
         /\ e.max_num_reorder_frames = d.max_num_reorder_frames
         /\ DOMAIN e.entries = DOMAIN d.entries
         /\ \A i \in DOMAIN d.entries :
              e.entries[i] = IF i \in places THEN [d.entries[i] EXCEPT !.reference = "None"]
                                             ELSE d.entries[i]
<1> DEFINE f == [i \in DOMAIN d.entries |->
                   IF i \in places THEN [d.entries[i] EXCEPT !.reference = "None"] ELSE d.entries[i]]
<1>1. e = [d EXCEPT !.entries = f]
  BY DEF Unmark, Change
<1>2. f \in [DOMAIN d.entries -> Picture]
  BY DEF IsBuffer, Picture
<1>3. QED BY <1>1, <1>2 DEF IsBuffer

LEMMA UpdatePicNumsFacts ==
  ASSUME NEW d, IsBuffer(d), NEW frame_num \in 0..(MaxFrameNum - 1),
         NEW e, e = UpdatePicNums(d, frame_num, MaxFrameNum)
  PROVE  /\ IsBuffer(e)
         /\ e.stored = d.stored /\ e.max_num_pics = d.max_num_pics
         /\ e.max_num_reorder_frames = d.max_num_reorder_frames
         /\ DOMAIN e.entries = DOMAIN d.entries
         /\ \A i \in DOMAIN d.entries :
              e.entries[i] =
                IF i \in ShortTerms(d)
                  THEN [d.entries[i] EXCEPT !.pic_num =
                          IF d.entries[i].frame_num > frame_num
                            THEN d.entries[i].frame_num - MaxFrameNum ELSE d.entries[i].frame_num]
                  ELSE d.entries[i]
<1> DEFINE num(p) == IF p.frame_num > frame_num THEN p.frame_num - MaxFrameNum ELSE p.frame_num
           f == [i \in DOMAIN d.entries |->
                   IF i \in ShortTerms(d) THEN [d.entries[i] EXCEPT !.pic_num = num(d.entries[i])]
                                          ELSE d.entries[i]]
<1>1. e = [d EXCEPT !.entries = f]
  BY DEF UpdatePicNums, Change
<1>2. f \in [DOMAIN d.entries -> Picture]
  <2> SUFFICES ASSUME NEW i \in DOMAIN d.entries
               PROVE  [d.entries[i] EXCEPT !.pic_num = num(d.entries[i])] \in Picture
    BY DEF IsBuffer
  <2>1. d.entries[i] \in Picture
    BY DEF IsBuffer
  <2>2. num(d.entries[i]) \in Int
    BY <2>1, H264Assumption DEF Picture
  <2> HIDE DEF num
  <2>3. QED BY <2>1, <2>2 DEF Picture
<1>3. QED BY <1>1, <1>2 DEF IsBuffer

LEMMA StorePictureFacts ==
  ASSUME NEW d, IsBuffer(d), NEW pic \in Picture, NEW e, e = StorePicture(d, pic)
  PROVE  /\ IsBuffer(e)
         /\ e.stored = d.stored + 1 /\ e.max_num_pics = d.max_num_pics
         /\ e.max_num_reorder_frames = d.max_num_reorder_frames
         /\ DOMAIN e.entries = DOMAIN d.entries \cup {e.stored}
         /\ e.stored \notin DOMAIN d.entries
         /\ \A i \in DOMAIN d.entries : e.entries[i] = d.entries[i] /\ i < e.stored
         /\ e.entries[e.stored] = [pic EXCEPT !.needed_for_output = ~pic.nonexisting]
<1> DEFINE new == [pic EXCEPT !.needed_for_output = ~pic.nonexisting]
           f == [i \in DOMAIN d.entries \cup {d.stored + 1} |->
                   IF i \in DOMAIN d.entries THEN d.entries[i] ELSE new]
<1>1. e = [d EXCEPT !.entries = f, !.stored = d.stored + 1]
  BY DEF StorePicture, IsBuffer
<1>2. new \in Picture
  BY DEF Picture
<1>3. \A i \in DOMAIN d.entries : d.entries[i] \in Picture /\ i \in 1..d.stored
  BY DEF IsBuffer
<1>4. d.stored \in Nat
  BY DEF IsBuffer
<1> HIDE DEF new
<1>5. f \in [DOMAIN d.entries \cup {d.stored + 1} -> Picture]
  BY <1>2, <1>3
<1>6. DOMAIN d.entries \cup {d.stored + 1} \subseteq 1..(d.stored + 1)
  BY <1>3, <1>4
<1> HIDE DEF f
<1>7. e.entries = f /\ e.stored = d.stored + 1
  BY <1>1 DEF IsBuffer
<1>8. IsBuffer(e)
  <2>1. DOMAIN f = DOMAIN d.entries \cup {d.stored + 1}
    BY <1>5
  <2>2. DOMAIN e.entries \subseteq 1..e.stored /\ e.entries \in [DOMAIN e.entries -> Picture]
    BY <1>5, <1>6, <1>7, <2>1
  <2>3. /\ e \in [entries : {e.entries}, stored : Nat, max_num_pics : Nat \ {0},
                  max_num_reorder_frames : Nat]
        /\ e.max_num_reorder_frames <= e.max_num_pics
    <3>1. e = [entries |-> f, stored |-> d.stored + 1, max_num_pics |-> d.max_num_pics,
               max_num_reorder_frames |-> d.max_num_reorder_frames]
      BY <1>1 DEF IsBuffer
    <3>2. QED BY <1>4, <3>1 DEF IsBuffer
  <2>4. QED BY <2>2, <2>3 DEF IsBuffer
<1>9. /\ DOMAIN f = DOMAIN d.entries \cup {d.stored + 1}
      /\ \A i \in DOMAIN d.entries : f[i] = d.entries[i]
      /\ d.stored + 1 \notin DOMAIN d.entries /\ f[d.stored + 1] = new
  BY <1>3, <1>4 DEF f
<1>10. QED BY <1>1, <1>3, <1>4, <1>7, <1>8, <1>9 DEF IsBuffer, new

LEMMA EmptyDpbFacts ==
  ASSUME NEW n \in Nat \ {0}, NEW m \in Nat, m <= n, NEW e, e = EmptyDpb(n, m)
  PROVE  /\ IsBuffer(e)
         /\ e.max_num_pics = n /\ e.max_num_reorder_frames = m
         /\ DOMAIN e.entries = {}
         /\ Bumpable(e) = {} /\ References(e) = {}
<1>1. DOMAIN e.entries = {}
  BY DEF EmptyDpb
<1>2. IsBuffer(e)
  BY <1>1 DEF EmptyDpb, IsBuffer
<1>3. QED BY <1>1, <1>2, PlaceSets DEF EmptyDpb

LEMMA ClearFacts ==
  ASSUME NEW d, IsBuffer(d), NEW e, e = Clear(d)
  PROVE  /\ IsBuffer(e)
         /\ e.max_num_pics = d.max_num_pics
         /\ DOMAIN e.entries = {}
         /\ Bumpable(e) = {} /\ References(e) = {}
<1>1. d.max_num_pics \in Nat \ {0} /\ 0 <= d.max_num_pics
  BY DEF IsBuffer
<1>2. QED BY <1>1, EmptyDpbFacts DEF Clear

(* The first of the smallest of a set of places.                           *)
Smallest(i, S, f) == i \in S /\ \A j \in S : f[i] < f[j] \/ (f[i] = f[j] /\ i <= j)

LEMMA SmallestExists ==
  ASSUME NEW f, NEW D \in SUBSET Nat, \A i \in D : f[i] \in Int
  PROVE  \A n \in Nat : \A S \in SUBSET D :
           IsFiniteSet(S) /\ Cardinality(S) = n + 1 => \E i : Smallest(i, S, f)
<1> DEFINE P == {n \in Nat : \A S \in SUBSET D :
                   IsFiniteSet(S) /\ Cardinality(S) = n + 1 => \E i : Smallest(i, S, f)}
<1>1. 0 \in P
  <2> SUFFICES ASSUME NEW S \in SUBSET D, IsFiniteSet(S), Cardinality(S) = 1
               PROVE  \E i : Smallest(i, S, f)
    OBVIOUS
  <2>1. PICK i : S = {i}
    BY FS_Singleton
  <2>2. i \in D /\ i \in Nat /\ f[i] \in Int
    BY <2>1
  <2>3. Smallest(i, S, f)
    BY <2>1, <2>2 DEF Smallest
  <2>4. QED BY <2>3
<1>2. \A n \in Nat : n \in P => n + 1 \in P
  <2> SUFFICES ASSUME NEW n \in Nat, n \in P,
                      NEW S \in SUBSET D, IsFiniteSet(S), Cardinality(S) = n + 2
               PROVE  \E i : Smallest(i, S, f)
    OBVIOUS
  <2>1. S # {}
    BY FS_EmptySet
  <2>2. PICK x : x \in S
    BY <2>1
  <2>3. IsFiniteSet(S \ {x}) /\ Cardinality(S \ {x}) = n + 1
    BY <2>2, FS_RemoveElement
  <2>4. PICK i : Smallest(i, S \ {x}, f)
    BY <2>3
  <2>5. /\ i \in S /\ i \in Nat /\ x \in Nat /\ f[i] \in Int /\ f[x] \in Int
        /\ \A j \in S : j \in Nat /\ f[j] \in Int
        /\ \A j \in S : j # x => f[i] < f[j] \/ (f[i] = f[j] /\ i <= j)
    BY <2>2, <2>4 DEF Smallest
  <2>6. CASE f[i] < f[x] \/ (f[i] = f[x] /\ i <= x)
    BY <2>5, <2>6 DEF Smallest
  <2>7. CASE f[x] < f[i] \/ (f[i] = f[x] /\ x < i)
    <3>1. \A j \in S : f[x] < f[j] \/ (f[x] = f[j] /\ x <= j)
      BY <2>5, <2>7
    <3>2. QED BY <2>2, <3>1 DEF Smallest
  <2>8. QED BY <2>5, <2>6, <2>7
<1> HIDE DEF P
<1>3. \A n \in Nat : n \in P
  BY <1>1, <1>2, SetInduction
<1>4. QED BY <1>3 DEF P

LEMMA LeastByPoc ==
  ASSUME NEW d, IsBuffer(d), NEW S \in SUBSET DOMAIN d.entries, S # {},
         NEW i, i = Least(d, S, LAMBDA p : p.poc)
  PROVE  /\ i \in S /\ d.entries[i].poc \in Int
         /\ \A j \in S : d.entries[j].poc \in Int /\ d.entries[i].poc <= d.entries[j].poc
<1> DEFINE f == [j \in DOMAIN d.entries |-> d.entries[j].poc]
<1>1. DOMAIN d.entries \subseteq Nat /\ IsFiniteSet(S) /\ Cardinality(S) \in Nat
  BY PlacesFinite
<1>2. \A j \in DOMAIN d.entries : f[j] \in Int
  BY DEF IsBuffer, Picture
<1>3. Cardinality(S) - 1 \in Nat /\ Cardinality(S) = (Cardinality(S) - 1) + 1
  BY <1>1, FS_EmptySet
<1>4. \E j : Smallest(j, S, f)
  BY <1>1, <1>2, <1>3, SmallestExists
<1>5. \E j \in S : \A k \in S : d.entries[j].poc < d.entries[k].poc
                               \/ (d.entries[j].poc = d.entries[k].poc /\ j <= k)
  BY <1>4 DEF Smallest
<1>6. i \in S /\ \A k \in S : d.entries[i].poc < d.entries[k].poc
                               \/ (d.entries[i].poc = d.entries[k].poc /\ i <= k)
  BY <1>5 DEF Least
<1>7. \A j \in S : d.entries[j].poc \in Int
  BY <1>2
<1>8. QED BY <1>6, <1>7

-----------------------------------------------------------------------------
(* Bumping.                                                                *)

LEMMA Appended ==
  ASSUME NEW T, NEW s \in Seq(T), NEW x \in T
  PROVE  /\ Append(s, x) \in Seq(T) /\ Len(s) \in Nat /\ Len(Append(s, x)) = Len(s) + 1
         /\ \A k \in 1..Len(s) : Append(s, x)[k] = s[k]
         /\ Append(s, x)[Len(s) + 1] = x
         /\ Range(Append(s, x)) = Range(s) \cup {x}
<1> DEFINE t == Append(s, x)
<1>1. /\ t \in Seq(T) /\ Len(s) \in Nat /\ Len(t) = Len(s) + 1
      /\ \A k \in 1..Len(s) : t[k] = s[k]
      /\ t[Len(s) + 1] = x
  BY AppendProperties, LenProperties
<1>2. DOMAIN s = 1..Len(s) /\ DOMAIN t = 1..(Len(s) + 1)
  BY <1>1, LenProperties
<1>3. DOMAIN t = DOMAIN s \cup {Len(s) + 1}
  BY <1>1, <1>2
<1> HIDE DEF t
<1>4. Range(t) = Range(s) \cup {x}
  BY <1>1, <1>2, <1>3 DEF Range
<1>5. QED BY <1>1, <1>4 DEF t

(* Two pictures that differ at most in whether they wait.                  *)
Same(p, q) ==
  /\ q.n = p.n /\ q.poc = p.poc /\ q.frame_num = p.frame_num /\ q.pic_num = p.pic_num
  /\ q.reference = p.reference /\ q.long_term_frame_idx = p.long_term_frame_idx
  /\ q.nonexisting = p.nonexisting

(* What may have gone from d is no reference; less waits.                  *)
Survives(d, e) ==
  /\ IsBuffer(e)
  /\ e.stored = d.stored /\ e.max_num_pics = d.max_num_pics
  /\ e.max_num_reorder_frames = d.max_num_reorder_frames
  /\ DOMAIN e.entries \subseteq DOMAIN d.entries
  /\ \A i \in DOMAIN e.entries :
       /\ Same(d.entries[i], e.entries[i])
       /\ e.entries[i].needed_for_output => d.entries[i].needed_for_output
  /\ References(d) \subseteq DOMAIN e.entries

Injective(s) == \A k, l \in 1..Len(s) : s[k] = s[l] => k = l
NumbersDiffer(d) == \A i, j \in Bumpable(d) : d.entries[i].n = d.entries[j].n => i = j

(* Bumping from d has come to b: what waited is output or waits.           *)
Popped(d, b) ==
  /\ b = [dpb |-> b.dpb, out |-> b.out]
  /\ Survives(d, b.dpb)
  /\ b.out \in Seq(Waits(d))
  /\ Injective(b.out)
  /\ Range(b.out) \cap Waits(b.dpb) = {}
  /\ Range(b.out) \cup Waits(b.dpb) = Waits(d)

(* The output is in order, and before all that waits.                      *)
Ordered(d) ==
  /\ \A i \in Bumpable(d) : d.entries[i].poc = Poc(d.entries[i].n)
  /\ \A i, j \in Bumpable(d) : d.entries[i].poc = d.entries[j].poc => i = j
Ascending(b) ==
  /\ \A k, l \in 1..Len(b.out) : k < l => Poc(b.out[k]) < Poc(b.out[l])
  /\ \A k \in 1..Len(b.out) : \A n \in Waits(b.dpb) : Poc(b.out[k]) < Poc(n)

LEMMA BumpFacts ==
  ASSUME NEW b, IsBuffer(b.dpb), Bumpable(b.dpb) # {}, NEW c, c = Bump(b)
  PROVE  \E i \in Bumpable(b.dpb) :
           /\ \A j \in Bumpable(b.dpb) : /\ b.dpb.entries[i].poc \in Int
                                         /\ b.dpb.entries[j].poc \in Int
                                         /\ b.dpb.entries[i].poc <= b.dpb.entries[j].poc
           /\ c = [dpb |-> c.dpb, out |-> Append(b.out, b.dpb.entries[i].n)]
           /\ IsBuffer(c.dpb)
           /\ c.dpb.stored = b.dpb.stored /\ c.dpb.max_num_pics = b.dpb.max_num_pics
           /\ c.dpb.max_num_reorder_frames = b.dpb.max_num_reorder_frames
           /\ DOMAIN c.dpb.entries = DOMAIN b.dpb.entries
           /\ \A j \in DOMAIN b.dpb.entries : Same(b.dpb.entries[j], c.dpb.entries[j])
           /\ Bumpable(c.dpb) = Bumpable(b.dpb) \ {i}
<1> DEFINE d == b.dpb
           i == Least(d, Bumpable(d), LAMBDA p : p.poc)
           f == [j \in DOMAIN d.entries |->
                   IF j \in {i} THEN [d.entries[j] EXCEPT !.needed_for_output = FALSE] ELSE d.entries[j]]
           e == [d EXCEPT !.entries = f]
<1>1. Bumpable(d) \in SUBSET DOMAIN d.entries
  BY PlaceSets
<1>2. /\ i \in Bumpable(d)
      /\ d.entries[i].poc \in Int
      /\ \A j \in Bumpable(d) : d.entries[j].poc \in Int /\ d.entries[i].poc <= d.entries[j].poc
  BY <1>1, LeastByPoc
<1>3. c = [dpb |-> e, out |-> Append(b.out, d.entries[i].n)]
  BY DEF Bump, BumpAt, Change
<1> HIDE DEF i
<1>4. \A j \in DOMAIN d.entries :
        /\ f[j] \in Picture /\ Same(d.entries[j], f[j])
        /\ f[j].needed_for_output <=> d.entries[j].needed_for_output /\ j # i
  <2> SUFFICES ASSUME NEW j \in DOMAIN d.entries
               PROVE  /\ f[j] \in Picture /\ Same(d.entries[j], f[j])
                      /\ f[j].needed_for_output <=> d.entries[j].needed_for_output /\ j # i
    OBVIOUS
  <2>1. d.entries[j] \in Picture
    BY DEF IsBuffer
  <2>2. CASE j = i
    BY <2>1, <2>2 DEF Picture, Same
  <2>3. CASE j # i
    BY <2>1, <2>3 DEF Same
  <2>4. QED BY <2>2, <2>3
<1>5. f \in [DOMAIN d.entries -> Picture]
  BY <1>4
<1> HIDE DEF f
<1>6. /\ e.entries = f /\ e.stored = d.stored /\ e.max_num_pics = d.max_num_pics
      /\ e.max_num_reorder_frames = d.max_num_reorder_frames
      /\ IsBuffer(e)
  BY <1>5 DEF IsBuffer
<1>7. DOMAIN e.entries = DOMAIN d.entries
  BY <1>5, <1>6
<1> HIDE DEF e
<1>8. Bumpable(e) = Bumpable(d) \ {i}
  BY <1>4, <1>6, <1>7, PlaceSets
<1>9. c.dpb = e /\ c = [dpb |-> c.dpb, out |-> Append(b.out, d.entries[i].n)]
  BY <1>3
<1>10. \A j \in DOMAIN d.entries : Same(d.entries[j], c.dpb.entries[j])
  BY <1>4, <1>6, <1>9
<1>11. QED BY <1>2, <1>6, <1>7, <1>8, <1>9, <1>10

LEMMA SurvivesTrans ==
  ASSUME NEW d, NEW e, NEW f, IsBuffer(d), Survives(d, e), Survives(e, f)
  PROVE  Survives(d, f)
<1>1. References(d) \subseteq References(e)
  BY PlaceSets DEF Survives, Same
<1>2. QED BY <1>1 DEF Survives, Same

LEMMA SurvivesSelf ==
  ASSUME NEW d, IsBuffer(d)
  PROVE  Survives(d, d)
  BY PlaceSets DEF Survives, Same

LEMMA PoppedNothing ==
  ASSUME NEW d, IsBuffer(d)
  PROVE  Popped(d, [dpb |-> d, out |-> <<>>])
<1>1. <<>> \in Seq(Waits(d)) /\ Range(<<>>) = {} /\ Len(<<>>) = 0
  BY DEF Range
<1>2. QED BY <1>1, SurvivesSelf DEF Popped, Injective

(* One more is bumped.                                                     *)
Extends(t, s, x) == t = Append(s, x)

LEMMA PoppedOne ==
  ASSUME NEW d, IsBuffer(d), NumbersDiffer(d), NEW b, Popped(d, b), Bumpable(b.dpb) # {},
         NEW c, c = Bump(b)
  PROVE  /\ Popped(d, c)
         /\ Ordered(d) /\ Ascending(b) => Ascending(c)
         /\ \E i \in Bumpable(b.dpb) :
              /\ Bumpable(c.dpb) = Bumpable(b.dpb) \ {i}
              /\ Extends(c.out, b.out, d.entries[i].n)
              /\ \A j \in Bumpable(b.dpb) : b.dpb.entries[i].poc <= b.dpb.entries[j].poc
         /\ DOMAIN c.dpb.entries = DOMAIN b.dpb.entries
<1>1. IsBuffer(b.dpb)
  BY DEF Popped, Survives
<1>2. PICK i \in Bumpable(b.dpb) :
           /\ \A j \in Bumpable(b.dpb) : /\ b.dpb.entries[i].poc \in Int
                                         /\ b.dpb.entries[j].poc \in Int
                                         /\ b.dpb.entries[i].poc <= b.dpb.entries[j].poc
           /\ c = [dpb |-> c.dpb, out |-> Append(b.out, b.dpb.entries[i].n)]
           /\ IsBuffer(c.dpb)
           /\ c.dpb.stored = b.dpb.stored /\ c.dpb.max_num_pics = b.dpb.max_num_pics
           /\ c.dpb.max_num_reorder_frames = b.dpb.max_num_reorder_frames
           /\ DOMAIN c.dpb.entries = DOMAIN b.dpb.entries
           /\ \A j \in DOMAIN b.dpb.entries : Same(b.dpb.entries[j], c.dpb.entries[j])
           /\ Bumpable(c.dpb) = Bumpable(b.dpb) \ {i}
  BY <1>1, BumpFacts
<1> DEFINE x == b.dpb.entries[i].n
<1>3. Survives(b.dpb, c.dpb)
  BY <1>2, PlaceSets DEF Survives
<1>4. Survives(d, c.dpb)
  BY <1>3, SurvivesTrans DEF Popped
<1>5. \A j \in Bumpable(b.dpb) : /\ j \in Bumpable(d) /\ b.dpb.entries[j].n = d.entries[j].n
                                 /\ b.dpb.entries[j].poc = d.entries[j].poc
  BY PlaceSets DEF Popped, Survives, Same
<1>6. \A j \in Bumpable(c.dpb) : /\ j \in Bumpable(b.dpb) /\ j # i
                                 /\ c.dpb.entries[j].n = d.entries[j].n
  BY <1>2, <1>5, PlaceSets DEF Same
<1>7. x \in Waits(d) /\ x \in Waits(b.dpb) /\ x = d.entries[i].n
  BY <1>2, <1>5 DEF Waits
<1>8. Waits(c.dpb) = Waits(b.dpb) \ {x}
  <2>1. \A j \in Bumpable(b.dpb) : b.dpb.entries[j].n = x => j = i
    BY <1>2, <1>5 DEF NumbersDiffer
  <2>2. \A j \in Bumpable(b.dpb) : j # i => j \in Bumpable(c.dpb) /\ c.dpb.entries[j].n = b.dpb.entries[j].n
    BY <1>2, <1>5, <1>6
  <2>3. QED BY <1>5, <1>6, <1>7, <2>1, <2>2 DEF Waits
<1>9. /\ c.out \in Seq(Waits(d)) /\ Len(b.out) \in Nat /\ Len(c.out) = Len(b.out) + 1
      /\ \A k \in 1..Len(b.out) : c.out[k] = b.out[k]
      /\ c.out[Len(b.out) + 1] = x
      /\ Range(c.out) = Range(b.out) \cup {x}
  <2>1. b.out \in Seq(Waits(d)) /\ c.out = Append(b.out, x)
    BY <1>2 DEF Popped
  <2>2. x \in Waits(d)
    BY <1>7
  <2> HIDE DEF x
  <2>3. QED BY <2>1, <2>2, Appended
<1>10. \A k \in 1..Len(b.out) : b.out[k] \in Range(b.out) /\ b.out[k] # x
  <2>1. DOMAIN b.out = 1..Len(b.out)
    BY LenProperties DEF Popped
  <2>2. \A k \in 1..Len(b.out) : b.out[k] \in Range(b.out)
    BY <2>1 DEF Range
  <2>3. QED BY <1>7, <2>2 DEF Popped
<1>11. Injective(c.out)
  BY <1>9, <1>10 DEF Popped, Injective
<1>12. Popped(d, c)
  BY <1>2, <1>4, <1>7, <1>8, <1>9, <1>11 DEF Popped
<1>13. ASSUME Ordered(d), Ascending(b) PROVE Ascending(c)
  <2>1. \A j \in Bumpable(b.dpb) : Poc(b.dpb.entries[j].n) = b.dpb.entries[j].poc
    BY <1>5, <1>13 DEF Ordered
  <2>2. \A j \in Bumpable(b.dpb) : j # i => b.dpb.entries[i].poc < b.dpb.entries[j].poc
    BY <1>2, <1>5, <1>13 DEF Ordered
  <2>3. \A n \in Waits(c.dpb) : n \in Waits(b.dpb) /\ Poc(x) < Poc(n)
    BY <1>5, <1>6, <1>8, <2>1, <2>2 DEF Waits
  <2>4. \A k \in 1..Len(b.out) : Poc(c.out[k]) < Poc(x)
    BY <1>7, <1>9, <1>13 DEF Ascending
  <2>5. \A k \in 1..Len(c.out) : k \in 1..Len(b.out) \/ k = Len(b.out) + 1
    BY <1>9
  <2>6. QED BY <1>9, <1>13, <2>3, <2>4, <2>5 DEF Ascending
<1>14. QED BY <1>2, <1>5, <1>7, <1>12, <1>13 DEF Extends

(* The rounds of bump_as_needed.                                           *)
NeededSoFar(d, pic, n, g) ==
  g = [round \in 0..n |-> IF round = 0 THEN [dpb |-> d, out |-> <<>>]
                                       ELSE BumpOnceIfNeeded(g[round - 1], pic)]

LEMMA NeededChain ==
  ASSUME NEW d, NEW pic
  PROVE  \A n \in Nat : \E g : NeededSoFar(d, pic, n, g)
<1> DEFINE S == {n \in Nat : \E g : NeededSoFar(d, pic, n, g)}
           first == [dpb |-> d, out |-> <<>>]
<1>1. 0 \in S
  <2> DEFINE g == [round \in 0..0 |-> first]
  <2>1. NeededSoFar(d, pic, 0, g)
    BY DEF NeededSoFar
  <2>2. QED BY <2>1
<1>2. \A n \in Nat : n \in S => n + 1 \in S
  <2> SUFFICES ASSUME NEW n \in Nat, NEW g, NeededSoFar(d, pic, n, g)
               PROVE  \E h : NeededSoFar(d, pic, n + 1, h)
    OBVIOUS
  <2> DEFINE next == BumpOnceIfNeeded(g[n], pic)
             h == [round \in 0..(n + 1) |-> IF round <= n THEN g[round] ELSE next]
  <2>1. \A k \in 0..n : g[k] = IF k = 0 THEN first ELSE BumpOnceIfNeeded(g[k - 1], pic)
    BY DEF NeededSoFar
  <2>2. \A k \in 0..(n + 1) : h[k] = IF k = 0 THEN first ELSE BumpOnceIfNeeded(h[k - 1], pic)
    <3> SUFFICES ASSUME NEW k \in 0..(n + 1)
                 PROVE  h[k] = IF k = 0 THEN first ELSE BumpOnceIfNeeded(h[k - 1], pic)
      OBVIOUS
    <3>1. CASE k <= n
      <4>1. k \in 0..n /\ h[k] = g[k] /\ (k # 0 => h[k - 1] = g[k - 1])
        BY <3>1
      <4>2. QED BY <2>1, <4>1
    <3>2. CASE k = n + 1
      <4>1. k # 0 /\ h[k] = next /\ h[k - 1] = g[n]
        BY <3>2
      <4>2. QED BY <4>1
    <3>3. QED BY <3>1, <3>2
  <2>3. h = [k \in 0..(n + 1) |-> h[k]]
    OBVIOUS
  <2> HIDE DEF h
  <2>4. h = [k \in 0..(n + 1) |-> IF k = 0 THEN first ELSE BumpOnceIfNeeded(h[k - 1], pic)]
    BY <2>2, <2>3
  <2>5. NeededSoFar(d, pic, n + 1, h)
    BY <2>4 DEF NeededSoFar
  <2>6. QED BY <2>5
<1> HIDE DEF S
<1>3. \A n \in Nat : n \in S
  BY <1>1, <1>2, SetInduction
<1>4. QED BY <1>3 DEF S

Used(d) == DOMAIN d.entries = References(d) \cup Bumpable(d)
GoesOn(b, pic) ==
  /\ NeedsBumping(b.dpb, pic)
  /\ Fullness(b.dpb) >= b.dpb.max_num_reorder_frames
  /\ Bumpable(b.dpb) # {}

(* The last one that was output had to go.                                 *)
Pushed(d, pic, b) ==
  b.out # <<>> =>
    \E i \in Bumpable(d) :
      /\ d.entries[i].n = b.out[Len(b.out)]
      /\ Cardinality(References(d) \cup Bumpable(b.dpb) \cup {i}) >= d.max_num_pics
      /\ pic.nonexisting \/ (IsRef(pic) /\ ~pic.is_idr) \/ d.entries[i].poc < pic.poc

LEMMA UsedPlaces ==
  ASSUME NEW d, NEW e, IsBuffer(d), Survives(d, e), Used(e)
  PROVE  DOMAIN e.entries = References(d) \cup Bumpable(e)
<1>1. References(e) = References(d) \cap DOMAIN e.entries
  BY PlaceSets DEF Survives, Same
<1>2. QED BY <1>1, PlaceSets DEF Used, Survives

LEMMA PoppedRemoved ==
  ASSUME NEW d, IsBuffer(d), NEW b, Popped(d, b), NEW c, c = [b EXCEPT !.dpb = RemoveUnused(b.dpb)]
  PROVE  /\ Popped(d, c)
         /\ Bumpable(c.dpb) = Bumpable(b.dpb)
         /\ Waits(c.dpb) = Waits(b.dpb)
         /\ Used(c.dpb)
         /\ c.out = b.out
<1> DEFINE e == RemoveUnused(b.dpb)
<1>1. b = [dpb |-> b.dpb, out |-> b.out] /\ Survives(d, b.dpb) /\ IsBuffer(b.dpb)
  BY DEF Popped, Survives
<1>2. c.dpb = e /\ c.out = b.out /\ c = [dpb |-> c.dpb, out |-> c.out]
  BY <1>1
<1>3. /\ IsBuffer(e)
      /\ e.stored = b.dpb.stored /\ e.max_num_pics = b.dpb.max_num_pics
      /\ e.max_num_reorder_frames = b.dpb.max_num_reorder_frames
      /\ DOMAIN e.entries = References(b.dpb) \cup Bumpable(b.dpb)
      /\ \A i \in DOMAIN e.entries : e.entries[i] = b.dpb.entries[i]
  BY <1>1, RemoveUnusedFacts
<1> HIDE DEF e
<1>4. Bumpable(e) = Bumpable(b.dpb) /\ References(e) = References(b.dpb)
  <2>1. \A i : i \in Bumpable(e) <=> i \in Bumpable(b.dpb)
    BY <1>3, PlaceSets
  <2>2. \A i : i \in References(e) <=> i \in References(b.dpb)
    BY <1>3, PlaceSets
  <2>3. QED BY <2>1, <2>2
<1>5. Survives(b.dpb, e)
  BY <1>3, PlaceSets DEF Survives, Same
<1>6. Survives(d, e)
  BY <1>1, <1>5, SurvivesTrans
<1>7. Waits(e) = Waits(b.dpb)
  BY <1>3, <1>4 DEF Waits
<1>8. Used(e)
  BY <1>3, <1>4 DEF Used
<1>9. QED BY <1>2, <1>4, <1>6, <1>7, <1>8 DEF Popped

(* What a round keeps, and how far it has come.                            *)
Round(d, pic, n, k, b) ==
  /\ Popped(d, b)
  /\ Ordered(d) => Ascending(b)
  /\ Used(d) => Used(b.dpb) /\ Pushed(d, pic, b)
  /\ Cardinality(Bumpable(b.dpb)) + k <= n \/ ~GoesOn(b, pic)

LEMMA RoundGoesOn ==
  ASSUME NEW d, IsBuffer(d), NumbersDiffer(d), NEW pic \in Picture, NEW n \in Nat, NEW k \in Nat,
         NEW b, Round(d, pic, n, k, b), GoesOn(b, pic)
  PROVE  Round(d, pic, n, k + 1, [Bump(b) EXCEPT !.dpb = RemoveUnused(@)])
<1> DEFINE c == Bump(b)
           r == [c EXCEPT !.dpb = RemoveUnused(c.dpb)]
<1>1. Popped(d, b) /\ IsBuffer(b.dpb) /\ Bumpable(b.dpb) # {}
  BY DEF Round, Popped, Survives, GoesOn
<1>0. c = Bump(b)
  OBVIOUS
<1> HIDE DEF c
<1>2. /\ Popped(d, c)
      /\ Ordered(d) /\ Ascending(b) => Ascending(c)
      /\ \E i \in Bumpable(b.dpb) :
           /\ Bumpable(c.dpb) = Bumpable(b.dpb) \ {i}
           /\ Extends(c.out, b.out, d.entries[i].n)
           /\ \A j \in Bumpable(b.dpb) : b.dpb.entries[i].poc <= b.dpb.entries[j].poc
  BY <1>0, <1>1, PoppedOne
<1>3. PICK i \in Bumpable(b.dpb) :
           /\ Bumpable(c.dpb) = Bumpable(b.dpb) \ {i}
           /\ Extends(c.out, b.out, d.entries[i].n)
           /\ \A j \in Bumpable(b.dpb) : b.dpb.entries[i].poc <= b.dpb.entries[j].poc
  BY <1>2
<1>4. /\ Popped(d, r) /\ Bumpable(r.dpb) = Bumpable(c.dpb) /\ Waits(r.dpb) = Waits(c.dpb)
      /\ Used(r.dpb) /\ r.out = c.out
  BY <1>2, PoppedRemoved
<1>5. Ordered(d) => Ascending(r)
  BY <1>2, <1>4 DEF Round, Ascending
<1>6. Cardinality(Bumpable(r.dpb)) + (k + 1) <= n
  <2>1. IsFiniteSet(Bumpable(b.dpb)) /\ Cardinality(Bumpable(b.dpb)) \in Nat
    BY <1>1, PlacesFinite, PlaceSets
  <2>2. Cardinality(Bumpable(r.dpb)) = Cardinality(Bumpable(b.dpb)) - 1
    <3>1. Cardinality(Bumpable(b.dpb) \ {i}) = Cardinality(Bumpable(b.dpb)) - 1
      BY <2>1, FS_RemoveElement
    <3>2. QED BY <1>3, <1>4, <3>1
  <2>3. QED BY <2>1, <2>2 DEF Round
<1>7. ASSUME Used(d) PROVE Pushed(d, pic, r)
  <2>1. Used(b.dpb) /\ Survives(d, b.dpb)
    BY <1>7 DEF Round, Popped
  <2>2. i \in Bumpable(d) /\ d.entries[i].poc = b.dpb.entries[i].poc
    BY <1>3, <2>1, PlaceSets DEF Survives, Same
  <2>3. d.entries[i].n = r.out[Len(r.out)]
    <3>1. d.entries[i].n \in Waits(d) /\ b.out \in Seq(Waits(d))
      BY <1>1, <2>2 DEF Waits, Popped
    <3>2. QED BY <1>3, <1>4, <3>1, Appended DEF Extends
  <2>4. References(d) \cup Bumpable(r.dpb) \cup {i} = DOMAIN b.dpb.entries
    BY <1>3, <1>4, <2>1, UsedPlaces
  <2>5. Cardinality(DOMAIN b.dpb.entries) >= d.max_num_pics
    <3>1. Fullness(b.dpb) \in Nat /\ b.dpb.max_num_pics = d.max_num_pics /\ d.max_num_pics \in Nat
      BY <1>1, <2>1, PlacesFinite DEF IsBuffer, Survives
    <3>2. QED BY <3>1 DEF GoesOn, NeedsBumping, HasEmptyFrameBuffer, Fullness
  <2>6. pic.nonexisting \/ (IsRef(pic) /\ ~pic.is_idr) \/ d.entries[i].poc < pic.poc
    <3>1. \A j \in Bumpable(b.dpb) : b.dpb.entries[j].poc \in Int
      BY <1>1, PlaceSets DEF IsBuffer, Picture
    <3>2. pic.poc \in Int
      BY DEF Picture
    <3>3. QED BY <1>3, <2>2, <3>1, <3>2 DEF GoesOn, NeedsBumping
  <2>7. QED BY <2>2, <2>3, <2>4, <2>5, <2>6 DEF Pushed
<1>8. Round(d, pic, n, k + 1, r)
  BY <1>4, <1>5, <1>6, <1>7 DEF Round
<1>9. QED BY <1>8 DEF c

LEMMA BumpedAsNeeded ==
  ASSUME NEW d, IsBuffer(d), NumbersDiffer(d), NEW pic \in Picture,
         NEW b, b = BumpAsNeeded(d, pic)
  PROVE  /\ Popped(d, b)
         /\ Ordered(d) => Ascending(b)
         /\ Used(d) => Used(b.dpb) /\ Pushed(d, pic, b)
         /\ ~GoesOn(b, pic)
<1> DEFINE n == Cardinality(Bumpable(d))
           first == [dpb |-> d, out |-> <<>>]
           after == CHOOSE g : NeededSoFar(d, pic, n, g)
<1>1. n \in Nat
  BY PlacesFinite, PlaceSets
<1>2. b = after[n]
  BY DEF BumpAsNeeded, NeededSoFar
<1> HIDE DEF n
<1>3. NeededSoFar(d, pic, n, after)
  BY <1>1, NeededChain
<1> HIDE DEF after
<1>4. \A k \in 0..n : after[k] = IF k = 0 THEN first ELSE BumpOnceIfNeeded(after[k - 1], pic)
  BY <1>3 DEF NeededSoFar
<1> DEFINE S == {k \in Nat : k <= n => Round(d, pic, n, k, after[k])}
<1>5. 0 \in S
  <2>1. after[0] = first
    BY <1>1, <1>4
  <2>2. Ascending(first) /\ Pushed(d, pic, first)
    BY DEF Ascending, Pushed
  <2>3. Popped(d, first)
    BY PoppedNothing
  <2>4. Round(d, pic, n, 0, first)
    BY <1>1, <2>2, <2>3 DEF Round, n
  <2>5. QED BY <2>1, <2>4
<1>6. \A k \in Nat : k \in S => k + 1 \in S
  <2> SUFFICES ASSUME NEW k \in Nat, Round(d, pic, n, k, after[k]), k + 1 <= n
               PROVE  Round(d, pic, n, k + 1, after[k + 1])
    BY <1>1
  <2>1. after[k + 1] = BumpOnceIfNeeded(after[k], pic)
    BY <1>1, <1>4
  <2>2. CASE GoesOn(after[k], pic)
    <3>1. after[k + 1] = [Bump(after[k]) EXCEPT !.dpb = RemoveUnused(@)]
      BY <2>1, <2>2 DEF BumpOnceIfNeeded, GoesOn
    <3>2. QED BY <1>1, <2>2, <3>1, RoundGoesOn
  <2>3. CASE ~GoesOn(after[k], pic)
    <3>1. after[k + 1] = after[k]
      BY <2>1, <2>3 DEF BumpOnceIfNeeded, GoesOn
    <3>2. QED BY <2>3, <3>1 DEF Round
  <2>4. QED BY <2>2, <2>3
<1> HIDE DEF S
<1>7. \A k \in Nat : k \in S
  BY <1>5, <1>6, SetInduction
<1>8. Round(d, pic, n, n, b)
  BY <1>1, <1>2, <1>7 DEF S
<1>9. ~GoesOn(b, pic)
  <2>1. SUFFICES ASSUME Cardinality(Bumpable(b.dpb)) + n <= n
                 PROVE  Bumpable(b.dpb) = {}
    BY <1>8 DEF Round, GoesOn
  <2>2. IsFiniteSet(Bumpable(b.dpb)) /\ Cardinality(Bumpable(b.dpb)) \in Nat
    BY <1>8, PlacesFinite, PlaceSets DEF Round, Popped, Survives
  <2>3. Cardinality(Bumpable(b.dpb)) = 0
    BY <1>1, <2>1, <2>2
  <2>4. QED BY <2>2, <2>3, FS_EmptySet
<1>10. QED BY <1>8, <1>9 DEF Round

(* The rounds of drain, all of them to the end.                            *)
DrainedSoFar(d, n, g) ==
  g = [round \in 0..n |-> IF round = 0 THEN [dpb |-> d, out |-> <<>>] ELSE Bump(g[round - 1])]

LEMMA DrainChain ==
  ASSUME NEW d
  PROVE  \A n \in Nat : \E g : DrainedSoFar(d, n, g)
<1> DEFINE S == {n \in Nat : \E g : DrainedSoFar(d, n, g)}
           first == [dpb |-> d, out |-> <<>>]
<1>1. 0 \in S
  <2> DEFINE g == [round \in 0..0 |-> first]
  <2>1. DrainedSoFar(d, 0, g)
    BY DEF DrainedSoFar
  <2>2. QED BY <2>1
<1>2. \A n \in Nat : n \in S => n + 1 \in S
  <2> SUFFICES ASSUME NEW n \in Nat, NEW g, DrainedSoFar(d, n, g)
               PROVE  \E h : DrainedSoFar(d, n + 1, h)
    OBVIOUS
  <2> DEFINE next == Bump(g[n])
             h == [round \in 0..(n + 1) |-> IF round <= n THEN g[round] ELSE next]
  <2>1. \A k \in 0..n : g[k] = IF k = 0 THEN first ELSE Bump(g[k - 1])
    BY DEF DrainedSoFar
  <2>2. \A k \in 0..(n + 1) : h[k] = IF k = 0 THEN first ELSE Bump(h[k - 1])
    <3> SUFFICES ASSUME NEW k \in 0..(n + 1)
                 PROVE  h[k] = IF k = 0 THEN first ELSE Bump(h[k - 1])
      OBVIOUS
    <3>1. CASE k <= n
      <4>1. k \in 0..n /\ h[k] = g[k] /\ (k # 0 => h[k - 1] = g[k - 1])
        BY <3>1
      <4>2. QED BY <2>1, <4>1
    <3>2. CASE k = n + 1
      <4>1. k # 0 /\ h[k] = next /\ h[k - 1] = g[n]
        BY <3>2
      <4>2. QED BY <4>1
    <3>3. QED BY <3>1, <3>2
  <2>3. h = [k \in 0..(n + 1) |-> h[k]]
    OBVIOUS
  <2> HIDE DEF h
  <2>4. h = [k \in 0..(n + 1) |-> IF k = 0 THEN first ELSE Bump(h[k - 1])]
    BY <2>2, <2>3
  <2>5. DrainedSoFar(d, n + 1, h)
    BY <2>4 DEF DrainedSoFar
  <2>6. QED BY <2>5
<1> HIDE DEF S
<1>3. \A n \in Nat : n \in S
  BY <1>1, <1>2, SetInduction
<1>4. QED BY <1>3 DEF S

LEMMA Drained ==
  ASSUME NEW d, IsBuffer(d), NumbersDiffer(d), NEW r, r = Drain(d)
  PROVE  /\ r = [dpb |-> r.dpb, out |-> r.out]
         /\ IsBuffer(r.dpb) /\ r.dpb.max_num_pics = d.max_num_pics
         /\ DOMAIN r.dpb.entries = {}
         /\ r.out \in Seq(Waits(d))
         /\ Injective(r.out)
         /\ Range(r.out) = Waits(d)
         /\ Ordered(d) => \A k, l \in 1..Len(r.out) : k < l => Poc(r.out[k]) < Poc(r.out[l])
<1> DEFINE n == Cardinality(Bumpable(d))
           first == [dpb |-> d, out |-> <<>>]
           after == CHOOSE g : DrainedSoFar(d, n, g)
           Good(k) == /\ Popped(d, after[k])
                      /\ Ordered(d) => Ascending(after[k])
                      /\ Cardinality(Bumpable(after[k].dpb)) = n - k
<1>1. n \in Nat
  BY PlacesFinite, PlaceSets
<1>2. r = [after[n] EXCEPT !.dpb = Clear(after[n].dpb)]
  BY DEF Drain, DrainedSoFar
<1>3. DrainedSoFar(d, n, after)
  BY <1>1, DrainChain
<1> HIDE DEF after
<1>4. \A k \in 0..n : after[k] = IF k = 0 THEN first ELSE Bump(after[k - 1])
  BY <1>3 DEF DrainedSoFar
<1> DEFINE S == {k \in Nat : k <= n => Good(k)}
<1>5. 0 \in S
  <2>1. after[0] = first
    BY <1>1, <1>4
  <2>2. Ascending(first)
    BY DEF Ascending
  <2>3. Popped(d, first)
    BY PoppedNothing
  <2>4. QED BY <1>1, <2>1, <2>2, <2>3
<1>6. \A k \in Nat : k \in S => k + 1 \in S
  <2> SUFFICES ASSUME NEW k \in Nat, Good(k), k + 1 <= n
               PROVE  Good(k + 1)
    BY <1>1
  <2> DEFINE b == after[k]
             c == after[k + 1]
  <2>1. c = Bump(b)
    BY <1>1, <1>4
  <2> HIDE DEF c, n
  <2>2. IsFiniteSet(Bumpable(b.dpb)) /\ Cardinality(Bumpable(b.dpb)) \in Nat
    BY PlacesFinite, PlaceSets DEF Popped, Survives
  <2>3. Bumpable(b.dpb) # {}
    BY <1>1, <2>2, FS_EmptySet
  <2> HIDE DEF b
  <2>4. Popped(d, b) /\ (Ordered(d) => Ascending(b)) /\ Cardinality(Bumpable(b.dpb)) = n - k
    BY DEF b
  <2>5. /\ Popped(d, c)
        /\ Ordered(d) /\ Ascending(b) => Ascending(c)
        /\ \E i \in Bumpable(b.dpb) :
             /\ Bumpable(c.dpb) = Bumpable(b.dpb) \ {i}
             /\ Extends(c.out, b.out, d.entries[i].n)
             /\ \A j \in Bumpable(b.dpb) : b.dpb.entries[i].poc <= b.dpb.entries[j].poc
    BY <2>1, <2>3, <2>4, PoppedOne
  <2>6. PICK i \in Bumpable(b.dpb) : Bumpable(c.dpb) = Bumpable(b.dpb) \ {i}
    BY <2>5
  <2>7. Cardinality(Bumpable(b.dpb) \ {i}) = Cardinality(Bumpable(b.dpb)) - 1
    BY <2>2, FS_RemoveElement DEF b
  <2>8. Cardinality(Bumpable(c.dpb)) = n - (k + 1)
    BY <1>1, <2>4, <2>6, <2>7
  <2>9. QED BY <2>4, <2>5, <2>8 DEF c
<1> HIDE DEF S
<1>7. \A k \in Nat : k \in S
  BY <1>5, <1>6, SetInduction
<1> DEFINE b == after[n]
<1>8. Popped(d, b) /\ (Ordered(d) => Ascending(b)) /\ Cardinality(Bumpable(b.dpb)) = 0
  BY <1>1, <1>7 DEF S
<1> HIDE DEF b
<1>9. IsBuffer(b.dpb) /\ b = [dpb |-> b.dpb, out |-> b.out] /\ b.dpb.max_num_pics = d.max_num_pics
  BY <1>8 DEF Popped, Survives
<1>10. Waits(b.dpb) = {}
  <2>1. IsFiniteSet(Bumpable(b.dpb))
    BY <1>9, PlacesFinite, PlaceSets
  <2>2. Bumpable(b.dpb) = {}
    BY <1>8, <2>1, FS_EmptySet
  <2>3. QED BY <2>2 DEF Waits
<1>11. r = [dpb |-> Clear(b.dpb), out |-> b.out]
  BY <1>2, <1>9 DEF b
<1>12. /\ IsBuffer(r.dpb) /\ r.dpb.max_num_pics = d.max_num_pics
       /\ DOMAIN r.dpb.entries = {}
  BY <1>9, <1>11, ClearFacts
<1>13. QED BY <1>8, <1>10, <1>11, <1>12 DEF Popped, Ascending

-----------------------------------------------------------------------------
(* Marking.                                                                *)

(* The pictures of e are of d and wait as they did.                        *)
Remarked(d, e) ==
  /\ IsBuffer(e)
  /\ e.stored = d.stored /\ e.max_num_pics = d.max_num_pics
  /\ e.max_num_reorder_frames = d.max_num_reorder_frames
  /\ DOMAIN e.entries \subseteq DOMAIN d.entries
  /\ \A i \in DOMAIN e.entries :
       /\ e.entries[i].n = d.entries[i].n /\ e.entries[i].poc = d.entries[i].poc
       /\ e.entries[i].frame_num = d.entries[i].frame_num
       /\ e.entries[i].nonexisting = d.entries[i].nonexisting
       /\ e.entries[i].needed_for_output = d.entries[i].needed_for_output
  /\ Bumpable(d) \subseteq DOMAIN e.entries

LEMMA RemarkedWaits ==
  ASSUME NEW d, NEW e, Remarked(d, e)
  PROVE  Bumpable(e) = Bumpable(d) /\ Waits(e) = Waits(d)
<1>1. \A i : i \in Bumpable(e) <=> i \in Bumpable(d)
  BY PlaceSets DEF Remarked
<1>2. Bumpable(e) = Bumpable(d)
  BY <1>1
<1>3. \A i \in Bumpable(e) : e.entries[i].n = d.entries[i].n
  BY PlaceSets DEF Remarked
<1>4. QED BY <1>2, <1>3 DEF Waits

LEMMA RemarkedTrans ==
  ASSUME NEW d, NEW e, NEW f, Remarked(d, e), Remarked(e, f)
  PROVE  Remarked(d, f)
<1>1. Bumpable(e) = Bumpable(d)
  BY RemarkedWaits
<1>2. QED BY <1>1 DEF Remarked

LEMMA RemarkedSelf ==
  ASSUME NEW d, IsBuffer(d)
  PROVE  Remarked(d, d)
  BY PlaceSets DEF Remarked

LEMMA UnmarkMarks ==
  ASSUME NEW d, IsBuffer(d), NEW places, NEW e, e = Unmark(d, places)
  PROVE  /\ Remarked(d, e)
         /\ DOMAIN e.entries = DOMAIN d.entries
         /\ References(e) = References(d) \ places
         /\ ShortTerms(e) = ShortTerms(d) \ places
         /\ LongTerms(e) = LongTerms(d) \ places
         /\ \A i \in DOMAIN d.entries :
              /\ e.entries[i].pic_num = d.entries[i].pic_num
              /\ e.entries[i].long_term_frame_idx = d.entries[i].long_term_frame_idx
<1>1. /\ IsBuffer(e)
      /\ e.stored = d.stored /\ e.max_num_pics = d.max_num_pics
      /\ e.max_num_reorder_frames = d.max_num_reorder_frames
      /\ DOMAIN e.entries = DOMAIN d.entries
      /\ \A i \in DOMAIN d.entries :
           e.entries[i] = IF i \in places THEN [d.entries[i] EXCEPT !.reference = "None"]
                                          ELSE d.entries[i]
  BY UnmarkFacts
<1>2. \A i \in DOMAIN d.entries :
        /\ e.entries[i].n = d.entries[i].n /\ e.entries[i].poc = d.entries[i].poc
        /\ e.entries[i].frame_num = d.entries[i].frame_num
        /\ e.entries[i].nonexisting = d.entries[i].nonexisting
        /\ e.entries[i].needed_for_output = d.entries[i].needed_for_output
        /\ e.entries[i].pic_num = d.entries[i].pic_num
        /\ e.entries[i].long_term_frame_idx = d.entries[i].long_term_frame_idx
        /\ e.entries[i].reference = IF i \in places THEN "None" ELSE d.entries[i].reference
  <2> SUFFICES ASSUME NEW i \in DOMAIN d.entries
               PROVE  /\ e.entries[i].n = d.entries[i].n /\ e.entries[i].poc = d.entries[i].poc
                      /\ e.entries[i].frame_num = d.entries[i].frame_num
                      /\ e.entries[i].nonexisting = d.entries[i].nonexisting
                      /\ e.entries[i].needed_for_output = d.entries[i].needed_for_output
                      /\ e.entries[i].pic_num = d.entries[i].pic_num
                      /\ e.entries[i].long_term_frame_idx = d.entries[i].long_term_frame_idx
                      /\ e.entries[i].reference = IF i \in places THEN "None" ELSE d.entries[i].reference
    OBVIOUS
  <2>1. d.entries[i] \in Picture
    BY DEF IsBuffer
  <2>2. QED BY <1>1, <2>1 DEF Picture
<1>3. Remarked(d, e)
  BY <1>1, <1>2, PlaceSets DEF Remarked
<1>4. \A i : /\ i \in References(e) <=> i \in References(d) /\ i \notin places
             /\ i \in ShortTerms(e) <=> i \in ShortTerms(d) /\ i \notin places
             /\ i \in LongTerms(e) <=> i \in LongTerms(d) /\ i \notin places
  BY <1>1, <1>2, PlaceSets
<1>5. QED BY <1>1, <1>2, <1>3, <1>4

LEMMA RemoveMarks ==
  ASSUME NEW d, IsBuffer(d), NEW e, e = RemoveUnused(d)
  PROVE  /\ Remarked(d, e)
         /\ Used(e)
         /\ References(e) = References(d)
         /\ ShortTerms(e) = ShortTerms(d)
         /\ LongTerms(e) = LongTerms(d)
         /\ \A i \in DOMAIN e.entries : i \in DOMAIN d.entries /\ e.entries[i] = d.entries[i]
<1>1. /\ IsBuffer(e)
      /\ e.stored = d.stored /\ e.max_num_pics = d.max_num_pics
      /\ e.max_num_reorder_frames = d.max_num_reorder_frames
      /\ DOMAIN e.entries = References(d) \cup Bumpable(d)
      /\ \A i \in DOMAIN e.entries : e.entries[i] = d.entries[i]
  BY RemoveUnusedFacts
<1>2. References(d) \subseteq DOMAIN d.entries /\ Bumpable(d) \subseteq DOMAIN d.entries
  BY PlaceSets
<1>3. \A i : /\ i \in References(e) <=> i \in References(d)
             /\ i \in ShortTerms(e) <=> i \in ShortTerms(d)
             /\ i \in LongTerms(e) <=> i \in LongTerms(d)
             /\ i \in Bumpable(e) <=> i \in Bumpable(d)
  BY <1>1, <1>2, PlaceSets
<1>4. Remarked(d, e)
  BY <1>1, <1>2 DEF Remarked
<1>5. Used(e)
  BY <1>1, <1>3 DEF Used
<1>6. QED BY <1>1, <1>2, <1>3, <1>4, <1>5

NumberedWindow(max_num_ref_frames) == IF max_num_ref_frames = 0 THEN 1 ELSE max_num_ref_frames

(* Whatever the window, only short-term references lose their marks.       *)
LEMMA SlidingMarks ==
  ASSUME NEW d, IsBuffer(d), NEW max \in Nat, NEW e, e = SlidingWindowMarking(d, max)
  PROVE  /\ Remarked(d, e)
         /\ Used(d) => Used(e)
         /\ LongTerms(e) = LongTerms(d)
         /\ References(e) \subseteq References(d)
         /\ \A i \in DOMAIN e.entries :
              /\ e.entries[i].pic_num = d.entries[i].pic_num
              /\ e.entries[i].long_term_frame_idx = d.entries[i].long_term_frame_idx
<1> DEFINE window == NumberedWindow(max)
           excess == NumRefFrames(d) - window + 1
           older(i, j) == \/ d.entries[j].pic_num < d.entries[i].pic_num
                          \/ d.entries[j].pic_num = d.entries[i].pic_num /\ j < i
           oldest == {i \in ShortTerms(d) : Cardinality({j \in ShortTerms(d) : older(i, j)}) < excess}
           u == Unmark(d, oldest)
<1>1. e = IF excess <= 0 THEN d ELSE RemoveUnused(u)
  BY DEF SlidingWindowMarking, NumberedWindow
<1>2. oldest \subseteq ShortTerms(d)
  OBVIOUS
<1> HIDE DEF oldest, excess
<1>3. CASE excess <= 0
  BY <1>1, <1>3, RemarkedSelf, PlaceSets DEF Remarked
<1>4. CASE ~(excess <= 0)
  <2>1. /\ Remarked(d, u) /\ DOMAIN u.entries = DOMAIN d.entries
        /\ References(u) = References(d) \ oldest
        /\ LongTerms(u) = LongTerms(d) \ oldest
        /\ \A i \in DOMAIN d.entries :
              /\ u.entries[i].pic_num = d.entries[i].pic_num
              /\ u.entries[i].long_term_frame_idx = d.entries[i].long_term_frame_idx
    BY UnmarkMarks
  <2>2. LongTerms(d) \ oldest = LongTerms(d)
    BY <1>2, PlaceSets
  <2> HIDE DEF u
  <2>3. IsBuffer(u)
    BY <2>1 DEF Remarked
  <2>4. e = RemoveUnused(u)
    BY <1>1, <1>4
  <2>5. /\ Remarked(u, e) /\ Used(e)
        /\ References(e) = References(u) /\ LongTerms(e) = LongTerms(u)
        /\ \A i \in DOMAIN e.entries : i \in DOMAIN u.entries /\ e.entries[i] = u.entries[i]
    BY <2>3, <2>4, RemoveMarks
  <2>6. Remarked(d, e)
    BY <2>1, <2>5, RemarkedTrans
  <2>7. QED BY <2>1, <2>2, <2>5, <2>6
<1>5. QED BY <1>3, <1>4

(* If all references are short-term ones and fit the window, the first of  *)
(* those with the lowest number goes when there is no room for another.    *)
LEMMA SlidingMakesRoom ==
  ASSUME NEW d, IsBuffer(d), NEW max \in Nat, LongTerms(d) = {},
         NumRefFrames(d) <= NumberedWindow(max), NEW e, e = SlidingWindowMarking(d, max)
  PROVE  /\ NumRefFrames(e) < NumberedWindow(max)
         /\ \/ NumRefFrames(d) < NumberedWindow(max) /\ e = d
            \/ /\ NumRefFrames(d) = NumberedWindow(max)
               /\ \E i \in References(d) :
                    /\ References(e) = References(d) \ {i}
                    /\ Smallest(i, References(d), [j \in DOMAIN d.entries |-> d.entries[j].pic_num])
<1> DEFINE window == NumberedWindow(max)
           excess == NumRefFrames(d) - window + 1
           older(i, j) == \/ d.entries[j].pic_num < d.entries[i].pic_num
                          \/ d.entries[j].pic_num = d.entries[i].pic_num /\ j < i
           oldest == {i \in ShortTerms(d) : Cardinality({j \in ShortTerms(d) : older(i, j)}) < excess}
           u == Unmark(d, oldest)
           f == [j \in DOMAIN d.entries |-> d.entries[j].pic_num]
<1>1. e = IF excess <= 0 THEN d ELSE RemoveUnused(u)
  BY DEF SlidingWindowMarking, NumberedWindow
<1>2. References(d) = ShortTerms(d) /\ References(d) \in SUBSET DOMAIN d.entries
  <2>1. \A i \in DOMAIN d.entries : d.entries[i].reference \in {"None", "ShortTerm", "LongTerm"}
    BY DEF IsBuffer, Picture
  <2>2. QED BY <2>1, PlaceSets
<1>3. /\ IsFiniteSet(References(d)) /\ NumRefFrames(d) \in Nat /\ window \in Nat \ {0}
      /\ DOMAIN d.entries \in SUBSET Nat
  BY <1>2, PlacesFinite DEF NumRefFrames, NumberedWindow
<1>4. CASE NumRefFrames(d) < window
  BY <1>1, <1>3, <1>4
<1>5. CASE NumRefFrames(d) = window
  <2>1. excess = 1
    BY <1>3, <1>5
  <2>2. NumRefFrames(d) - 1 \in Nat /\ Cardinality(References(d)) = (NumRefFrames(d) - 1) + 1
    BY <1>3, <1>5 DEF NumRefFrames
  <2>3. \A i \in DOMAIN d.entries : f[i] = d.entries[i].pic_num /\ f[i] \in Int
    BY DEF IsBuffer, Picture
  <2> HIDE DEF f
  <2>4. PICK i : Smallest(i, References(d), f)
    BY <1>2, <1>3, <2>2, <2>3, SmallestExists
  <2>5. i \in References(d) /\ \A j \in References(d) :
          d.entries[i].pic_num < d.entries[j].pic_num
            \/ (d.entries[i].pic_num = d.entries[j].pic_num /\ i <= j)
    BY <1>2, <2>3, <2>4 DEF Smallest
  <2>6. \A j \in References(d) : /\ j \in Nat /\ d.entries[j].pic_num \in Int
    BY <1>2, <1>3, <2>3
  <2>7. \A j \in ShortTerms(d) : j \in oldest <=> {k \in ShortTerms(d) : older(j, k)} = {}
    <3> SUFFICES ASSUME NEW j \in ShortTerms(d)
                 PROVE  Cardinality({k \in ShortTerms(d) : older(j, k)}) < 1
                          <=> {k \in ShortTerms(d) : older(j, k)} = {}
      BY <2>1
    <3> DEFINE K == {k \in ShortTerms(d) : older(j, k)}
    <3>1. K \in SUBSET References(d)
      BY <1>2
    <3> HIDE DEF K
    <3>2. IsFiniteSet(K) /\ Cardinality(K) \in Nat
      BY <1>3, <3>1, FS_Subset, FS_CardinalityType
    <3>3. Cardinality(K) < 1 <=> K = {}
      BY <3>2, FS_EmptySet
    <3>4. QED BY <3>3 DEF K
  <2>8. \A j \in ShortTerms(d) : {k \in ShortTerms(d) : older(j, k)} = {} <=> j = i
    <3>1. \A j \in ShortTerms(d) : j # i => older(j, i)
      BY <1>2, <2>5, <2>6
    <3>2. \A k \in ShortTerms(d) : ~older(i, k)
      BY <1>2, <2>5, <2>6
    <3>3. QED BY <1>2, <2>5, <3>1, <3>2
  <2>9. oldest = {i}
    BY <1>2, <2>5, <2>7, <2>8
  <2> HIDE DEF oldest
  <2>10. References(u) = References(d) \ {i} /\ IsBuffer(u)
    BY <2>9, UnmarkMarks DEF Remarked
  <2> HIDE DEF u
  <2>11. References(e) = References(d) \ {i}
    BY <1>1, <2>1, <2>10, RemoveMarks
  <2>12. Cardinality(References(d) \ {i}) = Cardinality(References(d)) - 1
    BY <1>3, <2>5, FS_RemoveElement
  <2>13. NumRefFrames(e) < window
    BY <1>3, <1>5, <2>11, <2>12 DEF NumRefFrames
  <2>14. QED BY <1>5, <2>4, <2>5, <2>11, <2>13 DEF f
<1>6. QED BY <1>3, <1>4, <1>5

-----------------------------------------------------------------------------
(* The memory management operations.                                       *)

LongUnique(d) ==
  \A i, j \in LongTerms(d) :
    d.entries[i].long_term_frame_idx = d.entries[j].long_term_frame_idx => i = j
NoLongTermWith(d, idx) == \A i \in LongTerms(d) : d.entries[i].long_term_frame_idx # idx

LEMMA OpFields ==
  ASSUME NEW op \in Op
  PROVE  /\ op.op \in 1..6
         /\ op.op \in {3, 6} => op.idx \in Nat
<1>1. \A i \in LongTermIdx : i \in Nat
  BY H264Assumption
<1>2. \/ op \in [op : {1}, pic_num : Int] \/ op \in [op : {2}, idx : Nat]
      \/ op \in [op : {3}, pic_num : Int, idx : LongTermIdx]
      \/ op \in [op : {4}, idx : LongTermIdx \cup {-1}] \/ op \in [op : {5}]
      \/ op \in [op : {6}, idx : LongTermIdx]
  BY DEF Op
<1>3. CASE op \in [op : {1}, pic_num : Int]
  BY <1>3
<1>4. CASE op \in [op : {2}, idx : Nat]
  BY <1>4
<1>5. CASE op \in [op : {3}, pic_num : Int, idx : LongTermIdx]
  <2>1. op.op = 3 /\ op.idx \in LongTermIdx
    BY <1>5
  <2>2. op.idx \in Nat
    BY <1>1, <2>1
  <2>3. QED BY <2>1, <2>2
<1>6. CASE op \in [op : {4}, idx : LongTermIdx \cup {-1}]
  BY <1>6
<1>7. CASE op \in [op : {5}]
  BY <1>7
<1>8. CASE op \in [op : {6}, idx : LongTermIdx]
  <2>1. op.op = 6 /\ op.idx \in LongTermIdx
    BY <1>8
  <2>2. op.idx \in Nat
    BY <1>1, <2>1
  <2>3. QED BY <2>1, <2>2
<1>9. QED BY <1>2, <1>3, <1>4, <1>5, <1>6, <1>7, <1>8

LEMMA AssignMarks ==
  ASSUME NEW d, IsBuffer(d), NEW places, NEW idx \in Nat,
         NEW e, e = Assign(d, places, idx)
  PROVE  /\ Remarked(d, e)
         /\ LongTerms(e) = LongTerms(d) \cup (places \cap DOMAIN d.entries)
         /\ DOMAIN e.entries = DOMAIN d.entries
         /\ \A i \in DOMAIN d.entries :
              e.entries[i].long_term_frame_idx =
                IF i \in places THEN idx ELSE d.entries[i].long_term_frame_idx
<1> DEFINE f == [i \in DOMAIN d.entries |->
                   IF i \in places THEN AssignLongTerm(d.entries[i], idx) ELSE d.entries[i]]
<1>1. e = [d EXCEPT !.entries = f]
  BY DEF Assign, Change
<1>2. \A i \in DOMAIN d.entries :
        /\ f[i] \in Picture
        /\ f[i].n = d.entries[i].n /\ f[i].poc = d.entries[i].poc
        /\ f[i].frame_num = d.entries[i].frame_num
        /\ f[i].nonexisting = d.entries[i].nonexisting
        /\ f[i].needed_for_output = d.entries[i].needed_for_output
        /\ f[i].reference = IF i \in places THEN "LongTerm" ELSE d.entries[i].reference
        /\ f[i].long_term_frame_idx = IF i \in places THEN idx ELSE d.entries[i].long_term_frame_idx
  <2> SUFFICES ASSUME NEW i \in DOMAIN d.entries
               PROVE  /\ f[i] \in Picture
                      /\ f[i].n = d.entries[i].n /\ f[i].poc = d.entries[i].poc
                      /\ f[i].frame_num = d.entries[i].frame_num
                      /\ f[i].nonexisting = d.entries[i].nonexisting
                      /\ f[i].needed_for_output = d.entries[i].needed_for_output
                      /\ f[i].reference = IF i \in places THEN "LongTerm" ELSE d.entries[i].reference
                      /\ f[i].long_term_frame_idx =
                           IF i \in places THEN idx ELSE d.entries[i].long_term_frame_idx
    OBVIOUS
  <2>1. d.entries[i] \in Picture
    BY DEF IsBuffer
  <2>2. QED BY <2>1 DEF Picture, AssignLongTerm
<1>3. f \in [DOMAIN d.entries -> Picture]
  BY <1>2
<1> HIDE DEF f
<1>4. IsBuffer(e) /\ e.entries = f /\ DOMAIN e.entries = DOMAIN d.entries
  BY <1>1, <1>3 DEF IsBuffer
<1>5. /\ e.stored = d.stored /\ e.max_num_pics = d.max_num_pics
      /\ e.max_num_reorder_frames = d.max_num_reorder_frames
  BY <1>1 DEF IsBuffer
<1>6. Remarked(d, e)
  BY <1>2, <1>4, <1>5, PlaceSets DEF Remarked
<1>7. \A i : i \in LongTerms(e) <=> i \in LongTerms(d) \cup (places \cap DOMAIN d.entries)
  BY <1>2, <1>4, PlaceSets
<1>8. QED BY <1>2, <1>4, <1>6, <1>7

(* The index that is assigned anew is free after that.                     *)
LEMMA FreeMarks ==
  ASSUME NEW d, IsBuffer(d), NEW idx, NEW e, e = FreeLongTermIdx(d, idx)
  PROVE  /\ Remarked(d, e)
         /\ DOMAIN e.entries = DOMAIN d.entries
         /\ LongTerms(e) \subseteq LongTerms(d)
         /\ ShortTerms(e) = ShortTerms(d)
         /\ LongUnique(d) => LongUnique(e) /\ NoLongTermWith(e, idx)
<1> DEFINE places == First(LongTermWith(d, idx))
<1>1. e = Unmark(d, places)
  BY DEF FreeLongTermIdx
<1>2. places \subseteq LongTerms(d)
  BY DEF First, LongTermWith
<1>3. ShortTerms(d) \cap LongTerms(d) = {}
  BY PlaceSets
<1>4. ASSUME LongUnique(d), NEW i \in LongTerms(d), d.entries[i].long_term_frame_idx = idx
      PROVE  i \in places
  <2>1. i \in Nat
    BY PlacesFinite, PlaceSets
  <2>2. \A j \in LongTermWith(d, idx) : j = i
    BY <1>4 DEF LongTermWith, LongUnique
  <2>3. i \in LongTermWith(d, idx) /\ \A j \in LongTermWith(d, idx) : i <= j
    BY <1>4, <2>1, <2>2 DEF LongTermWith
  <2>4. QED BY <2>3 DEF First
<1> HIDE DEF places
<1>5. /\ Remarked(d, e)
      /\ DOMAIN e.entries = DOMAIN d.entries
      /\ ShortTerms(e) = ShortTerms(d) \ places
      /\ LongTerms(e) = LongTerms(d) \ places
      /\ \A i \in DOMAIN d.entries :
           e.entries[i].long_term_frame_idx = d.entries[i].long_term_frame_idx
  BY <1>1, UnmarkMarks
<1>6. \A i \in LongTerms(e) : i \in LongTerms(d) /\ i \notin places /\ i \in DOMAIN d.entries
  BY <1>5, PlaceSets
<1>7. LongUnique(d) => LongUnique(e)
  BY <1>5, <1>6 DEF LongUnique
<1>8. LongUnique(d) => NoLongTermWith(e, idx)
  BY <1>4, <1>5, <1>6 DEF NoLongTermWith
<1>9. QED BY <1>2, <1>3, <1>5, <1>7, <1>8

(* What an operation keeps of the buffer and the current picture; which    *)
(* operation it was shows in what becomes of the picture.                  *)
Managed(m, op, r) ==
  /\ r = [dpb |-> r.dpb, pic |-> r.pic, ok |-> r.ok]
  /\ Remarked(m.dpb, r.dpb)
  /\ r.ok \in BOOLEAN
  /\ r.pic \in Picture
  /\ r.pic.n = m.pic.n /\ r.pic.nonexisting = m.pic.nonexisting
  /\ r.pic.is_idr = m.pic.is_idr
  /\ IsRef(m.pic) => IsRef(r.pic)
  /\ op.op = 5 => r.ok /\ r.pic.has_mmco_5 /\ r.pic.frame_num = 0
  /\ op.op # 5 => /\ r.pic.has_mmco_5 = m.pic.has_mmco_5
                  /\ r.pic.frame_num = m.pic.frame_num

Unassigned(m) ==
  /\ LongUnique(m.dpb)
  /\ m.pic.reference = "LongTerm" => NoLongTermWith(m.dpb, m.pic.long_term_frame_idx)

(* It leaves the picture alone, or takes its index for it.                 *)
LEMMA ManagedBuffer ==
  ASSUME NEW d, NEW pic \in Picture, pic.reference = "ShortTerm",
         NEW m, m = [dpb |-> d, pic |-> pic, ok |-> TRUE], NEW op, op.op # 5,
         NEW e, Remarked(d, e), LongUnique(d) => LongUnique(e), NEW ok \in BOOLEAN,
         NEW r, r = [dpb |-> e, pic |-> pic, ok |-> ok]
  PROVE  Managed(m, op, r) /\ (LongUnique(d) => Unassigned(r))
<1>1. m.dpb = d /\ m.pic = pic /\ r.dpb = e /\ r.pic = pic /\ r.ok = ok
  OBVIOUS
<1>2. Managed(m, op, r)
  BY <1>1 DEF Managed
<1>3. LongUnique(d) => Unassigned(r)
  BY <1>1 DEF Unassigned
<1>4. QED BY <1>2, <1>3

LEMMA ManagedPicture ==
  ASSUME NEW d, NEW pic \in Picture, NEW new \in Picture,
         new.n = pic.n, new.nonexisting = pic.nonexisting, new.is_idr = pic.is_idr, IsRef(new),
         NEW m, m = [dpb |-> d, pic |-> pic, ok |-> TRUE], NEW op,
         op.op = 5 => new.has_mmco_5 /\ new.frame_num = 0,
         op.op # 5 => new.has_mmco_5 = pic.has_mmco_5 /\ new.frame_num = pic.frame_num,
         NEW e, Remarked(d, e),
         LongUnique(d) =>
           LongUnique(e) /\ (new.reference = "LongTerm" => NoLongTermWith(e, new.long_term_frame_idx)),
         NEW r, r = [dpb |-> e, pic |-> new, ok |-> TRUE]
  PROVE  Managed(m, op, r) /\ (LongUnique(d) => Unassigned(r))
<1>1. m.dpb = d /\ m.pic = pic /\ r.dpb = e /\ r.pic = new /\ r.ok = TRUE
  OBVIOUS
<1>2. Managed(m, op, r)
  BY <1>1 DEF Managed
<1>3. LongUnique(d) => Unassigned(r)
  BY <1>1 DEF Unassigned
<1>4. QED BY <1>2, <1>3

LEMMA OneOp ==
  ASSUME NEW d, IsBuffer(d), NEW pic \in Picture, pic.reference = "ShortTerm",
         NEW m, m = [dpb |-> d, pic |-> pic, ok |-> TRUE],
         NEW op \in Op, NEW r, r = MemoryManagementOp(m, op)
  PROVE  /\ Managed(m, op, r)
         /\ LongUnique(d) => Unassigned(r)
<1>1. op.op \in 1..6 /\ (op.op \in {3, 6} => op.idx \in Nat) /\ m.ok
  BY OpFields
<1>2. Remarked(d, d)
  BY RemarkedSelf
<1>3. ASSUME NEW places
      PROVE  Remarked(d, Unmark(d, places)) /\ (LongUnique(d) => LongUnique(Unmark(d, places)))
  <2>1. /\ Remarked(d, Unmark(d, places))
        /\ LongTerms(Unmark(d, places)) = LongTerms(d) \ places
        /\ \A i \in DOMAIN d.entries :
             Unmark(d, places).entries[i].long_term_frame_idx = d.entries[i].long_term_frame_idx
    BY UnmarkMarks
  <2>2. LongTerms(d) \subseteq DOMAIN d.entries
    BY PlaceSets
  <2>3. QED BY <2>1, <2>2 DEF LongUnique
<1>4. CASE op.op = 1
  <2>1. r = MmcoOp1(m, op)
    BY <1>1, <1>4 DEF MemoryManagementOp
  <2> DEFINE target == First(ShortTermWith(d, op.pic_num))
  <2>2. r = IF target = {} THEN [dpb |-> d, pic |-> pic, ok |-> FALSE]
                           ELSE [dpb |-> Unmark(d, target), pic |-> pic, ok |-> TRUE]
    BY <2>1 DEF MmcoOp1
  <2> HIDE DEF target
  <2>3. op.op # 5 /\ (LongUnique(d) => LongUnique(Unmark(d, target))) /\ Remarked(d, Unmark(d, target))
    BY <1>3, <1>4
  <2>4. CASE target = {}
    BY <1>2, <2>2, <2>3, <2>4, ManagedBuffer
  <2>5. CASE target # {}
    BY <2>2, <2>3, <2>5, ManagedBuffer
  <2>6. QED BY <2>4, <2>5
<1>5. CASE op.op = 2
  <2>1. r = MmcoOp2(m, op)
    BY <1>1, <1>5 DEF MemoryManagementOp
  <2> DEFINE target == First(LongTermWith(d, op.idx))
  <2>2. r = IF target = {} THEN [dpb |-> d, pic |-> pic, ok |-> FALSE]
                           ELSE [dpb |-> Unmark(d, target), pic |-> pic, ok |-> TRUE]
    BY <2>1 DEF MmcoOp2
  <2> HIDE DEF target
  <2>3. op.op # 5 /\ (LongUnique(d) => LongUnique(Unmark(d, target))) /\ Remarked(d, Unmark(d, target))
    BY <1>3, <1>5
  <2>4. CASE target = {}
    BY <1>2, <2>2, <2>3, <2>4, ManagedBuffer
  <2>5. CASE target # {}
    BY <2>2, <2>3, <2>5, ManagedBuffer
  <2>6. QED BY <2>4, <2>5
<1>6. CASE op.op = 3
  <2>1. r = MmcoOp3(m, op)
    BY <1>1, <1>6 DEF MemoryManagementOp
  <2> DEFINE target == First(ShortTermWith(d, op.pic_num))
             free == FreeLongTermIdx(d, op.idx)
             e == Assign(free, target, op.idx)
  <2>2. r = IF target = {} \/ \E i \in target : d.entries[i].nonexisting
              THEN [dpb |-> d, pic |-> pic, ok |-> FALSE]
              ELSE [dpb |-> e, pic |-> pic, ok |-> TRUE]
    BY <2>1 DEF MmcoOp3
  <2>3. target \subseteq ShortTerms(d) /\ \A i, j \in target : i = j
    <3>1. target \subseteq ShortTerms(d) /\ \A i, j \in target : i <= j
      BY DEF First, ShortTermWith
    <3>2. target \subseteq Nat
      BY <3>1, PlacesFinite, PlaceSets
    <3>3. QED BY <3>1, <3>2
  <2>4. /\ Remarked(d, free) /\ DOMAIN free.entries = DOMAIN d.entries
        /\ ShortTerms(free) = ShortTerms(d)
        /\ LongUnique(d) => LongUnique(free) /\ NoLongTermWith(free, op.idx)
    BY FreeMarks
  <2> HIDE DEF free, target
  <2>5. IsBuffer(free) /\ op.idx \in Nat
    BY <1>1, <1>6, <2>4 DEF Remarked
  <2>6. /\ Remarked(free, e)
        /\ LongTerms(e) = LongTerms(free) \cup (target \cap DOMAIN free.entries)
        /\ \A i \in DOMAIN free.entries :
             e.entries[i].long_term_frame_idx =
               IF i \in target THEN op.idx ELSE free.entries[i].long_term_frame_idx
    BY <2>5, AssignMarks
  <2> HIDE DEF e
  <2>7. Remarked(d, e)
    BY <2>4, <2>6, RemarkedTrans
  <2>8. ASSUME LongUnique(d) PROVE LongUnique(e)
    <3>1. LongTerms(free) \subseteq DOMAIN free.entries /\ LongTerms(free) \cap target = {}
      BY <2>3, <2>4, PlaceSets
    <3>2. \A i \in LongTerms(e) :
            \/ i \in target /\ e.entries[i].long_term_frame_idx = op.idx
            \/ /\ i \in LongTerms(free)
               /\ e.entries[i].long_term_frame_idx = free.entries[i].long_term_frame_idx
               /\ free.entries[i].long_term_frame_idx # op.idx
      BY <2>4, <2>6, <2>8, <3>1 DEF NoLongTermWith
    <3>3. QED BY <2>3, <2>4, <2>8, <3>2 DEF LongUnique
  <2>9. CASE target = {} \/ \E i \in target : d.entries[i].nonexisting
    <3>1. r = [dpb |-> d, pic |-> pic, ok |-> FALSE]
      BY <2>2, <2>9
    <3>2. op.op # 5
      BY <1>6
    <3>3. QED BY <1>2, <3>1, <3>2, ManagedBuffer
  <2>10. CASE ~(target = {} \/ \E i \in target : d.entries[i].nonexisting)
    <3>1. r = [dpb |-> e, pic |-> pic, ok |-> TRUE]
      BY <2>2, <2>10
    <3>2. op.op # 5
      BY <1>6
    <3>3. QED BY <2>7, <2>8, <3>1, <3>2, ManagedBuffer
  <2>11. QED BY <2>9, <2>10
<1>7. CASE op.op = 4
  <2>1. r = MmcoOp4(m, op)
    BY <1>1, <1>7 DEF MemoryManagementOp
  <2> DEFINE places == {i \in LongTerms(m.dpb) : m.dpb.entries[i].long_term_frame_idx > op.idx}
  <2>2. r = [m EXCEPT !.dpb = Unmark(@, places)]
    BY <2>1 DEF MmcoOp4
  <2> HIDE DEF places
  <2>3. r = [dpb |-> Unmark(d, places), pic |-> pic, ok |-> TRUE]
    BY <2>2
  <2>4. op.op # 5
    BY <1>7
  <2>5. QED BY <1>3, <2>3, <2>4, ManagedBuffer
<1>8. CASE op.op = 5
  <2>1. r = MmcoOp5(m)
    BY <1>1, <1>8 DEF MemoryManagementOp
  <2> DEFINE places == DOMAIN d.entries
             new == [pic EXCEPT !.has_mmco_5 = TRUE, !.frame_num = 0, !.poc = 0]
  <2>2. r = [dpb |-> Unmark(d, places), pic |-> new, ok |-> TRUE]
    BY <2>1 DEF MmcoOp5, MarkAllAsUnusedForRef
  <2>3. /\ new \in Picture /\ new.n = pic.n /\ new.nonexisting = pic.nonexisting
        /\ new.is_idr = pic.is_idr /\ new.reference = pic.reference
        /\ new.has_mmco_5 /\ new.frame_num = 0
    <3>1. 0 \in 0..(MaxFrameNum - 1) /\ 0 \in Int
      BY H264Assumption
    <3> DEFINE p1 == [pic EXCEPT !.has_mmco_5 = TRUE]
               p2 == [p1 EXCEPT !.frame_num = 0]
    <3>2. p1 \in Picture /\ p1.has_mmco_5
      BY DEF Picture
    <3>3. p2 \in Picture /\ p2.has_mmco_5 /\ p2.frame_num = 0
      BY <3>1, <3>2 DEF Picture
    <3>4. new = [p2 EXCEPT !.poc = 0]
      BY DEF Picture
    <3>5. new \in Picture /\ new.has_mmco_5 /\ new.frame_num = 0
      BY <3>1, <3>3, <3>4 DEF Picture
    <3>6. QED BY <3>5 DEF Picture
  <2> HIDE DEF places, new
  <2>4. QED BY <1>3, <1>8, <2>2, <2>3, ManagedPicture DEF IsRef
<1>9. CASE op.op = 6
  <2>1. r = MmcoOp6(m, op)
    BY <1>1, <1>9 DEF MemoryManagementOp
  <2> DEFINE free == FreeLongTermIdx(d, op.idx)
             new == AssignLongTerm(pic, op.idx)
  <2>2. r = [dpb |-> free, pic |-> new, ok |-> TRUE]
    BY <2>1 DEF MmcoOp6
  <2>3. /\ Remarked(d, free)
        /\ LongUnique(d) => LongUnique(free) /\ NoLongTermWith(free, op.idx)
    BY FreeMarks
  <2>4. /\ new \in Picture /\ new.n = pic.n /\ new.nonexisting = pic.nonexisting
        /\ new.is_idr = pic.is_idr /\ new.reference = "LongTerm"
        /\ new.has_mmco_5 = pic.has_mmco_5 /\ new.frame_num = pic.frame_num
        /\ new.long_term_frame_idx = op.idx
    BY <1>1, <1>9 DEF AssignLongTerm, Picture
  <2> HIDE DEF free, new
  <2>5. QED BY <1>9, <2>2, <2>3, <2>4, ManagedPicture DEF IsRef
<1>10. QED BY <1>1, <1>4, <1>5, <1>6, <1>7, <1>8, <1>9

(* No stream has more than one operation at a time.                        *)
LEMMA AtMostOneOp ==
  ASSUME NEW m, NEW ops \in Seq(Op), Len(ops) <= 1
  PROVE  AllOps(m, ops) = IF Len(ops) = 0 THEN m ELSE MemoryManagementOp(m, ops[1])
<1> DEFINE IsChain(f) == f = [k \in 0..Len(ops) |->
                                IF k = 0 THEN m ELSE MemoryManagementOp(f[k - 1], ops[k])]
           after == CHOOSE f : IsChain(f)
           next == MemoryManagementOp(m, ops[1])
           g == [k \in 0..Len(ops) |-> IF k = 0 THEN m ELSE next]
<1>1. Len(ops) \in {0, 1}
  BY LenProperties
<1>2. IsChain(g)
  <2>1. \A k \in 0..Len(ops) : k = 0 \/ (k = 1 /\ g[k - 1] = m)
    BY <1>1
  <2>2. QED BY <2>1
<1>3. AllOps(m, ops) = after[Len(ops)]
  BY DEF AllOps
<1>4. IsChain(after)
  BY <1>2
<1> HIDE DEF after, g
<1>5. \A k \in 0..Len(ops) : after[k] = IF k = 0 THEN m ELSE MemoryManagementOp(after[k - 1], ops[k])
  BY <1>4
<1>6. 0 \in 0..Len(ops) /\ after[0] = m
  BY <1>1, <1>5
<1>7. Len(ops) = 1 => after[1] = MemoryManagementOp(after[0], ops[1])
  BY <1>1, <1>5
<1>8. QED BY <1>1, <1>3, <1>6, <1>7

(* What becomes of the buffer and the picture when it is marked.           *)
IsMarking(pic, marking) ==
  /\ marking \in Marking
  /\ Len(marking.ops) <= 1
  /\ marking.ops # <<>> => marking.adaptive
  /\ pic.is_idr => ~marking.adaptive

Marks(d, pic, marking, m) ==
  /\ m = [dpb |-> m.dpb, pic |-> m.pic, ok |-> m.ok]
  /\ Remarked(d, m.dpb)
  /\ m.ok \in BOOLEAN
  /\ m.pic \in Picture
  /\ m.pic.n = pic.n /\ m.pic.nonexisting = pic.nonexisting /\ m.pic.is_idr = pic.is_idr
  /\ IsRef(m.pic)
  /\ m.pic.has_mmco_5 <=> \E i \in DOMAIN marking.ops : marking.ops[i].op = 5
  /\ m.pic.has_mmco_5 => m.ok
  /\ m.pic.frame_num = IF m.pic.has_mmco_5 THEN 0 ELSE pic.frame_num

LEMMA MarkingFacts ==
  ASSUME NEW d, IsBuffer(d), NEW pic \in Picture, pic.reference = "ShortTerm", ~pic.has_mmco_5,
         NEW marking, IsMarking(pic, marking), NEW max \in Nat,
         NEW m, m = ReferencePicMarking(d, pic, marking, max)
  PROVE  /\ Marks(d, pic, marking, m)
         /\ LongUnique(d) /\ (pic.is_idr => DOMAIN d.entries = {}) => Unassigned(m)
         /\ ~marking.adaptive /\ ~pic.is_idr =>
              m = [dpb |-> SlidingWindowMarking(d, max), pic |-> pic, ok |-> TRUE]
         /\ pic.is_idr => m.ok
         /\ pic.is_idr /\ ~marking.long_term_reference_flag => m.pic = pic
<1> DEFINE start == [dpb |-> d, pic |-> pic, ok |-> TRUE]
<1>1. Remarked(d, d)
  BY RemarkedSelf
<1>2. marking.ops \in Seq(Op) /\ Len(marking.ops) \in {0, 1} /\ DOMAIN marking.ops = 1..Len(marking.ops)
  <2>1. marking.ops \in Seq(Op)
    BY DEF IsMarking, Marking
  <2>2. Len(marking.ops) \in Nat /\ DOMAIN marking.ops = 1..Len(marking.ops)
    BY <2>1, LenProperties
  <2>3. Len(marking.ops) <= 1
    BY DEF IsMarking
  <2>4. \A n \in Nat : n <= 1 => n \in {0, 1}
    OBVIOUS
  <2>5. QED BY <2>1, <2>2, <2>3, <2>4
<1>3. CASE pic.is_idr
  <2> DEFINE new == IF marking.long_term_reference_flag THEN AssignLongTerm(pic, 0) ELSE pic
             all == Unmark(d, DOMAIN d.entries)
  <2>1. m = [dpb |-> all, pic |-> new, ok |-> TRUE]
    BY <1>3 DEF ReferencePicMarking, MarkAllAsUnusedForRef
  <2>2. /\ new \in Picture /\ new.n = pic.n /\ new.nonexisting = pic.nonexisting
        /\ new.is_idr = pic.is_idr /\ IsRef(new) /\ new.has_mmco_5 = FALSE
        /\ new.frame_num = pic.frame_num
    <3>1. AssignLongTerm(pic, 0) \in Picture /\ AssignLongTerm(pic, 0).reference = "LongTerm"
      BY DEF AssignLongTerm, Picture
    <3>2. /\ AssignLongTerm(pic, 0).n = pic.n /\ AssignLongTerm(pic, 0).nonexisting = pic.nonexisting
          /\ AssignLongTerm(pic, 0).is_idr = pic.is_idr /\ AssignLongTerm(pic, 0).has_mmco_5 = FALSE
          /\ AssignLongTerm(pic, 0).frame_num = pic.frame_num
      BY DEF AssignLongTerm, Picture
    <3>3. CASE marking.long_term_reference_flag
      BY <3>1, <3>2, <3>3 DEF IsRef
    <3>4. CASE ~marking.long_term_reference_flag
      BY <3>4 DEF IsRef, Picture
    <3>5. QED BY <3>3, <3>4
  <2>3. ~marking.long_term_reference_flag => new = pic
    OBVIOUS
  <2>4. marking.ops = <<>> /\ DOMAIN marking.ops = {}
    BY <1>2, <1>3 DEF IsMarking
  <2>5. /\ Remarked(d, all) /\ DOMAIN all.entries = DOMAIN d.entries
        /\ LongTerms(all) = LongTerms(d) \ DOMAIN d.entries
    BY UnmarkMarks
  <2> HIDE DEF new, all
  <2>6. LongTerms(all) = {}
    BY <2>5, PlaceSets
  <2>7. Unassigned(m)
    BY <2>1, <2>6 DEF Unassigned, LongUnique, NoLongTermWith
  <2>8. m.dpb = all /\ m.pic = new /\ m.ok = TRUE
    BY <2>1
  <2>9. Marks(d, pic, marking, m)
    BY <2>1, <2>2, <2>4, <2>5, <2>8 DEF Marks
  <2>10. QED BY <1>3, <2>3, <2>7, <2>8, <2>9
<1>4. CASE ~pic.is_idr /\ ~marking.adaptive
  <2> DEFINE e == SlidingWindowMarking(d, max)
  <2>1. m = [dpb |-> e, pic |-> pic, ok |-> TRUE]
    BY <1>4 DEF ReferencePicMarking
  <2>2. /\ Remarked(d, e) /\ LongTerms(e) = LongTerms(d)
        /\ \A i \in DOMAIN e.entries : e.entries[i].long_term_frame_idx = d.entries[i].long_term_frame_idx
    BY SlidingMarks
  <2>3. marking.ops = <<>> /\ DOMAIN marking.ops = {}
    BY <1>2, <1>4 DEF IsMarking
  <2> HIDE DEF e
  <2>4. m.dpb = e /\ m.pic = pic /\ m.ok = TRUE
    BY <2>1
  <2>5. Marks(d, pic, marking, m)
    BY <2>1, <2>2, <2>3, <2>4 DEF Marks, IsRef
  <2>6. LongUnique(d) => LongUnique(e)
    <3>1. LongTerms(e) \subseteq DOMAIN e.entries
      BY PlaceSets
    <3>2. QED BY <2>2, <3>1 DEF LongUnique
  <2>7. QED BY <1>4, <2>1, <2>4, <2>5, <2>6 DEF e, Unassigned
<1>5. CASE ~pic.is_idr /\ marking.adaptive
  <2>1. m = AllOps(start, marking.ops)
    BY <1>5 DEF ReferencePicMarking
  <2>2. CASE Len(marking.ops) = 0
    <3>1. m = start /\ DOMAIN marking.ops = {}
      BY <1>2, <2>1, <2>2, AtMostOneOp
    <3>2. m.dpb = d /\ m.pic = pic /\ m.ok = TRUE
      BY <3>1
    <3>3. Marks(d, pic, marking, m)
      BY <1>1, <3>1, <3>2 DEF Marks, IsRef
    <3>4. QED BY <1>5, <3>2, <3>3 DEF Unassigned
  <2>3. CASE Len(marking.ops) = 1
    <3> DEFINE op == marking.ops[1]
    <3>1. m = MemoryManagementOp(start, op) /\ op \in Op /\ DOMAIN marking.ops = {1}
      <4>1. 1 \in 1..Len(marking.ops)
        BY <2>3
      <4>2. op \in Op
        BY <1>2, <4>1, ElementOfSeq
      <4>3. Len(marking.ops) <= 1 /\ Len(marking.ops) # 0
        BY <2>3
      <4>4. AllOps(start, marking.ops) = MemoryManagementOp(start, op)
        <5> HIDE DEF start
        <5>1. AllOps(start, marking.ops)
                = IF Len(marking.ops) = 0 THEN start ELSE MemoryManagementOp(start, marking.ops[1])
          BY <1>2, <4>3, AtMostOneOp
        <5>2. QED BY <4>3, <5>1
      <4>5. DOMAIN marking.ops = {1}
        BY <1>2, <2>3
      <4>6. QED BY <2>1, <4>2, <4>4, <4>5
    <3> HIDE DEF op
    <3>2. Managed(start, op, m) /\ (LongUnique(d) => Unassigned(m))
      BY <3>1, OneOp
    <3>3. start.dpb = d /\ start.pic = pic
      OBVIOUS
    <3>4. (\E i \in DOMAIN marking.ops : marking.ops[i].op = 5) <=> op.op = 5
      BY <3>1 DEF op
    <3> HIDE DEF start
    <3>5. Marks(d, pic, marking, m)
      <4>1. IsRef(pic)
        BY DEF IsRef
      <4>2. QED BY <3>2, <3>3, <3>4, <4>1 DEF Marks, Managed
    <3>6. QED BY <1>5, <3>2, <3>5
  <2>4. QED BY <1>2, <2>2, <2>3
<1>6. pic.is_idr \in BOOLEAN /\ marking.adaptive \in BOOLEAN
  BY DEF Picture, IsMarking, Marking
<1>7. QED BY <1>3, <1>4, <1>5, <1>6

-----------------------------------------------------------------------------
(* A call on its way.                                                      *)

LEMMA Joined ==
  ASSUME NEW T, NEW s \in Seq(T), NEW t \in Seq(T)
  PROVE  /\ s \o t \in Seq(T) /\ Len(s \o t) = Len(s) + Len(t)
         /\ Len(s) \in Nat /\ Len(t) \in Nat
         /\ \A k \in 1..Len(s) : (s \o t)[k] = s[k]
         /\ \A k \in 1..Len(t) : (s \o t)[Len(s) + k] = t[k]
         /\ Range(s \o t) = Range(s) \cup Range(t)
<1> DEFINE u == s \o t
<1>1. /\ u \in Seq(T) /\ Len(u) = Len(s) + Len(t)
      /\ \A k \in 1..(Len(s) + Len(t)) : u[k] = IF k <= Len(s) THEN s[k] ELSE t[k - Len(s)]
  BY ConcatProperties
<1>2. /\ DOMAIN s = 1..Len(s) /\ DOMAIN t = 1..Len(t) /\ Len(s) \in Nat /\ Len(t) \in Nat
      /\ DOMAIN u = 1..(Len(s) + Len(t))
  BY <1>1, LenProperties
<1> HIDE DEF u
<1>3. \A k \in 1..Len(s) : k \in DOMAIN u /\ u[k] = s[k]
  BY <1>1, <1>2
<1>4. ASSUME NEW k \in 1..Len(t) PROVE Len(s) + k \in DOMAIN u /\ u[Len(s) + k] = t[k]
  <2>1. /\ Len(s) + k \in 1..(Len(s) + Len(t)) /\ ~(Len(s) + k <= Len(s))
        /\ (Len(s) + k) - Len(s) = k
    BY <1>2
  <2>2. u[Len(s) + k] = t[(Len(s) + k) - Len(s)]
    BY <1>1, <2>1
  <2>3. QED BY <1>2, <2>1, <2>2
<1>5. ASSUME NEW k \in DOMAIN u PROVE u[k] \in Range(s) \cup Range(t)
  <2>1. k \in 1..(Len(s) + Len(t)) /\ u[k] = IF k <= Len(s) THEN s[k] ELSE t[k - Len(s)]
    BY <1>1, <1>2, <1>5
  <2>2. CASE k <= Len(s)
    <3>1. k \in DOMAIN s /\ u[k] = s[k]
      BY <1>2, <2>1, <2>2
    <3>2. QED BY <3>1 DEF Range
  <2>3. CASE ~(k <= Len(s))
    <3>1. k - Len(s) \in DOMAIN t /\ u[k] = t[k - Len(s)]
      BY <1>2, <2>1, <2>3
    <3>2. QED BY <3>1 DEF Range
  <2>4. QED BY <2>2, <2>3
<1>6. Range(u) = Range(s) \cup Range(t)
  <2>1. \A x \in Range(s) : x \in Range(u)
    BY <1>2, <1>3 DEF Range
  <2>2. \A x \in Range(t) : x \in Range(u)
    BY <1>2, <1>4 DEF Range
  <2>3. \A x \in Range(u) : x \in Range(s) \cup Range(t)
    BY <1>5 DEF Range
  <2>4. QED BY <2>1, <2>2, <2>3
<1>7. QED BY <1>1, <1>2, <1>3, <1>4, <1>6 DEF u

LEMMA JoinedPlaces ==
  ASSUME NEW T, NEW s \in Seq(T), NEW t \in Seq(T), NEW k \in 1..Len(s \o t)
  PROVE  \/ k \in 1..Len(s) /\ (s \o t)[k] = s[k]
         \/ /\ k > Len(s) /\ k - Len(s) \in 1..Len(t)
            /\ (s \o t)[k] = t[k - Len(s)]
<1> DEFINE u == s \o t
<1>1. Len(s) \in Nat /\ Len(t) \in Nat /\ Len(u) = Len(s) + Len(t)
  BY Joined
<1>2. \A i \in 1..Len(s) : u[i] = s[i]
  BY Joined
<1>3. \A i \in 1..Len(t) : u[Len(s) + i] = t[i]
  BY Joined
<1> HIDE DEF u
<1>4. k \in 1..Len(u)
  BY DEF u
<1>5. CASE k <= Len(s)
  BY <1>1, <1>2, <1>4, <1>5 DEF u
<1>6. CASE k > Len(s)
  <2>1. k - Len(s) \in 1..Len(t) /\ Len(s) + (k - Len(s)) = k
    BY <1>1, <1>4, <1>6
  <2>2. u[k] = t[k - Len(s)]
    BY <1>3, <2>1
  <2>3. QED BY <1>6, <2>1, <2>2 DEF u
<1>7. QED BY <1>1, <1>4, <1>5, <1>6

LEMMA InRange ==
  ASSUME NEW T, NEW s \in Seq(T)
  PROVE  /\ Range(s) \subseteq T
         /\ \A k \in 1..Len(s) : s[k] \in Range(s)
         /\ \A x \in Range(s) : \E k \in 1..Len(s) : s[k] = x
<1>1. DOMAIN s = 1..Len(s) /\ \A k \in 1..Len(s) : s[k] \in T
  BY LenProperties, ElementOfSeq
<1>2. QED BY <1>1 DEF Range

LEMMA JoinedInjective ==
  ASSUME NEW T, NEW s \in Seq(T), NEW t \in Seq(T), Injective(s), Injective(t),
         Range(s) \cap Range(t) = {}
  PROVE  Injective(s \o t)
<1> DEFINE u == s \o t
<1>1. SUFFICES ASSUME NEW k \in 1..Len(u), NEW l \in 1..Len(u), u[k] = u[l] PROVE k = l
  BY DEF Injective
<1>2. \A i \in 1..Len(u) : \/ i \in 1..Len(s) /\ u[i] = s[i]
                           \/ /\ i > Len(s) /\ i - Len(s) \in 1..Len(t) /\ u[i] = t[i - Len(s)]
  BY JoinedPlaces
<1>3. Len(s) \in Nat /\ Len(t) \in Nat /\ Len(u) \in Nat
  BY Joined, LenProperties
<1>4. /\ \A i \in 1..Len(s) : s[i] \in Range(s)
      /\ \A i \in 1..Len(t) : t[i] \in Range(t)
  BY InRange
<1> HIDE DEF u
<1>5. CASE k \in 1..Len(s) /\ l \in 1..Len(s) /\ u[k] = s[k] /\ u[l] = s[l]
  BY <1>1, <1>5 DEF Injective
<1>6. CASE /\ k - Len(s) \in 1..Len(t) /\ l - Len(s) \in 1..Len(t)
           /\ u[k] = t[k - Len(s)] /\ u[l] = t[l - Len(s)]
  <2>1. k - Len(s) = l - Len(s)
    BY <1>1, <1>6 DEF Injective
  <2>2. QED BY <1>3, <2>1
<1>7. QED BY <1>1, <1>2, <1>4, <1>5, <1>6

(* Every entry is a picture sent so far, or one inferred from a gap.       *)
Sound(d, N) ==
  /\ IsBuffer(d)
  /\ d.max_num_pics = sps.max_num_pics
  /\ \A i \in DOMAIN d.entries :
       /\ d.entries[i].n \in 0..N
       /\ d.entries[i].nonexisting <=> d.entries[i].n = 0
       /\ d.entries[i].needed_for_output => ~d.entries[i].nonexisting
  /\ \A i, j \in DOMAIN d.entries : d.entries[i].n = d.entries[j].n /\ d.entries[i].n # 0 => i = j

(* What W has is output by the call, or waits.                             *)
Account(s, W, N) ==
  /\ s = [dpb |-> s.dpb, prev_ref_frame_num |-> s.prev_ref_frame_num, out |-> s.out,
          held |-> s.held, ok |-> s.ok]
  /\ Sound(s.dpb, N)
  /\ s.prev_ref_frame_num \in 0..(MaxFrameNum - 1)
  /\ s.out \in Seq(1..N)
  /\ Injective(s.out)
  /\ Range(s.out) \cap Waits(s.dpb) = {}
  /\ Range(s.out) \cup Waits(s.dpb) = W
  /\ s.held \subseteq 1..N
  /\ s.ok \in BOOLEAN



LEMMA SoundSurvives ==
  ASSUME NEW N \in Nat, NEW d, Sound(d, N), NEW e, Survives(d, e) \/ Remarked(d, e)
  PROVE  Sound(e, N)
<1>1. /\ IsBuffer(e) /\ e.max_num_pics = d.max_num_pics
      /\ DOMAIN e.entries \subseteq DOMAIN d.entries
      /\ \A i \in DOMAIN e.entries :
           /\ e.entries[i].n = d.entries[i].n
           /\ e.entries[i].nonexisting = d.entries[i].nonexisting
           /\ e.entries[i].needed_for_output => d.entries[i].needed_for_output
  BY DEF Survives, Remarked, Same
<1>2. QED BY <1>1 DEF Sound

LEMMA SoundWaits ==
  ASSUME NEW N \in Nat, NEW d, Sound(d, N)
  PROVE  /\ NumbersDiffer(d)
         /\ Waits(d) \subseteq 1..N
         /\ Sound(d, N + 1)
         /\ \A i \in Bumpable(d) : d.entries[i].n \in 1..N
<1>1. \A i \in Bumpable(d) : i \in DOMAIN d.entries /\ d.entries[i].needed_for_output
  BY PlaceSets
<1>2. \A i \in Bumpable(d) : d.entries[i].n \in 1..N
  BY <1>1 DEF Sound
<1>3. NumbersDiffer(d)
  BY <1>1, <1>2 DEF Sound, NumbersDiffer
<1>4. 0..N \subseteq 0..(N + 1)
  OBVIOUS
<1>5. Sound(d, N + 1)
  BY <1>4 DEF Sound
<1>6. QED BY <1>2, <1>3, <1>5 DEF Waits

(* A buffer with one more picture, which is none that it has.              *)
LEMMA SoundStore ==
  ASSUME NEW N \in Nat, NEW d, Sound(d, N), NEW pic \in Picture, NEW M \in Nat,
         \/ pic.nonexisting /\ pic.n = 0 /\ M = N
         \/ ~pic.nonexisting /\ pic.n = N + 1 /\ M = N + 1,
         NEW e, e = StorePicture(d, pic)
  PROVE  /\ Sound(e, M)
         /\ Waits(e) = IF pic.nonexisting THEN Waits(d) ELSE Waits(d) \cup {pic.n}
         /\ Bumpable(e) = IF pic.nonexisting THEN Bumpable(d) ELSE Bumpable(d) \cup {e.stored}
         /\ References(e) = IF IsRef(pic) THEN References(d) \cup {e.stored} ELSE References(d)
         /\ DOMAIN e.entries = DOMAIN d.entries \cup {e.stored}
         /\ e.stored \notin DOMAIN d.entries
         /\ \A i \in DOMAIN d.entries : e.entries[i] = d.entries[i]
         /\ Same(pic, e.entries[e.stored])
<1> DEFINE new == [pic EXCEPT !.needed_for_output = ~pic.nonexisting]
           p == e.stored
<1>1. IsBuffer(d)
  BY DEF Sound
<1>2. /\ IsBuffer(e) /\ e.max_num_pics = d.max_num_pics
      /\ DOMAIN e.entries = DOMAIN d.entries \cup {p} /\ p \notin DOMAIN d.entries
      /\ \A i \in DOMAIN d.entries : e.entries[i] = d.entries[i]
      /\ e.entries[p] = new
  BY <1>1, StorePictureFacts
<1>3. /\ Same(pic, new) /\ new.n = pic.n /\ new.nonexisting = pic.nonexisting
      /\ new.needed_for_output = ~pic.nonexisting /\ new.reference = pic.reference
  BY DEF Same, Picture
<1>4. pic.nonexisting \in BOOLEAN /\ pic.n \in Nat
  BY DEF Picture
<1> HIDE DEF new, p
<1>5. Sound(e, M)
  <2>1. \A i \in DOMAIN d.entries : d.entries[i].n \in 0..N /\ d.entries[i].n # N + 1
    BY DEF Sound
  <2>2. 0..N \subseteq 0..M /\ pic.n \in 0..M /\ (pic.nonexisting <=> pic.n = 0)
    BY <1>4
  <2>3. \A i \in DOMAIN e.entries :
          /\ e.entries[i].n \in 0..M
          /\ e.entries[i].nonexisting <=> e.entries[i].n = 0
          /\ e.entries[i].needed_for_output => ~e.entries[i].nonexisting
    <3>1. TAKE i \in DOMAIN e.entries
    <3>2. CASE i = p
      BY <1>2, <1>3, <2>2, <3>2
    <3>3. CASE i \in DOMAIN d.entries
      BY <1>2, <2>2, <3>3 DEF Sound
    <3>4. QED BY <1>2, <3>2, <3>3
  <2>4. \A i, j \in DOMAIN e.entries :
          e.entries[i].n = e.entries[j].n /\ e.entries[i].n # 0 => i = j
    <3>1. pic.n # 0 => \A i \in DOMAIN d.entries : d.entries[i].n # pic.n
      BY <2>1, <1>4
    <3>2. QED BY <1>2, <1>3, <3>1 DEF Sound
  <2>5. QED BY <1>2, <2>3, <2>4 DEF Sound
<1>6. Bumpable(e) = IF pic.nonexisting THEN Bumpable(d) ELSE Bumpable(d) \cup {p}
  <2>1. \A i : i \in Bumpable(e) <=> i \in DOMAIN e.entries /\ e.entries[i].needed_for_output
    BY PlaceSets
  <2>2. \A i : i \in Bumpable(d) <=> i \in DOMAIN d.entries /\ d.entries[i].needed_for_output
    BY PlaceSets
  <2>3. CASE pic.nonexisting
    <3>1. \A i : i \in Bumpable(e) <=> i \in Bumpable(d)
      BY <1>2, <1>3, <2>1, <2>2, <2>3
    <3>2. QED BY <2>3, <3>1
  <2>4. CASE ~pic.nonexisting
    <3>1. \A i : i \in Bumpable(e) <=> i \in Bumpable(d) \cup {p}
      BY <1>2, <1>3, <2>1, <2>2, <2>4
    <3>2. QED BY <2>4, <3>1
  <2>5. QED BY <2>3, <2>4
<1>7. References(e) = IF IsRef(pic) THEN References(d) \cup {p} ELSE References(d)
  <2>1. \A i : i \in References(e) <=> i \in DOMAIN e.entries /\ e.entries[i].reference # "None"
    BY PlaceSets
  <2>2. \A i : i \in References(d) <=> i \in DOMAIN d.entries /\ d.entries[i].reference # "None"
    BY PlaceSets
  <2>3. CASE pic.reference = "None"
    <3>1. \A i : i \in References(e) <=> i \in References(d)
      BY <1>2, <1>3, <2>1, <2>2, <2>3
    <3>2. QED BY <2>3, <3>1 DEF IsRef
  <2>4. CASE pic.reference # "None"
    <3>1. \A i : i \in References(e) <=> i \in References(d) \cup {p}
      BY <1>2, <1>3, <2>1, <2>2, <2>4
    <3>2. QED BY <2>4, <3>1 DEF IsRef
  <2>5. QED BY <2>3, <2>4
<1>8. Waits(e) = IF pic.nonexisting THEN Waits(d) ELSE Waits(d) \cup {pic.n}
  <2>1. \A i \in Bumpable(d) : i \in DOMAIN d.entries
    BY PlaceSets
  <2>2. QED BY <1>2, <1>3, <1>6, <2>1 DEF Waits
<1>9. QED BY <1>2, <1>3, <1>5, <1>6, <1>7, <1>8 DEF p

LEMMA EmptyWaits ==
  ASSUME NEW d, Bumpable(d) = {}
  PROVE  Waits(d) = {}
BY DEF Waits

LEMMA EmptySound ==
  ASSUME NEW d, NEW N \in Nat, IsBuffer(d), DOMAIN d.entries = {}, d.max_num_pics = sps.max_num_pics
  PROVE  Sound(d, N) /\ Waits(d) = {} /\ Used(d) /\ References(d) = {} /\ LongTerms(d) = {}
<1>1. Bumpable(d) = {} /\ References(d) = {} /\ LongTerms(d) = {}
  BY PlaceSets
<1>2. QED BY <1>1 DEF Sound, Used, Waits

LEMMA SessionFields ==
  ASSUME NEW d, NEW p, NEW o, NEW h, NEW k,
         NEW r, r = [dpb |-> d, prev_ref_frame_num |-> p, out |-> o, held |-> h, ok |-> k]
  PROVE  r.dpb = d /\ r.prev_ref_frame_num = p /\ r.out = o /\ r.held = h /\ r.ok = k
OBVIOUS

LEMMA SessionRecord ==
  ASSUME NEW N, NEW W, NEW s, Account(s, W, N)
  PROVE  s = [dpb |-> s.dpb, prev_ref_frame_num |-> s.prev_ref_frame_num, out |-> s.out,
              held |-> s.held, ok |-> s.ok]
BY DEF Account

Continues(t, s, u) == t = s \o u
Going(s) == s.ok = TRUE
Holding(s, H) == [s EXCEPT !.held = H]

LEMMA HoldingRecord ==
  ASSUME NEW N, NEW W, NEW s, Account(s, W, N), NEW H
  PROVE  Holding(s, H) = [dpb |-> s.dpb, prev_ref_frame_num |-> s.prev_ref_frame_num,
                          out |-> s.out, held |-> H, ok |-> s.ok]
<1>1. \A d, p, o, h, k :
        Holding([dpb |-> d, prev_ref_frame_num |-> p, out |-> o, held |-> h, ok |-> k], H)
          = [dpb |-> d, prev_ref_frame_num |-> p, out |-> o, held |-> H, ok |-> k]
  BY DEF Holding
<1>2. s = [dpb |-> s.dpb, prev_ref_frame_num |-> s.prev_ref_frame_num, out |-> s.out,
           held |-> s.held, ok |-> s.ok]
  BY SessionRecord
<1>3. Holding([dpb |-> s.dpb, prev_ref_frame_num |-> s.prev_ref_frame_num, out |-> s.out,
               held |-> s.held, ok |-> s.ok], H)
        = [dpb |-> s.dpb, prev_ref_frame_num |-> s.prev_ref_frame_num,
           out |-> s.out, held |-> H, ok |-> s.ok]
  BY <1>1
<1>4. QED BY <1>2, <1>3

LEMMA BumpedSession ==
  ASSUME NEW N \in Nat, NEW W, NEW s, Account(s, W, N), NEW b,
         b.out \in Seq(Waits(s.dpb)), Injective(b.out), Sound(b.dpb, N),
         Range(b.out) \cap Waits(b.dpb) = {}, Range(b.out) \cup Waits(b.dpb) = Waits(s.dpb),
         NEW r, r = Bumped(s, b)
  PROVE  /\ Account(r, W, N)
         /\ r.dpb = b.dpb /\ Continues(r.out, s.out, b.out) /\ r.held = s.held /\ r.ok = s.ok
         /\ r.prev_ref_frame_num = s.prev_ref_frame_num
<1> DEFINE all == s.out \o b.out
<1>1. r = [dpb |-> b.dpb, prev_ref_frame_num |-> s.prev_ref_frame_num, out |-> all,
           held |-> s.held, ok |-> s.ok]
  BY DEF Bumped, Account
<1>2. /\ r.dpb = b.dpb /\ r.out = s.out \o b.out /\ r.held = s.held /\ r.ok = s.ok
      /\ r.prev_ref_frame_num = s.prev_ref_frame_num
  <2> HIDE DEF all
  <2>1. /\ r.dpb = b.dpb /\ r.out = all /\ r.held = s.held /\ r.ok = s.ok
        /\ r.prev_ref_frame_num = s.prev_ref_frame_num
    BY <1>1, SessionFields
  <2>2. QED BY <2>1 DEF all
<1>3. s.out \in Seq(1..N) /\ b.out \in Seq(1..N)
  <2>1. Waits(s.dpb) \subseteq 1..N
    BY SoundWaits DEF Account
  <2>2. b.out \in Seq(1..N)
    BY <2>1, SeqMonotonic
  <2>3. QED BY <2>2 DEF Account
<1>4. s.out \o b.out \in Seq(1..N) /\ Range(s.out \o b.out) = Range(s.out) \cup Range(b.out)
  BY <1>3, Joined
<1>5. Range(s.out) \cap Waits(s.dpb) = {} /\ Range(s.out) \cup Waits(s.dpb) = W /\ Injective(s.out)
  BY DEF Account
<1>6. Injective(s.out \o b.out)
  <2>1. Range(s.out) \cap Range(b.out) = {}
    BY <1>5
  <2>2. QED BY <1>3, <1>5, <2>1, JoinedInjective
<1>7. s.prev_ref_frame_num \in 0..(MaxFrameNum - 1) /\ s.held \subseteq 1..N /\ s.ok \in BOOLEAN
  BY DEF Account
<1> DEFINE w == Waits(b.dpb)
<1>8. Range(r.out) \cap w = {} /\ Range(r.out) \cup w = W
  BY <1>2, <1>4, <1>5
<1> HIDE DEF w
<1>9. Account(r, W, N)
  BY <1>1, <1>2, <1>4, <1>6, <1>7, <1>8 DEF Account, w
<1>10. QED BY <1>2, <1>9 DEF Continues

(* The number of a picture, given that of the one before.                  *)
NumberedAfter(pic, N, M) ==
  \/ pic.nonexisting /\ pic.n = 0 /\ M = N /\ IsRef(pic)
  \/ ~pic.nonexisting /\ pic.n = N + 1 /\ M = N + 1

(* What W becomes, and what has become of the picture itself.              *)
Taken(r, pic, W) == IF r.ok /\ ~pic.nonexisting THEN W \cup {pic.n} ELSE W
Placed(s, pic, r) ==
  \/ /\ ~(IsRef(pic) \/ HasEmptyFrameBuffer(s.dpb))
     /\ r.dpb = s.dpb /\ Extends(r.out, s.out, pic.n) /\ r.ok = TRUE
  \/ /\ IsRef(pic) /\ ~HasEmptyFrameBuffer(s.dpb)
     /\ r.dpb = s.dpb /\ r.out = s.out /\ r.ok = FALSE
  \/ /\ HasEmptyFrameBuffer(s.dpb)
     /\ r.dpb = StorePicture(s.dpb, pic) /\ r.out = s.out /\ r.ok = TRUE

LEMMA StoreOrOutputFacts ==
  ASSUME NEW N \in Nat, NEW W, NEW s, Account(s, W, N), Going(s),
         NEW pic \in Picture, NEW M \in Nat, NumberedAfter(pic, N, M),
         NEW H, \A n \in H : n \in 1..M, NEW r, r = StoreOrOutput(Holding(s, H), pic)
  PROVE  /\ Account(r, Taken(r, pic, W), M)
         /\ r.prev_ref_frame_num = s.prev_ref_frame_num
         /\ r.held = H
         /\ Placed(s, pic, r)
<1> DEFINE d == s.dpb
           t == [dpb |-> d, prev_ref_frame_num |-> s.prev_ref_frame_num, out |-> s.out,
                 held |-> H, ok |-> TRUE]
           e == StorePicture(d, pic)
           longer == Append(s.out, pic.n)
<1>1. t = Holding(s, H)
  BY HoldingRecord DEF Going
<1>2. t.dpb = d /\ t.out = s.out
  OBVIOUS
<1>3. /\ IsBuffer(d) /\ Fullness(d) \in Nat /\ d.max_num_pics \in Nat
  <2>1. IsBuffer(d)
    BY DEF Account, Sound
  <2>2. QED BY <2>1, PlacesFinite DEF IsBuffer
<1>4. IsFull(d) <=> ~HasEmptyFrameBuffer(d)
  BY <1>3 DEF IsFull, HasEmptyFrameBuffer
<1>5. /\ Sound(d, N) /\ s.out \in Seq(1..N) /\ Injective(s.out)
      /\ Range(s.out) \cap Waits(d) = {} /\ Range(s.out) \cup Waits(d) = W
      /\ s.prev_ref_frame_num \in 0..(MaxFrameNum - 1)
  BY DEF Account
<1>6. 1..N \subseteq 1..M /\ pic.n \in Nat /\ pic.nonexisting \in BOOLEAN
      /\ (~pic.nonexisting => pic.n \in 1..M /\ pic.n \notin 1..N)
  BY DEF NumberedAfter, Picture
<1>7. s.out \in Seq(1..M)
  BY <1>5, <1>6, SeqMonotonic
<1>8. Sound(d, M)
  BY <1>5, SoundWaits DEF NumberedAfter
<1>9. W \subseteq 1..N /\ Waits(d) \subseteq 1..N /\ Range(s.out) \subseteq 1..N
  BY <1>5, SoundWaits, InRange
<1>10. CASE ~(IsRef(pic) \/ HasEmptyFrameBuffer(d))
  <2>1. r = [t EXCEPT !.out = Append(@, pic.n)]
    BY <1>1, <1>2, <1>10 DEF StoreOrOutput
  <2>2. r = [dpb |-> d, prev_ref_frame_num |-> s.prev_ref_frame_num, out |-> longer,
             held |-> H, ok |-> TRUE]
    BY <2>1
  <2>3. ~pic.nonexisting
    BY <1>10 DEF NumberedAfter
  <2>4. /\ longer \in Seq(1..M) /\ Range(longer) = Range(s.out) \cup {pic.n}
        /\ Len(s.out) \in Nat /\ Len(longer) = Len(s.out) + 1
        /\ \A k \in 1..Len(s.out) : longer[k] = s.out[k]
        /\ longer[Len(s.out) + 1] = pic.n
    <3>1. pic.n \in 1..M
      BY <1>6, <2>3
    <3>2. QED BY <1>7, <3>1, Appended
  <2>5. Extends(longer, s.out, pic.n)
    BY DEF Extends
  <2> HIDE DEF t, longer, d
  <2>6. /\ r.dpb = d /\ r.out = longer /\ r.held = H /\ r.ok = TRUE
        /\ r.prev_ref_frame_num = s.prev_ref_frame_num
    BY <2>2, SessionFields
  <2>7. Injective(longer)
    <3>1. \A k \in 1..Len(s.out) : s.out[k] # pic.n
      BY <1>5, <1>6, <1>9, <2>3, InRange
    <3>2. \A k \in 1..Len(longer) : k \in 1..Len(s.out) \/ k = Len(s.out) + 1
      BY <2>4
    <3>3. QED BY <1>5, <2>4, <3>1, <3>2 DEF Injective
  <2>8. /\ Range(longer) \cap Waits(d) = {} /\ Range(longer) \cup Waits(d) = W \cup {pic.n}
    BY <1>5, <1>6, <1>9, <2>3, <2>4
  <2>9. Account(r, W \cup {pic.n}, M)
    BY <1>5, <1>8, <2>2, <2>4, <2>6, <2>7, <2>8 DEF Account
  <2>10. Placed(s, pic, r)
    BY <1>10, <2>5, <2>6 DEF Placed, d
  <2>11. QED BY <2>3, <2>6, <2>9, <2>10 DEF Taken
<1>11. CASE IsRef(pic) /\ ~HasEmptyFrameBuffer(d)
  <2>1. r = [t EXCEPT !.ok = FALSE]
    BY <1>1, <1>2, <1>4, <1>11 DEF StoreOrOutput
  <2>2. r = [dpb |-> d, prev_ref_frame_num |-> s.prev_ref_frame_num, out |-> s.out,
             held |-> H, ok |-> FALSE]
    BY <2>1
  <2> HIDE DEF t, d
  <2>3. /\ r.dpb = d /\ r.out = s.out /\ r.held = H /\ r.ok = FALSE
        /\ r.prev_ref_frame_num = s.prev_ref_frame_num
    BY <2>2, SessionFields
  <2>4. Account(r, W, M)
    BY <1>5, <1>7, <1>8, <2>2, <2>3 DEF Account
  <2>5. Placed(s, pic, r)
    BY <1>11, <2>3 DEF Placed, d
  <2>6. QED BY <2>3, <2>4, <2>5 DEF Taken
<1>12. CASE HasEmptyFrameBuffer(d)
  <2>1. r = [t EXCEPT !.dpb = StorePicture(@, pic)]
    BY <1>1, <1>2, <1>4, <1>12 DEF StoreOrOutput
  <2>2. r = [dpb |-> e, prev_ref_frame_num |-> s.prev_ref_frame_num, out |-> s.out,
             held |-> H, ok |-> TRUE]
    BY <2>1
  <2>3. Sound(e, M) /\ Waits(e) = IF pic.nonexisting THEN Waits(d) ELSE Waits(d) \cup {pic.n}
    <3>1. \/ pic.nonexisting /\ pic.n = 0 /\ M = N
          \/ ~pic.nonexisting /\ pic.n = N + 1 /\ M = N + 1
      BY DEF NumberedAfter
    <3> DEFINE dd == d ee == e
    <3>2. ee = StorePicture(dd, pic) /\ Sound(dd, N)
      BY <1>5
    <3> HIDE DEF dd, ee
    <3>3. Sound(ee, M) /\ Waits(ee) = IF pic.nonexisting THEN Waits(dd) ELSE Waits(dd) \cup {pic.n}
      BY <3>1, <3>2, SoundStore
    <3>4. QED BY <3>3 DEF dd, ee
  <2> HIDE DEF t, d, e
  <2>4. /\ r.dpb = e /\ r.out = s.out /\ r.held = H /\ r.ok = TRUE
        /\ r.prev_ref_frame_num = s.prev_ref_frame_num
    BY <2>2, SessionFields
  <2> DEFINE w == IF pic.nonexisting THEN W ELSE W \cup {pic.n}
  <2>5. /\ Range(s.out) \cap Waits(e) = {} /\ Range(s.out) \cup Waits(e) = w
    BY <1>5, <1>6, <1>9, <2>3
  <2>6. w = IF r.ok /\ ~pic.nonexisting THEN W \cup {pic.n} ELSE W
    BY <2>4
  <2> HIDE DEF w
  <2>7. Account(r, w, M)
    BY <1>5, <1>7, <2>2, <2>3, <2>4, <2>5 DEF Account
  <2>8. Placed(s, pic, r)
    BY <1>12, <2>4 DEF Placed, d, e
  <2>9. QED BY <2>4, <2>6, <2>7, <2>8 DEF Taken
<1>13. QED BY <1>10, <1>11, <1>12

LEMMA HeldFacts ==
  ASSUME NEW waiting, NEW d, NEW pic
  PROVE  /\ KeptByStandard(waiting, d, pic) \subseteq waiting
         /\ HeldByStandard(waiting, d, pic)
              \subseteq waiting \cup (IF pic.nonexisting THEN {} ELSE {pic.n})
<1>1. \A w, x, p : KeptByStandard(w, x, p) \subseteq w
  BY DEF KeptByStandard
<1>2. KeptByStandard(IF pic.has_mmco_5 THEN {} ELSE waiting, d, pic) \subseteq waiting
  BY <1>1
<1>3. QED BY <1>1, <1>2 DEF HeldByStandard

LEMMA BumpAndStoreFacts ==
  ASSUME NEW N \in Nat, NEW W, NEW s, Account(s, W, N), Going(s),
         NEW pic \in Picture, NEW M \in Nat, NumberedAfter(pic, N, M),
         NEW r, r = BumpAndStore(s, pic)
  PROVE  /\ Account(r, Taken(r, pic, W), M)
         /\ r.prev_ref_frame_num = s.prev_ref_frame_num
         /\ r.held = HeldByStandard(s.held, s.dpb, pic)
         /\ \E b, t : /\ b = BumpAsNeeded(s.dpb, pic) /\ t = Bumped(s, b)
                      /\ Account(t, W, N) /\ Placed(t, pic, r)
                      /\ t.dpb = b.dpb /\ Continues(t.out, s.out, b.out)
<1> DEFINE b == BumpAsNeeded(s.dpb, pic)
           t == Bumped(s, b)
           H == HeldByStandard(s.held, s.dpb, pic)
<1>1. Sound(s.dpb, N) /\ s.held \subseteq 1..N /\ IsBuffer(s.dpb)
  BY DEF Account, Sound
<1>2. Popped(s.dpb, b)
  <2>1. NumbersDiffer(s.dpb)
    BY <1>1, SoundWaits
  <2>2. QED BY <1>1, <2>1, BumpedAsNeeded
<1>3. /\ b.out \in Seq(Waits(s.dpb)) /\ Injective(b.out)
      /\ Range(b.out) \cap Waits(b.dpb) = {} /\ Range(b.out) \cup Waits(b.dpb) = Waits(s.dpb)
      /\ Survives(s.dpb, b.dpb)
  BY <1>2 DEF Popped
<1>4. Sound(b.dpb, N)
  BY <1>1, <1>3, SoundSurvives
<1> HIDE DEF b
<1>5. /\ Account(t, W, N) /\ t.dpb = b.dpb /\ Continues(t.out, s.out, b.out) /\ t.held = s.held
      /\ t.ok = s.ok /\ t.prev_ref_frame_num = s.prev_ref_frame_num
  BY <1>3, <1>4, BumpedSession
<1>6. r = StoreOrOutput([t EXCEPT !.held = HeldByStandard(@, s.dpb, pic)], pic)
  BY DEF BumpAndStore, b
<1>7. [t EXCEPT !.held = HeldByStandard(@, s.dpb, pic)] = Holding(t, H)
  BY <1>5 DEF Holding
<1>8. H \subseteq 1..M
  <2>1. 1..N \subseteq 1..M /\ (~pic.nonexisting => pic.n \in 1..M)
    BY DEF NumberedAfter
  <2>2. H \subseteq s.held \cup (IF pic.nonexisting THEN {} ELSE {pic.n})
    BY HeldFacts
  <2>3. QED BY <1>1, <2>1, <2>2
<1> HIDE DEF t, H
<1>9. r = StoreOrOutput(Holding(t, H), pic)
  BY <1>6, <1>7
<1>10. /\ Account(r, Taken(r, pic, W), M)
       /\ r.prev_ref_frame_num = t.prev_ref_frame_num
       /\ r.held = H
       /\ Placed(t, pic, r)
  <2>1. Going(t) /\ Account(t, W, N) /\ \A n \in H : n \in 1..M
    BY <1>5, <1>8 DEF Going
  <2>2. QED BY <1>9, <2>1, StoreOrOutputFacts
<1>11. QED BY <1>5, <1>10 DEF b, t, H

-----------------------------------------------------------------------------
(* Streams without memory management operations.                           *)

LEMMA Parameters ==
  ASSUME stream \in Streams
  PROVE  /\ sps.max_num_pics \in Nat \ {0} /\ sps.max_num_ref_frames \in Nat
         /\ sps.max_num_reorder_frames \in Nat
         /\ sps.max_num_ref_frames <= sps.max_num_pics
         /\ sps.max_num_reorder_frames <= sps.max_num_pics
         /\ sps.gaps_in_frame_num_value_allowed_flag \in BOOLEAN
         /\ stream.adaptive \in BOOLEAN /\ stream.loses \in BOOLEAN
         /\ Window = NumberedWindow(sps.max_num_ref_frames)
         /\ Window \in Nat /\ 0 < Window /\ Window <= sps.max_num_pics
<1>1. /\ stream.sps \in Limits
      /\ stream.adaptive \in BOOLEAN /\ stream.loses \in BOOLEAN
      /\ stream.sps.max_num_ref_frames <= stream.sps.max_num_pics
      /\ stream.sps.max_num_reorder_frames <= stream.sps.max_num_pics
  BY H264Assumption
<1>2. /\ sps.max_num_pics \in Nat \ {0} /\ sps.max_num_ref_frames \in Nat
      /\ sps.max_num_reorder_frames \in Nat
      /\ sps.gaps_in_frame_num_value_allowed_flag \in BOOLEAN
  BY <1>1 DEF Limits, sps
<1>3. QED BY <1>1, <1>2 DEF sps, Window, NumberedWindow

LEMMA SurvivesReferences ==
  ASSUME NEW d, NEW e, Survives(d, e)
  PROVE  References(e) = References(d) /\ LongTerms(e) = LongTerms(d)
<1>1. /\ DOMAIN e.entries \subseteq DOMAIN d.entries /\ References(d) \subseteq DOMAIN e.entries
      /\ \A i \in DOMAIN e.entries : e.entries[i].reference = d.entries[i].reference
  BY DEF Survives, Same
<1>2. /\ \A i : i \in References(e) <=> i \in DOMAIN e.entries /\ e.entries[i].reference # "None"
      /\ \A i : i \in References(d) <=> i \in DOMAIN d.entries /\ d.entries[i].reference # "None"
  BY PlaceSets
<1>3. \A i : i \in References(e) <=> i \in References(d)
  BY <1>1, <1>2
<1>4. /\ \A i : i \in LongTerms(e) <=> i \in DOMAIN e.entries /\ e.entries[i].reference = "LongTerm"
      /\ \A i : i \in LongTerms(d) <=> i \in DOMAIN d.entries /\ d.entries[i].reference = "LongTerm"
  BY PlaceSets
<1>5. \A i : i \in LongTerms(e) <=> i \in LongTerms(d)
  <2>1. \A i : i \in DOMAIN d.entries /\ d.entries[i].reference = "LongTerm" => i \in References(d)
    BY <1>2
  <2>2. QED BY <1>1, <1>4, <2>1
<1>6. QED BY <1>3, <1>5

Tidy(d) ==
  /\ Used(d)
  /\ LongTerms(d) = {}
  /\ NumRefFrames(d) <= Window

(* The buffer as marking leaves it for the picture.                        *)
LeftFor(d, pic) ==
  /\ Tidy(d)
  /\ IsRef(pic) => pic.reference = "ShortTerm" /\ NumRefFrames(d) < Window
  /\ pic.is_idr => DOMAIN d.entries = {}
  /\ ~pic.has_mmco_5
  /\ pic.nonexisting => IsRef(pic)

(* There is room for every reference once bumping ends; if there is none   *)
(* for another picture, then nothing waits that comes before it.           *)
LEMMA BumpingMakesRoom ==
  ASSUME stream \in Streams, NEW N \in Nat, NEW d, Sound(d, N), NEW pic \in Picture,
         LeftFor(d, pic), NEW b, b = BumpAsNeeded(d, pic)
  PROVE  /\ Tidy(b.dpb) /\ References(b.dpb) = References(d)
         /\ IsRef(pic) => HasEmptyFrameBuffer(b.dpb)
         /\ HasEmptyFrameBuffer(b.dpb)
              <=> Cardinality(References(d) \cup Bumpable(b.dpb)) < sps.max_num_pics
         /\ ~HasEmptyFrameBuffer(b.dpb) =>
              \A i \in Bumpable(b.dpb) : ~(b.dpb.entries[i].poc < pic.poc)
<1> DEFINE e == b.dpb
<1>1. IsBuffer(d) /\ NumbersDiffer(d) /\ d.max_num_pics = sps.max_num_pics
  BY SoundWaits DEF Sound
<1>2. Used(d) /\ LongTerms(d) = {} /\ NumRefFrames(d) <= Window
  BY DEF LeftFor, Tidy
<1>3. Popped(d, b) /\ Used(e) /\ ~GoesOn(b, pic)
  BY <1>1, <1>2, BumpedAsNeeded
<1>4. Survives(d, e) /\ IsBuffer(e) /\ e.max_num_pics = d.max_num_pics
      /\ e.max_num_reorder_frames = d.max_num_reorder_frames
  BY <1>3 DEF Popped, Survives
<1>5. References(e) = References(d) /\ LongTerms(e) = LongTerms(d)
  BY <1>4, SurvivesReferences
<1>6. /\ Fullness(e) \in Nat /\ e.max_num_pics \in Nat /\ e.max_num_reorder_frames \in Nat
      /\ e.max_num_reorder_frames <= e.max_num_pics
  BY <1>4, PlacesFinite DEF IsBuffer
<1>7. Fullness(e) = Cardinality(References(d) \cup Bumpable(e))
  BY <1>3, <1>5 DEF Fullness, Used
<1>8. HasEmptyFrameBuffer(e) <=> Fullness(e) < e.max_num_pics
  BY DEF HasEmptyFrameBuffer
<1>9. Tidy(e)
  BY <1>2, <1>3, <1>5 DEF Tidy, NumRefFrames
<1>10. Bumpable(e) = {} => Fullness(e) = NumRefFrames(d)
  BY <1>7 DEF NumRefFrames
<1>11. ASSUME ~HasEmptyFrameBuffer(e), Bumpable(e) # {}
       PROVE  /\ ~IsRef(pic)
              /\ \A i \in Bumpable(e) : ~(e.entries[i].poc < pic.poc)
  <2>1. Fullness(e) >= e.max_num_reorder_frames
    BY <1>6, <1>8, <1>11
  <2>2. ~NeedsBumping(e, pic)
    BY <1>3, <1>11, <2>1 DEF GoesOn
  <2>3. /\ ~pic.nonexisting /\ ~(IsRef(pic) /\ ~pic.is_idr)
        /\ \A i \in Bumpable(e) : ~(e.entries[i].poc < pic.poc)
    BY <1>11, <2>2 DEF NeedsBumping
  <2>4. ~pic.is_idr
    <3>1. SUFFICES ASSUME pic.is_idr PROVE FALSE
      OBVIOUS
    <3>2. DOMAIN d.entries = {}
      BY <3>1 DEF LeftFor
    <3>3. DOMAIN e.entries = {}
      BY <1>4, <3>2 DEF Survives
    <3>4. QED BY <1>11, <3>3, PlaceSets
  <2>5. QED BY <2>3, <2>4
<1>12. IsRef(pic) => HasEmptyFrameBuffer(e)
  <2>1. SUFFICES ASSUME IsRef(pic), ~HasEmptyFrameBuffer(e) PROVE FALSE
    OBVIOUS
  <2>2. Bumpable(e) = {}
    BY <1>11, <2>1
  <2>3. Fullness(e) < Window
    BY <1>10, <2>1, <2>2 DEF LeftFor
  <2>4. Window <= e.max_num_pics /\ Window \in Nat
    BY <1>1, <1>4, Parameters
  <2>5. QED BY <1>6, <1>8, <2>1, <2>3, <2>4
<1>13. ~HasEmptyFrameBuffer(e) => \A i \in Bumpable(e) : ~(e.entries[i].poc < pic.poc)
  BY <1>11
<1>14. HasEmptyFrameBuffer(e) <=> Cardinality(References(d) \cup Bumpable(e)) < sps.max_num_pics
  BY <1>1, <1>4, <1>7, <1>8
<1>15. QED BY <1>5, <1>9, <1>12, <1>13, <1>14

(* The picture finds its place, and the buffer stays as it was.            *)
LEMMA TidyPlaced ==
  ASSUME stream \in Streams, NEW N \in Nat, NEW W, NEW s, Account(s, W, N), Going(s),
         NEW pic \in Picture, NEW M \in Nat, NumberedAfter(pic, N, M), LeftFor(s.dpb, pic),
         NEW r, r = BumpAndStore(s, pic)
  PROVE  Going(r) /\ Tidy(r.dpb)
<1> DEFINE b == BumpAsNeeded(s.dpb, pic)
<1>1. PICK t : /\ t = Bumped(s, b) /\ Account(t, W, N) /\ Placed(t, pic, r) /\ t.dpb = b.dpb
  BY BumpAndStoreFacts
<1>2. Sound(s.dpb, N) /\ Sound(t.dpb, N)
  BY <1>1 DEF Account
<1>3. /\ Tidy(b.dpb) /\ References(b.dpb) = References(s.dpb)
      /\ IsRef(pic) => HasEmptyFrameBuffer(b.dpb)
  BY <1>2, BumpingMakesRoom
<1> HIDE DEF b
<1>4. CASE ~(IsRef(pic) \/ HasEmptyFrameBuffer(t.dpb)) /\ r.dpb = t.dpb /\ r.ok = TRUE
  BY <1>1, <1>3, <1>4 DEF Going
<1>5. CASE IsRef(pic) /\ ~HasEmptyFrameBuffer(t.dpb)
  BY <1>1, <1>3, <1>5
<1>6. CASE r.dpb = StorePicture(t.dpb, pic) /\ r.ok = TRUE
  <2> DEFINE d == t.dpb e == r.dpb
  <2>1. \/ pic.nonexisting /\ pic.n = 0 /\ M = N
        \/ ~pic.nonexisting /\ pic.n = N + 1 /\ M = N + 1
    BY DEF NumberedAfter
  <2>2. Sound(d, N) /\ e = StorePicture(d, pic)
    BY <1>2, <1>6
  <2> HIDE DEF d, e
  <2>3. /\ Bumpable(e) = IF pic.nonexisting THEN Bumpable(d) ELSE Bumpable(d) \cup {e.stored}
        /\ References(e) = IF IsRef(pic) THEN References(d) \cup {e.stored} ELSE References(d)
        /\ DOMAIN e.entries = DOMAIN d.entries \cup {e.stored}
        /\ e.stored \notin DOMAIN d.entries
        /\ \A i \in DOMAIN d.entries : e.entries[i] = d.entries[i]
        /\ Same(pic, e.entries[e.stored])
    BY <2>1, <2>2, SoundStore
  <2>4. Tidy(d) /\ References(d) = References(s.dpb)
    BY <1>1, <1>3 DEF d
  <2>5. Used(e)
    BY <2>3, <2>4 DEF Tidy, Used, NumberedAfter
  <2>6. LongTerms(e) = {}
    <3>1. \A i : i \in LongTerms(e) <=> i \in DOMAIN e.entries /\ e.entries[i].reference = "LongTerm"
      BY PlaceSets
    <3>2. \A i \in DOMAIN d.entries : d.entries[i].reference # "LongTerm"
      BY <2>4, PlaceSets DEF Tidy
    <3>3. e.entries[e.stored].reference # "LongTerm"
      BY <2>3 DEF LeftFor, IsRef, Same
    <3>4. QED BY <2>3, <3>1, <3>2, <3>3
  <2>7. NumRefFrames(e) <= Window
    <3>1. IsBuffer(d) /\ IsFiniteSet(References(d)) /\ NumRefFrames(d) \in Nat
      <4>1. IsBuffer(d)
        BY <2>2 DEF Sound
      <4>2. References(d) \in SUBSET DOMAIN d.entries
        BY PlaceSets
      <4>3. QED BY <4>1, <4>2, PlacesFinite DEF NumRefFrames
    <3>2. CASE IsRef(pic)
      <4>1. e.stored \notin References(d)
        BY <2>3, PlaceSets
      <4>2. NumRefFrames(e) = NumRefFrames(d) + 1
        BY <2>3, <3>1, <3>2, <4>1, FS_AddElement DEF NumRefFrames
      <4>3. NumRefFrames(d) < Window
        BY <2>4, <3>2 DEF LeftFor, NumRefFrames
      <4>4. Window \in Nat
        BY Parameters
      <4>5. QED BY <3>1, <4>2, <4>3, <4>4
    <3>3. CASE ~IsRef(pic)
      BY <2>3, <2>4, <3>3 DEF Tidy, NumRefFrames
    <3>4. QED BY <3>2, <3>3
  <2>8. QED BY <1>6, <2>5, <2>6, <2>7 DEF Tidy, Going, e
<1>7. QED BY <1>1, <1>4, <1>5, <1>6 DEF Placed

(* The room the buffer has if these of the waiting pictures are kept.      *)
TakenBy(d, kept) == References(d) \cup {i \in Bumpable(d) : d.entries[i].n \in kept}

LEMMA RoomOfKept ==
  ASSUME NEW N \in Nat, NEW d, Sound(d, N), NEW kept \in SUBSET Waits(d)
  PROVE  /\ LeaveRoom(kept, d) <=> Cardinality(TakenBy(d, kept)) < sps.max_num_pics
         /\ IsFiniteSet(TakenBy(d, kept)) /\ Cardinality(TakenBy(d, kept)) \in Nat
<1> DEFINE B == {i \in Bumpable(d) : d.entries[i].n \in kept}
           R == {i \in References(d) : d.entries[i].n \notin kept}
           f == [i \in B |-> d.entries[i].n]
<1>1. /\ \A i \in Bumpable(d) : i \in DOMAIN d.entries /\ d.entries[i].n \in 1..N
      /\ \A i \in References(d) : i \in DOMAIN d.entries
      /\ NumbersDiffer(d)
  BY SoundWaits, PlaceSets
<1>2. IsFiniteSet(B) /\ IsFiniteSet(R)
  <2>1. B \in SUBSET DOMAIN d.entries /\ R \in SUBSET DOMAIN d.entries
    BY <1>1
  <2>2. IsBuffer(d)
    BY DEF Sound
  <2>3. QED BY <2>1, <2>2, PlacesFinite
<1>3. Cardinality(kept) = Cardinality(B)
  <2>1. \A n \in kept : \E i \in B : d.entries[i].n = n
    BY DEF Waits
  <2>2. f \in Surjection(B, kept)
    <3>1. f \in [B -> kept]
      OBVIOUS
    <3>2. \A n \in kept : \E i \in B : f[i] = n
      BY <2>1
    <3>3. QED BY <3>1, <3>2 DEF Surjection
  <2>3. f \in Injection(B, kept)
    <3>1. f \in [B -> kept]
      OBVIOUS
    <3>2. \A i, j \in B : f[i] = f[j] => i = j
      BY <1>1 DEF NumbersDiffer
    <3>3. QED BY <3>1, <3>2 DEF Injection, IsInjective
  <2> HIDE DEF f, B
  <2>4. QED BY <1>2, <2>2, <2>3, FS_Surjection
<1>4. TakenBy(d, kept) = B \cup R /\ B \cap R = {}
  <2>1. ASSUME NEW i \in References(d), d.entries[i].n \in kept PROVE i \in Bumpable(d)
    <3>1. PICK j \in Bumpable(d) : d.entries[j].n = d.entries[i].n
      BY <2>1 DEF Waits
    <3>2. d.entries[j].n # 0 /\ i \in DOMAIN d.entries /\ j \in DOMAIN d.entries
      BY <1>1
    <3>3. i = j
      BY <3>1, <3>2 DEF Sound
    <3>4. QED BY <3>3
  <2>2. QED BY <2>1 DEF TakenBy
<1> HIDE DEF B
<1>5. /\ IsFiniteSet(B \cup R)
      /\ Cardinality(B \cup R) = Cardinality(B) + Cardinality(R) - Cardinality(B \cap R)
  BY <1>2, FS_Union
<1>6. Cardinality(B) \in Nat /\ Cardinality(R) \in Nat /\ Cardinality(B \cap R) = 0
  BY <1>2, <1>4, FS_CardinalityType, FS_EmptySet
<1>7. Cardinality(TakenBy(d, kept)) = Cardinality(kept) + Cardinality(R)
  BY <1>3, <1>4, <1>5, <1>6
<1>8. QED BY <1>3, <1>4, <1>5, <1>6, <1>7 DEF LeaveRoom

LEMMA MoreTaken ==
  ASSUME NEW N \in Nat, NEW d, Sound(d, N), NEW kept \in SUBSET Waits(d),
         NEW S, S \subseteq TakenBy(d, kept)
  PROVE  Cardinality(S) <= Cardinality(TakenBy(d, kept)) /\ Cardinality(S) \in Nat
<1>1. IsFiniteSet(TakenBy(d, kept))
  BY RoomOfKept
<1>2. S \in SUBSET TakenBy(d, kept)
  OBVIOUS
<1>3. IsFiniteSet(S) /\ Cardinality(S) <= Cardinality(TakenBy(d, kept))
  BY <1>1, <1>2, FS_Subset
<1>4. QED BY <1>3, FS_CardinalityType

(* No picture that waits has the picture's place in output order.          *)
Fresh(d, pic) ==
  ~pic.nonexisting =>
    pic.poc = Poc(pic.n) /\ \A i \in Bumpable(d) : d.entries[i].poc # pic.poc

WaitsInOrder(d) ==
  \A m, n \in Waits(d) : Poc(m) \in Int /\ Poc(n) \in Int /\ (Poc(m) = Poc(n) => m = n)

LEMMA PocsDiffer ==
  ASSUME NEW N \in Nat, NEW d, Sound(d, N), Ordered(d)
  PROVE  WaitsInOrder(d)
<1>1. \A i \in Bumpable(d) : d.entries[i].poc \in Int /\ d.entries[i].poc = Poc(d.entries[i].n)
  <2>1. \A i \in Bumpable(d) : i \in DOMAIN d.entries /\ d.entries[i] \in Picture
    BY PlaceSets DEF Sound, IsBuffer
  <2>2. QED BY <2>1 DEF Ordered, Picture
<1>2. \A n \in Waits(d) : \E i \in Bumpable(d) : d.entries[i].n = n
  BY DEF Waits
<1>3. QED BY <1>1, <1>2 DEF Ordered, WaitsInOrder

(* What bumping leaves is what the standard keeps.                         *)
LEMMA KeptIsWaiting ==
  ASSUME stream \in Streams, NEW N \in Nat, NEW d, Sound(d, N), Ordered(d),
         NEW pic \in Picture, LeftFor(d, pic), Fresh(d, pic),
         NEW b, b = BumpAsNeeded(d, pic)
  PROVE  /\ KeptByStandard(Waits(d), d, pic) = Waits(b.dpb)
         /\ LeaveRoom(Waits(b.dpb), d) <=> HasEmptyFrameBuffer(b.dpb)
         /\ Ordered(b.dpb)
<1> DEFINE e == b.dpb
           K == Waits(e)
           last == b.out[Len(b.out)]
           after == IF IsRef(pic) THEN {} ELSE {n \in Waits(d) : Poc(n) > pic.poc}
           fitting == {kept \in SUBSET Waits(d) :
                         after \subseteq kept /\ ClosedUpwards(kept, Waits(d)) /\ LeaveRoom(kept, d)}
<1>1. IsBuffer(d) /\ NumbersDiffer(d)
  BY SoundWaits DEF Sound
<1>2. Popped(d, b) /\ Ascending(b) /\ Pushed(d, pic, b)
  <2>1. Used(d)
    BY DEF LeftFor, Tidy
  <2>2. QED BY <1>1, <2>1, BumpedAsNeeded
<1>3. /\ b.out \in Seq(Waits(d)) /\ Range(b.out) \cup K = Waits(d) /\ Range(b.out) \cap K = {}
      /\ Survives(d, e)
  BY <1>2 DEF Popped
<1>4. /\ References(e) = References(d)
      /\ IsRef(pic) => HasEmptyFrameBuffer(e)
      /\ HasEmptyFrameBuffer(e) <=> Cardinality(References(d) \cup Bumpable(e)) < sps.max_num_pics
      /\ ~HasEmptyFrameBuffer(e) => \A i \in Bumpable(e) : ~(e.entries[i].poc < pic.poc)
  BY BumpingMakesRoom
<1>5. \A i \in Bumpable(e) :
        i \in Bumpable(d) /\ e.entries[i].n = d.entries[i].n /\ e.entries[i].poc = d.entries[i].poc
  BY <1>3, PlaceSets DEF Survives, Same
<1>6. WaitsInOrder(d)
  BY PocsDiffer
<1>7. TakenBy(d, K) = References(d) \cup Bumpable(e)
  <2>1. ASSUME NEW i \in Bumpable(d), d.entries[i].n \in K PROVE i \in Bumpable(e)
    <3>1. PICK j \in Bumpable(e) : e.entries[j].n = d.entries[i].n
      BY <2>1 DEF Waits
    <3>2. i = j
      BY <1>1, <1>5, <3>1 DEF NumbersDiffer
    <3>3. QED BY <3>2
  <2>2. \A i \in Bumpable(e) : i \in Bumpable(d) /\ d.entries[i].n \in K
    BY <1>5 DEF Waits
  <2>3. QED BY <2>1, <2>2 DEF TakenBy
<1>8. K \in SUBSET Waits(d)
  BY <1>3
<1>9. LeaveRoom(K, d) <=> HasEmptyFrameBuffer(e)
  BY <1>4, <1>7, <1>8, RoomOfKept
<1>10. Ordered(e)
  BY <1>5 DEF Ordered
<1>11. \A n \in Range(b.out) : \E k \in 1..Len(b.out) : n = b.out[k]
  BY <1>3, InRange
<1>12. \A n \in Range(b.out) : \A m \in K : Poc(n) < Poc(m)
  BY <1>2, <1>11 DEF Ascending
<1>13. ASSUME NEW n \in Range(b.out)
       PROVE  b.out # <<>> /\ last \in Range(b.out) /\ (n = last \/ Poc(n) < Poc(last))
  <2>1. Len(b.out) \in Nat
    BY <1>3, LenProperties
  <2>2. PICK k \in 1..Len(b.out) : n = b.out[k]
    BY <1>11
  <2>3. Len(b.out) \in 1..Len(b.out) /\ (k = Len(b.out) \/ k < Len(b.out))
    BY <2>1
  <2>4. n = last \/ Poc(n) < Poc(last)
    BY <1>2, <2>2, <2>3 DEF Ascending
  <2>5. b.out # <<>>
    BY <2>1, <2>3
  <2>6. last \in Range(b.out)
    BY <1>3, <2>3, InRange
  <2>7. QED BY <2>4, <2>5, <2>6
<1>14. ASSUME NEW n \in Range(b.out)
       PROVE  \E i \in Bumpable(d) :
                /\ d.entries[i].n = last
                /\ Cardinality(References(d) \cup Bumpable(e) \cup {i}) >= sps.max_num_pics
                /\ IsRef(pic) \/ Poc(last) < pic.poc
  <2>1. PICK i \in Bumpable(d) :
          /\ d.entries[i].n = last
          /\ Cardinality(References(d) \cup Bumpable(e) \cup {i}) >= d.max_num_pics
          /\ pic.nonexisting \/ (IsRef(pic) /\ ~pic.is_idr) \/ d.entries[i].poc < pic.poc
    BY <1>2, <1>13 DEF Pushed
  <2>2. d.entries[i].poc = Poc(last)
    BY <2>1 DEF Ordered
  <2>3. d.max_num_pics = sps.max_num_pics /\ (pic.nonexisting => IsRef(pic))
    BY DEF Sound, LeftFor
  <2>4. QED BY <2>1, <2>2, <2>3
<1>15. after \subseteq K
  <2>1. SUFFICES ASSUME ~IsRef(pic), NEW n \in Waits(d), Poc(n) > pic.poc, n \in Range(b.out)
                 PROVE FALSE
    BY <1>3
  <2>2. Poc(last) < pic.poc /\ last \in Waits(d)
    BY <1>3, <1>13, <1>14, <2>1
  <2>3. Poc(n) \in Int /\ Poc(last) \in Int /\ pic.poc \in Int
    BY <1>6, <2>2 DEF WaitsInOrder, Picture
  <2>4. n = last \/ Poc(n) < Poc(last)
    BY <1>13, <2>1
  <2>5. QED BY <2>1, <2>2, <2>3, <2>4
<1>16. KeptByStandard(Waits(d), d, pic) = IF fitting = {} THEN after ELSE UNION fitting
  BY DEF KeptByStandard
<1> HIDE DEF K, last
<1>17. CASE HasEmptyFrameBuffer(e)
  <2>1. K \in fitting
    <3>1. ClosedUpwards(K, Waits(d))
      <4>1. SUFFICES ASSUME NEW m \in K, NEW n \in Waits(d), Poc(n) > Poc(m), n \in Range(b.out)
                     PROVE FALSE
        BY <1>3 DEF ClosedUpwards
      <4>2. Poc(n) < Poc(m) /\ Poc(n) \in Int /\ Poc(m) \in Int
        BY <1>6, <1>8, <1>12, <4>1 DEF WaitsInOrder
      <4>3. QED BY <4>1, <4>2
    <3>2. QED BY <1>8, <1>9, <1>15, <1>17, <3>1
  <2>2. ASSUME NEW kept \in fitting PROVE kept \subseteq K
    <3>1. SUFFICES ASSUME NEW n \in kept, n \in Range(b.out) PROVE FALSE
      BY <1>3
    <3>2. kept \in SUBSET Waits(d) /\ ClosedUpwards(kept, Waits(d)) /\ LeaveRoom(kept, d)
      OBVIOUS
    <3>3. last \in kept
      BY <1>3, <1>13, <3>1, <3>2, <1>6 DEF ClosedUpwards, WaitsInOrder
    <3>4. \A m \in K : m \in kept
      BY <1>6, <1>8, <1>12, <3>1, <3>2 DEF ClosedUpwards, WaitsInOrder
    <3>5. PICK i \in Bumpable(d) :
            /\ d.entries[i].n = last
            /\ Cardinality(References(d) \cup Bumpable(e) \cup {i}) >= sps.max_num_pics
      BY <1>14, <3>1
    <3>6. References(d) \cup Bumpable(e) \cup {i} \subseteq TakenBy(d, kept)
      <4>1. \A j \in Bumpable(e) : j \in Bumpable(d) /\ d.entries[j].n \in K
        BY <1>5 DEF Waits, K
      <4>2. QED BY <3>3, <3>4, <3>5, <4>1 DEF TakenBy
    <3>7. /\ Cardinality(References(d) \cup Bumpable(e) \cup {i}) <= Cardinality(TakenBy(d, kept))
          /\ Cardinality(References(d) \cup Bumpable(e) \cup {i}) \in Nat
      BY <3>2, <3>6, MoreTaken
    <3>8. Cardinality(TakenBy(d, kept)) < sps.max_num_pics /\ Cardinality(TakenBy(d, kept)) \in Nat
      BY <3>2, RoomOfKept
    <3>9. sps.max_num_pics \in Nat
      BY Parameters
    <3>10. QED BY <3>5, <3>7, <3>8, <3>9
  <2>3. UNION fitting = K /\ fitting # {}
    BY <2>1, <2>2
  <2>4. QED BY <1>9, <1>10, <1>16, <2>3 DEF K
<1>18. CASE ~HasEmptyFrameBuffer(e)
  <2>1. ~IsRef(pic) /\ ~pic.nonexisting
    BY <1>4, <1>18 DEF LeftFor
  <2>2. ASSUME NEW m \in K PROVE Poc(m) > pic.poc /\ m \in Waits(d)
    <3>1. PICK i \in Bumpable(e) : e.entries[i].n = m
      BY DEF K, Waits
    <3>2. /\ ~(e.entries[i].poc < pic.poc) /\ i \in Bumpable(d)
          /\ d.entries[i].n = m /\ e.entries[i].poc = d.entries[i].poc
      BY <1>4, <1>5, <1>18, <3>1
    <3>3. d.entries[i].poc = Poc(m) /\ d.entries[i].poc # pic.poc
      BY <2>1, <3>2 DEF Ordered, Fresh
    <3>4. Poc(m) \in Int /\ pic.poc \in Int
      BY <1>6, <1>8 DEF WaitsInOrder, Picture
    <3>5. QED BY <1>8, <3>2, <3>3, <3>4
  <2>3. after = K
    BY <1>15, <2>1, <2>2
  <2>4. fitting = {}
    <3>1. SUFFICES ASSUME NEW kept \in fitting PROVE FALSE
      OBVIOUS
    <3>2. kept \in SUBSET Waits(d) /\ K \subseteq kept /\ LeaveRoom(kept, d)
      BY <2>3
    <3>3. TakenBy(d, K) \subseteq TakenBy(d, kept)
      BY <3>2 DEF TakenBy
    <3>4. /\ Cardinality(TakenBy(d, K)) <= Cardinality(TakenBy(d, kept))
          /\ Cardinality(TakenBy(d, K)) \in Nat
      BY <3>2, <3>3, MoreTaken
    <3>5. Cardinality(TakenBy(d, kept)) < sps.max_num_pics /\ Cardinality(TakenBy(d, kept)) \in Nat
      BY <3>2, RoomOfKept
    <3>6. ~(Cardinality(TakenBy(d, K)) < sps.max_num_pics)
      BY <1>4, <1>7, <1>18
    <3>7. sps.max_num_pics \in Nat
      BY Parameters
    <3>8. QED BY <3>4, <3>5, <3>6, <3>7
  <2>5. QED BY <1>9, <1>10, <1>16, <2>3, <2>4 DEF K
<1>19. QED BY <1>17, <1>18

LEMMA ContinuesPlaces ==
  ASSUME NEW T, NEW s \in Seq(T), NEW t \in Seq(T), NEW u, Continues(u, s, t)
  PROVE  /\ u \in Seq(T) /\ Range(u) = Range(s) \cup Range(t)
         /\ Len(s) \in Nat /\ Len(t) \in Nat /\ Len(u) = Len(s) + Len(t)
         /\ \A k \in 1..Len(u) : \/ k \in 1..Len(s) /\ u[k] = s[k]
                                 \/ /\ k > Len(s) /\ k - Len(s) \in 1..Len(t)
                                    /\ u[k] = t[k - Len(s)]
<1>1. u = s \o t
  BY DEF Continues
<1>2. \A k \in 1..Len(s \o t) : \/ k \in 1..Len(s) /\ (s \o t)[k] = s[k]
                                \/ /\ k > Len(s) /\ k - Len(s) \in 1..Len(t)
                                   /\ (s \o t)[k] = t[k - Len(s)]
  BY JoinedPlaces
<1>3. /\ s \o t \in Seq(T) /\ Range(s \o t) = Range(s) \cup Range(t)
      /\ Len(s) \in Nat /\ Len(t) \in Nat /\ Len(s \o t) = Len(s) + Len(t)
  BY Joined
<1>4. QED BY <1>1, <1>2, <1>3

LEMMA AscendingJoined ==
  ASSUME NEW T, NEW s, s.out \in Seq(T), Ascending(s),
         NEW b, b.out \in Seq(T), \A k \in 1..Len(b.out) : b.out[k] \in Waits(s.dpb),
         Waits(b.dpb) \subseteq Waits(s.dpb), Ascending(b),
         NEW t, t.dpb = b.dpb, Continues(t.out, s.out, b.out)
  PROVE  Ascending(t)
<1>1. Len(s.out) \in Nat /\ Len(b.out) \in Nat
  BY LenProperties
<1>2. \A k \in 1..Len(t.out) :
        \/ k \in 1..Len(s.out) /\ t.out[k] = s.out[k]
        \/ /\ k > Len(s.out) /\ k - Len(s.out) \in 1..Len(b.out)
           /\ t.out[k] = b.out[k - Len(s.out)]
  <2> DEFINE o == s.out p == b.out u == t.out
  <2>1. o \in Seq(T) /\ p \in Seq(T) /\ Continues(u, o, p)
    OBVIOUS
  <2> HIDE DEF o, p, u
  <2>2. \A k \in 1..Len(u) : \/ k \in 1..Len(o) /\ u[k] = o[k]
                             \/ k > Len(o) /\ k - Len(o) \in 1..Len(p) /\ u[k] = p[k - Len(o)]
    BY <2>1, ContinuesPlaces
  <2>3. QED BY <2>2 DEF o, p, u
<1>3. \A k \in 1..Len(s.out) : \A n \in Waits(s.dpb) : Poc(s.out[k]) < Poc(n)
  BY DEF Ascending
<1>4. ASSUME NEW k \in 1..Len(t.out), NEW l \in 1..Len(t.out), k < l
      PROVE  Poc(t.out[k]) < Poc(t.out[l])
  <2>1. CASE k \in 1..Len(s.out) /\ t.out[k] = s.out[k] /\ l \in 1..Len(s.out) /\ t.out[l] = s.out[l]
    BY <1>4, <2>1 DEF Ascending
  <2>2. CASE /\ k \in 1..Len(s.out) /\ t.out[k] = s.out[k]
             /\ l - Len(s.out) \in 1..Len(b.out) /\ t.out[l] = b.out[l - Len(s.out)]
    BY <1>3, <2>2
  <2>3. CASE /\ k - Len(s.out) \in 1..Len(b.out) /\ t.out[k] = b.out[k - Len(s.out)]
             /\ l - Len(s.out) \in 1..Len(b.out) /\ t.out[l] = b.out[l - Len(s.out)]
    <3>1. k - Len(s.out) < l - Len(s.out)
      BY <1>1, <1>4
    <3>2. QED BY <2>3, <3>1 DEF Ascending
  <2>4. ~(k > Len(s.out) /\ l \in 1..Len(s.out))
    BY <1>1, <1>4
  <2>5. QED BY <1>2, <2>1, <2>2, <2>3, <2>4
<1>5. ASSUME NEW k \in 1..Len(t.out), NEW n \in Waits(t.dpb)
      PROVE  Poc(t.out[k]) < Poc(n)
  BY <1>2, <1>3 DEF Ascending
<1>6. QED BY <1>4, <1>5 DEF Ascending

(* All that is output or bumped precedes the picture.                      *)
Precedes(s, W, pic) ==
  ~pic.nonexisting =>
    \A n \in W \ KeptByStandard(s.held, s.dpb, pic) : Poc(n) < pic.poc

(* A call that has output in order, and nothing that the standard holds.   *)
Regular(s) ==
  /\ Going(s)
  /\ Tidy(s.dpb)
  /\ Ordered(s.dpb)
  /\ s.held = Waits(s.dpb)
  /\ Ascending(s)

LEMMA RegularPlaced ==
  ASSUME stream \in Streams, NEW N \in Nat, NEW W, NEW s, Account(s, W, N), Going(s),
         NEW pic \in Picture, NEW M \in Nat, NumberedAfter(pic, N, M), LeftFor(s.dpb, pic),
         Ordered(s.dpb), Fresh(s.dpb, pic), s.held = Waits(s.dpb), Ascending(s),
         Precedes(s, W, pic),
         NEW r, r = BumpAndStore(s, pic)
  PROVE  Regular(r)
<1> DEFINE b == BumpAsNeeded(s.dpb, pic)
<1>1. PICK t : /\ t = Bumped(s, b) /\ Account(t, W, N) /\ Placed(t, pic, r) /\ t.dpb = b.dpb
               /\ Continues(t.out, s.out, b.out)
  BY BumpAndStoreFacts
<1>2. r.held = HeldByStandard(s.held, s.dpb, pic)
  BY BumpAndStoreFacts
<1>3. Going(r) /\ Tidy(r.dpb)
  BY TidyPlaced
<1>4. Sound(s.dpb, N) /\ Sound(t.dpb, N) /\ s.out \in Seq(1..N) /\ t.out \in Seq(1..N)
  BY <1>1 DEF Account
<1>5. /\ KeptByStandard(Waits(s.dpb), s.dpb, pic) = Waits(b.dpb)
      /\ LeaveRoom(Waits(b.dpb), s.dpb) <=> HasEmptyFrameBuffer(b.dpb)
      /\ Ordered(b.dpb)
  BY <1>4, KeptIsWaiting
<1>6. ~HasEmptyFrameBuffer(b.dpb) => \A i \in Bumpable(b.dpb) : ~(b.dpb.entries[i].poc < pic.poc)
  BY <1>4, BumpingMakesRoom
<1>7. Popped(s.dpb, b) /\ Ascending(b)
  <2>1. IsBuffer(s.dpb) /\ NumbersDiffer(s.dpb)
    BY <1>4, SoundWaits DEF Sound
  <2>2. QED BY <2>1, BumpedAsNeeded
<1> HIDE DEF b
<1>8. /\ b.out \in Seq(Waits(s.dpb)) /\ Range(b.out) \cup Waits(b.dpb) = Waits(s.dpb)
      /\ Survives(s.dpb, b.dpb)
  BY <1>7 DEF Popped
<1>9. Ascending(t)
  <2>1. Waits(s.dpb) \subseteq 1..N
    BY <1>4, SoundWaits
  <2>2. b.out \in Seq(1..N)
    BY <1>8, <2>1, SeqMonotonic
  <2>3. \A k \in 1..Len(b.out) : b.out[k] \in Waits(s.dpb)
    BY <1>8, InRange
  <2>4. Waits(b.dpb) \subseteq Waits(s.dpb)
    BY <1>8
  <2>5. QED BY <1>1, <1>4, <1>7, <2>2, <2>3, <2>4, AscendingJoined
<1>10. Range(t.out) \cap Waits(t.dpb) = {} /\ Range(t.out) \cup Waits(t.dpb) = W
  BY <1>1 DEF Account
<1>11. ASSUME ~pic.nonexisting, NEW k \in 1..Len(t.out) PROVE Poc(t.out[k]) < Poc(pic.n)
  <2>1. t.out[k] \in Range(t.out)
    BY <1>4, InRange
  <2>2. t.out[k] \in W \ Waits(b.dpb)
    BY <1>1, <1>10, <2>1
  <2>3. pic.poc = Poc(pic.n)
    BY <1>11 DEF Fresh
  <2>4. QED BY <1>5, <1>11, <2>2, <2>3 DEF Precedes
<1>12. /\ pic.nonexisting \in BOOLEAN /\ ~pic.has_mmco_5 /\ (pic.nonexisting => IsRef(pic))
  BY DEF LeftFor, Picture
<1>13. r.held = IF pic.nonexisting \/ ~(IsRef(pic) \/ HasEmptyFrameBuffer(b.dpb))
                  THEN Waits(b.dpb) ELSE Waits(b.dpb) \cup {pic.n}
  BY <1>2, <1>5, <1>12 DEF HeldByStandard
<1>14. \A i \in Bumpable(b.dpb) :
         i \in Bumpable(s.dpb) /\ b.dpb.entries[i].poc = s.dpb.entries[i].poc
  BY <1>8, PlaceSets DEF Survives, Same
<1>15. CASE /\ ~(IsRef(pic) \/ HasEmptyFrameBuffer(t.dpb))
            /\ r.dpb = t.dpb /\ Extends(r.out, t.out, pic.n)
  <2>1. ~pic.nonexisting /\ ~HasEmptyFrameBuffer(b.dpb)
    BY <1>1, <1>12, <1>15
  <2>2. r.held = Waits(r.dpb) /\ Ordered(r.dpb)
    BY <1>1, <1>5, <1>13, <1>15
  <2>3. ASSUME NEW n \in Waits(r.dpb) PROVE Poc(pic.n) < Poc(n)
    <3>1. PICK i \in Bumpable(b.dpb) : b.dpb.entries[i].n = n
      BY <1>1, <1>15, <2>3 DEF Waits
    <3>2. ~(b.dpb.entries[i].poc < pic.poc) /\ b.dpb.entries[i].poc # pic.poc
      BY <1>6, <1>14, <2>1, <3>1 DEF Fresh
    <3>3. b.dpb.entries[i].poc = Poc(n) /\ pic.poc = Poc(pic.n)
      BY <1>5, <2>1, <3>1 DEF Ordered, Fresh
    <3>4. b.dpb.entries[i].poc \in Int /\ pic.poc \in Int
      <4>1. i \in DOMAIN b.dpb.entries /\ b.dpb.entries \in [DOMAIN b.dpb.entries -> Picture]
        BY <1>8, PlaceSets DEF Survives, IsBuffer
      <4>2. QED BY <4>1 DEF Picture
    <3>5. QED BY <3>2, <3>3, <3>4
  <2>4. /\ Len(t.out) \in Nat /\ Len(r.out) = Len(t.out) + 1
        /\ \A k \in 1..Len(t.out) : r.out[k] = t.out[k]
        /\ r.out[Len(t.out) + 1] = pic.n
    <3>1. t.out \in Seq(Nat) /\ pic.n \in Nat
      <4>1. 1..N \subseteq Nat
        OBVIOUS
      <4>2. QED BY <1>4, <4>1, SeqMonotonic DEF Picture
    <3>2. QED BY <1>15, <3>1, Appended DEF Extends
  <2>5. \A k \in 1..Len(r.out) : k \in 1..Len(t.out) \/ k = Len(t.out) + 1
    BY <2>4
  <2>6. ASSUME NEW k \in 1..Len(r.out), NEW l \in 1..Len(r.out), k < l
        PROVE  Poc(r.out[k]) < Poc(r.out[l])
    <3>1. k \in 1..Len(t.out)
      BY <2>4, <2>6
    <3>2. CASE l \in 1..Len(t.out)
      BY <1>9, <2>4, <2>6, <3>1, <3>2 DEF Ascending
    <3>3. CASE l = Len(t.out) + 1
      BY <1>11, <2>1, <2>4, <3>1, <3>3
    <3>4. QED BY <2>5, <3>2, <3>3
  <2>7. ASSUME NEW k \in 1..Len(r.out), NEW n \in Waits(r.dpb) PROVE Poc(r.out[k]) < Poc(n)
    <3>1. CASE k \in 1..Len(t.out)
      BY <1>9, <1>15, <2>4, <2>7, <3>1 DEF Ascending
    <3>2. CASE k = Len(t.out) + 1
      BY <2>3, <2>4, <2>7, <3>2
    <3>3. QED BY <2>5, <3>1, <3>2
  <2>8. Ascending(r)
    BY <2>6, <2>7 DEF Ascending
  <2>9. QED BY <1>3, <2>2, <2>8 DEF Regular
<1>16. CASE IsRef(pic) /\ ~HasEmptyFrameBuffer(t.dpb) /\ r.ok = FALSE
  BY <1>3, <1>16 DEF Going
<1>17. CASE /\ HasEmptyFrameBuffer(t.dpb)
            /\ r.dpb = StorePicture(t.dpb, pic) /\ r.out = t.out
  <2> DEFINE d == t.dpb e == r.dpb
  <2>1. \/ pic.nonexisting /\ pic.n = 0 /\ M = N
        \/ ~pic.nonexisting /\ pic.n = N + 1 /\ M = N + 1
    BY DEF NumberedAfter
  <2>2. d = b.dpb
    BY <1>1
  <2>9. Sound(d, N) /\ e = StorePicture(d, pic)
    BY <1>4, <1>17
  <2> HIDE DEF d, e
  <2>3. /\ Waits(e) = IF pic.nonexisting THEN Waits(d) ELSE Waits(d) \cup {pic.n}
        /\ Bumpable(e) = IF pic.nonexisting THEN Bumpable(d) ELSE Bumpable(d) \cup {e.stored}
        /\ DOMAIN e.entries = DOMAIN d.entries \cup {e.stored}
        /\ e.stored \notin DOMAIN d.entries
        /\ \A i \in DOMAIN d.entries : e.entries[i] = d.entries[i]
        /\ Same(pic, e.entries[e.stored])
    BY <2>1, <2>9, SoundStore
  <2>4. r.held = Waits(e)
    BY <1>1, <1>13, <1>17, <2>2, <2>3
  <2>5. Ordered(d) /\ \A i \in Bumpable(d) : i \in DOMAIN d.entries /\ e.entries[i] = d.entries[i]
    BY <1>5, <2>2, <2>3, PlaceSets
  <2>6. Ordered(e)
    <3>1. CASE pic.nonexisting
      BY <2>3, <2>5, <3>1 DEF Ordered
    <3>2. CASE ~pic.nonexisting
      <4>1. /\ e.entries[e.stored].poc = Poc(e.entries[e.stored].n)
            /\ e.entries[e.stored].poc = pic.poc
        BY <2>3, <3>2 DEF Fresh, Same
      <4>2. \A i \in Bumpable(d) : d.entries[i].poc # pic.poc
        BY <1>14, <2>2, <3>2 DEF Fresh
      <4>3. \A i \in Bumpable(e) : i \in Bumpable(d) \/ i = e.stored
        BY <2>3, <3>2
      <4>4. \A i \in Bumpable(d) : e.entries[i].poc # e.entries[e.stored].poc
        BY <2>5, <4>1, <4>2
      <4>5. \A i \in Bumpable(e) : e.entries[i].poc = Poc(e.entries[i].n)
        BY <2>5, <4>1, <4>3 DEF Ordered
      <4>6. \A i, j \in Bumpable(d) : e.entries[i].poc = e.entries[j].poc => i = j
        BY <2>5 DEF Ordered
      <4>7. \A i, j \in Bumpable(e) : e.entries[i].poc = e.entries[j].poc => i = j
        BY <4>3, <4>4, <4>6
      <4>8. QED BY <4>5, <4>7 DEF Ordered
    <3>3. QED BY <3>1, <3>2
  <2>7. Ascending(r)
    <3>1. \A k, l \in 1..Len(t.out) : k < l => Poc(t.out[k]) < Poc(t.out[l])
      BY <1>9 DEF Ascending
    <3>2. \A k \in 1..Len(t.out) : \A n \in Waits(d) : Poc(t.out[k]) < Poc(n)
      BY <1>9 DEF Ascending, d
    <3>3. \A k \in 1..Len(t.out) : \A n \in Waits(e) : Poc(t.out[k]) < Poc(n)
      <4>1. CASE pic.nonexisting
        BY <2>3, <3>2, <4>1
      <4>2. CASE ~pic.nonexisting
        BY <1>11, <2>3, <3>2, <4>2
      <4>3. QED BY <4>1, <4>2
    <3>4. QED BY <1>17, <3>1, <3>3 DEF Ascending, e
  <2>8. QED BY <1>3, <2>4, <2>6, <2>7 DEF Regular, e
<1>18. QED BY <1>1, <1>15, <1>16, <1>17 DEF Placed

-----------------------------------------------------------------------------
(* A picture is finished.                                                  *)

MovedTo(s, d, p, k) ==
  [dpb |-> d, prev_ref_frame_num |-> p, out |-> s.out, held |-> s.held, ok |-> k]
WithBuffer(s, d) == [s EXCEPT !.dpb = d]
After(s, d, p) == [s EXCEPT !.dpb = d, !.prev_ref_frame_num = p]
Before(s, p) == [s EXCEPT !.prev_ref_frame_num = p]
Stopped(s, d) == [s EXCEPT !.dpb = d, !.ok = FALSE]
Refused(s) == [s EXCEPT !.ok = FALSE]
WithOk(s, k) == [s EXCEPT !.ok = k]

LEMMA SessionUpdates ==
  ASSUME NEW N, NEW W, NEW s, Account(s, W, N), NEW d, NEW p
  PROVE  /\ WithBuffer(s, d) = MovedTo(s, d, s.prev_ref_frame_num, s.ok)
         /\ After(s, d, p) = MovedTo(s, d, p, s.ok)
         /\ Before(s, p) = MovedTo(s, s.dpb, p, s.ok)
         /\ Stopped(s, d) = MovedTo(s, d, s.prev_ref_frame_num, FALSE)
         /\ Refused(s) = MovedTo(s, s.dpb, s.prev_ref_frame_num, FALSE)
<1> DEFINE t == [dpb |-> s.dpb, prev_ref_frame_num |-> s.prev_ref_frame_num, out |-> s.out,
                 held |-> s.held, ok |-> s.ok]
<1>1. s = t
  BY SessionRecord
<1>2. \A a, q, o, h, k :
        WithBuffer([dpb |-> a, prev_ref_frame_num |-> q, out |-> o, held |-> h, ok |-> k], d)
          = [dpb |-> d, prev_ref_frame_num |-> q, out |-> o, held |-> h, ok |-> k]
  BY DEF WithBuffer
<1>3. \A a, q, o, h, k :
        Before([dpb |-> a, prev_ref_frame_num |-> q, out |-> o, held |-> h, ok |-> k], p)
          = [dpb |-> a, prev_ref_frame_num |-> p, out |-> o, held |-> h, ok |-> k]
  BY DEF Before
<1>4. \A a, q, o, h, k, l :
        WithOk([dpb |-> a, prev_ref_frame_num |-> q, out |-> o, held |-> h, ok |-> k], l)
          = [dpb |-> a, prev_ref_frame_num |-> q, out |-> o, held |-> h, ok |-> l]
  BY DEF WithOk
<1>5. After(t, d, p) = Before(WithBuffer(t, d), p)
  BY DEF After, Before, WithBuffer
<1>6. Stopped(t, d) = WithOk(WithBuffer(t, d), FALSE) /\ Refused(t) = WithOk(t, FALSE)
  <2> HIDE DEF t
  <2>1. Stopped(t, d) = WithOk(WithBuffer(t, d), FALSE)
    BY DEF Stopped, WithOk, WithBuffer
  <2>2. Refused(t) = WithOk(t, FALSE)
    BY DEF Refused, WithOk
  <2>3. QED BY <2>1, <2>2
<1>7. /\ WithBuffer(t, d) = MovedTo(s, d, s.prev_ref_frame_num, s.ok)
      /\ After(t, d, p) = MovedTo(s, d, p, s.ok)
      /\ Before(t, p) = MovedTo(s, s.dpb, p, s.ok)
      /\ Stopped(t, d) = MovedTo(s, d, s.prev_ref_frame_num, FALSE)
      /\ Refused(t) = MovedTo(s, s.dpb, s.prev_ref_frame_num, FALSE)
  <2> DEFINE u == [dpb |-> d, prev_ref_frame_num |-> s.prev_ref_frame_num, out |-> s.out,
                   held |-> s.held, ok |-> s.ok]
  <2>1. WithBuffer(t, d) = u
    BY <1>2
  <2>2. u = MovedTo(s, d, s.prev_ref_frame_num, s.ok)
    BY DEF MovedTo
  <2>3. Before(u, p) = MovedTo(s, d, p, s.ok)
    BY <1>3 DEF MovedTo
  <2>4. \A l : WithOk(u, l) = MovedTo(s, d, s.prev_ref_frame_num, l)
    BY <1>4 DEF MovedTo
  <2>5. Before(t, p) = MovedTo(s, s.dpb, p, s.ok)
    BY <1>3 DEF MovedTo
  <2>6. \A l : WithOk(t, l) = MovedTo(s, s.dpb, s.prev_ref_frame_num, l)
    BY <1>4 DEF MovedTo
  <2> HIDE DEF t, u
  <2>7. QED BY <1>5, <1>6, <2>1, <2>2, <2>3, <2>4, <2>5, <2>6
<1> HIDE DEF t
<1>8. QED BY <1>1, <1>7

LEMMA MovedAccount ==
  ASSUME NEW N \in Nat, NEW W, NEW s, Account(s, W, N), NEW d, Sound(d, N),
         Waits(d) = Waits(s.dpb), NEW p \in 0..(MaxFrameNum - 1), NEW k \in BOOLEAN,
         NEW r, r = MovedTo(s, d, p, k)
  PROVE  /\ Account(r, W, N)
         /\ r.dpb = d /\ r.prev_ref_frame_num = p /\ r.out = s.out /\ r.held = s.held /\ r.ok = k
<1>1. r = [dpb |-> d, prev_ref_frame_num |-> p, out |-> s.out, held |-> s.held, ok |-> k]
  BY DEF MovedTo
<1>2. r.dpb = d /\ r.prev_ref_frame_num = p /\ r.out = s.out /\ r.held = s.held /\ r.ok = k
  BY <1>1, SessionFields
<1>3. /\ s.out \in Seq(1..N) /\ Injective(s.out)
      /\ Range(s.out) \cap Waits(d) = {} /\ Range(s.out) \cup Waits(d) = W
      /\ s.held \subseteq 1..N
  BY DEF Account
<1>4. Account(r, W, N)
  BY <1>1, <1>2, <1>3 DEF Account
<1>5. QED BY <1>2, <1>4

LEMMA AccountMore ==
  ASSUME NEW N \in Nat, NEW W, NEW s, Account(s, W, N)
  PROVE  Account(s, W, N + 1)
<1>1. Sound(s.dpb, N + 1)
  BY SoundWaits DEF Account
<1>2. \A n \in 1..N : n \in 1..(N + 1)
  OBVIOUS
<1>3. s.out \in Seq(1..(N + 1)) /\ s.held \subseteq 1..(N + 1)
  BY <1>2, SeqMonotonic DEF Account
<1>4. QED BY <1>1, <1>3 DEF Account

LEMMA DrainedSession ==
  ASSUME NEW N \in Nat, NEW W, NEW s, Account(s, W, N), NEW r, r = DrainAll(s)
  PROVE  /\ Account(r, W, N)
         /\ DOMAIN r.dpb.entries = {} /\ r.held = {} /\ r.ok = s.ok
         /\ r.prev_ref_frame_num = s.prev_ref_frame_num
         /\ Ordered(s.dpb) /\ Ascending(s) => Ascending(r)
<1> DEFINE b == Drain(s.dpb)
           t == Bumped(s, b)
<1>1. Sound(s.dpb, N) /\ IsBuffer(s.dpb) /\ NumbersDiffer(s.dpb) /\ s.out \in Seq(1..N)
      /\ s.dpb.max_num_pics = sps.max_num_pics
  BY SoundWaits DEF Account, Sound
<1>2. /\ IsBuffer(b.dpb) /\ b.dpb.max_num_pics = s.dpb.max_num_pics
      /\ DOMAIN b.dpb.entries = {}
      /\ b.out \in Seq(Waits(s.dpb)) /\ Injective(b.out) /\ Range(b.out) = Waits(s.dpb)
      /\ Ordered(s.dpb) => \A k, l \in 1..Len(b.out) : k < l => Poc(b.out[k]) < Poc(b.out[l])
  BY <1>1, Drained
<1> HIDE DEF b
<1>3. Sound(b.dpb, N) /\ Waits(b.dpb) = {}
  BY <1>1, <1>2, EmptySound
<1>4. Range(b.out) \cap Waits(b.dpb) = {} /\ Range(b.out) \cup Waits(b.dpb) = Waits(s.dpb)
  BY <1>2, <1>3
<1>5. /\ Account(t, W, N) /\ t.dpb = b.dpb /\ Continues(t.out, s.out, b.out) /\ t.held = s.held
      /\ t.ok = s.ok /\ t.prev_ref_frame_num = s.prev_ref_frame_num
  BY <1>2, <1>3, <1>4, BumpedSession
<1>6. r = Holding(t, {})
  BY DEF DrainAll, b, t, Holding
<1> HIDE DEF t
<1>7. r = [dpb |-> t.dpb, prev_ref_frame_num |-> t.prev_ref_frame_num,
           out |-> t.out, held |-> {}, ok |-> t.ok]
  BY <1>5, <1>6, HoldingRecord
<1>8. /\ r.dpb = t.dpb /\ r.prev_ref_frame_num = t.prev_ref_frame_num /\ r.out = t.out
      /\ r.held = {} /\ r.ok = t.ok
  BY <1>7, SessionFields
<1>9. Account(r, W, N)
  BY <1>5, <1>7, <1>8 DEF Account
<1>10. ASSUME Ordered(s.dpb), Ascending(s) PROVE Ascending(r)
  <2>1. Ascending(b)
    BY <1>2, <1>3, <1>10 DEF Ascending
  <2>2. Waits(s.dpb) \subseteq 1..N
    BY <1>1, SoundWaits
  <2>3. b.out \in Seq(1..N)
    BY <1>2, <2>2, SeqMonotonic
  <2>4. \A k \in 1..Len(b.out) : b.out[k] \in Waits(s.dpb)
    BY <1>2, InRange
  <2>5. Waits(b.dpb) \subseteq Waits(s.dpb)
    BY <1>3
  <2>6. Ascending(t)
    BY <1>1, <1>5, <1>10, <2>1, <2>3, <2>4, <2>5, AscendingJoined
  <2>7. QED BY <1>8, <2>6 DEF Ascending
<1>11. QED BY <1>2, <1>5, <1>8, <1>9, <1>10

(* The picture that was begun last, and what it makes of the buffer.       *)
Begun(cur, N) ==
  /\ cur.pic \in Picture
  /\ cur.pic.n = N + 1
  /\ ~cur.pic.nonexisting /\ ~cur.pic.has_mmco_5
  /\ cur.pic.reference \in {"None", "ShortTerm"}
  /\ IsMarking(cur.pic, cur.marking)

MarkedFor(d, cur) ==
  IF IsRef(cur.pic) THEN ReferencePicMarking(d, cur.pic, cur.marking, sps.max_num_ref_frames)
                    ELSE [dpb |-> d, pic |-> cur.pic, ok |-> TRUE]

LEMMA MarkedFacts ==
  ASSUME stream \in Streams, NEW N \in Nat, NEW d, Sound(d, N), NEW cur, Begun(cur, N),
         NEW m, m = MarkedFor(d, cur)
  PROVE  /\ m = [dpb |-> m.dpb, pic |-> m.pic, ok |-> m.ok]
         /\ Remarked(d, m.dpb) /\ Sound(m.dpb, N) /\ Waits(m.dpb) = Waits(d)
         /\ m.ok \in BOOLEAN /\ m.pic \in Picture
         /\ NumberedAfter(m.pic, N, N + 1)
         /\ m.pic.n = cur.pic.n /\ m.pic.nonexisting = cur.pic.nonexisting
         /\ m.pic.is_idr = cur.pic.is_idr
         /\ IsRef(m.pic) <=> IsRef(cur.pic)
         /\ ~IsRef(cur.pic) => m = [dpb |-> d, pic |-> cur.pic, ok |-> TRUE]
         /\ m.pic.frame_num = IF m.pic.has_mmco_5 THEN 0 ELSE cur.pic.frame_num
         /\ m.pic.has_mmco_5 <=>
              IsRef(cur.pic) /\ \E i \in DOMAIN cur.marking.ops : cur.marking.ops[i].op = 5
<1>1. IsBuffer(d)
  BY DEF Sound
<1>2. sps.max_num_ref_frames \in Nat
  BY Parameters
<1>3. CASE IsRef(cur.pic)
  <2>1. m = ReferencePicMarking(d, cur.pic, cur.marking, sps.max_num_ref_frames)
    BY <1>3 DEF MarkedFor
  <2>2. cur.pic \in Picture /\ cur.pic.reference = "ShortTerm" /\ ~cur.pic.has_mmco_5
        /\ IsMarking(cur.pic, cur.marking)
    BY <1>3 DEF Begun, IsRef
  <2> DEFINE pic == cur.pic
             marking == cur.marking
             max == sps.max_num_ref_frames
  <2>3. /\ pic \in Picture /\ pic.reference = "ShortTerm" /\ ~pic.has_mmco_5
        /\ IsMarking(pic, marking) /\ max \in Nat /\ m = ReferencePicMarking(d, pic, marking, max)
    BY <1>2, <2>1, <2>2
  <2> HIDE DEF pic, marking, max
  <2>4. Marks(d, pic, marking, m)
    BY <1>1, <2>3, MarkingFacts
  <2>5. Marks(d, cur.pic, cur.marking, m)
    BY <2>4 DEF pic, marking
  <2>6. /\ m = [dpb |-> m.dpb, pic |-> m.pic, ok |-> m.ok]
        /\ Remarked(d, m.dpb) /\ m.ok \in BOOLEAN /\ m.pic \in Picture
        /\ m.pic.n = cur.pic.n /\ m.pic.nonexisting = cur.pic.nonexisting
        /\ m.pic.is_idr = cur.pic.is_idr /\ IsRef(m.pic)
        /\ m.pic.has_mmco_5 <=> \E i \in DOMAIN cur.marking.ops : cur.marking.ops[i].op = 5
        /\ m.pic.frame_num = IF m.pic.has_mmco_5 THEN 0 ELSE cur.pic.frame_num
    BY <2>5 DEF Marks
  <2>7. Sound(m.dpb, N) /\ Waits(m.dpb) = Waits(d)
    BY <2>6, SoundSurvives, RemarkedWaits
  <2>8. NumberedAfter(m.pic, N, N + 1)
    BY <2>6 DEF NumberedAfter, Begun
  <2>9. QED BY <1>3, <2>6, <2>7, <2>8
<1>4. CASE ~IsRef(cur.pic)
  <2>1. m = [dpb |-> d, pic |-> cur.pic, ok |-> TRUE]
    BY <1>4 DEF MarkedFor
  <2>2. m.dpb = d /\ m.pic = cur.pic /\ m.ok = TRUE
    BY <2>1
  <2>3. Remarked(d, d)
    BY <1>1, RemarkedSelf
  <2>4. cur.pic \in Picture /\ ~cur.pic.has_mmco_5 /\ NumberedAfter(cur.pic, N, N + 1)
    BY DEF Begun, NumberedAfter
  <2>5. QED BY <1>4, <2>1, <2>2, <2>3, <2>4
<1>5. QED BY <1>3, <1>4

(* It is put in its place from t, unless its marking fails.                *)
PlacedFrom(s, W, N, cur, m, t, r) ==
  /\ Account(t, W, N) /\ Going(t)
  /\ r = BumpAndStore(t, m.pic)
  /\ t.prev_ref_frame_num = IF IsRef(cur.pic) THEN m.pic.frame_num ELSE s.prev_ref_frame_num
  /\ IF m.pic.has_mmco_5
       THEN DOMAIN t.dpb.entries = {} /\ t.held = {}
       ELSE t.dpb = m.dpb /\ t.out = s.out /\ t.held = s.held

LEMMA FinishedFrom ==
  ASSUME stream \in Streams, NEW N \in Nat, NEW W, NEW s, Account(s, W, N), Going(s),
         NEW cur, Begun(cur, N), NEW m, m = MarkedFor(s.dpb, cur), NEW r, r = FinishPicture(s, cur)
  PROVE  \/ m.ok /\ \E t : PlacedFrom(s, W, N, cur, m, t, r)
         \/ ~m.ok /\ IsRef(cur.pic) /\ ~Going(r) /\ Account(r, W, N)
<1>1. /\ Sound(s.dpb, N) /\ s.prev_ref_frame_num \in 0..(MaxFrameNum - 1)
  BY DEF Account
<1>2. /\ m = [dpb |-> m.dpb, pic |-> m.pic, ok |-> m.ok]
      /\ Sound(m.dpb, N) /\ Waits(m.dpb) = Waits(s.dpb)
      /\ m.ok \in BOOLEAN /\ m.pic \in Picture
      /\ IsRef(m.pic) <=> IsRef(cur.pic)
      /\ ~IsRef(cur.pic) => m = [dpb |-> s.dpb, pic |-> cur.pic, ok |-> TRUE]
      /\ m.pic.has_mmco_5 => IsRef(cur.pic)
  <2> DEFINE d == s.dpb
  <2>1. Sound(d, N) /\ m = MarkedFor(d, cur)
    BY <1>1
  <2> HIDE DEF d
  <2>2. /\ m = [dpb |-> m.dpb, pic |-> m.pic, ok |-> m.ok]
        /\ Sound(m.dpb, N) /\ Waits(m.dpb) = Waits(d)
        /\ m.ok \in BOOLEAN /\ m.pic \in Picture
        /\ IsRef(m.pic) <=> IsRef(cur.pic)
        /\ ~IsRef(cur.pic) => m = [dpb |-> d, pic |-> cur.pic, ok |-> TRUE]
    BY <2>1, MarkedFacts
  <2>3. m.pic.has_mmco_5
          <=> IsRef(cur.pic) /\ \E i \in DOMAIN cur.marking.ops : cur.marking.ops[i].op = 5
    BY <2>1, MarkedFacts
  <2>4. QED BY <2>2, <2>3 DEF d
<1>3. m.pic.frame_num \in 0..(MaxFrameNum - 1) /\ m.pic.has_mmco_5 \in BOOLEAN
  BY <1>2 DEF Picture
<1>4. CASE ~IsRef(cur.pic)
  <2>1. r = BumpAndStore(s, cur.pic)
    BY <1>4 DEF FinishPicture
  <2>2. m = [dpb |-> s.dpb, pic |-> cur.pic, ok |-> TRUE]
    BY <1>2, <1>4
  <2>3. m.dpb = s.dpb /\ m.pic = cur.pic /\ m.ok
    BY <2>2
  <2>4. ~m.pic.has_mmco_5
    BY <1>2, <1>4
  <2>5. PlacedFrom(s, W, N, cur, m, s, r)
    BY <1>4, <2>1, <2>3, <2>4 DEF PlacedFrom
  <2>6. QED BY <2>3, <2>5
<1>5. CASE IsRef(cur.pic)
  <2>1. r = FinishReference(s, m)
    BY <1>5 DEF FinishPicture, MarkedFor
  <2>2. CASE ~m.ok
    <3>1. r = Stopped(s, m.dpb)
      BY <2>1, <2>2 DEF FinishReference, Stopped
    <3>2. r = MovedTo(s, m.dpb, s.prev_ref_frame_num, FALSE)
      BY <3>1, SessionUpdates
    <3>3. Account(r, W, N) /\ r.ok = FALSE
      <4> DEFINE no == FALSE d == m.dpb p == s.prev_ref_frame_num
      <4>1. /\ no \in BOOLEAN /\ Sound(d, N) /\ Waits(d) = Waits(s.dpb)
            /\ p \in 0..(MaxFrameNum - 1) /\ r = MovedTo(s, d, p, no)
        BY <1>1, <1>2, <3>2
      <4> HIDE DEF no, d, p
      <4>2. Account(r, W, N) /\ r.ok = no
        BY <4>1, MovedAccount
      <4>3. QED BY <4>2 DEF no
    <3>4. QED BY <1>5, <2>2, <3>3 DEF Going
  <2>3. CASE m.ok
    <3> DEFINE u == After(s, m.dpb, m.pic.frame_num)
    <3>1. u = MovedTo(s, m.dpb, m.pic.frame_num, s.ok)
      BY SessionUpdates
    <3>2. s.ok \in BOOLEAN
      BY DEF Account
    <3> HIDE DEF u
    <3>3. /\ Account(u, W, N)
          /\ u.dpb = m.dpb /\ u.prev_ref_frame_num = m.pic.frame_num /\ u.out = s.out
          /\ u.held = s.held /\ u.ok = s.ok
      BY <1>2, <1>3, <3>1, <3>2, MovedAccount
    <3>4. Going(u)
      BY <3>3 DEF Going
    <3>5. CASE ~m.pic.has_mmco_5
      <4>1. r = BumpAndStore(u, m.pic)
        BY <2>1, <2>3, <3>5 DEF FinishReference, After, u
      <4>2. PlacedFrom(s, W, N, cur, m, u, r)
        BY <1>5, <3>3, <3>4, <3>5, <4>1 DEF PlacedFrom
      <4>3. QED BY <2>3, <4>2
    <3>6. CASE m.pic.has_mmco_5
      <4> DEFINE t == DrainAll(u)
      <4>1. r = BumpAndStore(t, m.pic)
        BY <2>1, <2>3, <3>6 DEF FinishReference, After, u
      <4>2. /\ Account(t, W, N) /\ DOMAIN t.dpb.entries = {} /\ t.held = {} /\ t.ok = u.ok
            /\ t.prev_ref_frame_num = u.prev_ref_frame_num
        BY <3>3, DrainedSession
      <4> HIDE DEF t
      <4>3. Going(t)
        BY <3>4, <4>2 DEF Going
      <4>4. PlacedFrom(s, W, N, cur, m, t, r)
        BY <1>5, <3>3, <3>6, <4>1, <4>2, <4>3 DEF PlacedFrom
      <4>5. QED BY <2>3, <4>4
    <3>7. QED BY <1>3, <3>5, <3>6
  <2>4. QED BY <1>2, <2>2, <2>3
<1>6. QED BY <1>4, <1>5

(* The finished picture is output or waits.                                *)
LEMMA FinishedAccount ==
  ASSUME stream \in Streams, NEW N \in Nat, NEW W, NEW s, Account(s, W, N), Going(s),
         NEW cur, Begun(cur, N), NEW r, r = FinishPicture(s, cur)
  PROVE  Account(r, IF Going(r) THEN W \cup {N + 1} ELSE W, N + 1)
<1> DEFINE m == MarkedFor(s.dpb, cur)
<1>1. /\ m.pic \in Picture /\ NumberedAfter(m.pic, N, N + 1)
      /\ m.pic.n = cur.pic.n /\ m.pic.nonexisting = cur.pic.nonexisting
  <2>1. Sound(s.dpb, N)
    BY DEF Account
  <2>2. QED BY <2>1, MarkedFacts
<1>2. \/ m.ok /\ \E t : PlacedFrom(s, W, N, cur, m, t, r)
      \/ ~m.ok /\ IsRef(cur.pic) /\ ~Going(r) /\ Account(r, W, N)
  BY FinishedFrom
<1> HIDE DEF m
<1>3. CASE ~Going(r) /\ Account(r, W, N)
  BY <1>3, AccountMore
<1>4. CASE \E t : PlacedFrom(s, W, N, cur, m, t, r)
  <2>1. PICK t : Account(t, W, N) /\ Going(t) /\ r = BumpAndStore(t, m.pic)
    BY <1>4 DEF PlacedFrom
  <2> DEFINE pic == m.pic M == N + 1
  <2>2. pic \in Picture /\ NumberedAfter(pic, N, M) /\ M \in Nat /\ r = BumpAndStore(t, pic)
    BY <1>1, <2>1
  <2> HIDE DEF pic, M
  <2>3. Account(r, Taken(r, pic, W), M)
    BY <2>1, <2>2, BumpAndStoreFacts
  <2>4. pic.n = N + 1 /\ ~pic.nonexisting
    BY <1>1 DEF pic, Begun
  <2>5. r.ok \in BOOLEAN
    BY <2>3 DEF Account
  <2>6. Taken(r, pic, W) = IF Going(r) THEN W \cup {N + 1} ELSE W
    BY <2>4, <2>5 DEF Taken, Going
  <2>7. QED BY <2>3, <2>6 DEF M
<1>5. QED BY <1>2, <1>3, <1>4

LEMMA RemarkedOrdered ==
  ASSUME NEW d, NEW e, Remarked(d, e), Ordered(d)
  PROVE  Ordered(e) /\ (\A pic : Fresh(d, pic) => Fresh(e, pic))
<1>1. Bumpable(e) = Bumpable(d)
  BY RemarkedWaits
<1>2. \A i \in Bumpable(d) : /\ i \in DOMAIN e.entries
                             /\ e.entries[i].n = d.entries[i].n
                             /\ e.entries[i].poc = d.entries[i].poc
  BY <1>1, PlaceSets DEF Remarked
<1>3. Ordered(e)
  BY <1>1, <1>2 DEF Ordered
<1>4. QED BY <1>1, <1>2, <1>3 DEF Fresh

LEMMA SlidingLeaves ==
  ASSUME stream \in Streams, NEW d, IsBuffer(d), Tidy(d),
         NEW e, e = SlidingWindowMarking(d, sps.max_num_ref_frames)
  PROVE  Remarked(d, e) /\ Tidy(e) /\ NumRefFrames(e) < Window
<1> DEFINE max == sps.max_num_ref_frames
<1>1. /\ max \in Nat /\ Window = NumberedWindow(max) /\ Window \in Nat
  BY Parameters
<1>2. e = SlidingWindowMarking(d, max) /\ Used(d) /\ LongTerms(d) = {} /\ NumRefFrames(d) <= Window
  BY DEF Tidy
<1> HIDE DEF max
<1>3. /\ Remarked(d, e) /\ (Used(d) => Used(e)) /\ LongTerms(e) = LongTerms(d)
  BY <1>1, <1>2, SlidingMarks
<1>4. NumRefFrames(e) < NumberedWindow(max)
  BY <1>1, <1>2, SlidingMakesRoom
<1>5. NumRefFrames(e) \in Nat
  <2>1. IsBuffer(e) /\ References(e) \in SUBSET DOMAIN e.entries
    BY <1>3, PlaceSets DEF Remarked
  <2>2. QED BY <2>1, PlacesFinite DEF NumRefFrames
<1>6. QED BY <1>1, <1>2, <1>3, <1>4, <1>5 DEF Tidy

(* A marking without operations or long-term references.                   *)
Simple(marking) == ~marking.adaptive /\ ~marking.long_term_reference_flag

LEMMA SimplyMarked ==
  ASSUME stream \in Streams, NEW N \in Nat, NEW d, Sound(d, N), Tidy(d),
         NEW cur, Begun(cur, N), Simple(cur.marking),
         cur.pic.is_idr => IsRef(cur.pic) /\ DOMAIN d.entries = {},
         NEW m, m = MarkedFor(d, cur)
  PROVE  /\ m.ok /\ m.pic = cur.pic /\ Remarked(d, m.dpb)
         /\ LeftFor(m.dpb, m.pic)
         /\ IsRef(cur.pic) /\ ~cur.pic.is_idr =>
              m.dpb = SlidingWindowMarking(d, sps.max_num_ref_frames)
<1>1. IsBuffer(d) /\ sps.max_num_ref_frames \in Nat /\ Window \in Nat /\ 0 < Window
  BY Parameters DEF Sound
<1>2. ~cur.pic.nonexisting /\ ~cur.pic.has_mmco_5 /\ cur.pic \in Picture
  BY DEF Begun
<1>3. CASE ~IsRef(cur.pic)
  <2>1. m = [dpb |-> d, pic |-> cur.pic, ok |-> TRUE]
    BY <1>3 DEF MarkedFor
  <2>2. m.dpb = d /\ m.pic = cur.pic /\ m.ok
    BY <2>1
  <2>3. Remarked(d, d)
    BY <1>1, RemarkedSelf
  <2>4. LeftFor(d, cur.pic)
    BY <1>2, <1>3 DEF LeftFor
  <2>5. QED BY <1>3, <2>2, <2>3, <2>4
<1>4. CASE IsRef(cur.pic)
  <2> DEFINE pic == cur.pic marking == cur.marking max == sps.max_num_ref_frames
  <2>1. pic.reference = "ShortTerm"
    BY <1>4 DEF Begun, IsRef
  <2>2. /\ pic \in Picture /\ ~pic.has_mmco_5 /\ IsMarking(pic, marking) /\ max \in Nat
        /\ m = ReferencePicMarking(d, pic, marking, max)
    BY <1>1, <1>4 DEF MarkedFor, Begun
  <2>3. ~marking.adaptive /\ ~marking.long_term_reference_flag
    BY DEF Simple
  <2> HIDE DEF marking, max
  <2>4. /\ Marks(d, pic, marking, m)
        /\ ~marking.adaptive /\ ~pic.is_idr =>
             m = [dpb |-> SlidingWindowMarking(d, max), pic |-> pic, ok |-> TRUE]
        /\ pic.is_idr => m.ok
        /\ pic.is_idr /\ ~marking.long_term_reference_flag => m.pic = pic
    <3> HIDE DEF pic
    <3>1. QED BY <1>1, <2>1, <2>2, MarkingFacts
  <2>5. Remarked(d, m.dpb)
    BY <2>4 DEF Marks
  <2>6. CASE pic.is_idr
    <3>1. m.ok /\ m.pic = cur.pic
      BY <2>3, <2>4, <2>6
    <3>2. IsBuffer(m.dpb) /\ DOMAIN m.dpb.entries = {} /\ m.dpb.max_num_pics = sps.max_num_pics
      BY <2>5, <2>6 DEF Remarked, Sound
    <3>3. Used(m.dpb) /\ References(m.dpb) = {} /\ LongTerms(m.dpb) = {}
      BY <3>2, EmptySound
    <3>4. NumRefFrames(m.dpb) = 0
      BY <3>3, FS_EmptySet DEF NumRefFrames
    <3>5. LeftFor(m.dpb, m.pic)
      BY <1>1, <1>2, <2>1, <3>1, <3>2, <3>3, <3>4 DEF LeftFor, Tidy
    <3>6. QED BY <2>5, <2>6, <3>1, <3>5
  <2>7. CASE ~pic.is_idr
    <3> DEFINE e == SlidingWindowMarking(d, max)
    <3>1. m = [dpb |-> e, pic |-> pic, ok |-> TRUE]
      BY <2>3, <2>4, <2>7
    <3>2. m.ok /\ m.pic = cur.pic /\ m.dpb = e
      BY <3>1
    <3>3. Tidy(e) /\ NumRefFrames(e) < Window
      BY <1>1, SlidingLeaves DEF max
    <3>4. LeftFor(m.dpb, m.pic)
      BY <1>2, <2>1, <2>7, <3>2, <3>3 DEF LeftFor
    <3>5. QED BY <2>5, <2>7, <3>2, <3>4 DEF max
  <2>8. QED BY <1>2, <2>6, <2>7 DEF Picture
<1>5. QED BY <1>3, <1>4

LEMMA SimplyFinished ==
  ASSUME stream \in Streams, NEW N \in Nat, NEW W, NEW s, Account(s, W, N), Going(s), Tidy(s.dpb),
         NEW cur, Begun(cur, N), Simple(cur.marking),
         cur.pic.is_idr => IsRef(cur.pic) /\ DOMAIN s.dpb.entries = {},
         NEW r, r = FinishPicture(s, cur)
  PROVE  /\ Going(r) /\ Tidy(r.dpb)
         /\ r.prev_ref_frame_num = IF IsRef(cur.pic) THEN cur.pic.frame_num
                                                     ELSE s.prev_ref_frame_num
         /\ Regular(s) /\ Fresh(s.dpb, cur.pic)
              /\ (\A n \in W \ KeptByStandard(s.held, MarkedFor(s.dpb, cur).dpb, cur.pic) :
                    Poc(n) < cur.pic.poc)
            => Regular(r)
<1> DEFINE m == MarkedFor(s.dpb, cur)
           d == m.dpb
           pic == m.pic
           M == N + 1
<1>1. Sound(s.dpb, N) /\ M \in Nat
  BY DEF Account
<1>2. /\ m.ok /\ m.pic = cur.pic /\ Remarked(s.dpb, m.dpb) /\ LeftFor(m.dpb, m.pic)
  BY <1>1, SimplyMarked
<1>3. NumberedAfter(m.pic, N, N + 1) /\ m.pic \in Picture /\ Waits(m.dpb) = Waits(s.dpb)
  BY <1>1, MarkedFacts
<1>4. ~m.pic.has_mmco_5 /\ ~m.pic.nonexisting
  BY <1>2 DEF Begun
<1>5. PICK t : PlacedFrom(s, W, N, cur, m, t, r)
  BY <1>2, FinishedFrom
<1>6. /\ Account(t, W, N) /\ Going(t) /\ r = BumpAndStore(t, pic)
      /\ t.prev_ref_frame_num = IF IsRef(cur.pic) THEN m.pic.frame_num ELSE s.prev_ref_frame_num
      /\ t.dpb = d /\ t.out = s.out /\ t.held = s.held
  BY <1>4, <1>5 DEF PlacedFrom
<1>7. LeftFor(t.dpb, pic) /\ NumberedAfter(pic, N, M) /\ pic \in Picture
  BY <1>2, <1>3, <1>6
<1>8. ASSUME Regular(s), Fresh(s.dpb, cur.pic),
             \A n \in W \ KeptByStandard(s.held, m.dpb, cur.pic) : Poc(n) < cur.pic.poc
      PROVE  /\ Ordered(t.dpb) /\ Fresh(t.dpb, pic) /\ t.held = Waits(t.dpb)
             /\ Ascending(t) /\ Precedes(t, W, pic)
  <2>1. Ordered(s.dpb) /\ s.held = Waits(s.dpb) /\ Ascending(s)
    BY <1>8 DEF Regular
  <2>2. Ordered(d) /\ Fresh(d, pic)
    BY <1>2, <1>8, <2>1, RemarkedOrdered
  <2>3. t.held = Waits(t.dpb) /\ Waits(t.dpb) = Waits(s.dpb)
    BY <1>3, <1>6, <2>1
  <2>4. Ascending(t)
    BY <1>6, <2>1, <2>3 DEF Ascending
  <2>5. Precedes(t, W, pic)
    BY <1>2, <1>6, <1>8 DEF Precedes
  <2>6. QED BY <1>6, <2>2, <2>3, <2>4, <2>5
<1> HIDE DEF m, d, pic, M
<1>9. r.prev_ref_frame_num = t.prev_ref_frame_num
  BY <1>1, <1>6, <1>7, BumpAndStoreFacts
<1>10. Going(r) /\ Tidy(r.dpb)
  BY <1>1, <1>6, <1>7, TidyPlaced
<1>11. ASSUME Ordered(t.dpb), Fresh(t.dpb, pic), t.held = Waits(t.dpb),
              Ascending(t), Precedes(t, W, pic)
       PROVE  Regular(r)
  BY <1>1, <1>6, <1>7, <1>11, RegularPlaced
<1>12. QED BY <1>2, <1>6, <1>8, <1>9, <1>10, <1>11 DEF m, pic

-----------------------------------------------------------------------------
(* Pictures are inferred for those that are missing.                       *)

LEMMA Remainder ==
  ASSUME NEW a \in Int
  PROVE  a % MaxFrameNum \in 0..(MaxFrameNum - 1)
BY H264Assumption

LEMMA RenumberMarks ==
  ASSUME NEW d, IsBuffer(d), NEW frame_num \in 0..(MaxFrameNum - 1),
         NEW e, e = UpdatePicNums(d, frame_num, MaxFrameNum)
  PROVE  /\ Remarked(d, e)
         /\ DOMAIN e.entries = DOMAIN d.entries
         /\ References(e) = References(d) /\ ShortTerms(e) = ShortTerms(d)
         /\ LongTerms(e) = LongTerms(d)
         /\ \A i \in DOMAIN d.entries :
              e.entries[i].long_term_frame_idx = d.entries[i].long_term_frame_idx
         /\ \A i \in ShortTerms(d) :
              e.entries[i].pic_num = IF d.entries[i].frame_num > frame_num
                                       THEN d.entries[i].frame_num - MaxFrameNum
                                       ELSE d.entries[i].frame_num
         /\ Tidy(d) => Tidy(e)
<1>1. /\ IsBuffer(e)
      /\ e.stored = d.stored /\ e.max_num_pics = d.max_num_pics
      /\ e.max_num_reorder_frames = d.max_num_reorder_frames
      /\ DOMAIN e.entries = DOMAIN d.entries
      /\ \A i \in DOMAIN d.entries :
           e.entries[i] =
             IF i \in ShortTerms(d)
               THEN [d.entries[i] EXCEPT !.pic_num =
                       IF d.entries[i].frame_num > frame_num
                         THEN d.entries[i].frame_num - MaxFrameNum ELSE d.entries[i].frame_num]
               ELSE d.entries[i]
  BY UpdatePicNumsFacts
<1>2. \A i \in DOMAIN d.entries : d.entries[i] \in Picture
  BY DEF IsBuffer
<1> DEFINE wrap(i) == IF d.entries[i].frame_num > frame_num
                        THEN d.entries[i].frame_num - MaxFrameNum ELSE d.entries[i].frame_num
<1>3. ASSUME NEW i \in ShortTerms(d)
      PROVE  LET p == d.entries[i] q == e.entries[i] IN
             /\ q.n = p.n /\ q.poc = p.poc /\ q.frame_num = p.frame_num
             /\ q.nonexisting = p.nonexisting /\ q.needed_for_output = p.needed_for_output
             /\ q.reference = p.reference /\ q.long_term_frame_idx = p.long_term_frame_idx
             /\ q.pic_num = wrap(i)
  <2> DEFINE p == d.entries[i] x == wrap(i) q == e.entries[i]
  <2>1. i \in DOMAIN d.entries
    BY PlaceSets
  <2>2. q = [p EXCEPT !.pic_num = x]
    BY <1>1, <2>1
  <2>3. p \in Picture
    BY <1>2, <2>1
  <2> HIDE DEF p, q, x
  <2>4. /\ q.n = p.n /\ q.poc = p.poc /\ q.frame_num = p.frame_num
        /\ q.nonexisting = p.nonexisting /\ q.needed_for_output = p.needed_for_output
        /\ q.reference = p.reference /\ q.long_term_frame_idx = p.long_term_frame_idx
        /\ q.pic_num = x
    BY <2>2, <2>3 DEF Picture
  <2>5. QED BY <2>4 DEF p, q, x
<1>13. \A i \in DOMAIN d.entries : i \notin ShortTerms(d) => e.entries[i] = d.entries[i]
  BY <1>1
<1> HIDE DEF wrap
<1>4. \A i \in DOMAIN d.entries :
        /\ e.entries[i].n = d.entries[i].n /\ e.entries[i].poc = d.entries[i].poc
        /\ e.entries[i].frame_num = d.entries[i].frame_num
        /\ e.entries[i].nonexisting = d.entries[i].nonexisting
        /\ e.entries[i].needed_for_output = d.entries[i].needed_for_output
        /\ e.entries[i].reference = d.entries[i].reference
        /\ e.entries[i].long_term_frame_idx = d.entries[i].long_term_frame_idx
  BY <1>3, <1>13
<1>5. \A i \in ShortTerms(d) :
        e.entries[i].pic_num = IF d.entries[i].frame_num > frame_num
                                 THEN d.entries[i].frame_num - MaxFrameNum
                                 ELSE d.entries[i].frame_num
  BY <1>3 DEF wrap
<1>6. Remarked(d, e)
  BY <1>1, <1>4, PlaceSets DEF Remarked
<1>7. References(e) = References(d)
  <2>1. \A i : i \in References(e) <=> i \in References(d)
    BY <1>1, <1>4, PlaceSets
  <2>2. QED BY <2>1
<1>8. ShortTerms(e) = ShortTerms(d)
  <2>1. \A i : i \in ShortTerms(e) <=> i \in ShortTerms(d)
    BY <1>1, <1>4, PlaceSets
  <2>2. QED BY <2>1
<1>9. LongTerms(e) = LongTerms(d)
  <2>1. \A i : i \in LongTerms(e) <=> i \in LongTerms(d)
    BY <1>1, <1>4, PlaceSets
  <2>2. QED BY <2>1
<1>10. Bumpable(e) = Bumpable(d)
  BY <1>6, RemarkedWaits
<1>11. Tidy(d) => Tidy(e)
  BY <1>1, <1>7, <1>9, <1>10 DEF Tidy, Used, NumRefFrames
<1>12. QED BY <1>1, <1>4, <1>5, <1>6, <1>7, <1>8, <1>9, <1>11

LEMMA NonExistingFacts ==
  ASSUME NEW N \in Nat, NEW frame_num \in 0..(MaxFrameNum - 1),
         NEW pic, pic = NonExisting(frame_num)
  PROVE  /\ pic \in Picture /\ NumberedAfter(pic, N, N) /\ IsRef(pic)
         /\ pic.reference = "ShortTerm" /\ pic.nonexisting /\ ~pic.is_idr /\ ~pic.has_mmco_5
         /\ pic.frame_num = frame_num /\ pic.n = 0
<1>1. /\ pic.n = 0 /\ pic.nonexisting = TRUE /\ pic.reference = "ShortTerm"
      /\ pic.is_idr = FALSE /\ pic.has_mmco_5 = FALSE /\ pic.frame_num = frame_num
  BY DEF NonExisting
<1>2. pic \in Picture
  BY H264Assumption DEF NonExisting, Picture
<1>3. QED BY <1>1, <1>2 DEF NumberedAfter, IsRef

(* The buffer that is made ready for a picture that is inferred.           *)
SlidFor(d, frame_num) ==
  SlidingWindowMarking(UpdatePicNums(d, frame_num, MaxFrameNum), sps.max_num_ref_frames)

LEMMA SlidForFacts ==
  ASSUME stream \in Streams, NEW N \in Nat, NEW d, Sound(d, N),
         NEW frame_num \in 0..(MaxFrameNum - 1), NEW e, e = SlidFor(d, frame_num)
  PROVE  /\ Remarked(d, e) /\ Sound(e, N)
         /\ Tidy(d) => Tidy(e) /\ NumRefFrames(e) < Window
         /\ LongTerms(e) = LongTerms(d)
         /\ \A i \in DOMAIN e.entries :
              e.entries[i].long_term_frame_idx = d.entries[i].long_term_frame_idx
<1> DEFINE u == UpdatePicNums(d, frame_num, MaxFrameNum)
           max == sps.max_num_ref_frames
<1>1. IsBuffer(d) /\ max \in Nat
  BY Parameters DEF Sound
<1>2. /\ Remarked(d, u) /\ (Tidy(d) => Tidy(u)) /\ LongTerms(u) = LongTerms(d)
      /\ \A i \in DOMAIN d.entries :
           u.entries[i].long_term_frame_idx = d.entries[i].long_term_frame_idx
  BY <1>1, RenumberMarks
<1>3. IsBuffer(u) /\ DOMAIN u.entries \subseteq DOMAIN d.entries
  BY <1>2 DEF Remarked
<1>4. e = SlidingWindowMarking(u, sps.max_num_ref_frames)
  BY DEF SlidFor
<1> HIDE DEF u
<1>5. Tidy(u) => Tidy(e) /\ NumRefFrames(e) < Window
  BY <1>3, <1>4, SlidingLeaves
<1>6. e = SlidingWindowMarking(u, max)
  BY <1>4
<1> HIDE DEF max
<1>7. /\ Remarked(u, e) /\ LongTerms(e) = LongTerms(u)
      /\ \A i \in DOMAIN e.entries :
           e.entries[i].long_term_frame_idx = u.entries[i].long_term_frame_idx
  BY <1>1, <1>3, <1>6, SlidingMarks
<1>8. Remarked(d, e)
  BY <1>2, <1>7, RemarkedTrans
<1>9. DOMAIN e.entries \subseteq DOMAIN d.entries
  BY <1>8 DEF Remarked
<1>10. QED BY <1>2, <1>5, <1>7, <1>8, <1>9, SoundSurvives

(* One more picture is inferred, from t.                                   *)
InferredFrom(s, t, frame_num) ==
  /\ t.dpb = SlidFor(s.dpb, frame_num) /\ t.out = s.out /\ t.held = s.held
  /\ t.prev_ref_frame_num = s.prev_ref_frame_num /\ Going(t)

LEMMA InferredOne ==
  ASSUME stream \in Streams, NEW N \in Nat, NEW W, NEW s, Account(s, W, N),
         NEW frame_num \in 0..(MaxFrameNum - 1), NEW r, r = InferPicture(s, frame_num)
  PROVE  /\ Account(r, W, N)
         /\ r.prev_ref_frame_num = s.prev_ref_frame_num
         /\ Going(s) /\ Tidy(s.dpb) => Going(r) /\ Tidy(r.dpb)
         /\ Regular(s) => Regular(r)
         /\ ~Going(s) => r = s
         /\ Going(s) => \E t : /\ Account(t, W, N) /\ InferredFrom(s, t, frame_num)
                               /\ r = BumpAndStore(t, NonExisting(frame_num))
<1>1. CASE ~Going(s)
  <2>1. s.ok = FALSE
    BY <1>1 DEF Going, Account
  <2>2. r = s
    BY <2>1 DEF InferPicture
  <2>3. QED BY <1>1, <2>2 DEF Regular
<1>2. CASE Going(s)
  <2> DEFINE e == SlidFor(s.dpb, frame_num)
             t == WithBuffer(s, e)
             pic == NonExisting(frame_num)
  <2>1. r = BumpAndStore(t, pic)
    BY <1>2 DEF InferPicture, Going, WithBuffer, SlidFor
  <2>2. Sound(s.dpb, N) /\ s.prev_ref_frame_num \in 0..(MaxFrameNum - 1) /\ s.ok \in BOOLEAN
    BY DEF Account
  <2>3. /\ Remarked(s.dpb, e) /\ Sound(e, N)
        /\ Tidy(s.dpb) => Tidy(e) /\ NumRefFrames(e) < Window
    BY <2>2, SlidForFacts
  <2>4. Waits(e) = Waits(s.dpb)
    BY <2>3, RemarkedWaits
  <2> HIDE DEF e
  <2>5. t = MovedTo(s, e, s.prev_ref_frame_num, s.ok)
    BY SessionUpdates
  <2> HIDE DEF t
  <2>6. /\ Account(t, W, N)
        /\ t.dpb = e /\ t.prev_ref_frame_num = s.prev_ref_frame_num /\ t.out = s.out
        /\ t.held = s.held /\ t.ok = s.ok
    BY <2>2, <2>3, <2>4, <2>5, MovedAccount
  <2>7. Going(t)
    BY <1>2, <2>6 DEF Going
  <2>8. /\ pic \in Picture /\ NumberedAfter(pic, N, N) /\ IsRef(pic)
        /\ pic.reference = "ShortTerm" /\ pic.nonexisting /\ ~pic.is_idr /\ ~pic.has_mmco_5
    BY NonExistingFacts
  <2> HIDE DEF pic
  <2>9. Account(r, Taken(r, pic, W), N) /\ r.prev_ref_frame_num = t.prev_ref_frame_num
    BY <2>1, <2>6, <2>7, <2>8, BumpAndStoreFacts
  <2>10. Account(r, W, N)
    BY <2>8, <2>9 DEF Taken
  <2>11. Tidy(s.dpb) => LeftFor(t.dpb, pic)
    BY <2>3, <2>6, <2>8 DEF LeftFor
  <2>12. Tidy(s.dpb) => Going(r) /\ Tidy(r.dpb)
    BY <2>1, <2>6, <2>7, <2>8, <2>11, TidyPlaced
  <2>13. ASSUME Regular(s) PROVE Regular(r)
    <3>1. Ordered(s.dpb) /\ s.held = Waits(s.dpb) /\ Ascending(s) /\ Tidy(s.dpb)
      BY <2>13 DEF Regular
    <3>2. Ordered(t.dpb)
      BY <2>3, <2>6, <3>1, RemarkedOrdered
    <3>3. t.held = Waits(t.dpb) /\ Ascending(t)
      BY <2>4, <2>6, <3>1 DEF Ascending
    <3>4. Fresh(t.dpb, pic) /\ Precedes(t, W, pic)
      BY <2>8 DEF Fresh, Precedes
    <3>5. LeftFor(t.dpb, pic)
      BY <2>11, <3>1
    <3>6. QED BY <2>1, <2>6, <2>7, <2>8, <3>2, <3>3, <3>4, <3>5, RegularPlaced
  <2>14. InferredFrom(s, t, frame_num)
    BY <2>6, <2>7 DEF InferredFrom, e
  <2>15. QED BY <1>2, <2>1, <2>6, <2>9, <2>10, <2>12, <2>13, <2>14 DEF pic
<1>3. QED BY <1>1, <1>2

InferredSoFar(s, n, g) ==
  g = [k \in 0..n |-> IF k = 0 THEN s
                      ELSE InferPicture(g[k - 1], (s.prev_ref_frame_num + k) % MaxFrameNum)]

LEMMA InferredSome ==
  ASSUME NEW s
  PROVE  \A n \in Nat : \E g : InferredSoFar(s, n, g)
<1> DEFINE S == {n \in Nat : \E g : InferredSoFar(s, n, g)}
           NextPicture(x, k) == InferPicture(x, (s.prev_ref_frame_num + k) % MaxFrameNum)
<1>1. 0 \in S
  <2> DEFINE g == [k \in 0..0 |-> s]
  <2>1. InferredSoFar(s, 0, g)
    BY DEF InferredSoFar
  <2>2. QED BY <2>1
<1>2. \A n \in Nat : n \in S => n + 1 \in S
  <2> SUFFICES ASSUME NEW n \in Nat, NEW g, InferredSoFar(s, n, g)
               PROVE  \E h : InferredSoFar(s, n + 1, h)
    OBVIOUS
  <2> DEFINE next == NextPicture(g[n], n + 1)
             h == [k \in 0..(n + 1) |-> IF k <= n THEN g[k] ELSE next]
  <2>1. \A k \in 0..n : g[k] = IF k = 0 THEN s ELSE NextPicture(g[k - 1], k)
    BY DEF InferredSoFar
  <2> HIDE DEF NextPicture
  <2>2. \A k \in 0..(n + 1) : h[k] = IF k = 0 THEN s ELSE NextPicture(h[k - 1], k)
    <3> SUFFICES ASSUME NEW k \in 0..(n + 1)
                 PROVE  h[k] = IF k = 0 THEN s ELSE NextPicture(h[k - 1], k)
      OBVIOUS
    <3>1. CASE k <= n
      <4>1. k \in 0..n /\ h[k] = g[k] /\ (k # 0 => h[k - 1] = g[k - 1])
        BY <3>1
      <4>2. QED BY <2>1, <4>1
    <3>2. CASE k = n + 1
      <4>1. k # 0 /\ h[k] = next /\ h[k - 1] = g[n]
        BY <3>2
      <4>2. QED BY <3>2, <4>1
    <3>3. QED BY <3>1, <3>2
  <2>3. h = [k \in 0..(n + 1) |-> h[k]]
    OBVIOUS
  <2> HIDE DEF h
  <2>4. h = [k \in 0..(n + 1) |-> IF k = 0 THEN s ELSE NextPicture(h[k - 1], k)]
    BY <2>2, <2>3
  <2>5. InferredSoFar(s, n + 1, h)
    BY <2>4 DEF InferredSoFar, NextPicture
  <2>6. QED BY <2>5
<1> HIDE DEF S
<1>3. \A n \in Nat : n \in S
  BY <1>1, <1>2, SetInduction
<1>4. QED BY <1>3 DEF S

LEMMA InferredChain ==
  ASSUME NEW s, NEW missing \in Nat
  PROVE  \E g : /\ g[0] = s /\ g[missing] = InferMissing(s, missing)
                /\ \A k \in 1..missing :
                     g[k] = InferPicture(g[k - 1], (s.prev_ref_frame_num + k) % MaxFrameNum)
<1> DEFINE g == CHOOSE f : InferredSoFar(s, missing, f)
<1>1. InferMissing(s, missing) = g[missing]
  BY DEF InferMissing, InferredSoFar
<1>2. InferredSoFar(s, missing, g)
  BY InferredSome
<1> HIDE DEF g
<1>3. \A k \in 0..missing :
        g[k] = IF k = 0 THEN s
               ELSE InferPicture(g[k - 1], (s.prev_ref_frame_num + k) % MaxFrameNum)
  BY <1>2 DEF InferredSoFar
<1>4. g[0] = s
  <2>1. 0 \in 0..missing
    OBVIOUS
  <2>2. QED BY <1>3, <2>1
<1>5. ASSUME NEW k \in 1..missing
      PROVE  g[k] = InferPicture(g[k - 1], (s.prev_ref_frame_num + k) % MaxFrameNum)
  <2>1. k \in 0..missing /\ k # 0
    OBVIOUS
  <2>2. QED BY <1>3, <2>1
<1>6. QED BY <1>1, <1>4, <1>5

LEMMA InferredAll ==
  ASSUME stream \in Streams, NEW N \in Nat, NEW W, NEW s, Account(s, W, N),
         NEW missing \in Nat, NEW r, r = InferMissing(s, missing)
  PROVE  /\ Account(r, W, N)
         /\ r.prev_ref_frame_num = s.prev_ref_frame_num
         /\ Going(s) /\ Tidy(s.dpb) => Going(r) /\ Tidy(r.dpb)
         /\ Regular(s) => Regular(r)
<1>1. PICK g : /\ g[0] = s /\ g[missing] = r
               /\ \A k \in 1..missing :
                    g[k] = InferPicture(g[k - 1], (s.prev_ref_frame_num + k) % MaxFrameNum)
  BY InferredChain
<1> DEFINE Good(x) == /\ Account(x, W, N)
                      /\ x.prev_ref_frame_num = s.prev_ref_frame_num
                      /\ Going(s) /\ Tidy(s.dpb) => Going(x) /\ Tidy(x.dpb)
                      /\ Regular(s) => Regular(x)
           S == {k \in Nat : k <= missing => Good(g[k])}
<1>2. 0 \in S
  BY <1>1
<1>3. \A k \in Nat : k \in S => k + 1 \in S
  <2> SUFFICES ASSUME NEW k \in Nat, k + 1 <= missing, Good(g[k]) PROVE Good(g[k + 1])
    OBVIOUS
  <2> DEFINE x == g[k] y == g[k + 1] frame_num == (s.prev_ref_frame_num + (k + 1)) % MaxFrameNum
  <2>1. y = InferPicture(x, frame_num)
    <3>1. k + 1 \in 1..missing /\ (k + 1) - 1 = k
      OBVIOUS
    <3>2. QED BY <1>1, <3>1
  <2>2. frame_num \in 0..(MaxFrameNum - 1)
    <3>1. s.prev_ref_frame_num + (k + 1) \in Int
      BY H264Assumption DEF Account
    <3>2. QED BY <3>1, Remainder
  <2>3. Good(x)
    OBVIOUS
  <2> HIDE DEF x, y, frame_num
  <2>4. /\ Account(y, W, N)
        /\ y.prev_ref_frame_num = x.prev_ref_frame_num
        /\ Going(x) /\ Tidy(x.dpb) => Going(y) /\ Tidy(y.dpb)
        /\ Regular(x) => Regular(y)
    BY <2>1, <2>2, <2>3, InferredOne
  <2>5. Good(y)
    BY <2>3, <2>4
  <2>6. QED BY <2>5 DEF y
<1> HIDE DEF S, Good
<1>4. \A k \in Nat : k \in S
  BY <1>2, <1>3, SetInduction
<1>5. Good(g[missing])
  BY <1>4 DEF S
<1>6. QED BY <1>1, <1>5 DEF Good

-----------------------------------------------------------------------------
(* A picture is begun.                                                     *)

LEMMA RefusedSession ==
  ASSUME NEW N \in Nat, NEW W, NEW s, Account(s, W, N), NEW r, r = Refused(s)
  PROVE  /\ Account(r, W, N) /\ ~Going(r)
         /\ r.prev_ref_frame_num = s.prev_ref_frame_num /\ r.dpb = s.dpb /\ r.out = s.out
<1> DEFINE no == FALSE
<1>1. /\ no \in BOOLEAN /\ Sound(s.dpb, N) /\ s.prev_ref_frame_num \in 0..(MaxFrameNum - 1)
      /\ r = MovedTo(s, s.dpb, s.prev_ref_frame_num, no)
  BY SessionUpdates DEF Account
<1>2. ~no
  OBVIOUS
<1> HIDE DEF no
<1>3. /\ Account(r, W, N)
      /\ r.dpb = s.dpb /\ r.prev_ref_frame_num = s.prev_ref_frame_num /\ r.out = s.out /\ r.ok = no
  BY <1>1, MovedAccount
<1>4. QED BY <1>2, <1>3 DEF Going

(* The call goes on in order, or is refused before it is out of it.        *)
StaysRegular(s, r) == Regular(s) => Ascending(r) /\ (Going(r) => Regular(r))

LEMMA GapHandled ==
  ASSUME stream \in Streams, NEW N \in Nat, NEW W, NEW s, Account(s, W, N), Going(s),
         NEW frame_num \in 0..(MaxFrameNum - 1), NEW r, r = HandleAnyGap(s, frame_num)
  PROVE  /\ Account(r, W, N)
         /\ r.prev_ref_frame_num = s.prev_ref_frame_num
         /\ Tidy(s.dpb) => Tidy(r.dpb)
         /\ frame_num \in {s.prev_ref_frame_num, (s.prev_ref_frame_num + 1) % MaxFrameNum} => r = s
         /\ Tidy(s.dpb) /\ sps.gaps_in_frame_num_value_allowed_flag => Going(r)
         /\ StaysRegular(s, r)
<1> DEFINE missing == Missing(s.prev_ref_frame_num, frame_num)
<1>1. CASE r = s
  BY <1>1 DEF StaysRegular, Regular
<1>2. CASE r = InferMissing(s, missing)
           /\ frame_num \notin {s.prev_ref_frame_num, (s.prev_ref_frame_num + 1) % MaxFrameNum}
  <2>1. missing \in Nat
    <3>1. frame_num - s.prev_ref_frame_num - 1 \in Int
      BY H264Assumption DEF Account
    <3>2. missing \in 0..(MaxFrameNum - 1)
      BY <3>1, Remainder DEF Missing
    <3>3. QED BY <3>2
  <2> HIDE DEF missing
  <2>2. /\ Account(r, W, N)
        /\ r.prev_ref_frame_num = s.prev_ref_frame_num
        /\ Going(s) /\ Tidy(s.dpb) => Going(r) /\ Tidy(r.dpb)
        /\ Regular(s) => Regular(r)
    BY <1>2, <2>1, InferredAll
  <2>3. QED BY <1>2, <2>2 DEF StaysRegular, Regular
<1>3. CASE r = Refused(s) /\ ~sps.gaps_in_frame_num_value_allowed_flag
           /\ frame_num \notin {s.prev_ref_frame_num, (s.prev_ref_frame_num + 1) % MaxFrameNum}
  <2>1. /\ Account(r, W, N) /\ ~Going(r)
        /\ r.prev_ref_frame_num = s.prev_ref_frame_num /\ r.dpb = s.dpb /\ r.out = s.out
    BY <1>3, RefusedSession
  <2>2. Regular(s) => Ascending(r)
    BY <2>1 DEF Regular, Ascending
  <2>3. QED BY <1>3, <2>1, <2>2 DEF StaysRegular
<1>4. QED BY <1>1, <1>2, <1>3 DEF HandleAnyGap, HandleFrameNumGap, Refused

(* What the decoder reads of a slice header, for an IDR picture or not.    *)
IsHeader(h) ==
  /\ h.idr \in BOOLEAN /\ h.no_output_of_prior_pics_flag \in BOOLEAN
  /\ h.frame_num \in 0..(MaxFrameNum - 1)
  /\ h.idr => h.frame_num = 0

Cleared(s) == [s EXCEPT !.dpb = Clear(@), !.held = {}]

LEMMA ClearedSession ==
  ASSUME NEW N \in Nat, NEW W, NEW s, Account(s, W, N), NEW r, r = Cleared(s)
  PROVE  /\ Account(r, Range(s.out), N)
         /\ DOMAIN r.dpb.entries = {} /\ r.held = {} /\ r.ok = s.ok /\ r.out = s.out
         /\ r.prev_ref_frame_num = s.prev_ref_frame_num
         /\ Ascending(s) => Ascending(r)
<1> DEFINE c == Clear(s.dpb)
           t == WithBuffer(s, c)
<1>1. r = Holding(t, {})
  BY DEF Cleared, Holding, WithBuffer
<1>2. IsBuffer(s.dpb) /\ s.dpb.max_num_pics = sps.max_num_pics
  BY DEF Account, Sound
<1>3. IsBuffer(c) /\ c.max_num_pics = sps.max_num_pics /\ DOMAIN c.entries = {}
  BY <1>2, ClearFacts
<1> HIDE DEF c
<1>4. Sound(c, N) /\ Waits(c) = {}
  BY <1>3, EmptySound
<1>5. t = MovedTo(s, c, s.prev_ref_frame_num, s.ok)
  BY SessionUpdates
<1> HIDE DEF t
<1>6. t = [dpb |-> c, prev_ref_frame_num |-> s.prev_ref_frame_num, out |-> s.out,
           held |-> s.held, ok |-> s.ok]
  BY <1>5 DEF MovedTo
<1>7. /\ t.dpb = c /\ t.prev_ref_frame_num = s.prev_ref_frame_num /\ t.out = s.out
      /\ t.held = s.held /\ t.ok = s.ok
  BY <1>6, SessionFields
<1>8. Account(t, Range(s.out), N)
  BY <1>4, <1>6, <1>7 DEF Account
<1>9. r = [dpb |-> t.dpb, prev_ref_frame_num |-> t.prev_ref_frame_num, out |-> t.out,
           held |-> {}, ok |-> t.ok]
  BY <1>1, <1>8, HoldingRecord
<1>10. /\ r.dpb = t.dpb /\ r.prev_ref_frame_num = t.prev_ref_frame_num /\ r.out = t.out
       /\ r.held = {} /\ r.ok = t.ok
  BY <1>9, SessionFields
<1>11. Account(r, Range(s.out), N)
  BY <1>8, <1>9, <1>10 DEF Account
<1>12. Ascending(s) => Ascending(r)
  BY <1>4, <1>7, <1>10 DEF Ascending
<1>13. QED BY <1>3, <1>7, <1>10, <1>11, <1>12

(* What the pictures before are, if the next one is not an IDR picture, or *)
(* if it is.                                                               *)
LEMMA SequenceLeft ==
  ASSUME stream \in Streams, NEW N \in Nat, NEW W, NEW s, Account(s, W, N),
         NEW h, IsHeader(h), NEW r, r = LeaveSequence(s, h)
  PROVE  /\ ~Going(s) \/ ~h.idr => r = s
         /\ Going(s) /\ h.idr =>
              /\ Account(r, IF h.no_output_of_prior_pics_flag THEN Range(s.out) ELSE W, N)
              /\ Going(r) /\ DOMAIN r.dpb.entries = {} /\ r.held = {}
              /\ r.prev_ref_frame_num = s.prev_ref_frame_num
              /\ StaysRegular(s, r)
<1>1. s.ok \in BOOLEAN
  BY DEF Account
<1>2. /\ ~Going(s) \/ ~h.idr => r = s
      /\ Going(s) /\ h.idr /\ h.no_output_of_prior_pics_flag => r = Cleared(s)
      /\ Going(s) /\ h.idr /\ ~h.no_output_of_prior_pics_flag => r = DrainAll(s)
  BY <1>1 DEF LeaveSequence, Going, Cleared
<1>3. ASSUME Going(s), h.idr
      PROVE  /\ Account(r, IF h.no_output_of_prior_pics_flag THEN Range(s.out) ELSE W, N)
             /\ DOMAIN r.dpb.entries = {} /\ r.held = {} /\ r.ok = s.ok
             /\ r.prev_ref_frame_num = s.prev_ref_frame_num
             /\ Ordered(s.dpb) /\ Ascending(s) => Ascending(r)
  <2>1. CASE h.no_output_of_prior_pics_flag
    BY <1>2, <1>3, <2>1, ClearedSession
  <2>2. CASE ~h.no_output_of_prior_pics_flag
    BY <1>2, <1>3, <2>2, DrainedSession
  <2>3. QED BY <2>1, <2>2
<1>4. ASSUME Going(s), h.idr PROVE Going(r) /\ StaysRegular(s, r)
  <2>1. Going(r)
    BY <1>3, <1>4 DEF Going
  <2>2. Sound(r.dpb, N) /\ IsBuffer(r.dpb) /\ r.dpb.max_num_pics = sps.max_num_pics
    BY <1>3, <1>4 DEF Account, Sound
  <2>3. Waits(r.dpb) = {} /\ Used(r.dpb) /\ References(r.dpb) = {} /\ LongTerms(r.dpb) = {}
        /\ Bumpable(r.dpb) = {}
    BY <1>3, <1>4, <2>2, EmptySound, PlaceSets
  <2>4. Ordered(r.dpb)
    BY <2>3 DEF Ordered
  <2>5. Tidy(r.dpb)
    BY <2>3, FS_EmptySet, Parameters DEF Tidy, NumRefFrames
  <2>6. Regular(s) => Regular(r)
    BY <1>3, <1>4, <2>1, <2>3, <2>4, <2>5 DEF Regular
  <2>7. QED BY <2>1, <2>6 DEF StaysRegular, Regular
<1>5. QED BY <1>2, <1>3, <1>4

LEMMA RenumberedSession ==
  ASSUME stream \in Streams, NEW N \in Nat, NEW W, NEW s, Account(s, W, N),
         NEW frame_num \in 0..(MaxFrameNum - 1), NEW r, r = Renumber(s, frame_num)
  PROVE  /\ Account(r, W, N)
         /\ r.prev_ref_frame_num = s.prev_ref_frame_num
         /\ r.out = s.out /\ r.held = s.held /\ r.ok = s.ok
         /\ ~Going(s) => r = s
         /\ Going(s) => r.dpb = UpdatePicNums(s.dpb, frame_num, MaxFrameNum)
         /\ Tidy(s.dpb) => Tidy(r.dpb)
         /\ DOMAIN r.dpb.entries = DOMAIN s.dpb.entries
         /\ StaysRegular(s, r)
<1>1. /\ s.ok \in BOOLEAN /\ Sound(s.dpb, N) /\ IsBuffer(s.dpb)
      /\ s.prev_ref_frame_num \in 0..(MaxFrameNum - 1)
  BY DEF Account, Sound
<1>2. CASE ~Going(s)
  <2>1. r = s
    BY <1>1, <1>2 DEF Renumber, Going
  <2>2. QED BY <1>2, <2>1 DEF StaysRegular, Regular
<1>3. CASE Going(s)
  <2> DEFINE e == UpdatePicNums(s.dpb, frame_num, MaxFrameNum)
  <2>1. r = WithBuffer(s, e)
    BY <1>3 DEF Renumber, Going, WithBuffer
  <2>2. Remarked(s.dpb, e) /\ (Tidy(s.dpb) => Tidy(e)) /\ DOMAIN e.entries = DOMAIN s.dpb.entries
    BY <1>1, RenumberMarks
  <2> HIDE DEF e
  <2>3. Sound(e, N) /\ Waits(e) = Waits(s.dpb)
    BY <1>1, <2>2, SoundSurvives, RemarkedWaits
  <2>4. r = MovedTo(s, e, s.prev_ref_frame_num, s.ok)
    BY <2>1, SessionUpdates
  <2>5. /\ Account(r, W, N)
        /\ r.dpb = e /\ r.prev_ref_frame_num = s.prev_ref_frame_num /\ r.out = s.out
        /\ r.held = s.held /\ r.ok = s.ok
    BY <1>1, <2>3, <2>4, MovedAccount
  <2>6. Regular(s) => Regular(r)
    <3>1. Ordered(s.dpb) => Ordered(e)
      BY <2>2, RemarkedOrdered
    <3>2. Ascending(s) => Ascending(r)
      BY <2>3, <2>5 DEF Ascending
    <3>3. Going(s) => Going(r)
      BY <2>5 DEF Going
    <3>4. QED BY <2>2, <2>3, <2>5, <3>1, <3>2, <3>3 DEF Regular
  <2>7. QED BY <1>3, <2>2, <2>5, <2>6 DEF e, StaysRegular, Regular
<1>4. QED BY <1>2, <1>3

(* The state in which the picture of the header is decoded.                *)
LEMMA BegunSession ==
  ASSUME stream \in Streams, NEW N \in Nat, NEW W, NEW s, Account(s, W, N), Going(s),
         NEW h, IsHeader(h), NEW r, r = BeginPicture(s, h)
  PROVE  /\ Account(r, IF h.idr /\ h.no_output_of_prior_pics_flag THEN Range(s.out) ELSE W, N)
         /\ r.prev_ref_frame_num = IF h.idr THEN 0 ELSE s.prev_ref_frame_num
         /\ h.idr => Going(r) /\ DOMAIN r.dpb.entries = {} /\ r.held = {}
         /\ Tidy(s.dpb) => Tidy(r.dpb)
         /\ Tidy(s.dpb) /\ sps.gaps_in_frame_num_value_allowed_flag => Going(r)
         /\ h.frame_num \in {s.prev_ref_frame_num, (s.prev_ref_frame_num + 1) % MaxFrameNum}
              => Going(r)
         /\ StaysRegular(s, r)
<1> DEFINE prev == IF h.idr THEN 0 ELSE s.prev_ref_frame_num
           frame_num == h.frame_num
           a == Before(s, prev)
           g == HandleAnyGap(a, frame_num)
           l == LeaveSequence(g, h)
<1>1. r = Renumber(l, frame_num)
  BY DEF BeginPicture, Before
<1>2. /\ Sound(s.dpb, N) /\ s.ok \in BOOLEAN /\ prev \in 0..(MaxFrameNum - 1)
      /\ frame_num \in 0..(MaxFrameNum - 1) /\ h.idr \in BOOLEAN
  BY H264Assumption DEF Account, IsHeader
<1>3. h.idr => frame_num = prev
  BY DEF IsHeader
<1>4. ~h.idr => prev = s.prev_ref_frame_num
  OBVIOUS
<1> HIDE DEF frame_num, prev
<1>5. a = MovedTo(s, s.dpb, prev, s.ok)
  BY SessionUpdates
<1> HIDE DEF a
<1>6. /\ Account(a, W, N)
      /\ a.dpb = s.dpb /\ a.prev_ref_frame_num = prev /\ a.out = s.out /\ a.held = s.held
      /\ a.ok = s.ok
  BY <1>2, <1>5, MovedAccount
<1>7. Going(a) /\ (Regular(s) => Regular(a))
  BY <1>6 DEF Going, Regular, Ascending
<1>8. /\ Account(g, W, N)
      /\ g.prev_ref_frame_num = prev
      /\ Tidy(s.dpb) => Tidy(g.dpb)
      /\ frame_num \in {prev, (prev + 1) % MaxFrameNum} => g = a
      /\ Tidy(s.dpb) /\ sps.gaps_in_frame_num_value_allowed_flag => Going(g)
      /\ StaysRegular(a, g)
  BY <1>2, <1>6, <1>7, GapHandled
<1> HIDE DEF g
<1>9. h.idr => g = a
  BY <1>3, <1>8
<1>10. /\ ~Going(g) \/ ~h.idr => l = g
       /\ Going(g) /\ h.idr =>
            /\ Account(l, IF h.no_output_of_prior_pics_flag THEN Range(g.out) ELSE W, N)
            /\ Going(l) /\ DOMAIN l.dpb.entries = {} /\ l.held = {}
            /\ l.prev_ref_frame_num = g.prev_ref_frame_num
            /\ StaysRegular(g, l)
  BY <1>8, SequenceLeft
<1> HIDE DEF l
<1> DEFINE V == IF h.idr /\ h.no_output_of_prior_pics_flag THEN Range(s.out) ELSE W
<1>11. /\ Account(l, V, N) /\ l.prev_ref_frame_num = prev
       /\ h.idr => Going(l) /\ DOMAIN l.dpb.entries = {} /\ l.held = {}
       /\ Going(g) => Going(l)
       /\ Tidy(s.dpb) => Tidy(l.dpb)
       /\ StaysRegular(s, l)
  <2>1. CASE h.idr
    <3>1. /\ Account(l, IF h.no_output_of_prior_pics_flag THEN Range(g.out) ELSE W, N)
          /\ Going(l) /\ DOMAIN l.dpb.entries = {} /\ l.held = {}
          /\ l.prev_ref_frame_num = g.prev_ref_frame_num
          /\ StaysRegular(g, l)
      BY <1>7, <1>9, <1>10, <2>1
    <3>2. g.out = s.out
      BY <1>6, <1>9, <2>1
    <3>3. Account(l, V, N)
      BY <2>1, <3>1, <3>2
    <3>4. Tidy(l.dpb)
      <4>1. IsBuffer(l.dpb) /\ l.dpb.max_num_pics = sps.max_num_pics
        BY <3>3 DEF Account, Sound
      <4>2. Used(l.dpb) /\ References(l.dpb) = {} /\ LongTerms(l.dpb) = {}
        BY <3>1, <4>1, EmptySound
      <4>3. QED BY <4>2, FS_EmptySet, Parameters DEF Tidy, NumRefFrames
    <3>5. StaysRegular(s, l)
      BY <1>7, <1>9, <2>1, <3>1 DEF StaysRegular
    <3>6. QED BY <1>8, <3>1, <3>3, <3>4, <3>5
  <2>2. CASE ~h.idr
    <3>1. l = g
      BY <1>10, <2>2
    <3>2. V = W
      BY <2>2
    <3>3. StaysRegular(s, l)
      BY <1>7, <1>8, <3>1 DEF StaysRegular
    <3>4. QED BY <1>8, <2>2, <3>1, <3>2, <3>3
  <2>3. QED BY <1>2, <2>1, <2>2
<1> HIDE DEF V
<1>12. /\ Account(r, V, N)
       /\ r.prev_ref_frame_num = prev
       /\ r.held = l.held /\ r.ok = l.ok
       /\ Tidy(l.dpb) => Tidy(r.dpb)
       /\ DOMAIN r.dpb.entries = DOMAIN l.dpb.entries
       /\ StaysRegular(l, r)
       /\ ~Going(l) => r = l
  BY <1>1, <1>2, <1>11, RenumberedSession
<1>13. Going(l) <=> Going(r)
  BY <1>12 DEF Going
<1>14. StaysRegular(s, r)
  BY <1>11, <1>12, <1>13 DEF StaysRegular
<1>15. frame_num \in {s.prev_ref_frame_num, (s.prev_ref_frame_num + 1) % MaxFrameNum} => Going(r)
  <2>1. CASE h.idr
    BY <1>11, <1>13, <2>1
  <2>2. CASE ~h.idr
    BY <1>4, <1>7, <1>8, <1>11, <1>13, <2>2
  <2>3. QED BY <1>2, <2>1, <2>2
<1>16. QED BY <1>8, <1>11, <1>12, <1>13, <1>14, <1>15 DEF V, prev, frame_num

-----------------------------------------------------------------------------
(* The inductive invariant.                                                *)

(* The pictures that have been finished, by number.                        *)
Done == IF current_pic = NoPicture THEN Len(sent) ELSE Len(sent) - 1

StateTypes ==
  /\ resumed \in BOOLEAN /\ seeking \in BOOLEAN
  /\ outcome \in {"Ok", "Error"}
  /\ stream \in Streams
  /\ sent \in Seq([seq : Nat, poc : Int, ref : BOOLEAN])
  /\ Sound(dpb, Len(sent))
  /\ current_pic \in CurrentPicture \cup {NoPicture}
  /\ prev_ref_frame_num \in 0..(MaxFrameNum - 1)
  /\ encoder_frame_num \in 0..(MaxFrameNum - 1)
  /\ ready_queue \in Seq(1..Len(sent))
  /\ held \subseteq 1..Len(sent)
  /\ discarded \subseteq 1..Len(sent)

(* What was finished was output once, or waits, or was dropped.            *)
Accounted ==
  /\ Sound(dpb, Done)
  /\ ready_queue \in Seq(1..Done) /\ Injective(ready_queue)
  /\ held \subseteq 1..Done
  /\ Range(ready_queue) \cap Waits(dpb) = {}
  /\ discarded \cap (Range(ready_queue) \cup Waits(dpb)) = {}
  /\ Range(ready_queue) \cup Waits(dpb) \cup discarded = 1..Done

(* The current picture is the last that was begun.                         *)
CurrentBegun ==
  current_pic # NoPicture =>
    /\ sent # <<>>
    /\ Begun(current_pic, Done)
    /\ current_pic.pic.is_idr => IsRef(current_pic.pic) /\ DOMAIN dpb.entries = {}
    /\ ~stream.adaptive => Simple(current_pic.marking)

(* Decoder and encoder count from the same reference.                      *)
EncoderAgrees ==
  ~stream.adaptive /\ ~stream.loses /\ ~seeking =>
    encoder_frame_num = IF current_pic # NoPicture /\ IsRef(current_pic.pic)
                          THEN current_pic.pic.frame_num ELSE prev_ref_frame_num

InvBase ==
  /\ StateTypes
  /\ RoomIsMadeBySliding
  /\ outcome = "Ok" =>
       /\ Accounted
       /\ CurrentBegun
       /\ ~stream.adaptive => Tidy(dpb)
       /\ EncoderAgrees

-----------------------------------------------------------------------------
(* What the stream may bring.                                              *)

HeaderOf(h) ==
  /\ IsHeader(h)
  /\ h.ref \in BOOLEAN /\ h.poc \in Int
  /\ h.idr => h.ref /\ h.poc = 0
  /\ h.marking \in Marking /\ Len(h.marking.ops) <= 1
  /\ h.marking.ops # <<>> => h.marking.adaptive
  /\ h.idr => ~h.marking.adaptive
  /\ ~stream.adaptive => Simple(h.marking)
  /\ ~h.ref => h.marking.ops = <<>>
  /\ ~h.idr => \A n \in DOMAIN sent : sent[n].seq = Sequence => Poc(n) # h.poc
  /\ ~h.idr /\ ~stream.loses => h.frame_num = (encoder_frame_num + 1) % MaxFrameNum

LEMMA SlidingFacts ==
  /\ Sliding \in Marking /\ Sliding.ops = <<>> /\ ~Sliding.adaptive
  /\ ~Sliding.long_term_reference_flag
  /\ \A flag \in BOOLEAN :
       /\ Idr(flag) \in Marking /\ Idr(flag).ops = <<>> /\ ~Idr(flag).adaptive
       /\ Idr(flag).long_term_reference_flag = flag
<1>1. \A a, b, c, x :
        [[long_term_reference_flag |-> a, adaptive |-> b, ops |-> c] EXCEPT !.long_term_reference_flag = x]
          = [long_term_reference_flag |-> x, adaptive |-> b, ops |-> c]
  OBVIOUS
<1>2. \A flag : Idr(flag) = [long_term_reference_flag |-> flag, adaptive |-> FALSE, ops |-> <<>>]
  <2> DEFINE no == FALSE
  <2>1. \A flag : Idr(flag) = [[long_term_reference_flag |-> no, adaptive |-> no, ops |-> <<>>]
                                 EXCEPT !.long_term_reference_flag = flag]
    BY DEF Idr, Sliding
  <2> HIDE DEF no
  <2>2. \A flag : Idr(flag) = [long_term_reference_flag |-> flag, adaptive |-> no, ops |-> <<>>]
    BY <1>1, <2>1
  <2>3. QED BY <2>2 DEF no
<1>3. Sliding = [long_term_reference_flag |-> FALSE, adaptive |-> FALSE, ops |-> <<>>]
  BY DEF Sliding
<1>4. <<>> \in Seq(Op)
  OBVIOUS
<1>5. \A flag \in BOOLEAN :
        LET m == [long_term_reference_flag |-> flag, adaptive |-> FALSE, ops |-> <<>>] IN
        /\ m \in Marking /\ m.ops = <<>> /\ ~m.adaptive /\ m.long_term_reference_flag = flag
  BY <1>4 DEF Marking
<1>6. \A flag \in BOOLEAN :
        /\ Idr(flag) \in Marking /\ Idr(flag).ops = <<>> /\ ~Idr(flag).adaptive
        /\ Idr(flag).long_term_reference_flag = flag
  BY <1>2, <1>5
<1>7. Idr(FALSE) = Sliding
  BY <1>2, <1>3
<1>8. FALSE \in BOOLEAN
  OBVIOUS
<1>9. /\ Idr(FALSE) \in Marking /\ Idr(FALSE).ops = <<>> /\ ~Idr(FALSE).adaptive
      /\ Idr(FALSE).long_term_reference_flag = FALSE
  BY <1>6, <1>8
<1>10. QED BY <1>6, <1>7, <1>9

LEMMA OpsAreOps ==
  ASSUME NEW d, IsBuffer(d), NEW op \in Ops(d)
  PROVE  op \in Op
<1>1. \A i \in DOMAIN d.entries : d.entries[i].pic_num \in Int /\ d.entries[i].long_term_frame_idx \in Nat
  BY DEF IsBuffer, Picture
<1>2. ShortTerms(d) \subseteq DOMAIN d.entries /\ LongTerms(d) \subseteq DOMAIN d.entries
  BY PlaceSets
<1>3. {d.entries[i].pic_num : i \in ShortTerms(d)} \subseteq Int
  BY <1>1, <1>2
<1>4. {d.entries[i].long_term_frame_idx : i \in LongTerms(d)} \subseteq Nat
  BY <1>1, <1>2
<1> DEFINE nums == {d.entries[i].pic_num : i \in ShortTerms(d)}
           idxs == {d.entries[i].long_term_frame_idx : i \in LongTerms(d)}
<1>5. op \in [op : {1}, pic_num : nums] \cup [op : {2}, idx : idxs]
             \cup [op : {3}, pic_num : nums, idx : LongTermIdx] \cup [op : {4}, idx : LongTermIdx \cup {-1}]
             \cup [op : {5}] \cup [op : {6}, idx : LongTermIdx]
  BY DEF Ops
<1>6. nums \subseteq Int /\ idxs \subseteq Nat
  BY <1>3, <1>4
<1> HIDE DEF nums, idxs
<1>7. QED BY <1>5, <1>6 DEF Op

LEMMA MarkingsAreMarkings ==
  ASSUME NEW d, IsBuffer(d), stream \in Streams, NEW marking \in Markings(d)
  PROVE  /\ marking \in Marking /\ Len(marking.ops) <= 1
         /\ marking.ops # <<>> => marking.adaptive
         /\ ~stream.adaptive => marking = Sliding
<1>1. CASE marking = Sliding
  BY <1>1, SlidingFacts
<1>2. CASE marking # Sliding
  <2>1. stream.adaptive
    BY <1>2 DEF Markings
  <2>2. PICK ops \in {<<>>} \cup {<<op>> : op \in Ops(d)} :
          marking = [Sliding EXCEPT !.adaptive = TRUE, !.ops = ops]
    BY <1>2, <2>1 DEF Markings
  <2>3. ops \in Seq(Op) /\ Len(ops) <= 1
    <3>1. CASE ops = <<>>
      BY <3>1
    <3>2. CASE ops # <<>>
      <4>1. PICK op \in Ops(d) : ops = <<op>>
        BY <2>2, <3>2
      <4>2. op \in Op
        BY OpsAreOps
      <4> HIDE DEF Op
      <4>3. QED BY <4>1, <4>2
    <3>3. QED BY <3>1, <3>2
  <2>4. marking = [long_term_reference_flag |-> FALSE, adaptive |-> TRUE, ops |-> ops]
    BY <2>2 DEF Sliding
  <2>5. QED BY <2>1, <2>3, <2>4 DEF Marking
<1>3. QED BY <1>1, <1>2

LEMMA HeadersOfStream ==
  ASSUME stream \in Streams, encoder_frame_num \in 0..(MaxFrameNum - 1), NEW N \in Nat,
         NEW s, Sound(s.dpb, N), NEW h \in IdrHeaders \cup NextHeaders(s)
  PROVE  HeaderOf(h)
<1>1. stream.adaptive \in BOOLEAN /\ stream.loses \in BOOLEAN
  BY Parameters
<1>2. CASE h \in IdrHeaders
  <2>1. /\ h.idr /\ h.ref /\ h.frame_num = 0 /\ h.poc = 0
        /\ h.idr \in BOOLEAN /\ h.ref \in BOOLEAN
        /\ h.no_output_of_prior_pics_flag \in BOOLEAN
        /\ h.marking \in {Idr(FALSE), Idr(stream.adaptive)}
    BY <1>2 DEF IdrHeaders
  <2>2. /\ h.marking \in Marking /\ h.marking.ops = <<>> /\ ~h.marking.adaptive
        /\ ~stream.adaptive => ~h.marking.long_term_reference_flag
    BY <1>1, <2>1, SlidingFacts
  <2>3. Len(h.marking.ops) <= 1
    BY <2>2
  <2>4. IsHeader(h)
    BY <2>1, H264Assumption DEF IsHeader
  <2>5. ~stream.adaptive => Simple(h.marking)
    BY <2>2 DEF Simple
  <2>6. QED BY <2>1, <2>2, <2>3, <2>4, <2>5 DEF HeaderOf
<1>3. CASE h \in NextHeaders(s)
  <2>1. PICK ref \in BOOLEAN, skip \in Skips :
          h \in HeadersWith(s, ref, (encoder_frame_num + 1 + skip) % MaxFrameNum)
    BY <1>3 DEF NextHeaders
  <2> DEFINE frame_num == (encoder_frame_num + 1 + skip) % MaxFrameNum
  <2> DEFINE d == UpdatePicNums(s.dpb, frame_num, MaxFrameNum)
  <2>2. /\ h.idr = FALSE /\ h.ref = ref /\ h.poc \in NewPocs /\ h.frame_num = frame_num
        /\ h.marking \in IF ref THEN Markings(d) ELSE {Sliding}
        /\ h.no_output_of_prior_pics_flag = FALSE
    BY <2>1 DEF HeadersWith
  <2>4. skip \in Nat /\ (~stream.loses => skip = 0)
    BY <1>1 DEF Skips
  <2>5. /\ frame_num \in 0..(MaxFrameNum - 1)
        /\ ~stream.loses => frame_num = (encoder_frame_num + 1) % MaxFrameNum
    <3>1. encoder_frame_num \in Int
      BY H264Assumption
    <3>2. encoder_frame_num + 1 + skip \in Int
      BY <2>4, <3>1
    <3>3. (encoder_frame_num + 1 + skip) % MaxFrameNum \in 0..(MaxFrameNum - 1)
      BY <3>2, Remainder
    <3>4. ~stream.loses => encoder_frame_num + 1 + skip = encoder_frame_num + 1
      BY <2>4, <3>1
    <3>5. QED BY <3>3, <3>4
  <2>6. IsBuffer(d)
    <3>1. IsBuffer(s.dpb)
      BY DEF Sound
    <3>2. QED BY <2>5, <3>1, UpdatePicNumsFacts
  <2> HIDE DEF d, frame_num
  <2>7. /\ h.marking \in Marking /\ Len(h.marking.ops) <= 1
        /\ h.marking.ops # <<>> => h.marking.adaptive
        /\ ~stream.adaptive => h.marking = Sliding
        /\ ~ref => h.marking = Sliding
    <3>1. CASE ref
      <4>1. h.marking \in Markings(d)
        BY <2>2, <3>1
      <4>2. QED BY <2>6, <3>1, <4>1, MarkingsAreMarkings
    <3>2. CASE ~ref
      BY <2>2, <3>2, SlidingFacts
    <3>3. QED BY <3>1, <3>2
  <2>8. h.poc \in Int /\ \A n \in DOMAIN sent : sent[n].seq = Sequence => Poc(n) # h.poc
    BY <2>2, H264Assumption DEF NewPocs
  <2>9. (~stream.adaptive => Simple(h.marking)) /\ (~ref => h.marking.ops = <<>>)
    BY <2>7, SlidingFacts DEF Simple
  <2>10. QED BY <2>2, <2>5, <2>7, <2>8, <2>9 DEF HeaderOf, IsHeader
<1>4. QED BY <1>2, <1>3

Opened(h) == [pic |-> NewPicture(h), marking |-> h.marking]

LEMMA OpenedFacts ==
  ASSUME Len(sent) \in Nat, NEW h, HeaderOf(h), NEW cur, cur = Opened(h)
  PROVE  /\ cur \in CurrentPicture /\ Begun(cur, Len(sent))
         /\ cur.pic = NewPicture(h) /\ cur.marking = h.marking
         /\ cur.pic.n = Len(sent) + 1 /\ cur.pic.poc = h.poc /\ cur.pic.frame_num = h.frame_num
         /\ cur.pic.is_idr = h.idr /\ ~cur.pic.nonexisting
         /\ IsRef(cur.pic) <=> h.ref
<1> DEFINE p == NewPicture(h)
<1>1. cur.pic = p /\ cur.marking = h.marking /\ cur = [pic |-> p, marking |-> h.marking]
  BY DEF Opened
<1>2. /\ h.idr \in BOOLEAN /\ h.frame_num \in 0..(MaxFrameNum - 1) /\ h.ref \in BOOLEAN /\ h.poc \in Int
      /\ h.marking \in Marking /\ Len(h.marking.ops) <= 1
      /\ h.marking.ops # <<>> => h.marking.adaptive
      /\ h.idr => ~h.marking.adaptive
  BY DEF HeaderOf, IsHeader
<1>3. /\ p.n = Len(sent) + 1 /\ p.poc = h.poc /\ p.frame_num = h.frame_num /\ p.is_idr = h.idr
      /\ p.nonexisting = FALSE /\ p.has_mmco_5 = FALSE
      /\ p.reference = IF h.ref THEN "ShortTerm" ELSE "None"
  BY DEF NewPicture
<1>4. p \in Picture
  BY <1>2, H264Assumption DEF NewPicture, Picture
<1> HIDE DEF p
<1>5. IsRef(p) <=> h.ref
  BY <1>2, <1>3 DEF IsRef
<1>6. IsMarking(p, h.marking)
  BY <1>2, <1>3 DEF IsMarking
<1>7. cur \in CurrentPicture
  BY <1>1, <1>2, <1>4 DEF CurrentPicture
<1>8. Begun(cur, Len(sent))
  BY <1>1, <1>3, <1>4, <1>6 DEF Begun
<1>9. QED BY <1>1, <1>3, <1>5, <1>7, <1>8 DEF p

-----------------------------------------------------------------------------
(* What a call does to the queue.                                          *)

LEMMA QueueAfter ==
  ASSUME NEW N \in Nat, NEW q \in Seq(1..N), Injective(q), NEW V, Range(q) \cap V = {},
         NEW r, Account(r, V, N), NEW p, Continues(p, q, r.out)
  PROVE  /\ p \in Seq(1..N) /\ Injective(p)
         /\ Range(p) \cap Waits(r.dpb) = {}
         /\ Range(p) \cup Waits(r.dpb) = Range(q) \cup V
<1> DEFINE o == r.out
<1>1. /\ o \in Seq(1..N) /\ Injective(o) /\ Range(o) \cap Waits(r.dpb) = {}
      /\ Range(o) \cup Waits(r.dpb) = V
  BY DEF Account
<1>2. Continues(p, q, o)
  OBVIOUS
<1> HIDE DEF o
<1>3. p \in Seq(1..N) /\ Range(p) = Range(q) \cup Range(o)
  BY <1>1, <1>2, ContinuesPlaces
<1>4. Range(q) \cap Range(o) = {}
  BY <1>1
<1>5. Injective(p)
  BY <1>1, <1>2, <1>4, JoinedInjective DEF Continues
<1>6. QED BY <1>1, <1>3, <1>5

(* What is neither output nor dropped.                                     *)
Rest == (1..Len(sent)) \ (Range(ready_queue) \cup discarded)

LEMMA SessionFacts ==
  ASSUME StateTypes
  PROVE  /\ Account(Session, Waits(dpb), Len(sent)) /\ Going(Session)
         /\ Session.dpb = dpb /\ Session.prev_ref_frame_num = prev_ref_frame_num
         /\ Session.held = held /\ Session.out = <<>>
         /\ Ascending(Session)
<1> DEFINE s == Session yes == TRUE
<1>1. s = [dpb |-> dpb, prev_ref_frame_num |-> prev_ref_frame_num, out |-> <<>>,
           held |-> held, ok |-> yes]
  BY DEF Session
<1>2. yes \in BOOLEAN /\ yes
  OBVIOUS
<1> HIDE DEF s, yes
<1>3. /\ s.dpb = dpb /\ s.prev_ref_frame_num = prev_ref_frame_num /\ s.out = <<>>
      /\ s.held = held /\ s.ok = yes
  BY <1>1, SessionFields
<1>4. Len(sent) \in Nat /\ Sound(dpb, Len(sent)) /\ held \subseteq 1..Len(sent)
      /\ prev_ref_frame_num \in 0..(MaxFrameNum - 1)
  BY DEF StateTypes
<1>5. /\ s.out \in Seq(1..Len(sent)) /\ Len(s.out) = 0 /\ Range(s.out) = {}
  <2>1. s.out \in Seq(1..Len(sent)) /\ Len(s.out) = 0
    BY <1>3
  <2>2. QED BY <2>1, InRange
<1>6. Injective(s.out) /\ Ascending(s)
  BY <1>5 DEF Injective, Ascending
<1>7. Account(s, Waits(dpb), Len(sent))
  BY <1>1, <1>2, <1>3, <1>4, <1>5, <1>6 DEF Account
<1>8. Going(s)
  BY <1>2, <1>3 DEF Going
<1>9. QED BY <1>3, <1>6, <1>7, <1>8 DEF s

LEMMA DoneFacts ==
  ASSUME InvBase, outcome = "Ok"
  PROVE  /\ Len(sent) \in Nat /\ Done \in Nat
         /\ current_pic = NoPicture => Done = Len(sent)
         /\ current_pic # NoPicture => Done + 1 = Len(sent)
<1>1. Len(sent) \in Nat /\ (sent # <<>> => Len(sent) # 0)
  BY EmptySeq, LenProperties DEF InvBase, StateTypes
<1>2. current_pic # NoPicture => sent # <<>>
  BY DEF InvBase, CurrentBegun
<1>3. QED BY <1>1, <1>2 DEF Done

(* How the picture before is finished.                                     *)
LEMMA FinishedFacts ==
  ASSUME InvBase, outcome = "Ok", NEW s, s = Finished
  PROVE  /\ \E W \in SUBSET Rest : Account(s, W, Len(sent)) /\ (Going(s) => W = Rest)
         /\ ~stream.adaptive => Going(s) /\ Tidy(s.dpb)
         /\ ~stream.adaptive /\ ~stream.loses /\ ~seeking =>
              s.prev_ref_frame_num = encoder_frame_num
<1>1. /\ StateTypes /\ Accounted /\ CurrentBegun /\ (~stream.adaptive => Tidy(dpb)) /\ EncoderAgrees
      /\ stream \in Streams
  BY DEF InvBase, StateTypes
<1>2. Len(sent) \in Nat /\ Done \in Nat
  BY DoneFacts
<1>3. /\ Account(Session, Waits(dpb), Len(sent)) /\ Going(Session)
      /\ Session.dpb = dpb /\ Session.prev_ref_frame_num = prev_ref_frame_num
  BY <1>1, SessionFacts
<1>4. /\ Range(ready_queue) \cap Waits(dpb) = {}
      /\ discarded \cap Waits(dpb) = {} /\ discarded \cap Range(ready_queue) = {}
      /\ Range(ready_queue) \cup Waits(dpb) \cup discarded = 1..Done
      /\ Sound(dpb, Done)
  BY <1>1 DEF Accounted
<1>5. CASE current_pic = NoPicture
  <2>1. s = Session
    BY <1>5 DEF Finished
  <2>2. Done = Len(sent)
    BY <1>5, DoneFacts
  <2>3. Waits(dpb) = Rest
    <3>1. Waits(dpb) \subseteq 1..Done
      BY <1>4
    <3>2. \A n : n \in Waits(dpb) <=> n \in Rest
      BY <1>4, <2>2, <3>1 DEF Rest
    <3>3. QED BY <3>2
  <2>4. ~stream.adaptive /\ ~stream.loses /\ ~seeking => prev_ref_frame_num = encoder_frame_num
    BY <1>1, <1>5 DEF EncoderAgrees
  <2>5. QED BY <1>1, <1>3, <2>1, <2>3, <2>4
<1>6. CASE current_pic # NoPicture
  <2>1. s = FinishPicture(Session, current_pic)
    BY <1>6 DEF Finished
  <2>2. /\ Begun(current_pic, Done) /\ Done + 1 = Len(sent)
        /\ current_pic.pic.is_idr => IsRef(current_pic.pic) /\ DOMAIN dpb.entries = {}
        /\ ~stream.adaptive => Simple(current_pic.marking)
    BY <1>1, <1>6, DoneFacts DEF CurrentBegun
  <2> DEFINE W == IF Going(s) THEN Waits(dpb) \cup {Done + 1} ELSE Waits(dpb)
             c == Session
             cur == current_pic
             n == Done
  <2>3. Account(c, Waits(dpb), n)
    <3>1. c = [dpb |-> c.dpb, prev_ref_frame_num |-> c.prev_ref_frame_num, out |-> c.out,
               held |-> c.held, ok |-> c.ok]
      BY <1>3, SessionRecord
    <3>2. /\ c.prev_ref_frame_num \in 0..(MaxFrameNum - 1) /\ c.ok \in BOOLEAN
          /\ Range(c.out) \cap Waits(c.dpb) = {} /\ Range(c.out) \cup Waits(c.dpb) = Waits(dpb)
          /\ Injective(c.out) /\ c.out = <<>>
      BY <1>1, <1>3, SessionFacts DEF Account
    <3>3. c.held \subseteq 1..n
      BY <1>1, SessionFacts DEF Accounted
    <3>4. c.out \in Seq(1..n)
      BY <3>2
    <3>5. QED BY <1>3, <1>4, <3>1, <3>2, <3>3, <3>4 DEF Account
  <2>4. Going(c) /\ Begun(cur, n) /\ s = FinishPicture(c, cur) /\ n \in Nat
    BY <1>2, <1>3, <2>1, <2>2
  <2>5. Account(s, W, n + 1)
    <3> HIDE DEF c, cur, n
    <3>1. Account(s, IF Going(s) THEN Waits(dpb) \cup {n + 1} ELSE Waits(dpb), n + 1)
      BY <1>1, <2>3, <2>4, FinishedAccount
    <3>2. QED BY <3>1 DEF n
  <2>6. /\ \A m : m \in Waits(dpb) \cup {Done + 1} <=> m \in Rest
    <3>1. \A m : m \in 1..(Done + 1) <=> m \in 1..Done \/ m = Done + 1
      BY <1>2
    <3>2. Done + 1 \notin 1..Done
      BY <1>2
    <3>3. \A m : m \in Range(ready_queue) \/ m \in Waits(dpb) \/ m \in discarded <=> m \in 1..Done
      BY <1>4
    <3>4. QED BY <1>4, <2>2, <3>1, <3>2, <3>3 DEF Rest
  <2>7. W \subseteq Rest /\ (Going(s) => W = Rest)
    BY <2>6
  <2>8. Account(s, W, Len(sent))
    BY <2>2, <2>5
  <2>9. ASSUME ~stream.adaptive
        PROVE  /\ Going(s) /\ Tidy(s.dpb)
               /\ s.prev_ref_frame_num = IF IsRef(current_pic.pic) THEN current_pic.pic.frame_num
                                                                   ELSE prev_ref_frame_num
    <3>1. /\ Tidy(c.dpb) /\ Simple(cur.marking)
          /\ cur.pic.is_idr => IsRef(cur.pic) /\ DOMAIN c.dpb.entries = {}
      BY <1>1, <1>3, <2>2, <2>9
    <3> HIDE DEF c, cur, n
    <3>2. /\ Going(s) /\ Tidy(s.dpb)
          /\ s.prev_ref_frame_num = IF IsRef(cur.pic) THEN cur.pic.frame_num
                                                      ELSE c.prev_ref_frame_num
      BY <1>1, <2>3, <2>4, <3>1, SimplyFinished
    <3>3. c.prev_ref_frame_num = prev_ref_frame_num
      BY <1>3 DEF c
    <3>4. QED BY <3>2, <3>3 DEF cur
  <2> HIDE DEF W
  <2>10. ~stream.adaptive /\ ~stream.loses /\ ~seeking => s.prev_ref_frame_num = encoder_frame_num
    BY <1>1, <1>6, <2>9 DEF EncoderAgrees
  <2>11. QED BY <2>7, <2>8, <2>9, <2>10
<1>7. QED BY <1>5, <1>6

-----------------------------------------------------------------------------
(* The calls.                                                              *)

LEMMA KeptFacts ==
  ASSUME InvBase, outcome = "Ok", NEW V \in SUBSET Rest, NEW r, Account(r, V, Len(sent)), Keep(r),
         stream' = stream
  PROVE  /\ dpb' = r.dpb /\ prev_ref_frame_num' = r.prev_ref_frame_num /\ held' = r.held
         /\ prev_ref_frame_num' \in 0..(MaxFrameNum - 1)
         /\ Sound(dpb, Len(sent))'  <=> Sound(dpb', Len(sent'))
         /\ Sound(dpb', Len(sent)) /\ held' \subseteq 1..Len(sent)
         /\ ready_queue' \in Seq(1..Len(sent)) /\ Injective(ready_queue')
         /\ Range(ready_queue') \cap Waits(dpb') = {}
         /\ Range(ready_queue') \cup Waits(dpb') = Range(ready_queue) \cup V
<1> DEFINE N == Len(sent) q == ready_queue p == ready_queue'
<1>1. dpb' = r.dpb /\ prev_ref_frame_num' = r.prev_ref_frame_num /\ held' = r.held
      /\ Continues(p, q, r.out)
  BY DEF Keep, Continues
<1>2. Injective(q) /\ q \in Seq(1..N) /\ N \in Nat /\ Account(r, V, N)
  <2>1. q \in Seq(1..N) /\ N \in Nat
    BY DEF InvBase, StateTypes
  <2>2. Injective(q)
    BY DEF InvBase, Accounted
  <2>3. QED BY <2>1, <2>2
<1>3. Range(q) \cap V = {}
  BY DEF Rest
<1>4. sps' = sps
  BY DEF sps
<1>5. Sound(dpb, Len(sent))'  <=> Sound(dpb', Len(sent'))
  BY <1>4 DEF Sound
<1>6. Sound(r.dpb, N) /\ r.held \subseteq 1..N /\ r.prev_ref_frame_num \in 0..(MaxFrameNum - 1)
  BY DEF Account
<1> HIDE DEF N, q, p
<1>7. /\ p \in Seq(1..N) /\ Injective(p) /\ Range(p) \cap Waits(r.dpb) = {}
      /\ Range(p) \cup Waits(r.dpb) = Range(q) \cup V
  BY <1>1, <1>2, <1>3, QueueAfter
<1>8. QED BY <1>1, <1>5, <1>6, <1>7 DEF N, q, p

LEMMA SeqIsFinite ==
  ASSUME NEW N \in Nat, NEW M \in Nat, N <= M, NEW q \in Seq(1..N)
  PROVE  q \in Seq(1..M)
<1>1. \A n \in 1..N : n \in 1..M
  OBVIOUS
<1>2. QED BY <1>1, SeqMonotonic

(* A call that ends with no picture begun.                                 *)
LEMMA EndsBetween ==
  ASSUME InvBase, outcome = "Ok", NEW V \in SUBSET Rest, NEW r, Account(r, V, Len(sent)), Keep(r),
         current_pic' = NoPicture, outcome' \in {"Ok", "Error"},
         resumed' \in BOOLEAN, seeking' \in BOOLEAN,
         UNCHANGED <<stream, sent, encoder_frame_num, discarded>>,
         RoomIsMadeBySliding',
         outcome' = "Ok" => /\ V = Rest
                            /\ ~stream.adaptive => Tidy(r.dpb)
                            /\ ~stream.adaptive /\ ~stream.loses /\ ~seeking' =>
                                 r.prev_ref_frame_num = encoder_frame_num
  PROVE  InvBase'
<1>1. StateTypes /\ Len(sent) \in Nat
  BY DEF InvBase, StateTypes
<1>2. /\ stream' = stream /\ sent' = sent /\ encoder_frame_num' = encoder_frame_num
      /\ discarded' = discarded
  OBVIOUS
<1>3. /\ dpb' = r.dpb /\ prev_ref_frame_num' = r.prev_ref_frame_num /\ held' = r.held
      /\ prev_ref_frame_num' \in 0..(MaxFrameNum - 1)
      /\ Sound(dpb, Len(sent))'  <=> Sound(dpb', Len(sent'))
      /\ Sound(dpb', Len(sent)) /\ held' \subseteq 1..Len(sent)
      /\ ready_queue' \in Seq(1..Len(sent)) /\ Injective(ready_queue')
      /\ Range(ready_queue') \cap Waits(dpb') = {}
      /\ Range(ready_queue') \cup Waits(dpb') = Range(ready_queue) \cup V
  BY <1>2, KeptFacts
<1>4. StateTypes'
  BY <1>1, <1>2, <1>3 DEF StateTypes
<1>5. Done' = Len(sent)
  BY <1>2 DEF Done
<1>6. ASSUME outcome' = "Ok" PROVE Accounted'
  <2>1. /\ Range(ready_queue) \subseteq 1..Len(sent) /\ discarded \subseteq 1..Len(sent)
    BY <1>1, InRange DEF StateTypes
  <2>2. discarded \cap Range(ready_queue) = {}
    BY DEF InvBase, Accounted
  <2>3. V = (1..Len(sent)) \ (Range(ready_queue) \cup discarded)
    BY <1>6 DEF Rest
  <2>4. discarded \cap (Range(ready_queue') \cup Waits(dpb')) = {}
    BY <1>3, <2>2, <2>3
  <2>5. Range(ready_queue') \cup Waits(dpb') \cup discarded = 1..Len(sent)
    BY <1>3, <2>1, <2>3
  <2>6. Sound(dpb, Done)'
    BY <1>2, <1>3, <1>5 DEF Sound
  <2>7. QED BY <1>2, <1>3, <1>5, <2>4, <2>5, <2>6 DEF Accounted
<1>7. CurrentBegun'
  BY DEF CurrentBegun
<1>8. ASSUME outcome' = "Ok" PROVE EncoderAgrees' /\ (~stream'.adaptive => Tidy(dpb)')
  <2>1. Tidy(dpb)' <=> Tidy(r.dpb)
    BY <1>2, <1>3 DEF Tidy, Window, sps
  <2>2. EncoderAgrees'
    BY <1>2, <1>3, <1>8 DEF EncoderAgrees
  <2>3. QED BY <1>2, <1>8, <2>1, <2>2
<1>9. QED BY <1>4, <1>6, <1>7, <1>8 DEF InvBase

(* No picture is refused but for a gap in a stream that must not have one. *)
LEMMA BeginningGoesOn ==
  ASSUME InvBase, outcome = "Ok", ~stream.adaptive, NEW s, s = Finished,
         NEW h, HeaderOf(h), Follows(s, h),
         ~stream.loses \/ sps.gaps_in_frame_num_value_allowed_flag
  PROVE  Going(BeginPicture(s, h))
<1>1. PICK W \in SUBSET Rest : Account(s, W, Len(sent)) /\ (Going(s) => W = Rest)
  BY FinishedFacts
<1>2. /\ Going(s) /\ Tidy(s.dpb)
      /\ ~stream.loses /\ ~seeking => s.prev_ref_frame_num = encoder_frame_num
  BY FinishedFacts
<1>3. IsHeader(h) /\ h.idr \in BOOLEAN /\ stream \in Streams /\ Len(sent) \in Nat
  BY DEF HeaderOf, IsHeader, InvBase, StateTypes
<1> DEFINE r == BeginPicture(s, h)
<1>4. /\ h.idr => Going(r)
      /\ Tidy(s.dpb) /\ sps.gaps_in_frame_num_value_allowed_flag => Going(r)
      /\ h.frame_num \in {s.prev_ref_frame_num, (s.prev_ref_frame_num + 1) % MaxFrameNum}
           => Going(r)
  BY <1>1, <1>2, <1>3, BegunSession
<1> HIDE DEF r
<1>5. ASSUME ~h.idr, ~stream.loses PROVE Going(r)
  <2>1. ~seeking
    BY <1>5 DEF Follows
  <2>2. h.frame_num = (encoder_frame_num + 1) % MaxFrameNum
    BY <1>5 DEF HeaderOf
  <2>3. QED BY <1>2, <1>4, <1>5, <2>1, <2>2
<1>6. QED BY <1>2, <1>3, <1>4, <1>5 DEF r

LEMMA GapFailsKeeps ==
  ASSUME InvBase, outcome = "Ok", NEW s, s = Finished, Going(s), NEW h, HeaderOf(h), GapFails(s, h)
  PROVE  InvBase'
<1> DEFINE r == BeginPicture(s, h)
<1>1. /\ Follows(s, h) /\ Keep(r) /\ current_pic' = NoPicture /\ outcome' = "Error"
      /\ UNCHANGED <<resumed, stream, sent, encoder_frame_num, seeking, discarded>>
      /\ ~Going(r)
  BY DEF GapFails, Going
<1>2. PICK W \in SUBSET Rest : Account(s, W, Len(sent))
  BY FinishedFacts
<1>3. IsHeader(h) /\ stream \in Streams /\ Len(sent) \in Nat /\ resumed \in BOOLEAN /\ seeking \in BOOLEAN
  BY DEF HeaderOf, InvBase, StateTypes
<1> DEFINE V == IF h.idr /\ h.no_output_of_prior_pics_flag THEN Range(s.out) ELSE W
<1>4. Account(r, V, Len(sent))
  BY <1>2, <1>3, BegunSession
<1>5. Range(s.out) \subseteq W
  BY <1>2 DEF Account
<1>6. V \in SUBSET Rest
  BY <1>5
<1>7. RoomIsMadeBySliding'
  <2>1. stream' = stream /\ stream.loses \in BOOLEAN /\ sps.gaps_in_frame_num_value_allowed_flag \in BOOLEAN
    BY <1>1, <1>3, Parameters
  <2>2. ~stream.adaptive => stream.loses /\ ~sps.gaps_in_frame_num_value_allowed_flag
    BY <1>1, <2>1, BeginningGoesOn
  <2>3. QED BY <2>1, <2>2 DEF RoomIsMadeBySliding, RoomIsMade, sps
<1> HIDE DEF r, V
<1>8. outcome' # "Ok"
  BY <1>1
<1>9. QED BY <1>1, <1>3, <1>4, <1>6, <1>7, <1>8, EndsBetween

LEMMA FinishFailsKeeps ==
  ASSUME InvBase, NEW s, s = Finished, FinishFails(s)
  PROVE  InvBase'
<1>1. /\ outcome = "Ok" /\ Keep(s) /\ current_pic' = NoPicture /\ outcome' = "Error"
      /\ UNCHANGED <<resumed, stream, sent, encoder_frame_num, seeking, discarded>>
      /\ ~Going(s)
  BY DEF FinishFails, Going
<1>2. PICK W \in SUBSET Rest : Account(s, W, Len(sent))
  BY <1>1, FinishedFacts
<1>3. stream.adaptive
  BY <1>1, FinishedFacts
<1>4. RoomIsMadeBySliding'
  BY <1>1, <1>3 DEF RoomIsMadeBySliding
<1>5. resumed \in BOOLEAN /\ seeking \in BOOLEAN /\ outcome' # "Ok"
  BY <1>1 DEF InvBase, StateTypes
<1>6. QED BY <1>1, <1>2, <1>4, <1>5, EndsBetween

LEMMA NoOutputBufferKeeps ==
  ASSUME InvBase, outcome = "Ok", NEW s, s = Finished, Going(s), NEW h, NoOutputBuffer(s, h)
  PROVE  InvBase'
<1>1. /\ Keep(s) /\ current_pic' = NoPicture /\ outcome' = "Ok" /\ resumed' = TRUE
      /\ UNCHANGED <<outcome, stream, sent, encoder_frame_num, seeking, discarded>>
  BY DEF NoOutputBuffer
<1>2. Account(s, Rest, Len(sent))
  BY FinishedFacts
<1>3. /\ ~stream.adaptive => Tidy(s.dpb)
      /\ ~stream.adaptive /\ ~stream.loses /\ ~seeking => s.prev_ref_frame_num = encoder_frame_num
  BY FinishedFacts
<1>4. RoomIsMadeBySliding'
  BY <1>1 DEF RoomIsMadeBySliding, RoomIsMade
<1>5. Rest \in SUBSET Rest /\ resumed' \in BOOLEAN /\ seeking' \in BOOLEAN
  BY <1>1 DEF InvBase, StateTypes
<1>6. QED BY <1>1, <1>2, <1>3, <1>4, <1>5, EndsBetween

LEMMA FlushKeeps ==
  ASSUME InvBase, NEW s, s = Finished, Flush(s)
  PROVE  InvBase'
<1> DEFINE r == DrainAll(s)
<1>1. /\ Keep(r) /\ current_pic' = NoPicture /\ outcome = "Ok" /\ outcome' = "Ok" /\ resumed' = FALSE
      /\ seeking' = TRUE
      /\ UNCHANGED <<outcome, stream, sent, encoder_frame_num, discarded>>
      /\ Going(s)
  BY DEF Flush, Going
<1>2. Account(s, Rest, Len(sent)) /\ Len(sent) \in Nat /\ stream \in Streams
  BY <1>1, FinishedFacts DEF InvBase, StateTypes
<1>3. Account(r, Rest, Len(sent)) /\ DOMAIN r.dpb.entries = {}
  BY <1>2, DrainedSession
<1>4. Tidy(r.dpb)
  <2>1. IsBuffer(r.dpb) /\ r.dpb.max_num_pics = sps.max_num_pics
    BY <1>3 DEF Account, Sound
  <2>2. Used(r.dpb) /\ References(r.dpb) = {} /\ LongTerms(r.dpb) = {}
    BY <1>2, <1>3, <2>1, EmptySound
  <2>3. QED BY <1>2, <2>2, FS_EmptySet, Parameters DEF Tidy, NumRefFrames
<1>5. RoomIsMadeBySliding'
  BY <1>1 DEF RoomIsMadeBySliding, RoomIsMade
<1>6. Rest \in SUBSET Rest /\ resumed' \in BOOLEAN /\ seeking' \in BOOLEAN /\ seeking'
  BY <1>1
<1> HIDE DEF r
<1>7. QED BY <1>1, <1>3, <1>4, <1>5, <1>6, EndsBetween

(* Counting round.                                                         *)
LEMMA Rounds ==
  /\ \A a \in 0..(MaxFrameNum - 1) : a % MaxFrameNum = a
  /\ MaxFrameNum % MaxFrameNum = 0
  /\ (-1) % MaxFrameNum = MaxFrameNum - 1
  /\ \A a \in 0..(MaxFrameNum - 1) : (((a + 1) % MaxFrameNum) - 1) % MaxFrameNum = a
<1>1. /\ MaxFrameNum \in Nat /\ MaxFrameNum > 1
  BY H264Assumption
<1>2. \A a \in 0..(MaxFrameNum - 1) : a % MaxFrameNum = a
  BY <1>1
<1>3. MaxFrameNum % MaxFrameNum = 0
  BY <1>1
<1>4. (-1) % MaxFrameNum = MaxFrameNum - 1
  BY <1>1
<1>5. ASSUME NEW a \in 0..(MaxFrameNum - 1)
      PROVE  (((a + 1) % MaxFrameNum) - 1) % MaxFrameNum = a
  <2>1. CASE a = MaxFrameNum - 1
    <3>1. a + 1 = MaxFrameNum
      BY <1>1, <2>1
    <3>2. (a + 1) % MaxFrameNum = 0 /\ 0 - 1 = -1
      BY <1>3, <3>1
    <3>3. QED BY <1>4, <2>1, <3>2
  <2>2. CASE a # MaxFrameNum - 1
    <3>1. a + 1 \in 0..(MaxFrameNum - 1) /\ (a + 1) - 1 = a
      BY <1>1, <2>2
    <3>2. (a + 1) % MaxFrameNum = a + 1
      BY <1>2, <3>1
    <3>3. QED BY <1>2, <3>1, <3>2
  <2>3. QED BY <2>1, <2>2
<1>6. QED BY <1>2, <1>3, <1>4, <1>5

(* What the encoder has sent.                                              *)
Renews(h) == h.idr \/ \E i \in DOMAIN h.marking.ops : h.marking.ops[i].op = 5
Entry(h) ==
  [seq |-> IF Renews(h) THEN Sequence + 1 ELSE Sequence, poc |-> IF Renews(h) THEN 0 ELSE h.poc,
   ref |-> h.ref]

LEMMA SequenceType ==
  ASSUME StateTypes
  PROVE  /\ Sequence \in Nat /\ Len(sent) \in Nat
         /\ sent # <<>> => Len(sent) \in 1..Len(sent) /\ Sequence = sent[Len(sent)].seq
         /\ \A n \in 1..Len(sent) : sent[n].seq \in Nat /\ Poc(n) \in Int
<1> DEFINE E == [seq : Nat, poc : Int, ref : BOOLEAN]
<1>1. sent \in Seq(E)
  BY DEF StateTypes
<1>2. Len(sent) \in Nat /\ \A n \in 1..Len(sent) : sent[n] \in E
  BY <1>1, LenProperties, ElementOfSeq
<1>3. \A n \in 1..Len(sent) : sent[n].seq \in Nat /\ Poc(n) \in Int
  BY <1>2 DEF Poc
<1>4. sent # <<>> => Len(sent) # 0
  BY <1>1, EmptySeq
<1>5. sent # <<>> => Len(sent) \in 1..Len(sent)
  BY <1>2, <1>4
<1>6. QED BY <1>2, <1>3, <1>5 DEF Sequence

LEMMA SentMore ==
  ASSUME StateTypes, NEW h, HeaderOf(h), Sends(h)
  PROVE  /\ sent' \in Seq([seq : Nat, poc : Int, ref : BOOLEAN]) /\ sent' # <<>>
         /\ Len(sent') = Len(sent) + 1
         /\ \A n \in 1..Len(sent) : sent'[n] = sent[n]
         /\ sent'[Len(sent')] = Entry(h)
         /\ Sequence' = IF Renews(h) THEN Sequence + 1 ELSE Sequence
         /\ Entry(h).seq = Sequence' /\ Entry(h).ref = h.ref
         /\ Entry(h).poc = IF Renews(h) THEN 0 ELSE h.poc
         /\ encoder_frame_num' \in 0..(MaxFrameNum - 1)
         /\ encoder_frame_num' = CASE Renews(h) -> 0
                                   [] ~Renews(h) /\ h.ref -> h.frame_num
                                   [] OTHER -> (h.frame_num - 1) % MaxFrameNum
<1> DEFINE E == [seq : Nat, poc : Int, ref : BOOLEAN]
           e == Entry(h)
<1>1. sent \in Seq(E) /\ Sequence \in Nat /\ Len(sent) \in Nat
  BY SequenceType DEF StateTypes
<1>2. h.ref \in BOOLEAN /\ h.poc \in Int /\ h.frame_num \in 0..(MaxFrameNum - 1)
  BY DEF HeaderOf, IsHeader
<1>3. /\ e \in E
      /\ e.seq = (IF Renews(h) THEN Sequence + 1 ELSE Sequence)
      /\ e.ref = h.ref /\ e.poc = (IF Renews(h) THEN 0 ELSE h.poc)
  BY <1>1, <1>2 DEF Entry
<1>4. sent' = Append(sent, e)
  BY DEF Sends, Entry, Renews
<1> HIDE DEF e, E
<1>5. /\ sent' \in Seq(E) /\ Len(sent') = Len(sent) + 1
      /\ \A n \in 1..Len(sent) : sent'[n] = sent[n]
      /\ sent'[Len(sent) + 1] = e
  BY <1>1, <1>3, <1>4, AppendProperties
<1>6. sent' # <<>> /\ sent'[Len(sent')] = e
  <2>1. Len(sent') # 0
    BY <1>1, <1>5
  <2>2. QED BY <1>5, <2>1
<1>7. Sequence' = e.seq
  BY <1>6 DEF Sequence
<1>8. encoder_frame_num' = CASE Renews(h) -> 0
                             [] ~Renews(h) /\ h.ref -> h.frame_num
                             [] OTHER -> (h.frame_num - 1) % MaxFrameNum
  BY DEF Sends, Renews
<1>9. encoder_frame_num' \in 0..(MaxFrameNum - 1)
  <2>1. h.frame_num - 1 \in Int
    BY <1>2, H264Assumption
  <2>2. (h.frame_num - 1) % MaxFrameNum \in 0..(MaxFrameNum - 1)
    BY <2>1, Remainder
  <2>3. 0 \in 0..(MaxFrameNum - 1)
    BY H264Assumption
  <2>4. QED BY <1>2, <1>8, <2>2, <2>3
<1>10. QED BY <1>3, <1>5, <1>6, <1>7, <1>8, <1>9 DEF e, E

(* The picture that begins is the last that was sent, and current.         *)
LEMMA DecodePictureFacts ==
  ASSUME InvBase, outcome = "Ok", NEW s, s = Finished, Going(s), NEW h, HeaderOf(h),
         DecodePicture(s, h), NEW r, r = BeginPicture(s, h)
  PROVE  /\ Follows(s, h) /\ Keep(r) /\ Going(r)
         /\ stream' = stream /\ sps' = sps /\ outcome' = "Ok" /\ resumed' = TRUE /\ seeking' = FALSE
         /\ current_pic' = Opened(h) /\ current_pic' # NoPicture /\ current_pic' \in CurrentPicture
         /\ Begun(Opened(h), Len(sent)) /\ Len(sent) \in Nat
         /\ Sends(h) /\ Done' = Len(sent) /\ Len(sent') = Len(sent) + 1
         /\ discarded' = IF h.idr /\ h.no_output_of_prior_pics_flag
                           THEN discarded \cup Waits(s.dpb) ELSE discarded
         /\ Account(s, Rest, Len(sent))
         /\ Account(r, IF h.idr /\ h.no_output_of_prior_pics_flag THEN Range(s.out) ELSE Rest,
                    Len(sent))
         /\ Range(s.out) \subseteq Rest
<1>1. StateTypes /\ stream \in Streams /\ Len(sent) \in Nat
  BY DEF InvBase, StateTypes
<1>2. /\ Follows(s, h) /\ Keep(r) /\ Going(r)
      /\ stream' = stream /\ outcome' = "Ok" /\ resumed' = TRUE /\ seeking' = FALSE
      /\ current_pic' = Opened(h) /\ Sends(h)
      /\ discarded' = IF h.idr /\ h.no_output_of_prior_pics_flag
                        THEN discarded \cup Waits(s.dpb) ELSE discarded
  BY DEF DecodePicture, Going, Opened, Waits
<1>3. /\ Opened(h) \in CurrentPicture /\ Begun(Opened(h), Len(sent))
  BY <1>1, OpenedFacts
<1>4. current_pic' # NoPicture
  BY <1>2, <1>3, H264Assumption
<1>5. Len(sent') = Len(sent) + 1
  BY <1>1, <1>2, SentMore
<1>6. Done' = Len(sent)
  BY <1>1, <1>4, <1>5 DEF Done
<1>7. Account(s, Rest, Len(sent))
  BY FinishedFacts
<1>8. IsHeader(h)
  BY DEF HeaderOf
<1>9. Account(r, IF h.idr /\ h.no_output_of_prior_pics_flag THEN Range(s.out) ELSE Rest, Len(sent))
  BY <1>1, <1>7, <1>8, BegunSession
<1>10. Range(s.out) \subseteq Rest
  BY <1>7 DEF Account
<1>11. sps' = sps
  BY <1>2 DEF sps
<1>12. QED BY <1>1, <1>2, <1>3, <1>4, <1>5, <1>6, <1>7, <1>9, <1>10, <1>11

LEMMA DecodePictureKeeps ==
  ASSUME InvBase, outcome = "Ok", NEW s, s = Finished, Going(s), NEW h, HeaderOf(h),
         DecodePicture(s, h)
  PROVE  InvBase'
<1> DEFINE r == BeginPicture(s, h)
           drops == h.idr /\ h.no_output_of_prior_pics_flag
           V == IF drops THEN Range(s.out) ELSE Rest
<1>1. /\ Follows(s, h) /\ Keep(r) /\ Going(r)
      /\ stream' = stream /\ sps' = sps /\ outcome' = "Ok" /\ resumed' = TRUE /\ seeking' = FALSE
      /\ current_pic' = Opened(h) /\ current_pic' # NoPicture /\ current_pic' \in CurrentPicture
      /\ Begun(Opened(h), Len(sent)) /\ Len(sent) \in Nat
      /\ Sends(h) /\ Done' = Len(sent) /\ Len(sent') = Len(sent) + 1
      /\ discarded' = (IF drops THEN discarded \cup Waits(s.dpb) ELSE discarded)
      /\ Account(s, Rest, Len(sent)) /\ Account(r, V, Len(sent))
      /\ Range(s.out) \subseteq Rest
  BY DecodePictureFacts
<1>2. StateTypes /\ stream \in Streams /\ IsHeader(h) /\ h.idr \in BOOLEAN
  BY DEF InvBase, StateTypes, HeaderOf, IsHeader
<1>3. /\ r.prev_ref_frame_num = IF h.idr THEN 0 ELSE s.prev_ref_frame_num
      /\ h.idr => DOMAIN r.dpb.entries = {}
      /\ Tidy(s.dpb) => Tidy(r.dpb)
  BY <1>1, <1>2, BegunSession
<1> HIDE DEF r
<1>4. V \in SUBSET Rest
  BY <1>1
<1>5. /\ dpb' = r.dpb /\ prev_ref_frame_num' = r.prev_ref_frame_num /\ held' = r.held
      /\ prev_ref_frame_num' \in 0..(MaxFrameNum - 1)
      /\ Sound(dpb', Len(sent)) /\ held' \subseteq 1..Len(sent)
      /\ ready_queue' \in Seq(1..Len(sent)) /\ Injective(ready_queue')
      /\ Range(ready_queue') \cap Waits(dpb') = {}
      /\ Range(ready_queue') \cup Waits(dpb') = Range(ready_queue) \cup V
  BY <1>1, <1>4, KeptFacts
<1>6. /\ sent' \in Seq([seq : Nat, poc : Int, ref : BOOLEAN]) /\ sent' # <<>>
      /\ encoder_frame_num' \in 0..(MaxFrameNum - 1)
      /\ encoder_frame_num' = CASE Renews(h) -> 0
                                [] ~Renews(h) /\ h.ref -> h.frame_num
                                [] OTHER -> (h.frame_num - 1) % MaxFrameNum
  BY <1>1, <1>2, SentMore
<1>7. /\ Waits(s.dpb) \subseteq 1..Len(sent) /\ Waits(s.dpb) \cap Range(s.out) = {}
      /\ Waits(s.dpb) \cup Range(s.out) = Rest
  BY <1>1, SoundWaits DEF Account
<1>8. /\ discarded \cap Range(ready_queue) = {} /\ discarded \subseteq 1..Len(sent)
      /\ Range(ready_queue) \subseteq 1..Len(sent)
  BY <1>2, InRange DEF StateTypes, InvBase, Accounted
<1>9. StateTypes'
  <2>1. \A n \in 1..Len(sent) : n \in 1..Len(sent')
    BY <1>1
  <2>2. discarded' \subseteq 1..Len(sent') /\ held' \subseteq 1..Len(sent')
    BY <1>1, <1>5, <1>7, <1>8, <2>1
  <2>3. ready_queue' \in Seq(1..Len(sent'))
    BY <1>5, <2>1, SeqMonotonic
  <2>4. Sound(dpb', Len(sent) + 1)
    BY <1>1, <1>5, SoundWaits
  <2>5. Sound(dpb, Len(sent))'
    BY <1>1, <2>4 DEF Sound
  <2>6. QED BY <1>1, <1>2, <1>5, <1>6, <2>2, <2>3, <2>5 DEF StateTypes
<1>10. Accounted'
  <2>1. \A n : n \in Rest <=> n \in 1..Len(sent) /\ n \notin Range(ready_queue) /\ n \notin discarded
    BY DEF Rest
  <2>2. /\ Range(ready_queue') \cup Waits(dpb') = Range(ready_queue) \cup V
        /\ discarded' = IF drops THEN discarded \cup Waits(s.dpb) ELSE discarded
        /\ V = IF drops THEN Range(s.out) ELSE Rest
    BY <1>1, <1>5
  <2> HIDE DEF V, drops
  <2>3. discarded' \cap (Range(ready_queue') \cup Waits(dpb')) = {}
    <3>1. discarded \cap (Range(ready_queue) \cup V) = {}
      BY <1>1, <1>8, <2>1, <2>2
    <3>2. Waits(s.dpb) \cap Range(ready_queue) = {}
      BY <1>7, <2>1
    <3>3. drops => Waits(s.dpb) \cap V = {}
      BY <1>7, <2>2
    <3>4. QED BY <2>2, <3>1, <3>2, <3>3
  <2>4. Range(ready_queue') \cup Waits(dpb') \cup discarded' = 1..Len(sent)
    <3>1. V \cup discarded' = Rest \cup discarded
      BY <1>7, <2>2
    <3>2. Range(ready_queue) \cup V \cup discarded' = 1..Len(sent)
      BY <1>8, <2>1, <3>1
    <3>3. QED BY <2>2, <3>2
  <2>5. Sound(dpb, Done)'
    BY <1>1, <1>5 DEF Sound
  <2>6. QED BY <1>1, <1>5, <2>3, <2>4, <2>5 DEF Accounted
<1>11. CurrentBegun'
  <2>1. /\ Opened(h).pic.is_idr = h.idr /\ Opened(h).marking = h.marking
        /\ IsRef(Opened(h).pic) <=> h.ref
    BY <1>1, OpenedFacts
  <2>2. h.idr => h.ref
    BY DEF HeaderOf
  <2>3. ~stream.adaptive => Simple(h.marking)
    BY DEF HeaderOf
  <2>4. h.idr => DOMAIN dpb'.entries = {}
    BY <1>3, <1>5
  <2>5. QED BY <1>1, <1>6, <2>1, <2>2, <2>3, <2>4 DEF CurrentBegun
<1>12. ~stream'.adaptive => Tidy(dpb)'
  <2>1. ~stream.adaptive => Tidy(r.dpb)
    BY <1>3, FinishedFacts
  <2>2. Tidy(dpb)' <=> Tidy(r.dpb)
    BY <1>1, <1>5 DEF Tidy, Window
  <2>3. QED BY <1>1, <2>1, <2>2
<1>13. EncoderAgrees'
  <2>1. SUFFICES ASSUME ~stream.adaptive, ~stream.loses
                 PROVE  encoder_frame_num' = IF IsRef(Opened(h).pic)
                                               THEN Opened(h).pic.frame_num ELSE prev_ref_frame_num'
    BY <1>1 DEF EncoderAgrees
  <2>2. /\ IsRef(Opened(h).pic) <=> h.ref
        /\ Opened(h).pic.frame_num = h.frame_num
    BY <1>1, OpenedFacts
  <2>3. /\ h.idr => h.ref /\ h.frame_num = 0
        /\ Renews(h) <=> h.idr
        /\ ~h.idr => h.frame_num = (encoder_frame_num + 1) % MaxFrameNum
        /\ h.ref \in BOOLEAN
    <3>1. h.marking.ops = <<>>
      BY <2>1 DEF HeaderOf, Simple
    <3>2. DOMAIN h.marking.ops = {}
      BY <3>1
    <3>3. QED BY <2>1, <3>2 DEF HeaderOf, IsHeader, Renews
  <2>4. CASE h.ref
    BY <1>6, <2>2, <2>3, <2>4
  <2>5. CASE ~h.ref
    <3>1. ~h.idr /\ ~seeking
      BY <1>1, <2>3, <2>5 DEF Follows
    <3>2. s.prev_ref_frame_num = encoder_frame_num
      BY <2>1, <3>1, FinishedFacts
    <3>3. encoder_frame_num \in 0..(MaxFrameNum - 1)
      BY <1>2 DEF StateTypes
    <3>4. (h.frame_num - 1) % MaxFrameNum = encoder_frame_num
      BY <2>3, <3>1, <3>3, Rounds
    <3>5. encoder_frame_num' = encoder_frame_num
      BY <1>6, <2>3, <2>5, <3>1, <3>4
    <3>6. prev_ref_frame_num' = encoder_frame_num
      BY <1>3, <1>5, <3>1, <3>2
    <3>7. QED BY <2>2, <2>5, <3>5, <3>6
  <2>6. QED BY <2>3, <2>4, <2>5
<1>14. RoomIsMadeBySliding'
  BY <1>1 DEF RoomIsMadeBySliding, RoomIsMade
<1>15. QED BY <1>9, <1>10, <1>11, <1>12, <1>13, <1>14 DEF InvBase

LEMMA InitBase == Init => InvBase
<1> SUFFICES ASSUME Init PROVE InvBase
  OBVIOUS
<1>1. /\ stream \in Streams /\ resumed = FALSE /\ seeking = TRUE /\ outcome = "Ok"
      /\ dpb = EmptyDpb(sps.max_num_pics, sps.max_num_reorder_frames)
      /\ current_pic = NoPicture /\ prev_ref_frame_num = 0 /\ ready_queue = <<>>
      /\ sent = <<>> /\ encoder_frame_num = 0 /\ held = {} /\ discarded = {}
  BY DEF Init
<1>2. /\ IsBuffer(dpb) /\ dpb.max_num_pics = sps.max_num_pics /\ DOMAIN dpb.entries = {}
  BY <1>1, Parameters, EmptyDpbFacts
<1>3. Sound(dpb, 0) /\ Waits(dpb) = {} /\ Used(dpb) /\ References(dpb) = {} /\ LongTerms(dpb) = {}
  BY <1>2, EmptySound
<1>4. Len(sent) = 0 /\ Done = 0 /\ 1..0 = {}
  BY <1>1 DEF Done
<1>5. /\ \A S : ready_queue \in Seq(S)
      /\ sent \in Seq([seq : Nat, poc : Int, ref : BOOLEAN])
      /\ Range(ready_queue) = {} /\ Injective(ready_queue)
  <2>1. ready_queue \in Seq(Nat) /\ Len(ready_queue) = 0
    BY <1>1
  <2>2. Range(ready_queue) = {}
    <3>1. \A x \in Range(ready_queue) : \E k \in 1..Len(ready_queue) : ready_queue[k] = x
      BY <2>1, InRange
    <3>2. QED BY <1>4, <2>1, <3>1
  <2>3. Injective(ready_queue)
    BY <2>1 DEF Injective
  <2>4. QED BY <1>1, <2>2, <2>3
<1>6. StateTypes
  <2>1. 0 \in 0..(MaxFrameNum - 1)
    BY H264Assumption
  <2>2. QED BY <1>1, <1>3, <1>4, <1>5, <2>1 DEF StateTypes
<1>7. Accounted
  BY <1>1, <1>3, <1>4, <1>5 DEF Accounted
<1>8. CurrentBegun /\ EncoderAgrees
  BY <1>1 DEF CurrentBegun, EncoderAgrees
<1>9. Tidy(dpb)
  BY <1>1, <1>3, FS_EmptySet, Parameters DEF Tidy, NumRefFrames
<1>10. RoomIsMadeBySliding
  BY <1>1 DEF RoomIsMadeBySliding, RoomIsMade
<1>11. QED BY <1>6, <1>7, <1>8, <1>9, <1>10 DEF InvBase

LEMMA NextBase == InvBase /\ [Next]_vars => InvBase'
<1> SUFFICES ASSUME InvBase, [Next]_vars PROVE InvBase'
  OBVIOUS
<1>1. CASE Next
  <2> DEFINE s == Finished
  <2>1. \/ \E h \in IdrHeaders \cup NextHeaders(s) :
             DecodePicture(s, h) \/ NoOutputBuffer(s, h) \/ GapFails(s, h)
        \/ FinishFails(s)
        \/ Flush(s)
    BY <1>1 DEF Next
  <2> HIDE DEF s
  <2>2. s = Finished
    BY DEF s
  <2>3. ASSUME NEW h \in IdrHeaders \cup NextHeaders(s),
               DecodePicture(s, h) \/ NoOutputBuffer(s, h) \/ GapFails(s, h)
        PROVE  InvBase'
    <3>1. outcome = "Ok" /\ Going(s)
      BY <2>3 DEF DecodePicture, NoOutputBuffer, GapFails, Running, Going
    <3>2. Sound(s.dpb, Len(sent))
      BY <2>2, <3>1, FinishedFacts DEF Account
    <3>3. /\ stream \in Streams /\ encoder_frame_num \in 0..(MaxFrameNum - 1) /\ Len(sent) \in Nat
      BY DEF InvBase, StateTypes
    <3>4. HeaderOf(h)
      BY <3>2, <3>3, HeadersOfStream
    <3>5. QED BY <2>2, <2>3, <3>1, <3>4, DecodePictureKeeps, NoOutputBufferKeeps, GapFailsKeeps
  <2>4. QED BY <2>1, <2>2, <2>3, FinishFailsKeeps, FlushKeeps
<1>2. CASE UNCHANGED vars
  <2>1. /\ resumed' = resumed /\ dpb' = dpb /\ current_pic' = current_pic
        /\ prev_ref_frame_num' = prev_ref_frame_num /\ ready_queue' = ready_queue
        /\ outcome' = outcome /\ stream' = stream /\ sent' = sent
        /\ encoder_frame_num' = encoder_frame_num /\ held' = held /\ seeking' = seeking
        /\ discarded' = discarded
    BY <1>2 DEF vars, codec_vars, stream_vars
  <2>2. sps' = sps /\ Done' = Done
    BY <2>1 DEF sps, Done
  <2>3. StateTypes' /\ RoomIsMadeBySliding'
    <3>1. Sound(dpb, Len(sent))' <=> Sound(dpb, Len(sent))
      BY <2>1, <2>2 DEF Sound
    <3>2. QED BY <2>1, <2>2, <3>1 DEF InvBase, StateTypes, RoomIsMadeBySliding, RoomIsMade
  <2>4. /\ Accounted' <=> Accounted
        /\ CurrentBegun' <=> CurrentBegun
        /\ Tidy(dpb)' <=> Tidy(dpb)
        /\ EncoderAgrees' <=> EncoderAgrees
    <3>1. Sound(dpb, Done)' <=> Sound(dpb, Done)
      BY <2>1, <2>2 DEF Sound
    <3>2. Accounted' <=> Accounted
      BY <2>1, <2>2, <3>1 DEF Accounted
    <3>3. CurrentBegun' <=> CurrentBegun
      BY <2>1, <2>2 DEF CurrentBegun
    <3>4. Tidy(dpb)' <=> Tidy(dpb)
      BY <2>1, <2>2 DEF Tidy, Window
    <3>5. EncoderAgrees' <=> EncoderAgrees
      BY <2>1 DEF EncoderAgrees
    <3>6. QED BY <3>2, <3>3, <3>4, <3>5
  <2>5. QED BY <2>1, <2>3, <2>4 DEF InvBase
<1>3. QED BY <1>1, <1>2

(* The inductive invariant holds in every state.                           *)
THEOREM InvariantHolds == Spec => []InvBase
BY InitBase, NextBase, PTL DEF Spec

-----------------------------------------------------------------------------
(* What it says of the code.                                               *)

LEMMA BaseTypes == InvBase => TypeOK
<1> SUFFICES ASSUME InvBase PROVE TypeOK
  OBVIOUS
<1>1. StateTypes /\ stream \in Streams
  BY DEF InvBase, StateTypes
<1>2. IsBuffer(dpb) /\ dpb.max_num_pics = sps.max_num_pics
  BY <1>1 DEF StateTypes, Sound
<1>3. /\ dpb.stored \in Nat /\ DOMAIN dpb.entries \subseteq 1..dpb.stored
      /\ \A i \in DOMAIN dpb.entries : dpb.entries[i] \in Picture
      /\ dpb.max_num_reorder_frames \in 0..sps.max_num_pics
  BY <1>2, Parameters, <1>1 DEF IsBuffer
<1>4. QED BY <1>1, <1>2, <1>3 DEF StateTypes, TypeOK

LEMMA BaseOnce == InvBase => EveryPictureOnce
<1> SUFFICES ASSUME InvBase, outcome = "Ok", NEW n \in 1..Len(sent)
             PROVE  Cardinality({k \in DOMAIN ready_queue : ready_queue[k] = n})
                      = (IF IsCurrent(n) \/ n \in Waiting \cup discarded THEN 0 ELSE 1)
  BY DEF EveryPictureOnce
<1> DEFINE q == ready_queue
           times == {k \in DOMAIN q : q[k] = n}
<1>1. /\ q \in Seq(1..Done) /\ Injective(q) /\ Range(q) \cap Waits(dpb) = {}
      /\ discarded \cap (Range(q) \cup Waits(dpb)) = {}
      /\ Range(q) \cup Waits(dpb) \cup discarded = 1..Done
  BY DEF InvBase, Accounted
<1>2. Waiting = Waits(dpb)
  BY DEF Waiting, Waits
<1>3. IsCurrent(n) <=> n \notin 1..Done
  <2>1. /\ Len(sent) \in Nat /\ Done \in Nat
        /\ current_pic = NoPicture => Done = Len(sent)
        /\ current_pic # NoPicture => Done + 1 = Len(sent)
    BY DoneFacts
  <2>2. current_pic # NoPicture => current_pic.pic.n = Done + 1
    BY DEF InvBase, CurrentBegun, Begun
  <2>3. QED BY <2>1, <2>2 DEF IsCurrent
<1>4. n \in Range(q) <=> ~(IsCurrent(n) \/ n \in Waiting \cup discarded)
  BY <1>1, <1>2, <1>3
<1> HIDE DEF q
<1>5. DOMAIN q = 1..Len(q) /\ Len(q) \in Nat
  BY <1>1, LenProperties
<1>6. CASE n \in Range(q)
  <2>1. PICK k \in 1..Len(q) : q[k] = n
    BY <1>1, <1>6, InRange
  <2>2. times = {k}
    <3>1. \A l \in times : l = k
      BY <1>1, <1>5, <2>1 DEF Injective
    <3>2. k \in times
      BY <1>5, <2>1
    <3>3. QED BY <3>1, <3>2
  <2>3. Cardinality(times) = 1
    BY <2>2, FS_Singleton
  <2>4. QED BY <1>4, <1>6, <2>3 DEF q
<1>7. CASE n \notin Range(q)
  <2>1. times = {}
    BY <1>7 DEF Range
  <2>2. Cardinality(times) = 0
    BY <2>1, FS_EmptySet
  <2>3. QED BY <1>4, <1>7, <2>2 DEF q
<1>8. QED BY <1>6, <1>7

(* Every picture is output once, or waits, or is dropped because an IDR    *)
(* picture asks for it, and nothing fails for a full buffer in a stream    *)
(* without memory management operations (finish_picture, bump_as_needed,   *)
(* store_picture, drain, handle_frame_num_gap).                            *)
THEOREM SafetyHolds == Spec => []Safety
<1>1. InvBase => Safety
  BY BaseTypes, BaseOnce DEF InvBase, Safety
<1>2. QED BY <1>1, InvariantHolds, PTL

-----------------------------------------------------------------------------
(* The order of output, in streams without memory management operations.   *)

(* In order of output; a is before all that waits.                         *)
Earlier(m, n) ==
  sent[m].seq < sent[n].seq \/ (sent[m].seq = sent[n].seq /\ Poc(m) < Poc(n))

(* The current picture comes after all that was output, or will be to make *)
(* room for it.                                                            *)
CurrentConforms ==
  current_pic # NoPicture =>
    /\ Fresh(dpb, current_pic.pic)
    /\ \A n \in (1..Done) \ KeptByStandard(held, MarkedFor(dpb, current_pic).dpb, current_pic.pic) :
         sent[n].seq = Sequence => Poc(n) < current_pic.pic.poc

InOrder ==
  /\ \A m, n \in 1..Len(sent) : m <= n => sent[m].seq <= sent[n].seq
  /\ \A k, l \in 1..Len(ready_queue) : k < l => Earlier(ready_queue[k], ready_queue[l])
  /\ outcome = "Ok" =>
       /\ Ordered(dpb)
       /\ held = Waits(dpb)
       /\ \A n \in Waits(dpb) : sent[n].seq = Sequence
       /\ \A k \in 1..Len(ready_queue) : \A n \in Waits(dpb) : Earlier(ready_queue[k], n)
       /\ CurrentConforms
InvOrder == ~stream.adaptive => InOrder

(* Session as of the pictures that have been finished.                     *)
LEMMA SessionDone ==
  ASSUME InvBase, outcome = "Ok"
  PROVE  Account(Session, Waits(dpb), Done)
<1> DEFINE c == Session n == Done
<1>1. StateTypes /\ Accounted
  BY DEF InvBase
<1>2. c = [dpb |-> c.dpb, prev_ref_frame_num |-> c.prev_ref_frame_num, out |-> c.out,
           held |-> c.held, ok |-> c.ok]
  BY <1>1, SessionFacts, SessionRecord
<1>3. /\ c.prev_ref_frame_num \in 0..(MaxFrameNum - 1) /\ c.ok \in BOOLEAN
      /\ Range(c.out) \cap Waits(c.dpb) = {} /\ Range(c.out) \cup Waits(c.dpb) = Waits(dpb)
      /\ Injective(c.out) /\ c.out = <<>> /\ c.dpb = dpb
  BY <1>1, SessionFacts DEF Account
<1>4. c.held \subseteq 1..n
  BY <1>1, SessionFacts DEF Accounted
<1>5. Sound(dpb, n)
  BY <1>1 DEF Accounted
<1>6. c.out \in Seq(1..n)
  BY <1>3
<1> HIDE DEF c, n
<1>7. Account(c, Waits(dpb), n)
  BY <1>2, <1>3, <1>4, <1>5, <1>6 DEF Account
<1>8. QED BY <1>7 DEF c, n

LEMMA KeptAreWaiting ==
  ASSUME NEW waiting, NEW d, NEW pic
  PROVE  KeptByStandard(waiting, d, pic) \subseteq waiting
BY DEF KeptByStandard

(* The pictures that are finished come after all that was output.          *)
LEMMA FinishedRegular ==
  ASSUME InvBase, InvOrder, outcome = "Ok", ~stream.adaptive, NEW s, s = Finished
  PROVE  /\ Regular(s)
         /\ \A n \in Rest : sent[n].seq = Sequence
         /\ \A k \in 1..Len(ready_queue) : \A n \in Rest : Earlier(ready_queue[k], n)
<1>1. /\ StateTypes /\ Accounted /\ CurrentBegun /\ stream \in Streams /\ Tidy(dpb)
  BY DEF InvBase, StateTypes
<1>2. /\ \A m, n \in 1..Len(sent) : m <= n => sent[m].seq <= sent[n].seq
      /\ Ordered(dpb) /\ held = Waits(dpb)
      /\ \A n \in Waits(dpb) : sent[n].seq = Sequence
      /\ \A k \in 1..Len(ready_queue) : \A n \in Waits(dpb) : Earlier(ready_queue[k], n)
      /\ CurrentConforms
  BY DEF InvOrder, InOrder
<1>3. /\ Going(Session) /\ Session.dpb = dpb /\ Session.held = held /\ Ascending(Session)
  BY <1>1, SessionFacts
<1>4. Regular(Session)
  BY <1>1, <1>2, <1>3 DEF Regular
<1>5. /\ Range(ready_queue) \cap Waits(dpb) = {} /\ discarded \cap Waits(dpb) = {}
      /\ Range(ready_queue) \cup Waits(dpb) \cup discarded = 1..Done
      /\ ready_queue \in Seq(1..Done) /\ Sound(dpb, Done)
  BY <1>1 DEF Accounted
<1>6. /\ Len(sent) \in Nat /\ Done \in Nat
      /\ current_pic = NoPicture => Done = Len(sent)
      /\ current_pic # NoPicture => Done + 1 = Len(sent)
  BY DoneFacts
<1>7. CASE current_pic = NoPicture
  <2>1. s = Session
    BY <1>7 DEF Finished
  <2>2. \A n \in Rest : n \in Waits(dpb)
    BY <1>5, <1>6, <1>7 DEF Rest
  <2>3. QED BY <1>2, <1>4, <2>1, <2>2
<1>8. CASE current_pic # NoPicture
  <2>1. s = FinishPicture(Session, current_pic)
    BY <1>8 DEF Finished
  <2>2. /\ sent # <<>> /\ Begun(current_pic, Done) /\ Simple(current_pic.marking)
        /\ current_pic.pic.is_idr => IsRef(current_pic.pic) /\ DOMAIN dpb.entries = {}
    BY <1>1, <1>8 DEF CurrentBegun
  <2> DEFINE K == KeptByStandard(held, MarkedFor(dpb, current_pic).dpb, current_pic.pic)
  <2>3. /\ Fresh(dpb, current_pic.pic)
        /\ \A n \in (1..Done) \ K : sent[n].seq = Sequence => Poc(n) < current_pic.pic.poc
    BY <1>2, <1>8 DEF CurrentConforms
  <2>4. K \subseteq Waits(dpb)
    BY <1>2, KeptAreWaiting
  <2>5. \A n \in Waits(dpb) \ K : Poc(n) < current_pic.pic.poc
    <3>1. Waits(dpb) \subseteq 1..Done
      BY <1>5
    <3>2. QED BY <1>2, <2>3, <3>1
  <2>6. Regular(s)
    <3> DEFINE c == Session cur == current_pic n == Done W == Waits(dpb)
    <3>1. Account(c, W, n) /\ Going(c) /\ Tidy(c.dpb) /\ Regular(c) /\ c.dpb = dpb /\ c.held = held
      BY <1>1, <1>3, <1>4, SessionDone
    <3>2. /\ Begun(cur, n) /\ Simple(cur.marking) /\ n \in Nat
          /\ cur.pic.is_idr => IsRef(cur.pic) /\ DOMAIN c.dpb.entries = {}
          /\ s = FinishPicture(c, cur)
      BY <1>6, <2>1, <2>2, <3>1
    <3>3. /\ Fresh(c.dpb, cur.pic)
          /\ \A m \in W \ KeptByStandard(c.held, MarkedFor(c.dpb, cur).dpb, cur.pic) :
               Poc(m) < cur.pic.poc
      BY <2>3, <2>5, <3>1
    <3> HIDE DEF c, cur, n, W, K
    <3>4. QED BY <1>1, <3>1, <3>2, <3>3, SimplyFinished
  <2>7. \A n \in Rest : n \in Waits(dpb) \/ n = Len(sent)
    <3>1. \A n \in 1..Len(sent) : n \in 1..Done \/ n = Len(sent)
      BY <1>6, <1>8
    <3>2. QED BY <1>5, <3>1 DEF Rest
  <2>8. /\ sent[Len(sent)].seq = Sequence /\ Poc(Len(sent)) = current_pic.pic.poc
    <3>1. current_pic.pic.n = Len(sent) /\ ~current_pic.pic.nonexisting
      BY <1>6, <1>8, <2>2 DEF Begun
    <3>2. QED BY <1>1, <2>2, <2>3, <3>1, SequenceType DEF Fresh
  <2>9. ASSUME NEW k \in 1..Len(ready_queue) PROVE Earlier(ready_queue[k], Len(sent))
    <3> DEFINE m == ready_queue[k]
    <3>1. m \in Range(ready_queue) /\ m \in 1..Done
      BY <1>5, InRange
    <3>2. m \notin K
      BY <1>5, <2>4, <3>1
    <3>3. /\ m \in 1..Len(sent) /\ Len(sent) \in 1..Len(sent) /\ m <= Len(sent)
      BY <1>6, <1>8, <3>1
    <3> HIDE DEF m, K
    <3>4. sent[m].seq = Sequence => Poc(m) < Poc(Len(sent))
      BY <2>3, <2>8, <3>1, <3>2
    <3>5. sent[m].seq <= sent[Len(sent)].seq /\ sent[m].seq \in Nat /\ sent[Len(sent)].seq \in Nat
      BY <1>1, <1>2, <3>3, SequenceType
    <3>6. Earlier(m, Len(sent))
      BY <2>8, <3>4, <3>5 DEF Earlier
    <3>7. QED BY <3>6 DEF m
  <2>10. QED BY <1>2, <2>6, <2>7, <2>8, <2>9
<1>9. QED BY <1>7, <1>8

(* What is output next comes after that.                                   *)
LEMMA QueueInOrder ==
  ASSUME InvBase, InvOrder, outcome = "Ok", ~stream.adaptive,
         NEW V \in SUBSET Rest, NEW r, Account(r, V, Len(sent)), Ascending(r),
         NEW p, Continues(p, ready_queue, r.out)
  PROVE  /\ \A k, l \in 1..Len(p) : k < l => Earlier(p[k], p[l])
         /\ \A k \in 1..Len(p) : \A n \in Waits(r.dpb) : Earlier(p[k], n)
         /\ \A n \in Waits(r.dpb) : sent[n].seq = Sequence
<1> DEFINE q == ready_queue o == r.out N == Len(sent)
<1>1. /\ \A n \in Rest : sent[n].seq = Sequence
      /\ \A k \in 1..Len(q) : \A n \in Rest : Earlier(q[k], n)
  BY FinishedRegular
<1>2. q \in Seq(1..N) /\ o \in Seq(1..N) /\ Continues(p, q, o)
  BY DEF InvBase, StateTypes, Account
<1>3. \A k, l \in 1..Len(q) : k < l => Earlier(q[k], q[l])
  BY DEF InvOrder, InOrder
<1>4. /\ \A k \in 1..Len(o) : o[k] \in V
      /\ \A n \in Waits(r.dpb) : n \in V
  BY <1>2, InRange DEF Account
<1>5. /\ \A k, l \in 1..Len(o) : k < l => Earlier(o[k], o[l])
      /\ \A k \in 1..Len(o) : \A n \in Waits(r.dpb) : Earlier(o[k], n)
  BY <1>1, <1>4 DEF Ascending, Earlier
<1> HIDE DEF q, o, N
<1>6. /\ Len(q) \in Nat /\ Len(o) \in Nat
      /\ \A k \in 1..Len(p) : \/ k \in 1..Len(q) /\ p[k] = q[k]
                              \/ /\ k > Len(q) /\ k - Len(q) \in 1..Len(o)
                                 /\ p[k] = o[k - Len(q)]
  BY <1>2, ContinuesPlaces
<1>7. \A k \in 1..Len(q) : \A l \in 1..Len(o) : Earlier(q[k], o[l])
  BY <1>1, <1>4
<1>8. ASSUME NEW k \in 1..Len(p), NEW l \in 1..Len(p), k < l PROVE Earlier(p[k], p[l])
  <2>1. CASE k \in 1..Len(q) /\ p[k] = q[k] /\ l \in 1..Len(q) /\ p[l] = q[l]
    BY <1>3, <1>8, <2>1
  <2>2. CASE k \in 1..Len(q) /\ p[k] = q[k] /\ l - Len(q) \in 1..Len(o) /\ p[l] = o[l - Len(q)]
    BY <1>7, <2>2
  <2>3. CASE /\ k - Len(q) \in 1..Len(o) /\ p[k] = o[k - Len(q)]
             /\ l - Len(q) \in 1..Len(o) /\ p[l] = o[l - Len(q)]
    <3>1. k - Len(q) < l - Len(q)
      BY <1>6, <1>8
    <3>2. QED BY <1>5, <2>3, <3>1
  <2>4. ~(k > Len(q) /\ l \in 1..Len(q))
    BY <1>6, <1>8
  <2>5. QED BY <1>6, <2>1, <2>2, <2>3, <2>4
<1>9. \A k \in 1..Len(p) : \A n \in Waits(r.dpb) : Earlier(p[k], n)
  BY <1>1, <1>4, <1>5, <1>6
<1>10. QED BY <1>1, <1>4, <1>8, <1>9

LEMMA KeepsInOrder ==
  ASSUME InvBase, InvOrder, outcome = "Ok", ~stream.adaptive,
         NEW V \in SUBSET Rest, NEW r, Account(r, V, Len(sent)), Ascending(r), Keep(r),
         current_pic' = NoPicture, UNCHANGED <<stream, sent>>,
         outcome' = "Ok" => Regular(r)
  PROVE  InOrder'
<1>1. /\ dpb' = r.dpb /\ held' = r.held /\ sent' = sent /\ Continues(ready_queue', ready_queue, r.out)
  BY DEF Keep, Continues
<1>2. /\ \A k, l \in 1..Len(ready_queue') : k < l => Earlier(ready_queue'[k], ready_queue'[l])
      /\ \A k \in 1..Len(ready_queue') : \A n \in Waits(r.dpb) : Earlier(ready_queue'[k], n)
      /\ \A n \in Waits(r.dpb) : sent[n].seq = Sequence
  BY <1>1, QueueInOrder
<1>3. /\ \A m, n \in 1..Len(sent) : m <= n => sent[m].seq <= sent[n].seq
  BY DEF InvOrder, InOrder
<1>4. CurrentConforms'
  BY DEF CurrentConforms
<1>5. outcome' = "Ok" => Ordered(dpb)' /\ held' = Waits(dpb')
  BY <1>1 DEF Regular, Ordered, Poc
<1>6. QED BY <1>1, <1>2, <1>3, <1>4, <1>5 DEF InOrder, Earlier, Poc, Sequence

(* What the standard keeps, as a function of what was sent.                *)
KeptOf(list, size, waiting, d, pic) ==
  LET after == IF IsRef(pic) THEN {} ELSE {n \in waiting : list[n].poc > pic.poc}
      fitting == {kept \in SUBSET waiting :
                    /\ after \subseteq kept
                    /\ \A m \in kept : \A n \in waiting : list[n].poc > list[m].poc => n \in kept
                    /\ Cardinality(kept)
                         + Cardinality({i \in References(d) : d.entries[i].n \notin kept}) < size}
  IN IF fitting = {} THEN after ELSE UNION fitting

LEMMA KeptOfSent ==
  ASSUME NEW waiting, NEW d, NEW pic
  PROVE  KeptByStandard(waiting, d, pic) = KeptOf(sent, sps.max_num_pics, waiting, d, pic)
BY DEF KeptByStandard, KeptOf, ClosedUpwards, LeaveRoom, Poc

LEMMA KeptOfMore ==
  ASSUME NEW list, NEW more, NEW size, NEW waiting, NEW d, NEW pic,
         \A n \in waiting : more[n] = list[n]
  PROVE  KeptOf(more, size, waiting, d, pic) = KeptOf(list, size, waiting, d, pic)
<1> DEFINE Behind(x) == IF IsRef(pic) THEN {} ELSE {n \in waiting : x[n].poc > pic.poc}
           Fits(x, kept) ==
             /\ Behind(x) \subseteq kept
             /\ \A m \in kept : \A n \in waiting : x[n].poc > x[m].poc => n \in kept
             /\ Cardinality(kept)
                  + Cardinality({i \in References(d) : d.entries[i].n \notin kept}) < size
           Fitting(x) == {kept \in SUBSET waiting : Fits(x, kept)}
<1>1. {n \in waiting : more[n].poc > pic.poc} = {n \in waiting : list[n].poc > pic.poc}
  OBVIOUS
<1>2. Behind(more) = Behind(list)
  BY <1>1
<1>3. ASSUME NEW kept \in SUBSET waiting
      PROVE  (\A m \in kept : \A n \in waiting : more[n].poc > more[m].poc => n \in kept)
               <=> (\A m \in kept : \A n \in waiting : list[n].poc > list[m].poc => n \in kept)
  <2>1. \A m \in kept : m \in waiting /\ more[m] = list[m]
    OBVIOUS
  <2>2. QED BY <2>1
<1> HIDE DEF Behind
<1>4. \A kept \in SUBSET waiting : Fits(more, kept) <=> Fits(list, kept)
  BY <1>2, <1>3
<1> HIDE DEF Fits
<1>5. Fitting(more) = Fitting(list)
  BY <1>4
<1> USE DEF Fits, Behind
<1>6. /\ KeptOf(more, size, waiting, d, pic) = IF Fitting(more) = {} THEN Behind(more) ELSE UNION Fitting(more)
      /\ KeptOf(list, size, waiting, d, pic) = IF Fitting(list) = {} THEN Behind(list) ELSE UNION Fitting(list)
  BY DEF KeptOf
<1> HIDE DEF Fitting, Behind
<1>7. QED BY <1>2, <1>5, <1>6

LEMMA DecodeInOrder ==
  ASSUME InvBase, InvOrder, outcome = "Ok", ~stream.adaptive, NEW s, s = Finished, Going(s),
         NEW h, HeaderOf(h), DecodePicture(s, h)
  PROVE  InOrder'
<1> DEFINE r == BeginPicture(s, h)
           V == IF h.idr /\ h.no_output_of_prior_pics_flag THEN Range(s.out) ELSE Rest
           cur == Opened(h)
           N == Len(sent)
<1>1. /\ Follows(s, h) /\ Keep(r) /\ Going(r)
      /\ stream' = stream /\ sps' = sps /\ outcome' = "Ok"
      /\ current_pic' = cur /\ current_pic' # NoPicture
      /\ Begun(cur, N) /\ N \in Nat
      /\ Sends(h) /\ Done' = N /\ Len(sent') = N + 1
      /\ Account(s, Rest, N) /\ Account(r, V, N)
      /\ Range(s.out) \subseteq Rest
  BY DecodePictureFacts
<1>2. StateTypes /\ stream \in Streams /\ IsHeader(h) /\ h.idr \in BOOLEAN /\ Simple(h.marking)
  BY DEF InvBase, StateTypes, HeaderOf, IsHeader
<1>3. /\ Regular(s)
      /\ \A n \in Rest : sent[n].seq = Sequence
      /\ \A k \in 1..Len(ready_queue) : \A n \in Rest : Earlier(ready_queue[k], n)
  BY FinishedRegular
<1>4. Tidy(s.dpb) /\ StaysRegular(s, r) /\ Tidy(r.dpb) /\ (h.idr => DOMAIN r.dpb.entries = {})
  BY <1>1, <1>2, <1>3, BegunSession DEF Regular
<1>5. Regular(r) /\ Ascending(r)
  BY <1>1, <1>3, <1>4 DEF StaysRegular
<1>6. V \in SUBSET Rest
  BY <1>1
<1>7. dpb' = r.dpb /\ held' = r.held /\ Continues(ready_queue', ready_queue, r.out)
  BY <1>1 DEF Keep, Continues
<1>8. /\ \A k, l \in 1..Len(ready_queue') : k < l => Earlier(ready_queue'[k], ready_queue'[l])
      /\ \A k \in 1..Len(ready_queue') : \A n \in Waits(r.dpb) : Earlier(ready_queue'[k], n)
      /\ \A n \in Waits(r.dpb) : sent[n].seq = Sequence
  <2> HIDE DEF V, r, N
  <2>1. Account(r, V, Len(sent))
    BY <1>1 DEF N
  <2>2. QED BY <1>5, <1>6, <1>7, <2>1, QueueInOrder
<1>9. /\ cur.pic = NewPicture(h) /\ cur.marking = h.marking
      /\ cur.pic.n = N + 1 /\ cur.pic.poc = h.poc /\ cur.pic.is_idr = h.idr
      /\ ~cur.pic.nonexisting
      /\ IsRef(cur.pic) <=> h.ref
  BY <1>1, OpenedFacts
<1>10. Renews(h) <=> h.idr
  <2>1. h.marking.ops = <<>>
    BY <1>2 DEF HeaderOf, Simple
  <2>2. DOMAIN h.marking.ops = {}
    BY <2>1
  <2>3. QED BY <2>2 DEF Renews
<1>11. /\ sent' \in Seq([seq : Nat, poc : Int, ref : BOOLEAN])
       /\ \A n \in 1..N : sent'[n] = sent[n]
       /\ Sequence' = (IF h.idr THEN Sequence + 1 ELSE Sequence)
       /\ sent'[N + 1].seq = Sequence'
       /\ sent'[N + 1].poc = (IF h.idr THEN 0 ELSE h.poc)
  BY <1>1, <1>2, <1>10, SentMore
<1>12. /\ Sequence \in Nat
       /\ N # 0 => Sequence = sent[N].seq
       /\ \A n \in 1..N : sent[n].seq \in Nat /\ Poc(n) \in Int
  <2>1. N # 0 => sent # <<>>
    OBVIOUS
  <2>2. QED BY <1>2, <2>1, SequenceType
<1>13. \A m, n \in 1..N : m <= n => sent[m].seq <= sent[n].seq
  BY DEF InvOrder, InOrder
<1>14. \A n \in 1..N : sent[n].seq <= Sequence
  <2> HIDE DEF N
  <2>1. \A n \in 1..N : N \in 1..N /\ N # 0 /\ n <= N
    BY <1>1
  <2>2. QED BY <1>12, <1>13, <2>1
<1>15. Waits(r.dpb) \subseteq 1..N /\ Range(ready_queue') \subseteq 1..N /\ ready_queue' \in Seq(1..N)
       /\ Sound(r.dpb, N)
  <2> HIDE DEF r, V
  <2>1. Waits(r.dpb) \subseteq 1..N /\ Sound(r.dpb, N)
    BY <1>1, SoundWaits DEF Account
  <2>2. ready_queue' \in Seq(1..N)
    BY <1>1, <1>6, KeptFacts
  <2>3. QED BY <2>1, <2>2, InRange
<1>16. \A k \in 1..Len(ready_queue') : ready_queue'[k] \in 1..N
  BY <1>15, InRange
<1> HIDE DEF r, V, N, cur
<1>17. \A m, n \in 1..N : Earlier(m, n) =>
         \/ sent'[m].seq < sent'[n].seq
         \/ sent'[m].seq = sent'[n].seq /\ sent'[m].poc < sent'[n].poc
  BY <1>11 DEF Earlier, Poc
<1>18. \A m, n \in 1..Len(sent') : m <= n => sent'[m].seq <= sent'[n].seq
  <2>1. \A n \in 1..Len(sent') : n \in 1..N \/ n = N + 1
    BY <1>1
  <2>2. SUFFICES ASSUME NEW m \in 1..Len(sent'), NEW n \in 1..Len(sent'), m <= n
                 PROVE  sent'[m].seq <= sent'[n].seq
    OBVIOUS
  <2>3. Sequence <= Sequence' /\ Sequence' \in Nat
    BY <1>11, <1>12
  <2>4. CASE m \in 1..N /\ n \in 1..N
    BY <1>11, <1>13, <2>2, <2>4
  <2>5. CASE m \in 1..N /\ n = N + 1
    <3>1. sent'[m].seq = sent[m].seq /\ sent[m].seq \in Nat /\ sent[m].seq <= Sequence
      BY <1>11, <1>12, <1>14, <2>5
    <3>2. sent'[n].seq = Sequence'
      BY <1>11, <2>5
    <3>3. QED BY <1>12, <2>3, <3>1, <3>2
  <2>6. CASE m = N + 1 /\ n = N + 1
    BY <1>11, <2>3, <2>6
  <2>7. ~(m = N + 1 /\ n \in 1..N)
    BY <1>1, <2>2
  <2>8. QED BY <2>1, <2>4, <2>5, <2>6, <2>7
<1>19. Ordered(dpb)'
  <2>1. \A i \in Bumpable(r.dpb) : r.dpb.entries[i].n \in 1..N
    BY <1>1, <1>15, SoundWaits
  <2>2. QED BY <1>5, <1>7, <1>11, <2>1 DEF Regular, Ordered, Poc
<1>20. held' = Waits(dpb')
  BY <1>5, <1>7 DEF Regular
<1>21. ASSUME NEW n \in Waits(dpb') PROVE sent'[n].seq = Sequence'
  <2>1. n \in 1..N /\ sent[n].seq = Sequence
    BY <1>7, <1>8, <1>15, <1>21
  <2>2. ~h.idr
    <3>1. IsBuffer(r.dpb)
      BY <1>15 DEF Sound
    <3>2. DOMAIN r.dpb.entries = {} => Waits(r.dpb) = {}
      BY PlaceSets DEF Waits
    <3>3. QED BY <1>4, <1>7, <1>21, <3>2
  <2>3. QED BY <1>11, <2>1, <2>2
<1>22. Fresh(dpb, current_pic.pic)'
  <2>1. cur.pic.poc = sent'[cur.pic.n].poc
    <3>1. h.idr => h.poc = 0
      BY DEF HeaderOf
    <3>2. QED BY <1>9, <1>11, <3>1
  <2>2. ASSUME NEW i \in Bumpable(r.dpb) PROVE r.dpb.entries[i].poc # cur.pic.poc
    <3>1. r.dpb.entries[i].n \in Waits(r.dpb)
      BY DEF Waits
    <3>2. r.dpb.entries[i].n \in 1..N /\ sent[r.dpb.entries[i].n].seq = Sequence
      BY <1>8, <1>15, <3>1
    <3>3. r.dpb.entries[i].poc = Poc(r.dpb.entries[i].n)
      BY <1>5 DEF Regular, Ordered
    <3>4. ~h.idr
      BY <1>4, PlaceSets
    <3>5. DOMAIN sent = 1..N
      BY <1>2, LenProperties DEF StateTypes, N
    <3>6. QED BY <1>9, <3>2, <3>3, <3>4, <3>5 DEF HeaderOf
  <2>3. QED BY <1>1, <1>7, <2>1, <2>2 DEF Fresh, Poc
<1>23. ASSUME NEW n \in (1..N) \ KeptByStandard(held, MarkedFor(dpb, current_pic).dpb, current_pic.pic)',
              sent'[n].seq = Sequence'
       PROVE  Poc(n)' < cur.pic.poc
  <2> DEFINE m == MarkedFor(r.dpb, cur)
             K == KeptByStandard(r.held, m.dpb, cur.pic)
  <2>1. MarkedFor(dpb, current_pic)' = m
    BY <1>1, <1>7 DEF MarkedFor
  <2>2. KeptByStandard(held, MarkedFor(dpb, current_pic).dpb, current_pic.pic)'
          = KeptOf(sent', sps.max_num_pics, r.held, m.dpb, cur.pic)
    <3> HIDE DEF m
    <3>1. QED BY <1>1, <1>7, <2>1 DEF KeptByStandard, KeptOf, ClosedUpwards, LeaveRoom, Poc
  <2>3. \A k \in r.held : sent'[k] = sent[k]
    BY <1>5, <1>11, <1>15 DEF Regular
  <2>4. KeptByStandard(held, MarkedFor(dpb, current_pic).dpb, current_pic.pic)' = K
    <3> HIDE DEF m
    <3>1. QED BY <2>2, <2>3, KeptOfMore, KeptOfSent
  <2>5. n \in 1..N /\ n \notin K /\ sent'[n] = sent[n]
    BY <1>11, <1>23, <2>4
  <2>6. ~h.idr /\ sent[n].seq = Sequence
    BY <1>11, <1>12, <1>14, <1>23, <2>5
  <2>7. Conforms(r, h)
    BY <1>1, <2>6 DEF Follows, r
  <2>8. /\ m.pic = cur.pic
    BY <1>1, <1>2, <1>4, <1>9, <1>15, <2>6, SimplyMarked
  <2>9. ~cur.pic.has_mmco_5
    BY <1>1 DEF Begun
  <2>10. \A k \in (1..N) \ K : sent[k].seq = Sequence => Poc(k) < h.poc
    <3>1. m = IF h.ref THEN ReferencePicMarking(r.dpb, NewPicture(h), h.marking, sps.max_num_ref_frames)
                       ELSE [dpb |-> r.dpb, pic |-> NewPicture(h), ok |-> TRUE]
      BY <1>9 DEF MarkedFor
    <3> HIDE DEF m
    <3>2. \A k \in (1..N) \ (IF m.pic.has_mmco_5 THEN r.held ELSE KeptByStandard(r.held, m.dpb, m.pic)) :
            sent[k].seq = Sequence => Poc(k) < h.poc
      BY <2>7, <3>1 DEF Conforms, N
    <3>3. QED BY <2>8, <2>9, <3>2
  <2>11. Poc(n)' = Poc(n)
    BY <2>5 DEF Poc
  <2> HIDE DEF K
  <2>12. QED BY <1>9, <2>5, <2>6, <2>10, <2>11
<1>24. CurrentConforms'
  BY <1>1, <1>22, <1>23 DEF CurrentConforms
<1>25. /\ \A k, l \in 1..Len(ready_queue') : k < l => Earlier(ready_queue[k], ready_queue[l])'
       /\ \A k \in 1..Len(ready_queue') : \A n \in Waits(dpb') : Earlier(ready_queue[k], n)'
  <2>1. \A k, l \in 1..Len(ready_queue') : k < l =>
          sent'[ready_queue'[k]].seq < sent'[ready_queue'[l]].seq
            \/ /\ sent'[ready_queue'[k]].seq = sent'[ready_queue'[l]].seq
               /\ sent'[ready_queue'[k]].poc < sent'[ready_queue'[l]].poc
    BY <1>8, <1>16, <1>17
  <2>2. \A k \in 1..Len(ready_queue') : \A n \in Waits(dpb') :
          sent'[ready_queue'[k]].seq < sent'[n].seq
            \/ /\ sent'[ready_queue'[k]].seq = sent'[n].seq
               /\ sent'[ready_queue'[k]].poc < sent'[n].poc
    BY <1>7, <1>8, <1>15, <1>16, <1>17
  <2>3. QED BY <2>1, <2>2 DEF Earlier, Poc
<1>26. QED BY <1>18, <1>19, <1>20, <1>21, <1>24, <1>25 DEF InOrder

LEMMA InitOrder == Init => InvOrder
<1> SUFFICES ASSUME Init PROVE InOrder
  BY DEF InvOrder
<1>1. /\ stream \in Streams /\ current_pic = NoPicture /\ ready_queue = <<>> /\ sent = <<>> /\ held = {}
      /\ dpb = EmptyDpb(sps.max_num_pics, sps.max_num_reorder_frames)
  BY DEF Init
<1>2. Bumpable(dpb) = {}
  BY <1>1, Parameters, EmptyDpbFacts
<1>3. Waits(dpb) = {}
  BY <1>2, EmptyWaits
<1>4. Len(sent) = 0 /\ Len(ready_queue) = 0 /\ 1..0 = {}
  BY <1>1
<1>5. QED BY <1>1, <1>2, <1>3, <1>4 DEF InOrder, Ordered, CurrentConforms

LEMMA NextOrder == InvBase /\ InvOrder /\ [Next]_vars => InvOrder'
<1> SUFFICES ASSUME InvBase, InvOrder, [Next]_vars PROVE InvOrder'
  OBVIOUS
<1>1. CASE Next
  <2> DEFINE s == Finished
  <2>1. \/ \E h \in IdrHeaders \cup NextHeaders(s) :
             DecodePicture(s, h) \/ NoOutputBuffer(s, h) \/ GapFails(s, h)
        \/ FinishFails(s)
        \/ Flush(s)
    BY <1>1 DEF Next
  <2> HIDE DEF s
  <2>2. s = Finished
    BY DEF s
  <2>3. outcome = "Ok" /\ stream' = stream
    BY <2>1 DEF DecodePicture, NoOutputBuffer, GapFails, FinishFails, Flush, Running
  <2>4. SUFFICES ASSUME ~stream.adaptive PROVE InOrder'
    BY <2>3 DEF InvOrder
  <2>5. Going(s) /\ Regular(s) /\ Account(s, Rest, Len(sent)) /\ Tidy(s.dpb)
    BY <2>2, <2>3, <2>4, FinishedFacts, FinishedRegular
  <2>6. /\ stream \in Streams /\ encoder_frame_num \in 0..(MaxFrameNum - 1) /\ Len(sent) \in Nat
    BY DEF InvBase, StateTypes
  <2>7. Rest \in SUBSET Rest
    OBVIOUS
  <2>8. ASSUME NEW h \in IdrHeaders \cup NextHeaders(s) PROVE HeaderOf(h) /\ IsHeader(h)
    <3>1. Sound(s.dpb, Len(sent))
      BY <2>5 DEF Account
    <3>2. HeaderOf(h)
      BY <2>6, <3>1, HeadersOfStream
    <3>3. QED BY <3>2 DEF HeaderOf
  <2>9. ASSUME NEW h \in IdrHeaders \cup NextHeaders(s), DecodePicture(s, h) PROVE InOrder'
    BY <2>2, <2>3, <2>4, <2>5, <2>8, <2>9, DecodeInOrder
  <2>10. ASSUME NEW h \in IdrHeaders \cup NextHeaders(s), NoOutputBuffer(s, h) PROVE InOrder'
    <3>1. Keep(s) /\ current_pic' = NoPicture /\ UNCHANGED <<stream, sent>> /\ Ascending(s)
      BY <2>5, <2>10 DEF NoOutputBuffer, Regular
    <3>2. QED BY <2>3, <2>4, <2>5, <2>7, <3>1, KeepsInOrder
  <2>11. ASSUME NEW h \in IdrHeaders \cup NextHeaders(s), GapFails(s, h) PROVE InOrder'
    <3> DEFINE r == BeginPicture(s, h)
               V == IF h.idr /\ h.no_output_of_prior_pics_flag THEN Range(s.out) ELSE Rest
    <3>1. /\ Keep(r) /\ current_pic' = NoPicture /\ UNCHANGED <<stream, sent>> /\ outcome' # "Ok"
      BY <2>11 DEF GapFails
    <3>2. /\ Account(r, V, Len(sent)) /\ StaysRegular(s, r)
      BY <2>5, <2>6, <2>8, BegunSession
    <3>3. V \in SUBSET Rest /\ Ascending(r)
      BY <2>5, <3>2 DEF Account, StaysRegular
    <3> HIDE DEF r, V
    <3>4. QED BY <2>3, <2>4, <3>1, <3>2, <3>3, KeepsInOrder
  <2>12. ~FinishFails(s)
    BY <2>5 DEF FinishFails, Going
  <2>13. ASSUME Flush(s) PROVE InOrder'
    <3> DEFINE r == DrainAll(s)
    <3>1. /\ Keep(r) /\ current_pic' = NoPicture /\ UNCHANGED <<stream, sent>>
      BY <2>13 DEF Flush
    <3>2. /\ Account(r, Rest, Len(sent)) /\ DOMAIN r.dpb.entries = {} /\ r.held = {} /\ r.ok = s.ok
          /\ Ascending(r)
      <4>1. Ordered(s.dpb) /\ Ascending(s)
        BY <2>5 DEF Regular
      <4>2. r = DrainAll(s)
        OBVIOUS
      <4> HIDE DEF r
      <4>3. /\ Account(r, Rest, Len(sent)) /\ DOMAIN r.dpb.entries = {} /\ r.held = {} /\ r.ok = s.ok
        BY <2>5, <2>6, <4>2, DrainedSession
      <4>4. Ordered(s.dpb) /\ Ascending(s) => Ascending(r)
        BY <2>5, <2>6, <4>2, DrainedSession
      <4>5. QED BY <4>1, <4>3, <4>4
    <3> HIDE DEF r
    <3>3. Regular(r)
      <4>1. IsBuffer(r.dpb) /\ r.dpb.max_num_pics = sps.max_num_pics
        BY <3>2 DEF Account, Sound
      <4>2. /\ Used(r.dpb) /\ References(r.dpb) = {} /\ LongTerms(r.dpb) = {} /\ Waits(r.dpb) = {}
            /\ Bumpable(r.dpb) = {}
        <5>1. Bumpable(r.dpb) = {}
          BY <3>2, PlaceSets
        <5>2. QED BY <2>6, <3>2, <4>1, <5>1, EmptySound
      <4>3. Tidy(r.dpb)
        BY <2>6, <4>2, FS_EmptySet, Parameters DEF Tidy, NumRefFrames
      <4>4. Going(r)
        BY <2>5, <3>2 DEF Going
      <4>5. QED BY <3>2, <4>2, <4>3, <4>4 DEF Regular, Ordered
    <3>4. QED BY <2>3, <2>4, <2>7, <3>1, <3>2, <3>3, KeepsInOrder
  <2>14. QED BY <2>1, <2>9, <2>10, <2>11, <2>12, <2>13
<1>2. CASE UNCHANGED vars
  <2>1. /\ dpb' = dpb /\ current_pic' = current_pic /\ ready_queue' = ready_queue
        /\ outcome' = outcome /\ stream' = stream /\ sent' = sent /\ held' = held
    BY <1>2 DEF vars, codec_vars, stream_vars
  <2>2. sps' = sps /\ Done' = Done /\ Sequence' = Sequence /\ \A n : Poc(n)' = Poc(n)
    BY <2>1 DEF sps, Done, Sequence, Poc
  <2>3. \A m, n : Earlier(m, n)' <=> Earlier(m, n)
    BY <2>1 DEF Earlier, Poc
  <2>4. Ordered(dpb)' <=> Ordered(dpb)
    BY <2>1 DEF Ordered, Poc
  <2>5. CurrentConforms' <=> CurrentConforms
    <3> DEFINE K == KeptByStandard(held, MarkedFor(dpb, current_pic).dpb, current_pic.pic)
    <3>1. MarkedFor(dpb, current_pic)' = MarkedFor(dpb, current_pic)
      BY <2>1, <2>2 DEF MarkedFor
    <3>2. K' = KeptOf(sent', sps'.max_num_pics, held', MarkedFor(dpb, current_pic)'.dpb, current_pic'.pic)
      BY DEF KeptByStandard, KeptOf, ClosedUpwards, LeaveRoom, Poc
    <3>3. K' = K
      BY <2>1, <2>2, <3>1, <3>2, KeptOfSent
    <3>4. Fresh(dpb, current_pic.pic)' <=> Fresh(dpb, current_pic.pic)
      BY <2>1 DEF Fresh, Poc
    <3> HIDE DEF K
    <3>5. CurrentConforms <=> (current_pic # NoPicture =>
            /\ Fresh(dpb, current_pic.pic)
            /\ \A n \in (1..Done) \ K : sent[n].seq = Sequence => sent[n].poc < current_pic.pic.poc)
      BY DEF CurrentConforms, K, Poc
    <3>6. CurrentConforms' <=> (current_pic' # NoPicture =>
            /\ Fresh(dpb, current_pic.pic)'
            /\ \A n \in (1..Done') \ K' : sent'[n].seq = Sequence' => sent'[n].poc < current_pic'.pic.poc)
      BY DEF CurrentConforms, K, Poc
    <3>7. QED BY <2>1, <2>2, <3>3, <3>4, <3>5, <3>6
  <2>6. InOrder' <=> InOrder
    BY <2>1, <2>2, <2>3, <2>4, <2>5 DEF InOrder, Earlier, Poc
  <2>7. QED BY <2>1, <2>6 DEF InvOrder
<1>3. QED BY <1>1, <1>2

(* What was output, waits or comes next is in output order, and what waits *)
(* is what the standard's decoder holds (bump_as_needed, drain).           *)
THEOREM OrderHolds == Spec => []InvOrder
BY InitOrder, NextOrder, InvariantHolds, PTL DEF Spec

(* In streams without memory management operations pictures are output in  *)
(* output order, each coded video sequence before the next, whatever       *)
(* frames are lost and however often a call is refused (bump_as_needed,    *)
(* drain, finish_picture, new_picture).                                    *)
THEOREM OutputOrderHolds == Spec => []OutputInOrder
<1>1. InvBase /\ InvOrder => OutputInOrder
  <2> SUFFICES ASSUME InvBase, InvOrder, ~stream.adaptive, NEW k \in 1..(Len(ready_queue) - 1)
               PROVE  LET a == sent[ready_queue[k]] b == sent[ready_queue[k + 1]] IN
                      a.seq < b.seq \/ (a.seq = b.seq /\ a.poc < b.poc)
    BY DEF OutputInOrder
  <2>1. Len(ready_queue) \in Nat
    BY LenProperties DEF InvBase, StateTypes
  <2>2. k \in 1..Len(ready_queue) /\ k + 1 \in 1..Len(ready_queue) /\ k < k + 1
    BY <2>1
  <2>3. Earlier(ready_queue[k], ready_queue[k + 1])
    BY <2>2 DEF InvOrder, InOrder
  <2>4. QED BY <2>3 DEF Earlier, Poc
<1>2. QED BY <1>1, InvariantHolds, OrderHolds, PTL

(* What waits in the buffer is what the standard's decoder has not output: *)
(* nothing leaves it before it must (needs_bumping, bump_as_needed).       *)
THEOREM BumpingHolds == Spec => []BumpsAsTheStandard
<1>1. InvOrder => BumpsAsTheStandard
  BY DEF InvOrder, InOrder, BumpsAsTheStandard, Waiting, Waits
<1>2. QED BY <1>1, OrderHolds, PTL

-----------------------------------------------------------------------------
(* The references, by the numbers of their frames.                         *)
Succ(f) == IF f = MaxFrameNum - 1 THEN 0 ELSE f + 1
Pred(f) == IF f = 0 THEN MaxFrameNum - 1 ELSE f - 1
Distance(last, f) == IF f <= last THEN last - f ELSE last - f + MaxFrameNum
Age(d, last, i) == Distance(last, d.entries[i].frame_num)

(* The references are the last NumRefFrames(d) in a row, the oldest first. *)
Ranked(d, last) ==
  /\ \A i \in References(d) : Age(d, last, i) < NumRefFrames(d)
  /\ \A i, j \in References(d) : i < j => Age(d, last, j) < Age(d, last, i)
  /\ \A a \in 0..(NumRefFrames(d) - 1) : \E i \in References(d) : Age(d, last, i) = a

(* pic_num is as update_pic_nums computes it for frame_num.                *)
NumberedFor(d, frame_num) ==
  \A i \in ShortTerms(d) :
    d.entries[i].pic_num = IF d.entries[i].frame_num > frame_num
                             THEN d.entries[i].frame_num - MaxFrameNum
                             ELSE d.entries[i].frame_num

(* The references are the newest of those in F, the oldest first; all of   *)
(* them if there are fewer than size.                                      *)
Holds(d, n) == \E i \in References(d) : d.entries[i].n = n
HoldsNewest(d, F, size) ==
  /\ \A i \in References(d) : d.entries[i].n \in F
  /\ \A i, j \in References(d) : i < j => d.entries[i].n < d.entries[j].n
  /\ \A i \in References(d) : \A n \in F : d.entries[i].n <= n => Holds(d, n)
  /\ NumRefFrames(d) < size => \A n \in F : Holds(d, n)
(* What a reference is known by stays as it is.                            *)
Alike(p, q) ==
  /\ q.n = p.n /\ q.frame_num = p.frame_num
  /\ q.reference = p.reference /\ q.long_term_frame_idx = p.long_term_frame_idx

Retains(d, e) ==
  /\ IsBuffer(e)
  /\ References(e) \subseteq References(d)
  /\ \A i \in References(e) : Alike(d.entries[i], e.entries[i])

(* pic joins the references, if it is one, and comes last.                 *)
Joins(d, pic, e) ==
  /\ IsBuffer(e)
  /\ \A i \in References(d) : Alike(d.entries[i], e.entries[i])
  /\ IF IsRef(pic)
       THEN \E p \in Nat : /\ \A i \in References(d) : i < p
                           /\ References(e) = References(d) \cup {p}
                           /\ Alike(pic, e.entries[p])
       ELSE References(e) = References(d)

(* Their number, and the fields by which they are compared.                *)
LEMMA ReferenceFacts ==
  ASSUME NEW d, IsBuffer(d)
  PROVE  /\ References(d) \subseteq Nat /\ IsFiniteSet(References(d)) /\ NumRefFrames(d) \in Nat
         /\ References(d) \subseteq DOMAIN d.entries
         /\ \A i \in References(d) : /\ d.entries[i].n \in Nat
                                     /\ d.entries[i].frame_num \in 0..(MaxFrameNum - 1)
                                     /\ d.entries[i].pic_num \in Int
         /\ LongTerms(d) = {i \in References(d) : d.entries[i].reference = "LongTerm"}
<1>1. References(d) \in SUBSET DOMAIN d.entries
  BY PlaceSets
<1>2. \A i \in DOMAIN d.entries : /\ d.entries[i].n \in Nat
                                  /\ d.entries[i].frame_num \in 0..(MaxFrameNum - 1)
                                  /\ d.entries[i].pic_num \in Int
  BY DEF IsBuffer, Picture
<1>3. LongTerms(d) = {i \in References(d) : d.entries[i].reference = "LongTerm"}
  BY PlaceSets
<1>4. QED BY <1>1, <1>2, <1>3, PlacesFinite DEF NumRefFrames

(* What is known of MaxFrameNum, without what it is a maximum of.          *)
LEMMA MaxFrameNumType == MaxFrameNum \in Nat /\ MaxFrameNum > 1
  BY H264Assumption

(* Frame numbers go round, and so do the ages of the references.           *)
LEMMA Ages ==
  ASSUME NEW last \in 0..(MaxFrameNum - 1), NEW f \in 0..(MaxFrameNum - 1)
  PROVE  /\ Succ(last) \in 0..(MaxFrameNum - 1) /\ Pred(last) \in 0..(MaxFrameNum - 1)
         /\ Succ(Pred(last)) = last /\ Pred(Succ(last)) = last
         /\ Distance(last, f) \in 0..(MaxFrameNum - 1)
         /\ Distance(last, last) = 0
         /\ Distance(last, f) < MaxFrameNum - 1 => Distance(Succ(last), f) = Distance(last, f) + 1
         /\ Distance(last, f) < MaxFrameNum - 1 =>
              (IF f > Succ(last) THEN f - MaxFrameNum ELSE f) = Succ(last) - 1 - Distance(last, f)
  BY MaxFrameNumType DEF Succ, Pred, Distance

(* Retained references of the same number, and what follows.               *)
LEMMA RetainedAll ==
  ASSUME NEW d, IsBuffer(d), NEW e, Retains(d, e), References(e) = References(d)
  PROVE  /\ NumRefFrames(e) = NumRefFrames(d)
         /\ LongUnique(d) => LongUnique(e)
         /\ \A idx : NoLongTermWith(d, idx) => NoLongTermWith(e, idx)
         /\ \A last : Ranked(d, last) => Ranked(e, last)
         /\ \A F, size : HoldsNewest(d, F, size) => HoldsNewest(e, F, size)
<1>1. NumRefFrames(e) = NumRefFrames(d)
  BY DEF NumRefFrames
<1>2. LongTerms(e) = LongTerms(d) /\ LongTerms(e) \subseteq References(e)
  BY ReferenceFacts DEF Retains, Alike
<1>3. \A i \in References(e) :
        /\ e.entries[i].n = d.entries[i].n /\ e.entries[i].frame_num = d.entries[i].frame_num
        /\ e.entries[i].long_term_frame_idx = d.entries[i].long_term_frame_idx
  BY DEF Retains, Alike
<1>4. ASSUME NEW last, Ranked(d, last) PROVE Ranked(e, last)
  <2>1. \A i \in References(e) : Age(e, last, i) = Age(d, last, i)
    BY <1>3 DEF Age
  <2>2. QED BY <1>1, <1>4, <2>1 DEF Ranked
<1>5. ASSUME NEW F, NEW size, HoldsNewest(d, F, size) PROVE HoldsNewest(e, F, size)
  <2>1. \A n : Holds(e, n) <=> Holds(d, n)
    BY <1>3 DEF Holds
  <2>2. QED BY <1>1, <1>3, <1>5, <2>1 DEF HoldsNewest
<1>6. LongUnique(d) => LongUnique(e)
  BY <1>2, <1>3 DEF LongUnique
<1>7. \A idx : NoLongTermWith(d, idx) => NoLongTermWith(e, idx)
  BY <1>2, <1>3 DEF NoLongTermWith
<1>8. QED BY <1>1, <1>4, <1>5, <1>6, <1>7

(* A picture that does not join leaves the references as they were.        *)
LEMMA JoinedNone ==
  ASSUME NEW d, NEW pic, ~IsRef(pic), NEW e, Joins(d, pic, e)
  PROVE  Retains(d, e) /\ References(e) = References(d)
  BY DEF Joins, Retains

(* One more reference, of another long-term index if it has one.           *)
LEMMA JoinedLong ==
  ASSUME NEW d, IsBuffer(d), NEW pic, IsRef(pic), NEW e, Joins(d, pic, e)
  PROVE  /\ NumRefFrames(e) = NumRefFrames(d) + 1
         /\ LongUnique(d) /\ (pic.reference = "LongTerm" => NoLongTermWith(d, pic.long_term_frame_idx))
              => LongUnique(e)
<1>1. PICK p \in Nat : /\ \A i \in References(d) : i < p
                       /\ References(e) = References(d) \cup {p}
                       /\ Alike(pic, e.entries[p])
  BY DEF Joins
<1>2. p \notin References(d) /\ References(d) \subseteq Nat
  BY <1>1, ReferenceFacts
<1>3. NumRefFrames(e) = NumRefFrames(d) + 1
  <2>1. IsFiniteSet(References(d))
    BY ReferenceFacts
  <2>2. QED BY <1>1, <1>2, <2>1, FS_AddElement DEF NumRefFrames
<1>4. ASSUME LongUnique(d), pic.reference = "LongTerm" => NoLongTermWith(d, pic.long_term_frame_idx)
      PROVE  LongUnique(e)
  <2>1. /\ \A i \in LongTerms(d) : i \in References(d)
        /\ LongTerms(e) = {i \in References(e) : e.entries[i].reference = "LongTerm"}
        /\ LongTerms(d) = {i \in References(d) : d.entries[i].reference = "LongTerm"}
    BY ReferenceFacts DEF Joins
  <2>2. \A i \in References(d) :
          /\ e.entries[i].reference = d.entries[i].reference
          /\ e.entries[i].long_term_frame_idx = d.entries[i].long_term_frame_idx
    BY DEF Joins, Alike
  <2>3. /\ e.entries[p].reference = pic.reference
        /\ e.entries[p].long_term_frame_idx = pic.long_term_frame_idx
    BY <1>1 DEF Alike
  <2>4. \A i \in LongTerms(e) : i \in LongTerms(d) \/ (i = p /\ pic.reference = "LongTerm")
    BY <1>1, <2>1, <2>2, <2>3
  <2>5. QED BY <1>4, <2>1, <2>2, <2>3, <2>4 DEF LongUnique, NoLongTermWith
<1>5. QED BY <1>3, <1>4

(* One more frame number in a row.                                         *)
LEMMA JoinedRanked ==
  ASSUME NEW d, IsBuffer(d), NEW pic, IsRef(pic), NEW e, Joins(d, pic, e),
         NEW last \in 0..(MaxFrameNum - 1), pic.frame_num = Succ(last),
         NumRefFrames(d) < MaxFrameNum - 1, Ranked(d, last)
  PROVE  Ranked(e, Succ(last))
<1>1. PICK p \in Nat : /\ \A i \in References(d) : i < p
                       /\ References(e) = References(d) \cup {p}
                       /\ Alike(pic, e.entries[p])
  BY DEF Joins
<1>2. /\ References(d) \subseteq Nat /\ NumRefFrames(d) \in Nat
      /\ \A i \in References(d) : d.entries[i].frame_num \in 0..(MaxFrameNum - 1)
  BY ReferenceFacts
<1>3. NumRefFrames(e) = NumRefFrames(d) + 1
  BY JoinedLong
<1>4. \A i \in References(d) : /\ Age(e, Succ(last), i) = Age(d, last, i) + 1
                               /\ Age(d, last, i) \in 0..(MaxFrameNum - 1)
  <2> SUFFICES ASSUME NEW i \in References(d)
               PROVE  /\ Age(e, Succ(last), i) = Age(d, last, i) + 1
                      /\ Age(d, last, i) \in 0..(MaxFrameNum - 1)
    OBVIOUS
  <2> DEFINE f == d.entries[i].frame_num
  <2>1. f \in 0..(MaxFrameNum - 1)
    BY <1>2
  <2>2. e.entries[i].frame_num = f
    BY DEF Joins, Alike
  <2>3. Age(d, last, i) < NumRefFrames(d) /\ Age(d, last, i) = Distance(last, f)
    BY DEF Ranked, Age
  <2>4. Age(e, Succ(last), i) = Distance(Succ(last), f)
    BY <2>2 DEF Age
  <2> HIDE DEF f
  <2>5. Distance(last, f) \in 0..(MaxFrameNum - 1)
    BY <2>1, Ages
  <2>6. Distance(last, f) < MaxFrameNum - 1
    BY <1>2, <2>3, <2>5, MaxFrameNumType
  <2>7. QED BY <2>1, <2>3, <2>4, <2>5, <2>6, Ages
<1>5. Age(e, Succ(last), p) = 0
  <2>1. e.entries[p].frame_num = Succ(last)
    BY <1>1 DEF Alike
  <2>2. Succ(last) \in 0..(MaxFrameNum - 1)
    BY Ages
  <2>3. QED BY <2>1, <2>2, Ages DEF Age
<1>6. \A i \in References(e) : Age(e, Succ(last), i) < NumRefFrames(e)
  <2>1. \A i \in References(d) : Age(d, last, i) < NumRefFrames(d)
    BY DEF Ranked
  <2>2. QED BY <1>1, <1>2, <1>3, <1>4, <1>5, <2>1
<1>7. \A i, j \in References(e) : i < j => Age(e, Succ(last), j) < Age(e, Succ(last), i)
  <2>1. \A i, j \in References(d) : i < j => Age(d, last, j) < Age(d, last, i)
    BY DEF Ranked
  <2>2. QED BY <1>1, <1>2, <1>4, <1>5, <2>1
<1>8. \A a \in 0..(NumRefFrames(e) - 1) : \E i \in References(e) : Age(e, Succ(last), i) = a
  <2> SUFFICES ASSUME NEW a \in 0..(NumRefFrames(e) - 1), a # 0
               PROVE  \E i \in References(e) : Age(e, Succ(last), i) = a
    BY <1>1, <1>5
  <2>1. a - 1 \in 0..(NumRefFrames(d) - 1)
    BY <1>2, <1>3
  <2>2. PICK i \in References(d) : Age(d, last, i) = a - 1
    BY <2>1 DEF Ranked
  <2>3. Age(e, Succ(last), i) = a
    BY <1>4, <2>2
  <2>4. QED BY <1>1, <2>3
<1>9. QED BY <1>6, <1>7, <1>8 DEF Ranked

(* The newest of F, and the one that is newer still.                       *)
LEMMA JoinedNewest ==
  ASSUME NEW d, IsBuffer(d), NEW pic, IsRef(pic), NEW e, Joins(d, pic, e),
         NEW F \in SUBSET Nat, pic.n \in Nat, \A n \in F : n < pic.n,
         NEW size \in Nat, HoldsNewest(d, F, size - 1)
  PROVE  HoldsNewest(e, F \cup {pic.n}, size)
<1>1. PICK p \in Nat : /\ \A i \in References(d) : i < p
                       /\ References(e) = References(d) \cup {p}
                       /\ Alike(pic, e.entries[p])
  BY DEF Joins
<1>2. References(d) \subseteq Nat /\ NumRefFrames(d) \in Nat
  BY ReferenceFacts
<1>3. NumRefFrames(e) = NumRefFrames(d) + 1
  BY JoinedLong
<1>4. /\ \A i \in References(d) : e.entries[i].n = d.entries[i].n
      /\ e.entries[p].n = pic.n
  BY <1>1 DEF Joins, Alike
<1>5. /\ \A i \in References(d) : d.entries[i].n \in F
      /\ \A i, j \in References(d) : i < j => d.entries[i].n < d.entries[j].n
      /\ \A i \in References(d) : \A n \in F : d.entries[i].n <= n => Holds(d, n)
      /\ NumRefFrames(d) < size - 1 => \A n \in F : Holds(d, n)
  BY DEF HoldsNewest
<1>6. Holds(e, pic.n) /\ \A n : Holds(d, n) => Holds(e, n)
  BY <1>1, <1>4 DEF Holds
<1>7. \A i, j \in References(e) : i < j => e.entries[i].n < e.entries[j].n
  <2> SUFFICES ASSUME NEW i \in References(e), NEW j \in References(e), i < j
               PROVE  e.entries[i].n < e.entries[j].n
    OBVIOUS
  <2>1. i \in References(d)
    BY <1>1, <1>2
  <2>2. CASE j \in References(d)
    BY <1>4, <1>5, <2>1, <2>2
  <2>3. CASE j = p
    BY <1>4, <1>5, <2>1, <2>3
  <2>4. QED BY <1>1, <2>2, <2>3
<1>8. \A i \in References(e) : \A n \in F \cup {pic.n} : e.entries[i].n <= n => Holds(e, n)
  <2> SUFFICES ASSUME NEW i \in References(e), NEW n \in F, e.entries[i].n <= n PROVE Holds(e, n)
    BY <1>6
  <2>1. i \in References(d)
    BY <1>1, <1>4
  <2>2. QED BY <1>4, <1>5, <1>6, <2>1
<1>9. NumRefFrames(e) < size => \A n \in F \cup {pic.n} : Holds(e, n)
  BY <1>2, <1>3, <1>5, <1>6
<1>10. \A i \in References(e) : e.entries[i].n \in F \cup {pic.n}
  BY <1>1, <1>4, <1>5
<1>11. QED BY <1>7, <1>8, <1>9, <1>10 DEF HoldsNewest

(* The sliding window and update_pic_nums only take references away.       *)
LEMMA SlidingRetains ==
  ASSUME NEW d, IsBuffer(d), NEW max \in Nat, NEW e, e = SlidingWindowMarking(d, max)
  PROVE  Retains(d, e)
<1>1. /\ Remarked(d, e) /\ LongTerms(e) = LongTerms(d) /\ References(e) \subseteq References(d)
      /\ \A i \in DOMAIN e.entries :
           e.entries[i].long_term_frame_idx = d.entries[i].long_term_frame_idx
  BY SlidingMarks
<1>2. IsBuffer(e) /\ \A i \in DOMAIN e.entries : /\ e.entries[i].n = d.entries[i].n
                                                 /\ e.entries[i].frame_num = d.entries[i].frame_num
                                                 /\ i \in DOMAIN d.entries
  BY <1>1 DEF Remarked
<1>3. \A i \in DOMAIN e.entries :
        /\ e.entries[i].reference \in {"None", "ShortTerm", "LongTerm"}
        /\ d.entries[i].reference \in {"None", "ShortTerm", "LongTerm"}
  BY <1>2 DEF IsBuffer, Picture
<1>4. \A i \in References(e) : i \in DOMAIN e.entries /\ e.entries[i].reference = d.entries[i].reference
  BY <1>1, <1>3, PlaceSets
<1>5. QED BY <1>1, <1>2, <1>4 DEF Retains, Alike

LEMMA RenumberRetains ==
  ASSUME NEW d, IsBuffer(d), NEW frame_num \in 0..(MaxFrameNum - 1),
         NEW e, e = UpdatePicNums(d, frame_num, MaxFrameNum)
  PROVE  /\ Retains(d, e) /\ References(e) = References(d)
         /\ NumberedFor(e, frame_num)
<1>1. /\ Remarked(d, e)
      /\ References(e) = References(d) /\ ShortTerms(e) = ShortTerms(d)
      /\ LongTerms(e) = LongTerms(d) /\ DOMAIN e.entries = DOMAIN d.entries
      /\ \A i \in DOMAIN d.entries :
           e.entries[i].long_term_frame_idx = d.entries[i].long_term_frame_idx
      /\ \A i \in ShortTerms(d) :
           e.entries[i].pic_num = IF d.entries[i].frame_num > frame_num
                                    THEN d.entries[i].frame_num - MaxFrameNum
                                    ELSE d.entries[i].frame_num
  BY RenumberMarks
<1>2. IsBuffer(e) /\ \A i \in DOMAIN e.entries : /\ e.entries[i].n = d.entries[i].n
                                                 /\ e.entries[i].frame_num = d.entries[i].frame_num
  BY <1>1 DEF Remarked
<1>3. \A i \in DOMAIN e.entries :
        /\ e.entries[i].reference \in {"None", "ShortTerm", "LongTerm"}
        /\ d.entries[i].reference \in {"None", "ShortTerm", "LongTerm"}
  BY <1>1, <1>2 DEF IsBuffer, Picture
<1>4. \A i \in References(e) : i \in DOMAIN e.entries /\ e.entries[i].reference = d.entries[i].reference
  BY <1>1, <1>3, PlaceSets
<1>5. \A i \in ShortTerms(e) : i \in DOMAIN e.entries
  BY PlaceSets
<1>6. NumberedFor(e, frame_num)
  BY <1>1, <1>2, <1>5 DEF NumberedFor
<1>7. QED BY <1>1, <1>2, <1>4, <1>6 DEF Retains, Alike

(* Bumping keeps every reference, and storing adds the picture.            *)
LEMMA BumpedJoins ==
  ASSUME NEW N \in Nat, NEW W, NEW s, Account(s, W, N), Going(s),
         NEW pic \in Picture, NEW M \in Nat, NumberedAfter(pic, N, M),
         NEW r, r = BumpAndStore(s, pic), Going(r)
  PROVE  Joins(s.dpb, pic, r.dpb)
<1> DEFINE b == BumpAsNeeded(s.dpb, pic)
<1>1. PICK t : /\ t = Bumped(s, b) /\ Account(t, W, N) /\ Placed(t, pic, r) /\ t.dpb = b.dpb
  BY BumpAndStoreFacts
<1>2. Sound(s.dpb, N) /\ Sound(t.dpb, N)
  BY <1>1 DEF Account
<1>3. Survives(s.dpb, t.dpb)
  <2> DEFINE d == s.dpb
  <2>1. IsBuffer(d) /\ NumbersDiffer(d) /\ b = BumpAsNeeded(d, pic)
    BY <1>2, SoundWaits DEF Sound
  <2> HIDE DEF b, d
  <2>2. Popped(d, b)
    BY <2>1, BumpedAsNeeded
  <2>3. QED BY <1>1, <2>2 DEF Popped, d
<1> HIDE DEF b
<1>4. /\ References(t.dpb) = References(s.dpb)
      /\ \A i \in References(s.dpb) : Alike(s.dpb.entries[i], t.dpb.entries[i])
  <2>1. References(t.dpb) = References(s.dpb)
    BY <1>3, SurvivesReferences
  <2>2. \A i \in References(s.dpb) : Same(s.dpb.entries[i], t.dpb.entries[i])
    BY <1>3 DEF Survives
  <2>3. QED BY <2>1, <2>2 DEF Same, Alike
<1>5. CASE r.dpb = t.dpb /\ ~IsRef(pic)
  <2>1. IsBuffer(t.dpb)
    BY <1>2 DEF Sound
  <2>2. QED BY <1>4, <1>5, <2>1 DEF Joins
<1>6. CASE r.dpb = StorePicture(t.dpb, pic)
  <2> DEFINE d == t.dpb e == r.dpb
  <2>1. \/ pic.nonexisting /\ pic.n = 0 /\ M = N
        \/ ~pic.nonexisting /\ pic.n = N + 1 /\ M = N + 1
    BY DEF NumberedAfter
  <2>2. Sound(d, N) /\ IsBuffer(d) /\ e = StorePicture(d, pic)
    BY <1>2, <1>6 DEF Sound
  <2>3. /\ References(d) = References(s.dpb)
        /\ \A i \in References(d) : Alike(s.dpb.entries[i], d.entries[i])
    BY <1>4
  <2> HIDE DEF d
  <2>4. /\ References(e) = IF IsRef(pic) THEN References(d) \cup {e.stored} ELSE References(d)
        /\ \A i \in DOMAIN d.entries : e.entries[i] = d.entries[i]
        /\ Same(pic, e.entries[e.stored])
    <3> HIDE DEF e
    <3>1. QED BY <2>1, <2>2, SoundStore
  <2>5. /\ IsBuffer(e) /\ e.stored = d.stored + 1
        /\ \A i \in DOMAIN d.entries : i < e.stored
    <3> HIDE DEF e
    <3>1. QED BY <2>2, StorePictureFacts
  <2>6. References(d) \subseteq DOMAIN d.entries /\ e.stored \in Nat
    BY <2>2, <2>5, ReferenceFacts DEF IsBuffer
  <2>7. Alike(pic, e.entries[e.stored])
    BY <2>4 DEF Same, Alike
  <2> HIDE DEF e
  <2>8. \A i \in References(d) : Alike(s.dpb.entries[i], e.entries[i]) /\ i < e.stored
    BY <2>3, <2>4, <2>5, <2>6
  <2>9. Joins(s.dpb, pic, e)
    BY <2>3, <2>4, <2>5, <2>6, <2>7, <2>8 DEF Joins
  <2>10. QED BY <2>9 DEF e
<1>7. QED BY <1>1, <1>5, <1>6 DEF Placed, Going

(* Of references in a row the oldest goes, once the window is full.        *)
LEMMA SlidingRanked ==
  ASSUME NEW d, IsBuffer(d), LongTerms(d) = {}, NEW max \in Nat,
         NumRefFrames(d) <= NumberedWindow(max), NumberedWindow(max) < MaxFrameNum,
         NEW last \in 0..(MaxFrameNum - 1), Ranked(d, last), NumberedFor(d, Succ(last)),
         NEW e, e = SlidingWindowMarking(d, max)
  PROVE  /\ Ranked(e, last)
         /\ NumRefFrames(e) < MaxFrameNum - 1
         /\ \A F \in SUBSET Nat :
              HoldsNewest(d, F, NumberedWindow(max)) => HoldsNewest(e, F, NumberedWindow(max) - 1)
<1>1. /\ References(d) \subseteq Nat /\ IsFiniteSet(References(d)) /\ NumRefFrames(d) \in Nat
      /\ References(d) \subseteq DOMAIN d.entries
      /\ \A i \in References(d) : /\ d.entries[i].n \in Nat
                                  /\ d.entries[i].frame_num \in 0..(MaxFrameNum - 1)
                                  /\ d.entries[i].pic_num \in Int
  BY ReferenceFacts
<1>2. Retains(d, e) /\ NumberedWindow(max) \in Nat \ {0}
  BY SlidingRetains DEF NumberedWindow
<1>3. IsBuffer(e) /\ NumRefFrames(e) \in Nat
  BY <1>2, ReferenceFacts DEF Retains
<1>4. /\ NumRefFrames(e) < NumberedWindow(max)
      /\ \/ NumRefFrames(d) < NumberedWindow(max) /\ e = d
         \/ /\ NumRefFrames(d) = NumberedWindow(max)
            /\ \E i \in References(d) :
                 /\ References(e) = References(d) \ {i}
                 /\ Smallest(i, References(d), [j \in DOMAIN d.entries |-> d.entries[j].pic_num])
  BY SlidingMakesRoom
<1>5. NumRefFrames(e) < MaxFrameNum - 1
  BY <1>2, <1>3, <1>4, MaxFrameNumType
<1>6. CASE NumRefFrames(d) < NumberedWindow(max) /\ e = d
  <2>1. ASSUME NEW F \in SUBSET Nat, HoldsNewest(d, F, NumberedWindow(max))
        PROVE  HoldsNewest(e, F, NumberedWindow(max) - 1)
    BY <1>6, <2>1 DEF HoldsNewest
  <2>2. QED BY <1>5, <1>6, <2>1
<1>7. CASE NumRefFrames(d) = NumberedWindow(max)
  <2> DEFINE number == [j \in DOMAIN d.entries |-> d.entries[j].pic_num]
  <2>m. \A j \in References(d) : number[j] = d.entries[j].pic_num
    BY <1>1
  <2>l. \E i \in References(d) : /\ References(e) = References(d) \ {i}
                                 /\ Smallest(i, References(d), number)
    <3>1. ~(NumRefFrames(d) < NumberedWindow(max))
      BY <1>1, <1>7
    <3>2. QED BY <1>4, <3>1
  <2> HIDE DEF number
  <2>1. PICK o \in References(d) : /\ References(e) = References(d) \ {o}
                                   /\ Smallest(o, References(d), number)
    BY <2>l
  <2>2. \A j \in References(d) : d.entries[o].pic_num <= d.entries[j].pic_num
    BY <1>1, <2>m, <2>1 DEF Smallest
  <2>3. \A i \in References(d) : /\ Age(d, last, i) \in 0..(NumRefFrames(d) - 1)
                                 /\ d.entries[i].pic_num = Succ(last) - 1 - Age(d, last, i)
    <3> SUFFICES ASSUME NEW i \in References(d)
                 PROVE  /\ Age(d, last, i) \in 0..(NumRefFrames(d) - 1)
                        /\ d.entries[i].pic_num = Succ(last) - 1 - Age(d, last, i)
      OBVIOUS
    <3> DEFINE f == d.entries[i].frame_num
    <3>1. i \in ShortTerms(d)
      <4>1. d.entries[i].reference \in {"None", "ShortTerm", "LongTerm"}
        BY <1>1 DEF IsBuffer, Picture
      <4>2. QED BY <4>1, PlaceSets
    <3>2. d.entries[i].pic_num = IF f > Succ(last) THEN f - MaxFrameNum ELSE f
      BY <3>1 DEF NumberedFor
    <3>3. Age(d, last, i) < NumRefFrames(d) /\ Age(d, last, i) = Distance(last, f)
      BY DEF Ranked, Age
    <3>4. f \in 0..(MaxFrameNum - 1)
      BY <1>1
    <3> HIDE DEF f
    <3>5. Distance(last, f) \in 0..(MaxFrameNum - 1)
      BY <3>4, Ages
    <3>6. Distance(last, f) < MaxFrameNum - 1
      BY <1>1, <1>2, <3>3, <3>5, MaxFrameNumType
    <3>7. (IF f > Succ(last) THEN f - MaxFrameNum ELSE f) = Succ(last) - 1 - Distance(last, f)
      BY <3>4, <3>6, Ages
    <3>8. QED BY <1>1, <3>2, <3>3, <3>5, <3>7
  <2>4. Succ(last) \in Int
    BY Ages
  <2>5. \A j \in References(d) : Age(d, last, j) <= Age(d, last, o)
    BY <2>2, <2>3, <2>4
  <2>6. \A j \in References(d) : j # o => o < j
    <3> SUFFICES ASSUME NEW j \in References(d), j < o PROVE FALSE
      BY <1>1
    <3>1. Age(d, last, o) < Age(d, last, j)
      BY DEF Ranked
    <3>2. QED BY <2>3, <2>5, <3>1
  <2>7. /\ \A i \in References(e) : i \in References(d) /\ i # o /\ o < i
        /\ \A i \in References(d) : i # o => i \in References(e)
        /\ \A i \in References(e) : /\ e.entries[i].n = d.entries[i].n
                                    /\ Age(e, last, i) = Age(d, last, i)
    BY <1>2, <2>1, <2>6 DEF Retains, Alike, Age
  <2>8. NumRefFrames(e) = NumRefFrames(d) - 1
    BY <1>1, <2>1, FS_RemoveElement DEF NumRefFrames
  <2>9. Age(d, last, o) = NumRefFrames(d) - 1
    <3>1. PICK i \in References(d) : Age(d, last, i) = NumRefFrames(d) - 1
      <4>1. NumRefFrames(d) - 1 \in 0..(NumRefFrames(d) - 1)
        BY <1>1, <1>2, <1>7
      <4>2. QED BY <4>1 DEF Ranked
    <3>2. QED BY <1>1, <2>3, <2>5, <3>1
  <2>10. Ranked(e, last)
    <3>1. \A i \in References(e) : Age(e, last, i) < NumRefFrames(e)
      <4> SUFFICES ASSUME NEW i \in References(e) PROVE Age(d, last, i) < NumRefFrames(d) - 1
        BY <2>7, <2>8
      <4>1. Age(d, last, i) < Age(d, last, o)
        BY <2>7 DEF Ranked
      <4>2. QED BY <2>9, <4>1
    <3>2. \A i, j \in References(e) : i < j => Age(e, last, j) < Age(e, last, i)
      BY <2>7 DEF Ranked
    <3>3. \A a \in 0..(NumRefFrames(e) - 1) : \E i \in References(e) : Age(e, last, i) = a
      <4> SUFFICES ASSUME NEW a \in 0..(NumRefFrames(e) - 1)
                   PROVE  \E i \in References(e) : Age(e, last, i) = a
        OBVIOUS
      <4>1. a \in 0..(NumRefFrames(d) - 1) /\ a # NumRefFrames(d) - 1
        BY <1>1, <2>8
      <4>2. PICK i \in References(d) : Age(d, last, i) = a
        BY <4>1 DEF Ranked
      <4>3. i # o
        BY <2>9, <4>1, <4>2
      <4>4. QED BY <2>7, <4>2, <4>3
    <3>4. QED BY <3>1, <3>2, <3>3 DEF Ranked
  <2>11. ASSUME NEW F \in SUBSET Nat, HoldsNewest(d, F, NumberedWindow(max))
         PROVE  HoldsNewest(e, F, NumberedWindow(max) - 1)
    <3>1. /\ \A i \in References(d) : d.entries[i].n \in F
          /\ \A i, j \in References(d) : i < j => d.entries[i].n < d.entries[j].n
          /\ \A i \in References(d) : \A n \in F : d.entries[i].n <= n => Holds(d, n)
      BY <2>11 DEF HoldsNewest
    <3>2. \A i \in References(e) : e.entries[i].n \in F
      BY <2>7, <3>1
    <3>3. \A i, j \in References(e) : i < j => e.entries[i].n < e.entries[j].n
      BY <2>7, <3>1
    <3>4. \A i \in References(e) : \A n \in F : e.entries[i].n <= n => Holds(e, n)
      <4> SUFFICES ASSUME NEW i \in References(e), NEW n \in F, e.entries[i].n <= n PROVE Holds(e, n)
        OBVIOUS
      <4>1. i \in References(d) /\ d.entries[i].n <= n /\ d.entries[o].n < d.entries[i].n
        BY <2>7, <3>1
      <4>2. PICK j \in References(d) : d.entries[j].n = n
        BY <3>1, <4>1 DEF Holds
      <4>3. d.entries[o].n \in Nat /\ d.entries[i].n \in Nat /\ n \in Nat
        BY <1>1, <4>1, <4>2
      <4>4. j # o
        BY <4>1, <4>2, <4>3
      <4>5. j \in References(e) /\ e.entries[j].n = n
        BY <2>7, <4>2, <4>4
      <4>6. QED BY <4>5 DEF Holds
    <3>5. ~(NumRefFrames(e) < NumberedWindow(max) - 1)
      BY <1>2, <1>7, <2>8
    <3>6. QED BY <3>2, <3>3, <3>4, <3>5 DEF HoldsNewest
  <2>12. QED BY <1>5, <2>10, <2>11
<1>8. QED BY <1>4, <1>6, <1>7

(* Remainders within a round of 0..(MaxFrameNum - 1).                      *)
LEMMA NearRounds ==
  ASSUME NEW a \in Int, -MaxFrameNum <= a, a < 2 * MaxFrameNum
  PROVE  a % MaxFrameNum = IF a < 0 THEN a + MaxFrameNum
                           ELSE IF a < MaxFrameNum THEN a ELSE a - MaxFrameNum
<1> DEFINE m == MaxFrameNum
<1>1. m \in Nat /\ m > 1
  BY MaxFrameNumType
<1>2. a \in Int /\ -m <= a /\ a < 2 * m
  OBVIOUS
<1> HIDE DEF m
<1>3. CASE a < 0
  <2>1. a % m = a + m
    BY <1>1, <1>2, <1>3
  <2>2. QED BY <1>3, <2>1 DEF m
<1>4. CASE 0 <= a /\ a < m
  <2>1. a % m = a
    BY <1>1, <1>2, <1>4
  <2>2. QED BY <1>1, <1>2, <1>4, <2>1 DEF m
<1>5. CASE m <= a
  <2>1. a % m = a - m
    BY <1>1, <1>2, <1>5
  <2>2. QED BY <1>1, <1>2, <1>5, <2>1 DEF m
<1>6. QED BY <1>1, <1>2, <1>3, <1>4, <1>5

(* The frame numbers of a gap follow each other up to the picture's.       *)
LEMMA GapNumbers ==
  ASSUME NEW prev \in 0..(MaxFrameNum - 1), NEW frame_num \in 0..(MaxFrameNum - 1)
  PROVE  /\ Missing(prev, frame_num) \in 0..(MaxFrameNum - 1)
         /\ (prev + Missing(prev, frame_num)) % MaxFrameNum = Pred(frame_num)
         /\ (prev + 0) % MaxFrameNum = prev
         /\ \A k \in 0..(MaxFrameNum - 2) :
              (prev + (k + 1)) % MaxFrameNum = Succ((prev + k) % MaxFrameNum)
         /\ (prev + 1) % MaxFrameNum = Succ(prev)
         /\ frame_num = Succ(prev) => Pred(frame_num) = prev
<1> DEFINE m == MaxFrameNum
<1>1. m \in Nat /\ m > 1 /\ prev \in 0..(m - 1) /\ frame_num \in 0..(m - 1)
  BY MaxFrameNumType
<1>2. \A a \in Int : -m <= a /\ a < 2 * m =>
        a % m = IF a < 0 THEN a + m ELSE IF a < m THEN a ELSE a - m
  BY NearRounds
<1>3. Missing(prev, frame_num) = IF frame_num - prev - 1 < 0 THEN frame_num - prev - 1 + m
                                 ELSE frame_num - prev - 1
  <2>1. Missing(prev, frame_num) = (frame_num - prev - 1) % m
    BY DEF Missing
  <2> HIDE DEF m
  <2>2. QED BY <1>1, <1>2, <2>1
<1>4. Pred(frame_num) = IF frame_num = 0 THEN m - 1 ELSE frame_num - 1
  BY DEF Pred
<1>5. \A a : Succ(a) = IF a = m - 1 THEN 0 ELSE a + 1
  BY DEF Succ
<1> HIDE DEF m
<1>6. Missing(prev, frame_num) \in 0..(m - 1)
  BY <1>1, <1>3
<1>7. (prev + Missing(prev, frame_num)) % m = Pred(frame_num)
  <2>1. prev + Missing(prev, frame_num) = IF frame_num - prev - 1 < 0 THEN frame_num - 1 + m
                                          ELSE frame_num - 1
    BY <1>1, <1>3
  <2>2. QED BY <1>1, <1>2, <1>4, <2>1
<1>8. \A k \in 0..(m - 2) : (prev + (k + 1)) % m = Succ((prev + k) % m)
  BY <1>1, <1>2, <1>5
<1>9. (prev + 0) % m = prev /\ (prev + 1) % m = Succ(prev)
  BY <1>1, <1>2, <1>5
<1>10. frame_num = Succ(prev) => Pred(frame_num) = prev
  BY <1>1, <1>4, <1>5
<1>11. QED BY <1>6, <1>7, <1>8, <1>9, <1>10 DEF m

(* An encoder that skips at most two numbers does not come round.          *)
LEMMA SkipsDoNotGoRound ==
  ASSUME NumbersSuffice, NEW prev \in 0..(MaxFrameNum - 1), NEW skip \in Skips
  PROVE  (prev + 1 + skip) % MaxFrameNum # prev
<1> DEFINE m == MaxFrameNum
<1>1. m \in Nat /\ m > 3 /\ prev \in 0..(m - 1) /\ skip \in 0..2
  BY MaxFrameNumType DEF NumbersSuffice, Skips
<1>2. \A a \in Int : -m <= a /\ a < 2 * m =>
        a % m = IF a < 0 THEN a + m ELSE IF a < m THEN a ELSE a - m
  BY NearRounds
<1> HIDE DEF m
<1>3. (prev + 1 + skip) % m # prev
  BY <1>1, <1>2
<1>4. QED BY <1>3 DEF m

LEMMA NumbersOfWindow ==
  ASSUME NumbersSuffice, stream \in Streams
  PROVE  NumberedWindow(sps.max_num_ref_frames) < MaxFrameNum
<1>1. sps.max_num_ref_frames < MaxFrameNum /\ 3 < MaxFrameNum
  BY DEF NumbersSuffice, sps
<1>2. QED BY <1>1, MaxFrameNumType DEF NumberedWindow

(* Retained references with long-term indices of their own.                *)
LEMMA RetainedLong ==
  ASSUME NEW d, IsBuffer(d), NEW e, Retains(d, e)
  PROVE  /\ LongUnique(d) => LongUnique(e)
         /\ \A idx : NoLongTermWith(d, idx) => NoLongTermWith(e, idx)
<1>1. /\ LongTerms(e) = {i \in References(e) : e.entries[i].reference = "LongTerm"}
      /\ LongTerms(d) = {i \in References(d) : d.entries[i].reference = "LongTerm"}
  BY ReferenceFacts DEF Retains
<1>2. \A i \in LongTerms(e) :
        i \in LongTerms(d) /\ e.entries[i].long_term_frame_idx = d.entries[i].long_term_frame_idx
  BY <1>1 DEF Retains, Alike
<1>3. QED BY <1>2 DEF LongUnique, NoLongTermWith

(* One inferred frame: the window goes on by one.                          *)
LEMMA InferredRefs ==
  ASSUME stream \in Streams, NEW N \in Nat, NEW W, NEW s, Account(s, W, N), Going(s),
         NEW frame_num \in 0..(MaxFrameNum - 1), NEW r, r = InferPicture(s, frame_num), Going(r)
  PROVE  /\ LongUnique(s.dpb) => LongUnique(r.dpb)
         /\ NumbersSuffice /\ Tidy(s.dpb) =>
              \A last \in 0..(MaxFrameNum - 1) :
                frame_num = Succ(last) /\ Ranked(s.dpb, last) => Ranked(r.dpb, frame_num)
<1> DEFINE pic == NonExisting(frame_num)
           u == UpdatePicNums(s.dpb, frame_num, MaxFrameNum)
           max == sps.max_num_ref_frames
<1>1. PICK t : Account(t, W, N) /\ InferredFrom(s, t, frame_num) /\ r = BumpAndStore(t, pic)
  BY InferredOne
<1>2. /\ pic \in Picture /\ NumberedAfter(pic, N, N) /\ IsRef(pic)
      /\ pic.reference = "ShortTerm" /\ pic.frame_num = frame_num
  BY NonExistingFacts
<1>3. IsBuffer(s.dpb) /\ Sound(s.dpb, N)
  BY DEF Account, Sound
<1>4. Going(t) /\ t.dpb = SlidingWindowMarking(u, max)
  BY <1>1 DEF InferredFrom, SlidFor
<1>5. Retains(s.dpb, u) /\ References(u) = References(s.dpb) /\ NumberedFor(u, frame_num)
  <2> DEFINE d == s.dpb
  <2>1. IsBuffer(d) /\ u = UpdatePicNums(d, frame_num, MaxFrameNum)
    BY <1>3
  <2> HIDE DEF u, d
  <2>2. Retains(d, u) /\ References(u) = References(d) /\ NumberedFor(u, frame_num)
    BY <2>1, RenumberRetains
  <2>3. QED BY <2>2 DEF d
<1>6. Tidy(s.dpb) => Tidy(u)
  <2> DEFINE d == s.dpb
  <2>1. IsBuffer(d) /\ u = UpdatePicNums(d, frame_num, MaxFrameNum)
    BY <1>3
  <2> HIDE DEF u, d
  <2>2. Tidy(d) => Tidy(u)
    BY <2>1, RenumberMarks
  <2>3. QED BY <2>2 DEF d
<1> HIDE DEF u, pic
<1>7. max \in Nat /\ Window = NumberedWindow(max)
  BY Parameters
<1>8. IsBuffer(u)
  BY <1>5 DEF Retains
<1>9. Retains(u, t.dpb)
  <2> HIDE DEF max
  <2>1. QED BY <1>4, <1>7, <1>8, SlidingRetains
<1>10. Joins(t.dpb, pic, r.dpb)
  BY <1>1, <1>2, <1>4, BumpedJoins
<1>11. IsBuffer(t.dpb)
  BY <1>9 DEF Retains
<1>12. LongUnique(s.dpb) => LongUnique(r.dpb)
  <2>1. LongUnique(s.dpb) => LongUnique(t.dpb)
    BY <1>3, <1>5, <1>8, <1>9, RetainedLong
  <2>2. QED BY <1>2, <1>10, <1>11, <2>1, JoinedLong
<1>13. ASSUME NumbersSuffice, Tidy(s.dpb), NEW last \in 0..(MaxFrameNum - 1),
              frame_num = Succ(last), Ranked(s.dpb, last)
       PROVE  Ranked(r.dpb, frame_num)
  <2>1. Ranked(u, last)
    BY <1>3, <1>5, <1>13, RetainedAll
  <2>2. LongTerms(u) = {} /\ NumRefFrames(u) <= NumberedWindow(max)
    BY <1>6, <1>7, <1>13 DEF Tidy
  <2>3. NumberedWindow(max) < MaxFrameNum
    BY <1>13, NumbersOfWindow
  <2>4. NumberedFor(u, Succ(last))
    BY <1>5, <1>13
  <2>5. Ranked(t.dpb, last) /\ NumRefFrames(t.dpb) < MaxFrameNum - 1
    <3> HIDE DEF max
    <3>1. QED BY <1>4, <1>7, <1>8, <2>1, <2>2, <2>3, <2>4, SlidingRanked
  <2>6. QED BY <1>2, <1>10, <1>11, <1>13, <2>5, JoinedRanked
<1>14. QED BY <1>12, <1>13

(* All inferred frames: the window goes on to the end of the gap.          *)
LEMMA InferredAllRefs ==
  ASSUME stream \in Streams, NEW N \in Nat, NEW W, NEW s, Account(s, W, N), Going(s),
         NEW missing \in 0..(MaxFrameNum - 1), NEW r, r = InferMissing(s, missing), Going(r)
  PROVE  /\ LongUnique(s.dpb) => LongUnique(r.dpb)
         /\ NumbersSuffice /\ Tidy(s.dpb) /\ Ranked(s.dpb, s.prev_ref_frame_num) =>
              Ranked(r.dpb, (s.prev_ref_frame_num + missing) % MaxFrameNum)
<1> DEFINE prev == s.prev_ref_frame_num
           Number(k) == (prev + k) % MaxFrameNum
<1>1. PICK g : /\ g[0] = s /\ g[missing] = r
               /\ \A k \in 1..missing : g[k] = InferPicture(g[k - 1], Number(k))
  BY MaxFrameNumType, InferredChain
<1>2. prev \in 0..(MaxFrameNum - 1) /\ MaxFrameNum \in Nat /\ MaxFrameNum > 1
  BY MaxFrameNumType DEF Account
<1>3. \A k \in Nat : Number(k) \in 0..(MaxFrameNum - 1)
  BY <1>2, Remainder
<1>4. /\ Number(0) = prev
      /\ \A k \in 0..(MaxFrameNum - 2) : Number(k + 1) = Succ(Number(k))
  BY <1>2, GapNumbers
<1> HIDE DEF Number, prev
<1> DEFINE Good(k) ==
             /\ Account(g[k], W, N)
             /\ Tidy(s.dpb) => Tidy(g[k].dpb)
             /\ Going(g[k]) =>
                  /\ LongUnique(s.dpb) => LongUnique(g[k].dpb)
                  /\ NumbersSuffice /\ Tidy(s.dpb) /\ Ranked(s.dpb, prev)
                       => Ranked(g[k].dpb, Number(k))
             /\ Tidy(s.dpb) => Going(g[k])
           S == {k \in Nat : k <= missing => Good(k)}
<1>5. 0 \in S
  BY <1>1, <1>4
<1>6. \A k \in Nat : k \in S => k + 1 \in S
  <2> SUFFICES ASSUME NEW k \in Nat, k + 1 <= missing, Good(k) PROVE Good(k + 1)
    OBVIOUS
  <2> DEFINE x == g[k] y == g[k + 1] frame_num == Number(k + 1)
  <2>1. y = InferPicture(x, frame_num)
    <3>1. k + 1 \in 1..missing /\ (k + 1) - 1 = k
      OBVIOUS
    <3>2. QED BY <1>1, <3>1
  <2>2. frame_num \in 0..(MaxFrameNum - 1) /\ Number(k) \in 0..(MaxFrameNum - 1)
    BY <1>3
  <2>3. frame_num = Succ(Number(k))
    BY <1>2, <1>4
  <2>4. /\ Account(x, W, N)
        /\ Tidy(s.dpb) => Tidy(x.dpb)
        /\ Going(x) =>
             /\ LongUnique(s.dpb) => LongUnique(x.dpb)
             /\ NumbersSuffice /\ Tidy(s.dpb) /\ Ranked(s.dpb, prev) => Ranked(x.dpb, Number(k))
        /\ Tidy(s.dpb) => Going(x)
    OBVIOUS
  <2> HIDE DEF x, y, frame_num
  <2>5. /\ Account(y, W, N)
        /\ Going(x) /\ Tidy(x.dpb) => Going(y) /\ Tidy(y.dpb)
        /\ ~Going(x) => y = x
    <3>1. Account(x, W, N)
      BY <2>4
    <3>2. Account(y, W, N)
      BY <2>1, <2>2, <3>1, InferredOne
    <3>3. Going(x) /\ Tidy(x.dpb) => Going(y) /\ Tidy(y.dpb)
      BY <2>1, <2>2, <3>1, InferredOne
    <3>4. ~Going(x) => y = x
      BY <2>1, <2>2, <3>1, InferredOne
    <3>5. QED BY <3>2, <3>3, <3>4
  <2>6. ASSUME Going(y) PROVE Going(x)
    BY <2>5, <2>6
  <2>7. ASSUME Going(y)
        PROVE  /\ LongUnique(s.dpb) => LongUnique(y.dpb)
               /\ NumbersSuffice /\ Tidy(s.dpb) /\ Ranked(s.dpb, prev) => Ranked(y.dpb, frame_num)
    BY <2>1, <2>2, <2>3, <2>4, <2>6, <2>7, InferredRefs
  <2>8. QED BY <2>4, <2>5, <2>7 DEF y, frame_num
<1> HIDE DEF S, Good
<1>7. \A k \in Nat : k \in S
  BY <1>5, <1>6, SetInduction
<1>8. missing \in Nat
  BY <1>2
<1>9. Good(missing)
  BY <1>7, <1>8 DEF S
<1>10. QED BY <1>1, <1>9 DEF Good, Number, prev

(* What is true of no references at all.                                   *)
LEMMA NoReferences ==
  ASSUME NEW d, DOMAIN d.entries = {}
  PROVE  /\ References(d) = {} /\ LongTerms(d) = {} /\ NumRefFrames(d) = 0
         /\ LongUnique(d)
         /\ \A last : Ranked(d, last)
         /\ \A size : HoldsNewest(d, {}, size)
<1>1. References(d) = {} /\ LongTerms(d) = {}
  BY PlaceSets
<1>2. NumRefFrames(d) = 0
  BY <1>1, FS_EmptySet DEF NumRefFrames
<1>3. \A last : Ranked(d, last)
  <2>1. 0..(NumRefFrames(d) - 1) = {}
    BY <1>2
  <2>2. QED BY <1>1, <2>1 DEF Ranked
<1>4. \A size : HoldsNewest(d, {}, size)
  BY <1>1 DEF HoldsNewest
<1>5. QED BY <1>1, <1>2, <1>3, <1>4 DEF LongUnique

(* A gap is filled up to the picture after it.                             *)
LEMMA GapRefs ==
  ASSUME stream \in Streams, NEW N \in Nat, NEW W, NEW s, Account(s, W, N), Going(s),
         NEW frame_num \in 0..(MaxFrameNum - 1), NEW r, r = HandleAnyGap(s, frame_num), Going(r)
  PROVE  /\ LongUnique(s.dpb) => LongUnique(r.dpb)
         /\ frame_num = Succ(s.prev_ref_frame_num) => r = s
         /\ NumbersSuffice /\ Tidy(s.dpb) /\ Ranked(s.dpb, s.prev_ref_frame_num)
              /\ frame_num # s.prev_ref_frame_num
            => Ranked(r.dpb, Pred(frame_num))
<1> DEFINE prev == s.prev_ref_frame_num
           missing == Missing(prev, frame_num)
<1>1. prev \in 0..(MaxFrameNum - 1)
  BY DEF Account
<1>2. /\ missing \in 0..(MaxFrameNum - 1)
      /\ (prev + missing) % MaxFrameNum = Pred(frame_num)
      /\ (prev + 1) % MaxFrameNum = Succ(prev)
      /\ frame_num = Succ(prev) => Pred(frame_num) = prev
  BY <1>1, GapNumbers
<1>3. CASE frame_num \in {prev, (prev + 1) % MaxFrameNum}
  <2>1. r = s
    BY <1>3 DEF HandleAnyGap
  <2>2. QED BY <1>2, <1>3, <2>1
<1>4. CASE frame_num \notin {prev, (prev + 1) % MaxFrameNum}
  <2>1. r = HandleFrameNumGap(s, frame_num)
    BY <1>4 DEF HandleAnyGap
  <2>2. CASE DOMAIN s.dpb.entries = {}
    <3>1. r = s
      BY <2>1, <2>2 DEF HandleFrameNumGap
    <3>2. QED BY <2>2, <3>1, NoReferences
  <2>3. CASE r = Refused(s)
    <3>1. ~Going(r)
      BY <2>3, RefusedSession
    <3>2. QED BY <3>1
  <2>4. CASE r = InferMissing(s, missing)
    <3> HIDE DEF missing
    <3>1. /\ LongUnique(s.dpb) => LongUnique(r.dpb)
          /\ NumbersSuffice /\ Tidy(s.dpb) /\ Ranked(s.dpb, prev)
               => Ranked(r.dpb, (prev + missing) % MaxFrameNum)
      BY <1>2, <2>4, InferredAllRefs
    <3>2. QED BY <1>2, <1>4, <3>1
  <2>5. QED BY <2>1, <2>2, <2>3, <2>4 DEF HandleFrameNumGap, Refused
<1>5. QED BY <1>3, <1>4

(* The references a new picture is decoded with.                           *)
LEMMA BegunRefs ==
  ASSUME stream \in Streams, NEW N \in Nat, NEW W, NEW s, Account(s, W, N), Going(s),
         NEW h, IsHeader(h), NEW r, r = BeginPicture(s, h), Going(r)
  PROVE  /\ NumberedFor(r.dpb, h.frame_num)
         /\ LongUnique(s.dpb) => LongUnique(r.dpb)
         /\ ~h.idr /\ h.frame_num = Succ(s.prev_ref_frame_num) =>
              Retains(s.dpb, r.dpb) /\ References(r.dpb) = References(s.dpb)
         /\ NumbersSuffice /\ Tidy(s.dpb) /\ Ranked(s.dpb, s.prev_ref_frame_num)
              /\ (h.idr \/ h.frame_num # s.prev_ref_frame_num)
            => Ranked(r.dpb, Pred(h.frame_num))
<1> DEFINE prev == IF h.idr THEN 0 ELSE s.prev_ref_frame_num
           frame_num == h.frame_num
           a == Before(s, prev)
           g == HandleAnyGap(a, frame_num)
           l == LeaveSequence(g, h)
<1>1. r = Renumber(l, frame_num)
  BY DEF BeginPicture, Before
<1>2. /\ Sound(s.dpb, N) /\ s.ok \in BOOLEAN /\ prev \in 0..(MaxFrameNum - 1)
      /\ frame_num \in 0..(MaxFrameNum - 1) /\ h.idr \in BOOLEAN
  BY H264Assumption DEF Account, IsHeader
<1>3. h.idr => frame_num = prev
  BY DEF IsHeader
<1>4. ~h.idr => prev = s.prev_ref_frame_num
  OBVIOUS
<1> HIDE DEF frame_num, prev
<1>5. a = MovedTo(s, s.dpb, prev, s.ok)
  BY SessionUpdates
<1> HIDE DEF a
<1>6. /\ Account(a, W, N)
      /\ a.dpb = s.dpb /\ a.prev_ref_frame_num = prev /\ a.ok = s.ok
  BY <1>2, <1>5, MovedAccount
<1>7. Going(a)
  BY <1>6 DEF Going
<1>8. /\ Account(g, W, N)
      /\ frame_num \in {prev, (prev + 1) % MaxFrameNum} => g = a
  BY <1>2, <1>6, <1>7, GapHandled
<1>9. Going(g) =>
        /\ LongUnique(s.dpb) => LongUnique(g.dpb)
        /\ frame_num = Succ(prev) => g = a
        /\ NumbersSuffice /\ Tidy(s.dpb) /\ Ranked(s.dpb, prev) /\ frame_num # prev
             => Ranked(g.dpb, Pred(frame_num))
  <2> SUFFICES ASSUME Going(g)
               PROVE  /\ LongUnique(a.dpb) => LongUnique(g.dpb)
                      /\ frame_num = Succ(a.prev_ref_frame_num) => g = a
                      /\ NumbersSuffice /\ Tidy(a.dpb) /\ Ranked(a.dpb, a.prev_ref_frame_num)
                           /\ frame_num # a.prev_ref_frame_num
                           => Ranked(g.dpb, Pred(frame_num))
    BY <1>6
  <2> HIDE DEF g
  <2>1. g = HandleAnyGap(a, frame_num)
    BY DEF g
  <2>2. QED BY <1>2, <1>6, <1>7, <2>1, GapRefs
<1> HIDE DEF g
<1>10. /\ ~Going(g) \/ ~h.idr => l = g
       /\ Going(g) /\ h.idr =>
            /\ Account(l, IF h.no_output_of_prior_pics_flag THEN Range(g.out) ELSE W, N)
            /\ DOMAIN l.dpb.entries = {}
  BY <1>8, SequenceLeft
<1> HIDE DEF l
<1>11. \E V : Account(l, V, N)
  BY <1>2, <1>8, <1>10
<1>12. /\ r.ok = l.ok
       /\ ~Going(l) => r = l
       /\ Going(l) => r.dpb = UpdatePicNums(l.dpb, frame_num, MaxFrameNum)
  BY <1>1, <1>2, <1>11, RenumberedSession
<1>13. Going(l) /\ Going(g)
  <2>1. Going(l)
    BY <1>12 DEF Going
  <2>2. QED BY <1>10, <2>1
<1>14. IsBuffer(l.dpb) /\ IsBuffer(s.dpb)
  BY <1>2, <1>11 DEF Account, Sound
<1>15. Retains(l.dpb, r.dpb) /\ References(r.dpb) = References(l.dpb) /\ NumberedFor(r.dpb, frame_num)
  <2> DEFINE d == l.dpb e == r.dpb
  <2>1. IsBuffer(d) /\ e = UpdatePicNums(d, frame_num, MaxFrameNum)
    BY <1>12, <1>13, <1>14
  <2> HIDE DEF d, e
  <2>2. Retains(d, e) /\ References(e) = References(d) /\ NumberedFor(e, frame_num)
    BY <1>2, <2>1, RenumberRetains
  <2>3. QED BY <2>2 DEF d, e
<1>16. CASE h.idr
  <2>1. DOMAIN l.dpb.entries = {}
    BY <1>10, <1>13, <1>16
  <2>2. LongUnique(l.dpb) /\ Ranked(l.dpb, Pred(frame_num))
    BY <2>1, NoReferences
  <2>3. LongUnique(r.dpb) /\ Ranked(r.dpb, Pred(frame_num))
    BY <1>14, <1>15, <2>2, RetainedAll, RetainedLong
  <2>4. QED BY <1>15, <1>16, <2>3 DEF frame_num
<1>17. CASE ~h.idr
  <2>1. l = g
    BY <1>10, <1>17
  <2>2. LongUnique(s.dpb) => LongUnique(r.dpb)
    BY <1>9, <1>13, <1>14, <1>15, <2>1, RetainedLong
  <2>3. frame_num = Succ(prev) => Retains(s.dpb, r.dpb) /\ References(r.dpb) = References(s.dpb)
    BY <1>6, <1>9, <1>13, <1>15, <2>1
  <2>4. NumbersSuffice /\ Tidy(s.dpb) /\ Ranked(s.dpb, prev) /\ frame_num # prev
          => Ranked(r.dpb, Pred(frame_num))
    BY <1>9, <1>13, <1>14, <1>15, <2>1, RetainedAll
  <2>5. QED BY <1>4, <1>15, <1>17, <2>2, <2>3, <2>4 DEF frame_num
<1>18. QED BY <1>2, <1>16, <1>17

(* A picture is finished: the indices of the long-term references stay     *)
(* different, and the references few if the marking made room.             *)
LEMMA FinishedLong ==
  ASSUME stream \in Streams, NEW N \in Nat, NEW W, NEW s, Account(s, W, N), Going(s),
         NEW cur, Begun(cur, N), cur.pic.is_idr => DOMAIN s.dpb.entries = {},
         LongUnique(s.dpb), NEW r, r = FinishPicture(s, cur), Going(r)
  PROVE  /\ LongUnique(r.dpb)
         /\ (IF IsRef(cur.pic) THEN NumRefFrames(MarkedFor(s.dpb, cur).dpb) < Window
                               ELSE NumRefFrames(s.dpb) <= Window)
              => NumRefFrames(r.dpb) <= Window
<1> DEFINE m == MarkedFor(s.dpb, cur) d == s.dpb pic == m.pic
<1>1. Sound(d, N) /\ IsBuffer(d)
  BY DEF Account, Sound
<1>2. m = MarkedFor(d, cur)
  OBVIOUS
<1>3. m.ok /\ \E t : PlacedFrom(s, W, N, cur, m, t, r)
  <2> HIDE DEF m
  <2>1. QED BY <1>2, FinishedFrom DEF d
<1> HIDE DEF m, d
<1>4. /\ pic \in Picture /\ NumberedAfter(pic, N, N + 1) /\ (IsRef(pic) <=> IsRef(cur.pic))
      /\ ~IsRef(cur.pic) => m = [dpb |-> d, pic |-> cur.pic, ok |-> TRUE]
      /\ Sound(m.dpb, N)
      /\ pic.has_mmco_5 <=>
           IsRef(cur.pic) /\ \E i \in DOMAIN cur.marking.ops : cur.marking.ops[i].op = 5
  BY <1>1, <1>2, MarkedFacts
<1>5. Unassigned(m)
  <2>1. CASE IsRef(cur.pic)
    <3> DEFINE p == cur.pic max == sps.max_num_ref_frames mk == cur.marking
    <3>1. /\ p \in Picture /\ ~p.has_mmco_5 /\ p.reference = "ShortTerm" /\ IsMarking(p, mk)
      BY <2>1 DEF Begun, IsRef
    <3>2. max \in Nat
      BY Parameters
    <3>3. m = ReferencePicMarking(d, p, mk, max)
      BY <1>2, <2>1 DEF MarkedFor
    <3>4. LongUnique(d) /\ (p.is_idr => DOMAIN d.entries = {})
      BY DEF d
    <3> HIDE DEF p, max, mk
    <3>5. QED BY <1>1, <3>1, <3>2, <3>3, <3>4, MarkingFacts
  <2>2. CASE ~IsRef(cur.pic)
    <3>1. m.dpb = d /\ pic = cur.pic
      BY <1>4, <2>2
    <3>2. pic.reference = "None"
      BY <2>2, <3>1 DEF IsRef
    <3>3. QED BY <3>1, <3>2 DEF Unassigned, d
  <2>3. QED BY <2>1, <2>2
<1>6. PICK t : PlacedFrom(s, W, N, cur, m, t, r)
  BY <1>3
<1>7. Account(t, W, N) /\ Going(t) /\ r = BumpAndStore(t, pic)
  BY <1>6 DEF PlacedFrom
<1>8. Joins(t.dpb, pic, r.dpb)
  <2> HIDE DEF pic
  <2>1. QED BY <1>4, <1>7, BumpedJoins
<1>9. IsBuffer(t.dpb)
  BY <1>7 DEF Account, Sound
<1>10. Window \in Nat /\ 0 < Window
  BY Parameters
<1>11. /\ LongUnique(t.dpb)
       /\ pic.reference = "LongTerm" => NoLongTermWith(t.dpb, pic.long_term_frame_idx)
       /\ (IF IsRef(cur.pic) THEN NumRefFrames(m.dpb) < Window ELSE NumRefFrames(d) <= Window)
            => IF IsRef(pic) THEN NumRefFrames(t.dpb) < Window ELSE NumRefFrames(t.dpb) <= Window
  <2>1. CASE pic.has_mmco_5
    <3>1. DOMAIN t.dpb.entries = {} /\ IsRef(pic)
      BY <1>4, <1>6, <2>1 DEF PlacedFrom
    <3>2. LongUnique(t.dpb) /\ LongTerms(t.dpb) = {} /\ NumRefFrames(t.dpb) = 0
      BY <3>1, NoReferences
    <3>3. QED BY <1>10, <3>1, <3>2 DEF NoLongTermWith
  <2>2. CASE ~pic.has_mmco_5
    <3>1. t.dpb = m.dpb
      BY <1>6, <2>2 DEF PlacedFrom
    <3>2. ~IsRef(cur.pic) => m.dpb = d
      BY <1>4
    <3>3. QED BY <1>4, <1>5, <3>1, <3>2 DEF Unassigned
  <2>3. QED BY <2>1, <2>2
<1> HIDE DEF pic
<1>12. CASE IsRef(pic)
  <2>1. LongUnique(r.dpb) /\ NumRefFrames(r.dpb) = NumRefFrames(t.dpb) + 1
    BY <1>8, <1>9, <1>11, <1>12, JoinedLong
  <2>2. NumRefFrames(t.dpb) \in Nat
    BY <1>9, ReferenceFacts
  <2>3. QED BY <1>10, <1>11, <1>12, <2>1, <2>2 DEF m, d
<1>13. CASE ~IsRef(pic)
  <2>1. Retains(t.dpb, r.dpb) /\ References(r.dpb) = References(t.dpb)
    BY <1>8, <1>13, JoinedNone
  <2>2. LongUnique(r.dpb) /\ NumRefFrames(r.dpb) = NumRefFrames(t.dpb)
    BY <1>9, <1>11, <2>1, RetainedAll, RetainedLong
  <2>3. QED BY <1>11, <1>13, <2>2 DEF m, d
<1>14. QED BY <1>12, <1>13

(* So are the references a row, and the newest, without operations.        *)
LEMMA FinishedRanked ==
  ASSUME NumbersSuffice, stream \in Streams,
         NEW N \in Nat, NEW W, NEW s, Account(s, W, N), Going(s), Tidy(s.dpb),
         NEW cur, Begun(cur, N), Simple(cur.marking),
         cur.pic.is_idr => IsRef(cur.pic) /\ DOMAIN s.dpb.entries = {},
         NEW last \in 0..(MaxFrameNum - 1), Ranked(s.dpb, last),
         IsRef(cur.pic) => /\ cur.pic.frame_num = Succ(last)
                           /\ NumberedFor(s.dpb, cur.pic.frame_num),
         NEW r, r = FinishPicture(s, cur)
  PROVE  /\ Ranked(r.dpb, IF IsRef(cur.pic) THEN cur.pic.frame_num ELSE last)
         /\ \A F \in SUBSET (1..N) : HoldsNewest(s.dpb, F, Window) =>
              HoldsNewest(r.dpb, IF IsRef(cur.pic) THEN F \cup {N + 1} ELSE F, Window)
<1> DEFINE m == MarkedFor(s.dpb, cur) d == s.dpb e == m.dpb pic == cur.pic
           max == sps.max_num_ref_frames
<1>1. Sound(d, N) /\ IsBuffer(d) /\ Tidy(d) /\ (pic.is_idr => IsRef(pic) /\ DOMAIN d.entries = {})
  BY DEF Account, Sound
<1>2. m = MarkedFor(d, cur)
  OBVIOUS
<1>3. m.ok /\ \E t : PlacedFrom(s, W, N, cur, m, t, r)
  <2>1. m.ok
    <3> HIDE DEF m, d
    <3>1. QED BY <1>1, <1>2, SimplyMarked
  <2> HIDE DEF m
  <2>2. QED BY <1>2, <2>1, FinishedFrom DEF d
<1>4. Going(r)
  BY SimplyFinished
<1> HIDE DEF m, d
<1>5. /\ m.pic = pic /\ Remarked(d, e) /\ LeftFor(e, m.pic)
      /\ IsRef(pic) /\ ~pic.is_idr => e = SlidingWindowMarking(d, max)
  BY <1>1, <1>2, SimplyMarked
<1>6. /\ m.pic \in Picture /\ NumberedAfter(m.pic, N, N + 1)
      /\ ~IsRef(pic) => m = [dpb |-> d, pic |-> pic, ok |-> TRUE]
  BY <1>1, <1>2, MarkedFacts
<1>7. PICK t : PlacedFrom(s, W, N, cur, m, t, r)
  BY <1>3
<1>8. Account(t, W, N) /\ Going(t) /\ r = BumpAndStore(t, pic) /\ t.dpb = e
  BY <1>5, <1>7 DEF PlacedFrom, LeftFor
<1>9. pic \in Picture /\ NumberedAfter(pic, N, N + 1) /\ pic.n = N + 1
  BY <1>5, <1>6 DEF Begun
<1> HIDE DEF pic
<1>10. Joins(e, pic, r.dpb)
  BY <1>4, <1>8, <1>9, BumpedJoins
<1>11. max \in Nat /\ Window = NumberedWindow(max) /\ Window \in Nat /\ 0 < Window
       /\ NumberedWindow(max) < MaxFrameNum
  BY Parameters, NumbersOfWindow
<1> HIDE DEF max, e
<1>12. Ranked(d, last) /\ (IsRef(pic) => pic.frame_num = Succ(last) /\ NumberedFor(d, Succ(last)))
  BY DEF d, pic
<1>13. IsBuffer(e)
  BY <1>5 DEF Remarked
<1>14. CASE ~IsRef(pic)
  <2>1. e = d
    BY <1>6, <1>14 DEF e
  <2>2. Retains(d, r.dpb) /\ References(r.dpb) = References(d)
    BY <1>10, <1>14, <2>1, JoinedNone
  <2>3. Ranked(r.dpb, last)
    BY <1>1, <1>12, <2>2, RetainedAll
  <2>4. \A F, size : HoldsNewest(d, F, size) => HoldsNewest(r.dpb, F, size)
    BY <1>1, <2>2, RetainedAll
  <2>5. QED BY <1>14, <2>3, <2>4 DEF d, pic
<1>15. CASE IsRef(pic)
  <2>1. /\ Ranked(e, last)
        /\ NumRefFrames(e) < MaxFrameNum - 1
        /\ \A F \in SUBSET (1..N) : HoldsNewest(d, F, Window) => HoldsNewest(e, F, Window - 1)
    <3>1. CASE ~pic.is_idr
      <4>1. e = SlidingWindowMarking(d, max)
        BY <1>5, <1>15, <3>1
      <4>2. LongTerms(d) = {} /\ NumRefFrames(d) <= NumberedWindow(max)
        BY <1>1, <1>11 DEF Tidy
      <4>3. /\ Ranked(e, last)
            /\ NumRefFrames(e) < MaxFrameNum - 1
            /\ \A F \in SUBSET Nat :
                 HoldsNewest(d, F, NumberedWindow(max)) => HoldsNewest(e, F, NumberedWindow(max) - 1)
        BY <1>1, <1>11, <1>12, <1>15, <4>1, <4>2, SlidingRanked
      <4>4. \A F \in SUBSET (1..N) : F \in SUBSET Nat
        OBVIOUS
      <4>5. QED BY <1>11, <4>3, <4>4
    <3>2. CASE pic.is_idr
      <4>1. DOMAIN d.entries = {} /\ DOMAIN e.entries = {}
        BY <1>1, <1>5, <3>2 DEF Remarked, pic
      <4>2. References(d) = {} /\ References(e) = {} /\ NumRefFrames(d) = 0 /\ NumRefFrames(e) = 0
        BY <4>1, NoReferences
      <4>3. Ranked(e, last)
        BY <4>1, NoReferences
      <4>4. NumRefFrames(e) < MaxFrameNum - 1
        BY <4>2, MaxFrameNumType
      <4>5. ASSUME NEW F \in SUBSET (1..N), HoldsNewest(d, F, Window)
            PROVE  HoldsNewest(e, F, Window - 1)
        <5>1. \A n \in F : Holds(d, n)
          BY <1>11, <4>2, <4>5 DEF HoldsNewest
        <5>2. F = {}
          BY <4>2, <5>1 DEF Holds
        <5>3. QED BY <4>1, <5>2, NoReferences
      <4>6. QED BY <4>3, <4>4, <4>5
    <3>3. QED BY <3>1, <3>2
  <2>2. Ranked(r.dpb, pic.frame_num)
    BY <1>10, <1>12, <1>13, <1>15, <2>1, JoinedRanked
  <2>3. ASSUME NEW F \in SUBSET (1..N), HoldsNewest(d, F, Window)
        PROVE  HoldsNewest(r.dpb, F \cup {N + 1}, Window)
    <3>1. F \in SUBSET Nat /\ pic.n \in Nat /\ \A n \in F : n < pic.n
      BY <1>9
    <3>2. HoldsNewest(e, F, Window - 1)
      BY <2>1, <2>3
    <3>3. HoldsNewest(r.dpb, F \cup {pic.n}, Window)
      BY <1>10, <1>11, <1>13, <1>15, <3>1, <3>2, JoinedNewest
    <3>4. QED BY <1>9, <3>3
  <2>4. QED BY <1>15, <2>2, <2>3 DEF d, pic
<1>16. QED BY <1>14, <1>15

-----------------------------------------------------------------------------
(* The references are as the standard marks them.                          *)

AllRefs == \A n \in 1..Len(sent) : sent[n].ref
ReferencesUpTo(N) == {n \in 1..N : sent[n].ref /\ sent[n].seq = Sequence}

(* The decoder counts references as the encoder does: none are lost, or    *)
(* all are made up for.                                                    *)
InStep == stream.loses => ~stream.adaptive /\ AllRefs

HasOp5(marking) == \E i \in DOMAIN marking.ops : marking.ops[i].op = 5

CurrentMarked ==
  current_pic # NoPicture =>
    /\ sent[Len(sent)].ref <=> IsRef(current_pic.pic)
    /\ NumberedFor(dpb, current_pic.pic.frame_num)
    /\ ~stream.loses /\ IsRef(current_pic.pic) =>
         NumRefFrames(MarkedFor(dpb, current_pic).dpb) < Window

EncoderCounts ==
  InStep /\ ~seeking =>
    encoder_frame_num = IF current_pic # NoPicture /\ IsRef(current_pic.pic)
                          THEN IF HasOp5(current_pic.marking) THEN 0 ELSE current_pic.pic.frame_num
                          ELSE prev_ref_frame_num

InvLong ==
  outcome = "Ok" =>
    /\ CurrentMarked
    /\ EncoderCounts
    /\ LongUnique(dpb)
    /\ ~(stream.adaptive /\ stream.loses) => NumRefFrames(dpb) <= Window

LastReference ==
  IF current_pic # NoPicture /\ IsRef(current_pic.pic) THEN Pred(current_pic.pic.frame_num)
                                                       ELSE prev_ref_frame_num

InvWindow ==
  outcome = "Ok" /\ ~stream.adaptive =>
    /\ InStep => Ranked(dpb, LastReference)
    /\ ~stream.loses /\ ~seeking => HoldsNewest(dpb, ReferencesUpTo(Done), Window)

(* How the picture before is finished.                                     *)
LEMMA FinishedSession ==
  ASSUME InvBase, outcome = "Ok", current_pic # NoPicture, NEW s, s = Finished
  PROVE  /\ Account(Session, Waits(dpb), Done) /\ Going(Session) /\ Done \in Nat
         /\ Session.dpb = dpb /\ Session.prev_ref_frame_num = prev_ref_frame_num
         /\ Begun(current_pic, Done) /\ Done + 1 = Len(sent) /\ stream \in Streams
         /\ current_pic.pic.is_idr => IsRef(current_pic.pic) /\ DOMAIN dpb.entries = {}
         /\ ~stream.adaptive => Simple(current_pic.marking) /\ Tidy(dpb)
         /\ s = FinishPicture(Session, current_pic)
<1>1. /\ StateTypes /\ Accounted /\ CurrentBegun /\ (~stream.adaptive => Tidy(dpb))
      /\ stream \in Streams
  BY DEF InvBase, StateTypes
<1>2. /\ Account(Session, Waits(dpb), Done) /\ Going(Session)
      /\ Session.dpb = dpb /\ Session.prev_ref_frame_num = prev_ref_frame_num
  BY <1>1, SessionFacts, SessionDone
<1>3. s = FinishPicture(Session, current_pic)
  BY DEF Finished
<1>4. QED BY <1>1, <1>2, <1>3, DoneFacts DEF CurrentBegun

(* The number of the last reference, once the picture is finished.         *)
LEMMA FinishedNumber ==
  ASSUME stream \in Streams, NEW N \in Nat, NEW W, NEW s, Account(s, W, N), Going(s),
         NEW cur, Begun(cur, N), NEW r, r = FinishPicture(s, cur), Going(r)
  PROVE  r.prev_ref_frame_num = IF IsRef(cur.pic)
                                  THEN IF HasOp5(cur.marking) THEN 0 ELSE cur.pic.frame_num
                                  ELSE s.prev_ref_frame_num
<1> DEFINE m == MarkedFor(s.dpb, cur) d == s.dpb pic == m.pic
<1>1. Sound(d, N)
  BY DEF Account
<1>2. m = MarkedFor(d, cur)
  OBVIOUS
<1>3. \E t : PlacedFrom(s, W, N, cur, m, t, r)
  <2> HIDE DEF m
  <2>1. QED BY <1>2, FinishedFrom DEF d
<1> HIDE DEF m, d
<1>4. /\ pic \in Picture /\ NumberedAfter(pic, N, N + 1)
      /\ pic.frame_num = IF pic.has_mmco_5 THEN 0 ELSE cur.pic.frame_num
      /\ pic.has_mmco_5 <=>
           IsRef(cur.pic) /\ \E i \in DOMAIN cur.marking.ops : cur.marking.ops[i].op = 5
  BY <1>1, <1>2, MarkedFacts
<1>5. PICK t : PlacedFrom(s, W, N, cur, m, t, r)
  BY <1>3
<1>6. /\ Account(t, W, N) /\ Going(t) /\ r = BumpAndStore(t, pic)
      /\ t.prev_ref_frame_num = IF IsRef(cur.pic) THEN pic.frame_num ELSE s.prev_ref_frame_num
  BY <1>5 DEF PlacedFrom
<1> HIDE DEF pic
<1>7. r.prev_ref_frame_num = t.prev_ref_frame_num
  BY <1>4, <1>6, BumpAndStoreFacts
<1>8. QED BY <1>4, <1>6, <1>7 DEF HasOp5

(* The references after the picture before is finished.                    *)
LEMMA FinishedKeepsLong ==
  ASSUME InvBase, InvLong, outcome = "Ok", NEW s, s = Finished, Going(s)
  PROVE  /\ LongUnique(s.dpb)
         /\ ~(stream.adaptive /\ stream.loses) => NumRefFrames(s.dpb) <= Window
         /\ InStep /\ ~seeking => s.prev_ref_frame_num = encoder_frame_num
<1>1. /\ CurrentMarked /\ EncoderCounts /\ LongUnique(dpb)
      /\ ~(stream.adaptive /\ stream.loses) => NumRefFrames(dpb) <= Window
  BY DEF InvLong
<1>2. CASE current_pic = NoPicture
  <2>1. s.dpb = dpb /\ s.prev_ref_frame_num = prev_ref_frame_num
    BY <1>2, SessionFacts DEF Finished, InvBase
  <2>2. QED BY <1>1, <1>2, <2>1 DEF EncoderCounts
<1>3. CASE current_pic # NoPicture
  <2> DEFINE c == Session cur == current_pic n == Done
  <2>1. /\ Account(c, Waits(dpb), n) /\ Going(c) /\ n \in Nat /\ stream \in Streams
        /\ c.dpb = dpb /\ c.prev_ref_frame_num = prev_ref_frame_num
        /\ Begun(cur, n) /\ s = FinishPicture(c, cur)
        /\ cur.pic.is_idr => DOMAIN c.dpb.entries = {}
    BY <1>3, FinishedSession
  <2>2. ~stream.adaptive => NumRefFrames(s.dpb) <= Window
    BY FinishedFacts DEF Tidy
  <2> HIDE DEF c, cur, n
  <2>3. /\ LongUnique(s.dpb)
        /\ (IF IsRef(cur.pic) THEN NumRefFrames(MarkedFor(c.dpb, cur).dpb) < Window
                              ELSE NumRefFrames(c.dpb) <= Window)
              => NumRefFrames(s.dpb) <= Window
    BY <1>1, <2>1, FinishedLong
  <2>4. ~stream.loses => NumRefFrames(s.dpb) <= Window
    BY <1>1, <1>3, <2>1, <2>3 DEF CurrentMarked, cur
  <2>5. s.prev_ref_frame_num = IF IsRef(cur.pic)
                                 THEN IF HasOp5(cur.marking) THEN 0 ELSE cur.pic.frame_num
                                 ELSE c.prev_ref_frame_num
    BY <2>1, FinishedNumber
  <2>6. stream.adaptive \in BOOLEAN /\ stream.loses \in BOOLEAN
    BY <2>1, Parameters
  <2>7. QED BY <1>1, <1>3, <2>1, <2>2, <2>3, <2>4, <2>5, <2>6 DEF EncoderCounts, cur
<1>4. QED BY <1>2, <1>3

LEMMA FinishedKeepsWindow ==
  ASSUME NumbersSuffice, InvBase, InvLong, InvWindow, outcome = "Ok", ~stream.adaptive,
         NEW s, s = Finished
  PROVE  /\ InStep => Ranked(s.dpb, s.prev_ref_frame_num)
         /\ ~stream.loses /\ ~seeking => HoldsNewest(s.dpb, ReferencesUpTo(Len(sent)), Window)
<1>1. /\ CurrentMarked
      /\ InStep => Ranked(dpb, LastReference)
      /\ ~stream.loses /\ ~seeking => HoldsNewest(dpb, ReferencesUpTo(Done), Window)
      /\ stream.loses \in BOOLEAN
  BY Parameters DEF InvLong, InvWindow, InvBase, StateTypes
<1>2. CASE current_pic = NoPicture
  <2>1. s.dpb = dpb /\ s.prev_ref_frame_num = prev_ref_frame_num
    BY <1>2, SessionFacts DEF Finished, InvBase
  <2>2. Done = Len(sent) /\ LastReference = prev_ref_frame_num
    BY <1>2 DEF Done, LastReference
  <2>3. QED BY <1>1, <2>1, <2>2
<1>3. CASE current_pic # NoPicture
  <2> DEFINE c == Session cur == current_pic n == Done
             last == LastReference F == ReferencesUpTo(n)
             next == IF IsRef(cur.pic) THEN cur.pic.frame_num ELSE last
             G == IF IsRef(cur.pic) THEN F \cup {n + 1} ELSE F
  <2>1. /\ Account(c, Waits(dpb), n) /\ Going(c) /\ n \in Nat /\ stream \in Streams
        /\ c.dpb = dpb /\ c.prev_ref_frame_num = prev_ref_frame_num
        /\ Begun(cur, n) /\ s = FinishPicture(c, cur) /\ n + 1 = Len(sent)
        /\ cur.pic.is_idr => IsRef(cur.pic) /\ DOMAIN c.dpb.entries = {}
        /\ Simple(cur.marking) /\ Tidy(c.dpb)
    BY <1>3, FinishedSession
  <2>2. InStep => Ranked(c.dpb, last)
    BY <1>1, <2>1
  <2>3. /\ cur.pic.frame_num \in 0..(MaxFrameNum - 1)
        /\ prev_ref_frame_num \in 0..(MaxFrameNum - 1)
    BY <2>1 DEF Begun, Picture, InvBase, StateTypes
  <2>4. /\ last \in 0..(MaxFrameNum - 1)
        /\ IsRef(cur.pic) => /\ cur.pic.frame_num = Succ(last)
                             /\ NumberedFor(c.dpb, cur.pic.frame_num)
    BY <1>1, <1>3, <2>1, <2>3, Ages DEF LastReference, CurrentMarked
  <2>5. ~IsRef(cur.pic) => last = prev_ref_frame_num
    BY DEF LastReference
  <2>6. F \in SUBSET (1..n)
    BY DEF ReferencesUpTo
  <2>7. s.prev_ref_frame_num = IF IsRef(cur.pic) THEN cur.pic.frame_num ELSE c.prev_ref_frame_num
    <3> HIDE DEF c, cur, n
    <3>1. QED BY <2>1, SimplyFinished
  <2>8. ReferencesUpTo(Len(sent)) = G
    <3>1. \A k : k \in 1..(n + 1) <=> k \in 1..n \/ k = n + 1
      BY <2>1
    <3>2. Sequence = sent[n + 1].seq
      <4>1. sent # <<>>
        BY <1>3 DEF InvBase, CurrentBegun
      <4>2. QED BY <2>1, <4>1 DEF Sequence
    <3>3. sent[n + 1].ref <=> IsRef(cur.pic)
      BY <1>1, <1>3, <2>1 DEF CurrentMarked
    <3> HIDE DEF cur, n
    <3>4. \A k : k \in ReferencesUpTo(n + 1) <=> k \in ReferencesUpTo(n) \/ (k = n + 1 /\ IsRef(cur.pic))
      BY <3>1, <3>2, <3>3 DEF ReferencesUpTo
    <3>5. ReferencesUpTo(n + 1) = G
      BY <3>4
    <3>6. QED BY <2>1, <3>5
  <2> HIDE DEF c, cur, n, last, F
  <2>9. ASSUME Ranked(c.dpb, last)
        PROVE  /\ Ranked(s.dpb, next)
               /\ HoldsNewest(c.dpb, F, Window) => HoldsNewest(s.dpb, G, Window)
    BY <2>1, <2>4, <2>6, <2>9, FinishedRanked
  <2>10. ~stream.loses => InStep
    BY DEF InStep
  <2>11. ~stream.loses /\ ~seeking => HoldsNewest(c.dpb, F, Window)
    BY <1>1, <2>1 DEF F, n
  <2>12. next = s.prev_ref_frame_num
    BY <2>1, <2>5, <2>7
  <2> HIDE DEF next, G
  <2>13. QED BY <2>2, <2>8, <2>9, <2>10, <2>11, <2>12
<1>4. QED BY <1>2, <1>3

(* A call that ends between two pictures.                                  *)
LEMMA EndsLong ==
  ASSUME NEW r, dpb' = r.dpb, prev_ref_frame_num' = r.prev_ref_frame_num, current_pic' = NoPicture,
         UNCHANGED <<stream, sent, encoder_frame_num>>,
         LongUnique(r.dpb), ~(stream.adaptive /\ stream.loses) => NumRefFrames(r.dpb) <= Window,
         InStep /\ ~seeking' => r.prev_ref_frame_num = encoder_frame_num
  PROVE  InvLong'
<1>1. Window' = Window /\ (InStep' <=> InStep)
  BY DEF Window, sps, InStep, AllRefs
<1>2. CurrentMarked'
  BY DEF CurrentMarked
<1>3. EncoderCounts'
  BY <1>1 DEF EncoderCounts
<1>4. LongUnique(dpb)' /\ (~(stream.adaptive /\ stream.loses) => NumRefFrames(dpb) <= Window)'
  BY <1>1
<1>5. QED BY <1>2, <1>3, <1>4 DEF InvLong

LEMMA EndsWindow ==
  ASSUME NEW r, dpb' = r.dpb, prev_ref_frame_num' = r.prev_ref_frame_num, current_pic' = NoPicture,
         UNCHANGED <<stream, sent>>,
         ~stream.adaptive /\ InStep => Ranked(r.dpb, r.prev_ref_frame_num),
         ~stream.adaptive /\ ~stream.loses /\ ~seeking' =>
           HoldsNewest(r.dpb, ReferencesUpTo(Len(sent)), Window)
  PROVE  InvWindow'
<1>1. Window' = Window /\ (InStep' <=> InStep)
  BY DEF Window, sps, InStep, AllRefs
<1>2. Ranked(dpb, LastReference)' = Ranked(r.dpb, r.prev_ref_frame_num)
  BY DEF LastReference
<1>3. HoldsNewest(dpb, ReferencesUpTo(Done), Window)'
        = HoldsNewest(r.dpb, ReferencesUpTo(Len(sent)), Window)
  <2>1. ReferencesUpTo(Done)' = ReferencesUpTo(Len(sent))
    BY DEF ReferencesUpTo, Done, Sequence
  <2>2. QED BY <1>1, <2>1
<1>4. QED BY <1>1, <1>2, <1>3 DEF InvWindow

(* The encoder numbers a picture after its last reference, and skips some  *)
(* numbers if pictures are lost.                                           *)
Follower(h) ==
  h.idr \/ \E skip \in Skips : h.frame_num = (encoder_frame_num + 1 + skip) % MaxFrameNum

LEMMA HeadersFollow ==
  ASSUME NEW s, NEW h \in IdrHeaders \cup NextHeaders(s)
  PROVE  Follower(h)
<1>1. CASE h \in IdrHeaders
  BY <1>1 DEF Follower, IdrHeaders
<1>2. CASE h \in NextHeaders(s)
  <2>1. PICK ref \in BOOLEAN, skip \in Skips :
          h \in HeadersWith(s, ref, (encoder_frame_num + 1 + skip) % MaxFrameNum)
    BY <1>2 DEF NextHeaders
  <2> DEFINE frame_num == (encoder_frame_num + 1 + skip) % MaxFrameNum
  <2> HIDE DEF frame_num
  <2>2. h.frame_num = frame_num
    BY <2>1 DEF HeadersWith, frame_num
  <2>3. QED BY <2>2 DEF Follower, frame_num
<1>3. QED BY <1>1, <1>2

(* A picture begins.                                                       *)
LEMMA DecodeLong ==
  ASSUME InvBase, InvLong, outcome = "Ok", NEW s, s = Finished, Going(s),
         NEW h, HeaderOf(h), DecodePicture(s, h)
  PROVE  InvLong'
<1> DEFINE r == BeginPicture(s, h)
           cur == Opened(h)
           N == Len(sent)
           V == IF h.idr /\ h.no_output_of_prior_pics_flag THEN Range(s.out) ELSE Rest
<1>1. /\ Follows(s, h) /\ Keep(r) /\ Going(r)
      /\ stream' = stream /\ sps' = sps
      /\ current_pic' = cur /\ current_pic' # NoPicture
      /\ Begun(cur, N) /\ N \in Nat /\ Sends(h) /\ Len(sent') = N + 1
      /\ Account(s, Rest, N) /\ Account(r, V, N) /\ seeking' = FALSE
  BY DecodePictureFacts
<1>2. /\ StateTypes /\ stream \in Streams /\ IsHeader(h) /\ h.idr \in BOOLEAN /\ h.ref \in BOOLEAN
      /\ stream.adaptive \in BOOLEAN /\ stream.loses \in BOOLEAN
      /\ encoder_frame_num \in 0..(MaxFrameNum - 1)
  BY Parameters DEF InvBase, StateTypes, HeaderOf, IsHeader
<1>3. /\ dpb' = r.dpb /\ prev_ref_frame_num' = r.prev_ref_frame_num
  BY <1>1 DEF Keep
<1>4. /\ LongUnique(s.dpb)
      /\ ~(stream.adaptive /\ stream.loses) => NumRefFrames(s.dpb) <= Window
      /\ InStep /\ ~seeking => s.prev_ref_frame_num = encoder_frame_num
  BY FinishedKeepsLong
<1>5. /\ r.prev_ref_frame_num = IF h.idr THEN 0 ELSE s.prev_ref_frame_num
      /\ h.idr => DOMAIN r.dpb.entries = {}
      /\ ~stream.adaptive => Tidy(r.dpb)
  <2>1. ~stream.adaptive => Tidy(s.dpb)
    BY FinishedFacts
  <2>2. QED BY <1>1, <1>2, <2>1, BegunSession
<1>6. /\ NumberedFor(r.dpb, h.frame_num)
      /\ LongUnique(r.dpb)
      /\ ~h.idr /\ h.frame_num = Succ(s.prev_ref_frame_num) =>
           Retains(s.dpb, r.dpb) /\ References(r.dpb) = References(s.dpb)
  <2> HIDE DEF r, N
  <2>1. r = BeginPicture(s, h)
    BY DEF r
  <2>2. QED BY <1>1, <1>2, <1>4, <2>1, BegunRefs
<1>7. /\ cur.pic = NewPicture(h) /\ cur.marking = h.marking
      /\ cur.pic.frame_num = h.frame_num /\ cur.pic.is_idr = h.idr
      /\ IsRef(cur.pic) <=> h.ref
  BY <1>1, OpenedFacts
<1>8. /\ \A n \in 1..N : sent'[n] = sent[n]
      /\ sent'[N + 1].ref = h.ref
      /\ encoder_frame_num' = CASE Renews(h) -> 0
                                [] ~Renews(h) /\ h.ref -> h.frame_num
                                [] OTHER -> (h.frame_num - 1) % MaxFrameNum
  BY <1>1, <1>2, SentMore
<1>9. ~h.idr => ~seeking /\ Conforms(r, h)
  BY <1>1, <1>2 DEF Follows
<1>10. Window' = Window /\ Window \in Nat /\ 0 < Window
  BY <1>1, <1>2, Parameters DEF Window
<1>11. IsBuffer(r.dpb) /\ IsBuffer(s.dpb) /\ Sound(r.dpb, N)
       /\ s.prev_ref_frame_num \in 0..(MaxFrameNum - 1)
  BY <1>1 DEF Account, Sound
<1>12. MarkedFor(dpb, current_pic)' = MarkedFor(r.dpb, cur)
  BY <1>1, <1>3 DEF MarkedFor
<1> HIDE DEF r, cur, N, V
<1>13. ~stream.loses /\ h.ref => NumRefFrames(MarkedFor(r.dpb, cur).dpb) < Window
  <2> SUFFICES ASSUME ~stream.loses, h.ref PROVE NumRefFrames(MarkedFor(r.dpb, cur).dpb) < Window
    OBVIOUS
  <2> DEFINE m == MarkedFor(r.dpb, cur)
  <2>1. CASE h.idr
    <3> DEFINE d == r.dpb
    <3>1. Sound(d, N) /\ m = MarkedFor(d, cur) /\ DOMAIN d.entries = {}
      BY <1>5, <1>11, <2>1
    <3> HIDE DEF m, d
    <3>2. Remarked(d, m.dpb)
      BY <1>1, <1>2, <3>1, MarkedFacts
    <3>3. DOMAIN m.dpb.entries = {}
      BY <3>1, <3>2 DEF Remarked
    <3>4. NumRefFrames(m.dpb) = 0
      BY <3>3, NoReferences
    <3>5. QED BY <1>10, <3>4 DEF m
  <2>2. CASE ~h.idr
    <3>1. m = ReferencePicMarking(r.dpb, NewPicture(h), h.marking, sps.max_num_ref_frames)
      BY <1>7 DEF MarkedFor
    <3> HIDE DEF m
    <3>2. IF m.ok THEN NumRefFrames(m.dpb) < Window ELSE stream.loses
      BY <1>9, <2>2, <3>1 DEF Conforms
    <3>3. QED BY <3>2 DEF m
  <2>3. QED BY <1>2, <2>1, <2>2
<1>14. CurrentMarked'
  BY <1>1, <1>3, <1>6, <1>7, <1>8, <1>10, <1>12, <1>13 DEF CurrentMarked
<1>15. InStep' => InStep /\ (stream.loses => h.ref)
  <2>1. \A n \in 1..N : n \in 1..Len(sent')
    BY <1>1
  <2>2. N + 1 \in 1..Len(sent')
    BY <1>1
  <2>3. AllRefs' => AllRefs /\ h.ref
    BY <1>8, <2>1, <2>2 DEF AllRefs, N
  <2>4. QED BY <1>1, <2>3 DEF InStep
<1>16. ~h.idr /\ ~stream.loses => h.frame_num = (encoder_frame_num + 1) % MaxFrameNum
  BY DEF HeaderOf
<1>17. ~h.idr /\ ~stream.loses => s.prev_ref_frame_num = encoder_frame_num
  BY <1>4, <1>9 DEF InStep
<1>18. EncoderCounts'
  <2>1. HasOp5(cur.marking) <=> \E i \in DOMAIN h.marking.ops : h.marking.ops[i].op = 5
    BY <1>7 DEF HasOp5
  <2>2. SUFFICES ASSUME InStep'
                 PROVE  encoder_frame_num' = IF h.ref
                                               THEN IF HasOp5(cur.marking) THEN 0 ELSE h.frame_num
                                               ELSE r.prev_ref_frame_num
    BY <1>1, <1>3, <1>7 DEF EncoderCounts
  <2>3. CASE h.idr
    <3>1. h.ref /\ h.frame_num = 0
      BY <1>2, <2>3 DEF HeaderOf, IsHeader
    <3>2. QED BY <1>8, <2>3, <3>1 DEF Renews
  <2>4. CASE ~h.idr /\ h.ref
    BY <1>8, <2>1, <2>4 DEF Renews
  <2>5. CASE ~h.idr /\ ~h.ref
    <3>1. ~Renews(h)
      <4>1. h.marking.ops = <<>>
        BY <2>5 DEF HeaderOf
      <4>2. DOMAIN h.marking.ops = {}
        BY <4>1
      <4>3. QED BY <2>5, <4>2 DEF Renews
    <3>2. ~stream.loses
      BY <1>2, <1>15, <2>2, <2>5
    <3>3. encoder_frame_num' = (h.frame_num - 1) % MaxFrameNum
      BY <1>8, <2>5, <3>1
    <3>4. (h.frame_num - 1) % MaxFrameNum = encoder_frame_num
      BY <1>2, <1>16, <2>5, <3>2, Rounds
    <3>5. QED BY <1>5, <1>17, <2>5, <3>2, <3>3, <3>4
  <2>6. QED BY <1>2, <2>3, <2>4, <2>5
<1>19. ~(stream.adaptive /\ stream.loses) => NumRefFrames(r.dpb) <= Window
  <2>1. CASE ~stream.adaptive
    BY <1>5, <2>1 DEF Tidy
  <2>2. CASE ~stream.loses /\ h.idr
    BY <1>5, <1>10, <2>2, NoReferences
  <2>3. CASE ~stream.loses /\ ~h.idr
    <3>1. h.frame_num = Succ(s.prev_ref_frame_num)
      BY <1>11, <1>16, <1>17, <2>3, GapNumbers
    <3>2. References(r.dpb) = References(s.dpb)
      BY <1>6, <2>3, <3>1
    <3>3. QED BY <1>4, <2>3, <3>2 DEF NumRefFrames
  <2>4. QED BY <1>2, <2>1, <2>2, <2>3
<1>20. (~(stream.adaptive /\ stream.loses) => NumRefFrames(dpb) <= Window)'
  BY <1>1, <1>3, <1>10, <1>19
<1>21. LongUnique(dpb)'
  BY <1>3, <1>6
<1>22. QED BY <1>14, <1>18, <1>20, <1>21 DEF InvLong

(* A picture begins: the references, without operations.                   *)
LEMMA DecodeWindow ==
  ASSUME NumbersSuffice, InvBase, InvOrder, InvLong, InvWindow, outcome = "Ok", ~stream.adaptive,
         NEW s, s = Finished, Going(s), NEW h, HeaderOf(h), Follower(h), DecodePicture(s, h)
  PROVE  InvWindow'
<1> DEFINE r == BeginPicture(s, h)
           cur == Opened(h)
           N == Len(sent)
<1>1. /\ Follows(s, h) /\ Keep(r) /\ Going(r)
      /\ stream' = stream /\ sps' = sps
      /\ current_pic' = cur /\ current_pic' # NoPicture
      /\ N \in Nat /\ Sends(h) /\ Len(sent') = N + 1 /\ Done' = N
      /\ Account(s, Rest, N) /\ seeking' = FALSE
  BY DecodePictureFacts
<1>2. /\ StateTypes /\ stream \in Streams /\ IsHeader(h) /\ h.idr \in BOOLEAN /\ h.ref \in BOOLEAN
      /\ stream.loses \in BOOLEAN
      /\ encoder_frame_num \in 0..(MaxFrameNum - 1) /\ h.frame_num \in 0..(MaxFrameNum - 1)
  BY Parameters DEF InvBase, StateTypes, HeaderOf, IsHeader
<1>3. /\ dpb' = r.dpb /\ prev_ref_frame_num' = r.prev_ref_frame_num
  BY <1>1 DEF Keep
<1>4. /\ InStep => Ranked(s.dpb, s.prev_ref_frame_num)
      /\ ~stream.loses /\ ~seeking => HoldsNewest(s.dpb, ReferencesUpTo(N), Window)
      /\ InStep /\ ~seeking => s.prev_ref_frame_num = encoder_frame_num
  BY FinishedKeepsLong, FinishedKeepsWindow
<1>5. /\ r.prev_ref_frame_num = IF h.idr THEN 0 ELSE s.prev_ref_frame_num
      /\ h.idr => DOMAIN r.dpb.entries = {}
  BY <1>1, <1>2, BegunSession
<1>6. Tidy(s.dpb)
  BY FinishedFacts
<1>7. /\ ~h.idr /\ h.frame_num = Succ(s.prev_ref_frame_num) =>
           Retains(s.dpb, r.dpb) /\ References(r.dpb) = References(s.dpb)
      /\ Ranked(s.dpb, s.prev_ref_frame_num) /\ (h.idr \/ h.frame_num # s.prev_ref_frame_num)
           => Ranked(r.dpb, Pred(h.frame_num))
  <2> HIDE DEF r, N
  <2>1. r = BeginPicture(s, h)
    BY DEF r
  <2>2. QED BY <1>1, <1>2, <1>6, <2>1, BegunRefs
<1>8. /\ cur.pic.frame_num = h.frame_num /\ (IsRef(cur.pic) <=> h.ref)
  BY <1>1, OpenedFacts
<1>9. /\ \A n \in 1..N : sent'[n] = sent[n]
      /\ sent'[N + 1].ref = h.ref
      /\ Sequence' = IF Renews(h) THEN Sequence + 1 ELSE Sequence
  BY <1>1, <1>2, SentMore
<1>10. ~h.idr => ~seeking /\ ~Renews(h)
  <2>1. ~h.idr => ~seeking
    BY <1>1 DEF Follows
  <2>2. h.marking.ops = <<>>
    BY DEF HeaderOf, Simple
  <2>3. DOMAIN h.marking.ops = {}
    BY <2>2
  <2>4. QED BY <2>1, <2>3 DEF Renews
<1>11. /\ Window' = Window /\ IsBuffer(s.dpb)
       /\ s.prev_ref_frame_num \in 0..(MaxFrameNum - 1)
  BY <1>1 DEF Window, Account, Sound
<1>12. InStep' => InStep /\ (stream.loses => h.ref)
  <2>1. \A n \in 1..N : n \in 1..Len(sent')
    BY <1>1
  <2>2. N + 1 \in 1..Len(sent')
    BY <1>1
  <2>3. AllRefs' => AllRefs /\ h.ref
    BY <1>9, <2>1, <2>2 DEF AllRefs, N
  <2>4. QED BY <1>1, <2>3 DEF InStep
<1>13. ~h.idr /\ ~stream.loses => h.frame_num = Succ(s.prev_ref_frame_num)
  <2> SUFFICES ASSUME ~h.idr, ~stream.loses PROVE h.frame_num = Succ(s.prev_ref_frame_num)
    OBVIOUS
  <2>1. h.frame_num = (encoder_frame_num + 1) % MaxFrameNum
    BY DEF HeaderOf
  <2>2. s.prev_ref_frame_num = encoder_frame_num
    BY <1>4, <1>10 DEF InStep
  <2>3. QED BY <1>2, <1>11, <2>1, <2>2, GapNumbers
<1>14. ~h.idr /\ InStep => h.frame_num # s.prev_ref_frame_num
  <2> SUFFICES ASSUME ~h.idr, InStep PROVE h.frame_num # s.prev_ref_frame_num
    OBVIOUS
  <2>1. PICK skip \in Skips : h.frame_num = (encoder_frame_num + 1 + skip) % MaxFrameNum
    BY DEF Follower
  <2>2. (encoder_frame_num + 1 + skip) % MaxFrameNum # encoder_frame_num
    BY <1>2, SkipsDoNotGoRound
  <2>3. QED BY <1>4, <1>10, <2>1, <2>2
<1> DEFINE last == IF h.ref THEN Pred(h.frame_num) ELSE r.prev_ref_frame_num
<1>15. LastReference' = last
  BY <1>1, <1>3, <1>8 DEF LastReference
<1> HIDE DEF r, cur
<1>16. InStep' => Ranked(r.dpb, last)
  <2> SUFFICES ASSUME InStep' PROVE Ranked(r.dpb, last)
    OBVIOUS
  <2>1. CASE h.idr
    BY <1>5, <2>1, NoReferences
  <2>2. CASE ~h.idr
    <3>1. Ranked(r.dpb, Pred(h.frame_num))
      BY <1>4, <1>7, <1>12, <1>14, <2>2
    <3>2. ~h.ref => Pred(h.frame_num) = r.prev_ref_frame_num
      <4>1. h.frame_num = Succ(s.prev_ref_frame_num) =>
              Pred(h.frame_num) = s.prev_ref_frame_num
        BY <1>2, <1>11, GapNumbers
      <4>2. QED BY <1>2, <1>5, <1>12, <1>13, <2>2, <4>1
    <3>3. QED BY <3>1, <3>2
  <2>3. QED BY <1>2, <2>1, <2>2
<1> DEFINE F == {n \in 1..N : sent'[n].ref /\ sent'[n].seq = Sequence'}
<1>17. ReferencesUpTo(Done)' = F
  BY <1>1 DEF ReferencesUpTo
<1>18. ~stream.loses => HoldsNewest(r.dpb, F, Window)
  <2> SUFFICES ASSUME ~stream.loses PROVE HoldsNewest(r.dpb, F, Window)
    OBVIOUS
  <2>1. CASE h.idr
    <3>1. Sequence' = Sequence + 1
      BY <1>9, <2>1 DEF Renews
    <3>2. ASSUME NEW n \in 1..N PROVE sent[n].seq # Sequence + 1
      <4>1. sent # <<>> /\ N \in 1..N /\ n <= N
        <5>1. sent # <<>>
          BY <1>1, <3>2
        <5>2. QED BY <1>1, <5>1
      <4>2. sent[n].seq <= sent[N].seq
        BY <3>2, <4>1 DEF InvOrder, InOrder
      <4>3. Sequence = sent[N].seq /\ sent[n].seq \in Nat /\ Sequence \in Nat
        BY <1>2, <4>1, SequenceType
      <4>4. QED BY <4>2, <4>3
    <3>3. F = {}
      BY <1>9, <3>1, <3>2
    <3>4. \A size : HoldsNewest(r.dpb, {}, size)
      BY <1>5, <2>1, NoReferences
    <3>5. QED BY <3>3, <3>4
  <2>2. CASE ~h.idr
    <3>1. Sequence' = Sequence
      BY <1>9, <1>10, <2>2
    <3>2. F = ReferencesUpTo(N)
      BY <1>9, <3>1 DEF ReferencesUpTo
    <3>3. HoldsNewest(s.dpb, ReferencesUpTo(N), Window)
      BY <1>4, <1>10, <2>2
    <3>4. Retains(s.dpb, r.dpb) /\ References(r.dpb) = References(s.dpb)
      BY <1>7, <1>13, <2>2
    <3> HIDE DEF F, N
    <3>5. HoldsNewest(r.dpb, ReferencesUpTo(N), Window)
      BY <1>11, <3>3, <3>4, RetainedAll
    <3>6. QED BY <3>2, <3>5
  <2>3. QED BY <1>2, <2>1, <2>2
<1> HIDE DEF F, last
<1>19. Ranked(dpb, LastReference)' = Ranked(r.dpb, last)
  BY <1>3, <1>15
<1>20. HoldsNewest(dpb, ReferencesUpTo(Done), Window)' = HoldsNewest(r.dpb, F, Window)
  BY <1>3, <1>11, <1>17
<1>21. QED BY <1>1, <1>16, <1>18, <1>19, <1>20 DEF InvWindow

LEMMA InitReferences == Init => InvLong /\ InvWindow
<1> SUFFICES ASSUME Init PROVE InvLong /\ InvWindow
  OBVIOUS
<1>1. /\ stream \in Streams /\ current_pic = NoPicture /\ seeking = TRUE
      /\ dpb = EmptyDpb(sps.max_num_pics, sps.max_num_reorder_frames)
  BY DEF Init
<1>2. DOMAIN dpb.entries = {}
  BY <1>1, Parameters, EmptyDpbFacts
<1>3. /\ NumRefFrames(dpb) = 0 /\ LongUnique(dpb)
      /\ \A last : Ranked(dpb, last)
  BY <1>2, NoReferences
<1>4. Window \in Nat
  BY <1>1, Parameters DEF Window
<1>5. CurrentMarked /\ EncoderCounts
  BY <1>1 DEF CurrentMarked, EncoderCounts
<1>6. InvLong
  BY <1>3, <1>4, <1>5 DEF InvLong
<1>7. InvWindow
  BY <1>1, <1>3 DEF InvWindow
<1>8. QED BY <1>6, <1>7

(* What a flush leaves.                                                    *)
LEMMA FlushedReferences ==
  ASSUME InvBase, outcome = "Ok", NEW s, s = Finished, Going(s), NEW r, r = DrainAll(s)
  PROVE  /\ NumRefFrames(r.dpb) = 0 /\ LongUnique(r.dpb)
         /\ \A last : Ranked(r.dpb, last)
<1>1. Account(s, Rest, Len(sent)) /\ Len(sent) \in Nat
  BY FinishedFacts, DoneFacts
<1>2. DOMAIN r.dpb.entries = {}
  BY <1>1, DrainedSession
<1>3. QED BY <1>2, NoReferences

LEMMA NextReferences ==
  ASSUME InvBase, InvLong, [Next]_vars
  PROVE  /\ InvLong'
         /\ NumbersSuffice /\ InvOrder /\ InvWindow => InvWindow'
<1> DEFINE Held == NumbersSuffice /\ InvOrder /\ InvWindow
<1>1. CASE Next
  <2> DEFINE s == Finished
  <2>1. \/ \E h \in IdrHeaders \cup NextHeaders(s) :
             DecodePicture(s, h) \/ NoOutputBuffer(s, h) \/ GapFails(s, h)
        \/ FinishFails(s)
        \/ Flush(s)
    BY <1>1 DEF Next
  <2> HIDE DEF s
  <2>2. s = Finished
    BY DEF s
  <2>3. /\ outcome = "Ok" /\ stream' = stream
    BY <2>1 DEF DecodePicture, NoOutputBuffer, GapFails, FinishFails, Flush, Running
  <2>4. /\ stream \in Streams /\ encoder_frame_num \in 0..(MaxFrameNum - 1) /\ Len(sent) \in Nat
        /\ Window \in Nat
    BY Parameters DEF InvBase, StateTypes, Window
  <2>5. ASSUME NEW h \in IdrHeaders \cup NextHeaders(s), DecodePicture(s, h)
        PROVE  InvLong' /\ (Held => InvWindow')
    <3>1. Going(s)
      BY <2>5 DEF DecodePicture, Going
    <3>2. Sound(s.dpb, Len(sent))
      BY <2>2, <2>3, <3>1, FinishedFacts DEF Account
    <3>3. HeaderOf(h) /\ Follower(h)
      BY <2>4, <3>2, HeadersOfStream, HeadersFollow
    <3>4. InvLong'
      BY <2>2, <2>3, <2>5, <3>1, <3>3, DecodeLong
    <3>5. CASE stream.adaptive
      BY <2>3, <3>4, <3>5 DEF InvWindow
    <3>6. CASE ~stream.adaptive
      <4>1. Held => InvWindow'
        BY <2>2, <2>3, <2>5, <3>1, <3>3, <3>6, DecodeWindow
      <4>2. QED BY <3>4, <4>1
    <3>7. QED BY <3>5, <3>6
  <2>6. ASSUME NEW h \in IdrHeaders \cup NextHeaders(s), NoOutputBuffer(s, h)
        PROVE  InvLong' /\ (Held => InvWindow')
    <3>1. /\ Going(s) /\ dpb' = s.dpb /\ prev_ref_frame_num' = s.prev_ref_frame_num
          /\ current_pic' = NoPicture /\ seeking' = seeking
          /\ UNCHANGED <<stream, sent, encoder_frame_num>>
      BY <2>6 DEF NoOutputBuffer, Going, Keep
    <3>2. /\ LongUnique(s.dpb)
          /\ ~(stream.adaptive /\ stream.loses) => NumRefFrames(s.dpb) <= Window
          /\ InStep /\ ~seeking => s.prev_ref_frame_num = encoder_frame_num
      BY <2>2, <2>3, <3>1, FinishedKeepsLong
    <3>3. InvLong'
      BY <3>1, <3>2, EndsLong
    <3>4. ASSUME Held PROVE InvWindow'
      <4>1. /\ ~stream.adaptive /\ InStep => Ranked(s.dpb, s.prev_ref_frame_num)
            /\ ~stream.adaptive /\ ~stream.loses /\ ~seeking =>
                 HoldsNewest(s.dpb, ReferencesUpTo(Len(sent)), Window)
        BY <2>2, <2>3, <3>4, FinishedKeepsWindow
      <4>2. QED BY <3>1, <4>1, EndsWindow
    <3>5. QED BY <3>3, <3>4
  <2>7. ASSUME outcome' = "Error" PROVE InvLong' /\ (Held => InvWindow')
    BY <2>7 DEF InvLong, InvWindow
  <2>8. ASSUME Flush(s) PROVE InvLong' /\ (Held => InvWindow')
    <3> DEFINE r == DrainAll(s)
    <3>1. /\ Going(s) /\ dpb' = r.dpb /\ prev_ref_frame_num' = r.prev_ref_frame_num
          /\ current_pic' = NoPicture /\ seeking' = TRUE
          /\ UNCHANGED <<stream, sent, encoder_frame_num>>
      BY <2>8 DEF Flush, Going, Keep
    <3>2. r = DrainAll(s)
      OBVIOUS
    <3> HIDE DEF r
    <3>3. /\ NumRefFrames(r.dpb) = 0 /\ LongUnique(r.dpb)
          /\ \A last : Ranked(r.dpb, last)
      BY <2>2, <2>3, <3>1, <3>2, FlushedReferences
    <3>4. 0 <= Window
      BY <2>4
    <3>5. InvLong'
      BY <3>1, <3>3, <3>4, EndsLong
    <3>6. InvWindow'
      BY <3>1, <3>3, EndsWindow
    <3>7. QED BY <3>5, <3>6
  <2>9. (\E h \in IdrHeaders \cup NextHeaders(s) : GapFails(s, h)) \/ FinishFails(s) => outcome' = "Error"
    BY DEF GapFails, FinishFails
  <2> HIDE DEF Held
  <2>10. InvLong' /\ (Held => InvWindow')
    BY <2>1, <2>5, <2>6, <2>7, <2>8, <2>9
  <2>11. QED BY <2>10 DEF Held
<1>2. CASE UNCHANGED vars
  <2>1. /\ dpb' = dpb /\ current_pic' = current_pic /\ prev_ref_frame_num' = prev_ref_frame_num
        /\ outcome' = outcome /\ stream' = stream /\ sent' = sent
        /\ encoder_frame_num' = encoder_frame_num /\ seeking' = seeking
    BY <1>2 DEF vars, codec_vars, stream_vars
  <2>2. sps' = sps /\ Done' = Done /\ Sequence' = Sequence /\ Window' = Window
        /\ (InStep' <=> InStep) /\ LastReference' = LastReference
    BY <2>1 DEF sps, Done, Sequence, Window, InStep, AllRefs, LastReference
  <2>3. MarkedFor(dpb, current_pic)' = MarkedFor(dpb, current_pic)
    BY <2>1, <2>2 DEF MarkedFor
  <2>4. (CurrentMarked' <=> CurrentMarked) /\ (EncoderCounts' <=> EncoderCounts)
    <3>1. CurrentMarked' <=> CurrentMarked
      BY <2>1, <2>2, <2>3 DEF CurrentMarked
    <3>2. EncoderCounts' <=> EncoderCounts
      BY <2>1, <2>2 DEF EncoderCounts
    <3>3. QED BY <3>1, <3>2
  <2>5. ReferencesUpTo(Done)' = ReferencesUpTo(Done)
    BY <2>1, <2>2 DEF ReferencesUpTo
  <2>6. LongUnique(dpb)' <=> LongUnique(dpb)
    BY <2>1
  <2>7. InvLong'
    BY <2>1, <2>2, <2>4, <2>6 DEF InvLong
  <2>8. /\ Ranked(dpb, LastReference)' <=> Ranked(dpb, LastReference)
        /\ HoldsNewest(dpb, ReferencesUpTo(Done), Window)' <=> HoldsNewest(dpb, ReferencesUpTo(Done), Window)
    BY <2>1, <2>2, <2>5
  <2>9. InvWindow' <=> InvWindow
    BY <2>1, <2>2, <2>8 DEF InvWindow
  <2>10. QED BY <2>7, <2>9
<1>3. QED BY <1>1, <1>2

(* There are never more references than the stream declares, no two of the *)
(* same long-term index, and every reference has the pic_num its frame     *)
(* number gives it (mmco_op_1 to mmco_op_6, update_pic_nums).              *)
THEOREM LongTermsHold == Spec => []InvLong
<1>1. InvBase /\ InvLong /\ [Next]_vars => InvLong'
  BY NextReferences
<1>2. Init => InvLong
  BY InitReferences
<1>3. QED BY <1>1, <1>2, InvariantHolds, PTL DEF Spec

(* Without memory management operations the references are the newest, in  *)
(* a row (sliding_window_marking, handle_frame_num_gap).                   *)
THEOREM WindowHolds ==
  ASSUME NumbersSuffice
  PROVE  Spec => []InvWindow
<1>1. InvBase /\ InvOrder /\ InvLong /\ InvWindow /\ [Next]_vars => InvWindow'
  BY NextReferences
<1>2. Init => InvWindow
  BY InitReferences
<1>3. QED BY <1>1, <1>2, InvariantHolds, OrderHolds, LongTermsHold, PTL DEF Spec

-----------------------------------------------------------------------------
(* What it says of the references.                                         *)

LEMMA HeldAreNewest ==
  ASSUME NEW d, IsBuffer(d), NEW N \in Nat, NEW F \in SUBSET (1..N), NEW size \in Nat,
         HoldsNewest(d, F, size), NumRefFrames(d) <= size
  PROVE  {d.entries[i].n : i \in References(d)}
           = {n \in F : Cardinality({m \in F : m >= n}) <= size}
<1> DEFINE S == References(d)
           number == [i \in S |-> d.entries[i].n]
           H == {d.entries[i].n : i \in S}
           Since(n) == {m \in F : m >= n}
<1>1. /\ IsFiniteSet(S) /\ S \subseteq Nat /\ NumRefFrames(d) \in Nat
      /\ \A i \in S : d.entries[i].n \in Nat
  BY ReferenceFacts
<1>2. Cardinality(S) = NumRefFrames(d)
  BY DEF NumRefFrames
<1>3. \A n : n \in H <=> Holds(d, n)
  BY DEF Holds
<1>4. /\ \A i \in S : d.entries[i].n \in F
      /\ \A i, j \in S : i < j => d.entries[i].n < d.entries[j].n
      /\ \A i \in S : \A n \in F : d.entries[i].n <= n => Holds(d, n)
      /\ Cardinality(S) < size => \A n \in F : Holds(d, n)
  BY <1>2 DEF HoldsNewest
<1> HIDE DEF S
<1>5. \A i, j \in S : i # j => d.entries[i].n # d.entries[j].n
  BY <1>1, <1>4
<1>6. IsFiniteSet(H) /\ Cardinality(H) = Cardinality(S)
  <2>1. number \in [S -> H] /\ (\A i, j \in S : i # j => number[i] # number[j])
        /\ \A n \in H : \E i \in S : number[i] = n
    BY <1>5
  <2> HIDE DEF number, H
  <2>2. number \in Surjection(S, H)
    BY <2>1 DEF Surjection
  <2>3. number \in Injection(S, H)
    BY <2>1 DEF Injection, IsInjective
  <2>4. QED BY <1>1, <2>2, <2>3, FS_Surjection
<1>7. /\ IsFiniteSet(F)
      /\ \A n : IsFiniteSet(Since(n)) /\ Cardinality(Since(n)) \in Nat
  <2>1. IsFiniteSet(1..N)
    BY FS_Interval
  <2>2. IsFiniteSet(F)
    BY <2>1, FS_Subset
  <2>3. \A n : Since(n) \in SUBSET F
    OBVIOUS
  <2> HIDE DEF Since
  <2>4. QED BY <2>2, <2>3, FS_Subset, FS_CardinalityType
<1>8. ASSUME NEW n \in H PROVE n \in F /\ Cardinality(Since(n)) <= size
  <2>1. Since(n) \in SUBSET H
    BY <1>3, <1>4, <1>8
  <2> HIDE DEF Since, H
  <2>2. Cardinality(Since(n)) <= Cardinality(H)
    BY <1>6, <2>1, FS_Subset
  <2>3. n \in F
    BY <1>4, <1>8 DEF H
  <2>4. QED BY <1>1, <1>2, <1>6, <1>7, <2>2, <2>3
<1>9. ASSUME NEW n \in F, Cardinality(Since(n)) <= size PROVE n \in H
  <2> SUFFICES ASSUME n \notin H PROVE FALSE
    OBVIOUS
  <2>1. n \in Nat /\ F \subseteq Nat
    OBVIOUS
  <2>2. ~Holds(d, n)
    BY <1>3
  <2>3. Cardinality(S) = size
    BY <1>1, <1>2, <1>4, <2>2
  <2>4. \A m \in H : m \in F /\ m > n
    BY <1>1, <1>4, <2>1, <2>2
  <2> HIDE DEF H
  <2>5. H \cup {n} \in SUBSET Since(n)
    <3>1. n \in F /\ n >= n
      BY <1>9, <2>1
    <3>2. ASSUME NEW m \in H PROVE m \in F /\ m >= n
      <4>1. m \in F /\ m > n
        BY <2>4, <3>2
      <4>2. m \in Nat
        BY <2>1, <4>1
      <4>3. QED BY <2>1, <4>1, <4>2
    <3>3. QED BY <3>1, <3>2
  <2> HIDE DEF Since
  <2>6. Cardinality(H \cup {n}) = Cardinality(H) + 1
    BY <1>6, FS_AddElement
  <2>7. Cardinality(H \cup {n}) <= Cardinality(Since(n))
    BY <1>7, <2>5, FS_Subset
  <2>8. QED BY <1>6, <1>7, <1>9, <2>3, <2>6, <2>7
<1> HIDE DEF Since, H
<1>10. H = {n \in F : Cardinality(Since(n)) <= size}
  BY <1>8, <1>9
<1>11. QED BY <1>10 DEF H, Since, S

LEMMA NewestAreHeld ==
  ASSUME InvBase, InvWindow
  PROVE  WindowHoldsNewest
<1> SUFFICES ASSUME ~stream.adaptive, ~stream.loses, ~seeking PROVE WindowHoldsNewest
  BY DEF WindowHoldsNewest
<1> DEFINE F == ReferencesUpTo(Done)
           finished == {n \in 1..Len(sent) : sent[n].ref /\ sent[n].seq = Sequence /\ ~IsCurrent(n)}
           newest == {n \in finished : Cardinality({m \in finished : m >= n}) <= Window}
<1>1. /\ StateTypes /\ stream \in Streams
      /\ outcome \in {"Ok", "Error"} /\ RoomIsMadeBySliding
  BY DEF InvBase, StateTypes
<1>2. outcome = "Ok"
  BY <1>1 DEF RoomIsMadeBySliding, RoomIsMade
<1>3. Tidy(dpb) /\ Sound(dpb, Done) /\ CurrentBegun
  BY <1>2 DEF InvBase, Accounted
<1>4. HoldsNewest(dpb, F, Window)
  BY <1>2 DEF InvWindow
<1>5. /\ Len(sent) \in Nat /\ Done \in Nat
      /\ current_pic = NoPicture => Done = Len(sent)
      /\ current_pic # NoPicture => Done + 1 = Len(sent)
  BY <1>2, DoneFacts
<1>6. current_pic # NoPicture => current_pic.pic.n = Done + 1
  BY <1>3 DEF CurrentBegun, Begun
<1>7. \A n : n \in 1..Len(sent) /\ ~IsCurrent(n) <=> n \in 1..Done
  BY <1>5, <1>6 DEF IsCurrent
<1>8. finished = F
  BY <1>7 DEF ReferencesUpTo
<1>9. F \in SUBSET (1..Done)
  BY DEF ReferencesUpTo
<1>10. Window \in Nat /\ NumRefFrames(dpb) <= Window /\ IsBuffer(dpb)
  BY <1>1, <1>3, Parameters DEF Window, Tidy, Sound
<1> HIDE DEF F, finished
<1>11. {dpb.entries[i].n : i \in References(dpb)} = {n \in F : Cardinality({m \in F : m >= n}) <= Window}
  <2> DEFINE done == Done
  <2>1. done \in Nat /\ F \in SUBSET (1..done)
    BY <1>5, <1>9
  <2> HIDE DEF done
  <2>2. QED BY <1>4, <1>10, <2>1, HeldAreNewest
<1>12. {dpb.entries[i].n : i \in References(dpb)} = newest
  BY <1>8, <1>11
<1>13. QED BY <1>12 DEF WindowHoldsNewest, newest, finished

LEMMA NumberOfAge ==
  ASSUME NEW last \in 0..(MaxFrameNum - 1), NEW from \in Int,
         from = last \/ (from = -1 /\ last = MaxFrameNum - 1),
         NEW f \in 0..(MaxFrameNum - 1), NEW k \in 0..(MaxFrameNum - 1)
  PROVE  (from - k) % MaxFrameNum = f <=> Distance(last, f) = k
<1>1. MaxFrameNum \in Nat /\ MaxFrameNum > 1
  BY MaxFrameNumType
<1>2. from - k \in Int /\ -MaxFrameNum <= from - k /\ from - k < 2 * MaxFrameNum
  BY <1>1
<1> DEFINE b == from - k
<1>3. b % MaxFrameNum = IF b < 0 THEN b + MaxFrameNum
                        ELSE IF b < MaxFrameNum THEN b ELSE b - MaxFrameNum
  <2> HIDE DEF b
  <2>1. QED BY <1>2, NearRounds DEF b
<1>4. (from - k) % MaxFrameNum = IF from - k < 0 THEN from - k + MaxFrameNum
                                 ELSE IF from - k < MaxFrameNum THEN from - k ELSE from - k - MaxFrameNum
  BY <1>3
<1>5. QED BY <1>1, <1>4 DEF Distance

LEMMA NumbersWithoutHole ==
  ASSUME NumbersSuffice, InvBase, InvLong, InvWindow
  PROVE  WindowHasNoHole
<1> DEFINE from == IF current_pic = NoPicture THEN prev_ref_frame_num
                                              ELSE current_pic.pic.frame_num - 1
           size == NumRefFrames(dpb)
           last == LastReference
<1> SUFFICES ASSUME ~stream.adaptive, outcome = "Ok", \A n \in 1..Len(sent) : sent[n].ref
             PROVE  /\ size <= Window
                    /\ {dpb.entries[i].frame_num : i \in References(dpb)}
                         = {(from - k) % MaxFrameNum : k \in 0..(size - 1)}
  BY DEF WindowHasNoHole
<1>1. /\ stream \in Streams /\ prev_ref_frame_num \in 0..(MaxFrameNum - 1)
      /\ Tidy(dpb) /\ IsBuffer(dpb) /\ CurrentBegun /\ CurrentMarked
      /\ MaxFrameNum \in Nat /\ MaxFrameNum > 1
  BY MaxFrameNumType DEF InvBase, InvLong, StateTypes, Sound
<1>2. InStep
  BY DEF InStep, AllRefs
<1>3. Ranked(dpb, last)
  BY <1>2 DEF InvWindow
<1>4. current_pic # NoPicture =>
        IsRef(current_pic.pic) /\ current_pic.pic.frame_num \in 0..(MaxFrameNum - 1)
  <2> SUFFICES ASSUME current_pic # NoPicture
               PROVE  IsRef(current_pic.pic) /\ current_pic.pic.frame_num \in 0..(MaxFrameNum - 1)
    OBVIOUS
  <2>1. Len(sent) \in Nat /\ Done \in Nat /\ Done + 1 = Len(sent)
    BY DoneFacts
  <2>2. Len(sent) \in 1..Len(sent)
    BY <2>1
  <2>3. sent[Len(sent)].ref <=> IsRef(current_pic.pic)
    BY <1>1 DEF CurrentMarked
  <2>4. current_pic.pic \in Picture
    BY <1>1 DEF CurrentBegun, Begun
  <2>5. QED BY <2>2, <2>3, <2>4 DEF Picture
<1>5. /\ last \in 0..(MaxFrameNum - 1) /\ from \in Int
      /\ from = last \/ (from = -1 /\ last = MaxFrameNum - 1)
  BY <1>1, <1>4 DEF LastReference, Pred
<1>6. size <= Window /\ size < MaxFrameNum /\ size \in Nat
  <2>1. NumRefFrames(dpb) <= Window /\ NumRefFrames(dpb) \in Nat
    BY <1>1, ReferenceFacts DEF Tidy
  <2>2. Window < MaxFrameNum /\ Window \in Nat
    BY <1>1, Parameters DEF Window, NumbersSuffice, sps
  <2>3. QED BY <1>1, <2>1, <2>2
<1>7. /\ \A i \in References(dpb) : dpb.entries[i].frame_num \in 0..(MaxFrameNum - 1)
      /\ \A i \in References(dpb) : Distance(last, dpb.entries[i].frame_num) < size
      /\ \A a \in 0..(size - 1) :
           \E i \in References(dpb) : Distance(last, dpb.entries[i].frame_num) = a
  BY <1>1, <1>3, ReferenceFacts DEF Ranked, Age
<1> HIDE DEF from, size, last
<1>8. \A f, k \in 0..(MaxFrameNum - 1) :
        (from - k) % MaxFrameNum = f <=> Distance(last, f) = k
  BY <1>5, NumberOfAge
<1>9. ASSUME NEW i \in References(dpb)
      PROVE  \E k \in 0..(size - 1) : dpb.entries[i].frame_num = (from - k) % MaxFrameNum
  <2> DEFINE f == dpb.entries[i].frame_num
             a == Distance(last, f)
  <2>1. f \in 0..(MaxFrameNum - 1) /\ a < size
    BY <1>7
  <2>2. a \in 0..(MaxFrameNum - 1)
    BY <1>5, <2>1, Ages
  <2>3. (from - a) % MaxFrameNum = f
    BY <1>8, <2>1, <2>2
  <2>4. a \in 0..(size - 1)
    BY <1>6, <2>1, <2>2
  <2>5. QED BY <2>3, <2>4
<1>10. ASSUME NEW k \in 0..(size - 1)
       PROVE  \E i \in References(dpb) : dpb.entries[i].frame_num = (from - k) % MaxFrameNum
  <2>1. PICK i \in References(dpb) : Distance(last, dpb.entries[i].frame_num) = k
    BY <1>7
  <2>2. k \in 0..(MaxFrameNum - 1)
    BY <1>1, <1>6
  <2>3. QED BY <1>7, <1>8, <2>1, <2>2
<1>11. QED BY <1>6, <1>9, <1>10

LEMMA IndicesDiffer ==
  ASSUME InvLong
  PROVE  LongTermIndicesDiffer
BY DEF InvLong, LongTermIndicesDiffer, LongUnique

(* The pictures marked as references are those the standard marks: without *)
(* memory management operations the newest, or, where pictures were lost,  *)
(* a row of frame numbers without a hole; with them, no more than the      *)
(* stream declares and no two of the same long-term index                  *)
(* (reference_pic_marking, sliding_window_marking, handle_frame_num_gap,   *)
(* mmco_op_1 to mmco_op_6).                                                *)
THEOREM ReferencesHold ==
  ASSUME NumbersSuffice
  PROVE  Spec => []ReferencesAsMarked
<1>1. InvBase /\ InvLong /\ InvWindow => ReferencesAsMarked
  BY NewestAreHeld, NumbersWithoutHole, IndicesDiffer DEF ReferencesAsMarked
<1>2. QED BY <1>1, InvariantHolds, LongTermsHold, WindowHolds, PTL
=============================================================================
