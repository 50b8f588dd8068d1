--------------------------- MODULE H265DecoderProofs ---------------------------
(***************************************************************************)
(* Theorems of H265Decoder, for every set of streams, any number of        *)
(* pictures and any limits of the decoded picture buffer.                  *)
(***************************************************************************)
EXTENDS H265Decoder, FiniteSetTheorems, SequenceTheorems, WellFoundedInduction, TLAPS

(* Induction over a number of rounds.                                      *)
LEMMA SetInduction ==
  ASSUME NEW S, 0 \in S, \A n \in Nat : n \in S => n + 1 \in S
  PROVE  \A n \in Nat : n \in S
<1> DEFINE R == OpToRel(<, Nat)
           T == Nat \ S
<1> SUFFICES ASSUME T # {} PROVE FALSE
  OBVIOUS
<1>1. IsWellFoundedOn(R, Nat)
  BY NatLessThanWellFounded
<1>2. \A m, n \in Nat : m < n => <<m, n>> \in R
  BY DEF OpToRel
<1>3. T \in SUBSET Nat /\ T # {}
  OBVIOUS
<1> HIDE DEF R
<1>4. PICK n \in T : \A m \in T : ~ (<<m, n>> \in R)
  <2> HIDE DEF T
  <2>1. QED BY <1>1, <1>3, WFMin
<1>5. n \in Nat /\ n # 0 /\ n \notin S
  BY <1>4
<1>6. n - 1 \in Nat /\ (n - 1) + 1 = n /\ n - 1 < n
  BY <1>5
<1>7. n - 1 \in S
  BY <1>2, <1>4, <1>5, <1>6
<1>8. QED BY <1>5, <1>6, <1>7

(* A finite set of integers has a least and a greatest.                    *)
LEMMA Extremes ==
  ASSUME NEW S \in SUBSET Int, IsFiniteSet(S), S # {}
  PROVE  /\ Min(S) \in S /\ \A y \in S : Min(S) <= y
         /\ Max(S) \in S /\ \A y \in S : y <= Max(S)
<1> DEFINE Has(T) == /\ \E x \in T : \A y \in T : x <= y
                     /\ \E x \in T : \A y \in T : x >= y
           P == {n \in Nat : \A T \in SUBSET Int :
                   IsFiniteSet(T) /\ Cardinality(T) = n + 1 => Has(T)}
<1>1. 0 \in P
  <2> SUFFICES ASSUME NEW T \in SUBSET Int, IsFiniteSet(T), Cardinality(T) = 1
               PROVE  Has(T)
    OBVIOUS
  <2>1. PICK i : T = {i}
    BY FS_Singleton
  <2>2. i \in Int /\ i <= i /\ i >= i
    BY <2>1
  <2>3. QED BY <2>1, <2>2
<1>2. \A n \in Nat : n \in P => n + 1 \in P
  <2> SUFFICES ASSUME NEW n \in Nat, n \in P,
                      NEW T \in SUBSET Int, IsFiniteSet(T), Cardinality(T) = n + 2
               PROVE  Has(T)
    OBVIOUS
  <2>1. T # {}
    BY FS_EmptySet
  <2>2. PICK x : x \in T
    BY <2>1
  <2>3. IsFiniteSet(T \ {x}) /\ Cardinality(T \ {x}) = n + 1
    BY <2>2, FS_RemoveElement
  <2>4. Has(T \ {x})
    BY <2>3
  <2>5. PICK i \in T \ {x} : \A y \in T \ {x} : i <= y
    BY <2>4
  <2>6. PICK j \in T \ {x} : \A y \in T \ {x} : j >= y
    BY <2>4
  <2>7. i \in Int /\ j \in Int /\ x \in Int /\ \A y \in T : y \in Int
    BY <2>2, <2>5, <2>6
  <2>8. \E z \in T : \A y \in T : z <= y
    <3>1. CASE i <= x
      BY <2>5, <2>7, <3>1
    <3>2. CASE x <= i
      <4>1. \A y \in T : x <= y
        BY <2>5, <2>7, <3>2
      <4>2. QED BY <2>2, <4>1
    <3>3. QED BY <2>7, <3>1, <3>2
  <2>9. \E z \in T : \A y \in T : z >= y
    <3>1. CASE j >= x
      BY <2>6, <2>7, <3>1
    <3>2. CASE x >= j
      <4>1. \A y \in T : x >= y
        BY <2>6, <2>7, <3>2
      <4>2. QED BY <2>2, <4>1
    <3>3. QED BY <2>7, <3>1, <3>2
  <2>10. QED BY <2>8, <2>9
<1> HIDE DEF P
<1>3. \A n \in Nat : n \in P
  BY <1>1, <1>2, SetInduction
<1>4. Cardinality(S) \in Nat /\ Cardinality(S) # 0
  BY FS_CardinalityType, FS_EmptySet
<1>5. Cardinality(S) - 1 \in Nat /\ Cardinality(S) = (Cardinality(S) - 1) + 1
  BY <1>4
<1>6. Has(S)
  BY <1>3, <1>5 DEF P
<1>7. Min(S) \in S /\ \A y \in S : Min(S) <= y
  BY <1>6 DEF Min
<1>8. Max(S) \in S /\ \A y \in S : Max(S) >= y
  BY <1>6 DEF Max
<1>9. QED BY <1>7, <1>8

(* The range of a function with a finite domain is finite.                 *)
LEMMA FiniteRange ==
  ASSUME NEW D, IsFiniteSet(D), NEW f, f = [x \in D |-> f[x]]
  PROVE  /\ IsFiniteSet({f[x] : x \in D}) /\ Cardinality({f[x] : x \in D}) <= Cardinality(D)
         /\ Range(f) = {f[x] : x \in D}
<1> DEFINE T == {f[x] : x \in D}
<1>1. DOMAIN f = D
  OBVIOUS
<1>2. f \in [D -> T]
  OBVIOUS
<1>3. f \in Surjection(D, T)
  BY <1>2 DEF Surjection
<1>4. Range(f) = T
  BY <1>1 DEF Range
<1> HIDE DEF T
<1>5. IsFiniteSet(T) /\ Cardinality(T) <= Cardinality(D)
  BY <1>3, FS_Surjection
<1>6. QED BY <1>4, <1>5 DEF T

-----------------------------------------------------------------------------
(* A decoded picture buffer as a value.                                    *)

IsBuffer(d) ==
  /\ d = [entries |-> d.entries, max_num_pics |-> d.max_num_pics]
  /\ d.max_num_pics \in Nat
  /\ DOMAIN d.entries \subseteq Nat \ {0}
  /\ IsFiniteSet(DOMAIN d.entries)
  /\ d.entries \in [DOMAIN d.entries -> Picture]

LEMMA PlaceSets ==
  ASSUME NEW d
  PROVE  /\ \A i : i \in Waiting(d) <=> i \in DOMAIN d.entries /\ d.entries[i].needed_for_output
         /\ \A i : i \in References(d) <=> i \in DOMAIN d.entries /\ d.entries[i].reference # "None"
  BY DEF Waiting, References, At, IsRef

LEMMA PlacesFinite ==
  ASSUME NEW d, IsBuffer(d)
  PROVE  /\ DOMAIN d.entries \in SUBSET Nat
         /\ \A S \in SUBSET DOMAIN d.entries : IsFiniteSet(S) /\ Cardinality(S) \in Nat
         /\ Waiting(d) \in SUBSET DOMAIN d.entries
         /\ IsFiniteSet(Waiting(d)) /\ Cardinality(Waiting(d)) \in Nat
         /\ Fullness(d) \in Nat
<1>1. \A S \in SUBSET DOMAIN d.entries : IsFiniteSet(S) /\ Cardinality(S) \in Nat
  BY FS_Subset, FS_CardinalityType DEF IsBuffer
<1>2. Waiting(d) \in SUBSET DOMAIN d.entries
  BY PlaceSets
<1>3. QED BY <1>1, <1>2 DEF IsBuffer, Fullness

LEMMA EmptyFacts ==
  ASSUME NEW m \in Nat, NEW e, e = EmptyDpb(m)
  PROVE  /\ IsBuffer(e) /\ e.max_num_pics = m
         /\ DOMAIN e.entries = {} /\ Waiting(e) = {} /\ References(e) = {}
         /\ Fullness(e) = 0
<1>1. e = [entries |-> <<>>, max_num_pics |-> m] /\ DOMAIN e.entries = {}
  BY DEF EmptyDpb
<1>2. IsFiniteSet(DOMAIN e.entries) /\ Fullness(e) = 0
  BY <1>1, FS_EmptySet DEF Fullness
<1>3. e.entries \in [{} -> Picture]
  BY <1>1
<1>4. Waiting(e) = {} /\ References(e) = {}
  BY <1>1, PlaceSets
<1>5. QED BY <1>1, <1>2, <1>3, <1>4 DEF IsBuffer

(* The buffers that a pass over the entries makes of d.                    *)
LEMMA ChangedBuffer ==
  ASSUME NEW d, IsBuffer(d), NEW S \in SUBSET DOMAIN d.entries, NEW f \in [S -> Picture],
         NEW e, e = [d EXCEPT !.entries = f]
  PROVE  IsBuffer(e) /\ e.max_num_pics = d.max_num_pics /\ DOMAIN e.entries = S /\ e.entries = f
<1>1. IsFiniteSet(S)
  BY PlacesFinite
<1>2. e.entries = f /\ e = [entries |-> f, max_num_pics |-> d.max_num_pics]
  BY DEF IsBuffer
<1>3. QED BY <1>1, <1>2 DEF IsBuffer

LEMMA RemoveUnusedFacts ==
  ASSUME NEW d, IsBuffer(d), NEW e, e = RemoveUnused(d)
  PROVE  /\ IsBuffer(e)
         /\ e.max_num_pics = d.max_num_pics
         /\ DOMAIN e.entries = References(d) \cup Waiting(d)
         /\ \A i \in DOMAIN e.entries : e.entries[i] = d.entries[i]
         /\ References(e) = References(d) /\ Waiting(e) = Waiting(d)
<1> DEFINE kept == {i \in DOMAIN d.entries : d.entries[i].needed_for_output \/ IsRef(d.entries[i])}
           f == [i \in kept |-> d.entries[i]]
<1>1. e = [d EXCEPT !.entries = f]
  BY DEF RemoveUnused, RestrictValues, Restrict
<1>2. kept = References(d) \cup Waiting(d)
  BY PlaceSets DEF IsRef
<1>3. kept \in SUBSET DOMAIN d.entries /\ f \in [kept -> Picture]
  BY DEF IsBuffer
<1>4. IsBuffer(e) /\ e.max_num_pics = d.max_num_pics /\ DOMAIN e.entries = kept /\ e.entries = f
  <2> HIDE DEF kept, f
  <2> QED
  BY <1>1, <1>3, ChangedBuffer
<1>5. \A i \in DOMAIN e.entries : e.entries[i] = d.entries[i]
  BY <1>4
<1>6. \A i : i \in References(e) <=> i \in References(d)
  BY <1>2, <1>4, <1>5, PlaceSets
<1>7. \A i : i \in Waiting(e) <=> i \in Waiting(d)
  BY <1>2, <1>4, <1>5, PlaceSets
<1>8. QED BY <1>2, <1>4, <1>5, <1>6, <1>7

LEMMA StorePictureFacts ==
  ASSUME NEW d, IsBuffer(d), NEW pic \in Picture, pic.n # 0, pic.n \notin DOMAIN d.entries,
         NEW e, e = StorePicture(d, pic)
  PROVE  /\ IsBuffer(e)
         /\ e.max_num_pics = d.max_num_pics
         /\ DOMAIN e.entries = DOMAIN d.entries \cup {pic.n}
         /\ \A i \in DOMAIN d.entries :
              /\ e.entries[i].poc = d.entries[i].poc
              /\ e.entries[i].pic_latency_cnt = d.entries[i].pic_latency_cnt + 1
              /\ i # pic.n
         /\ e.entries[pic.n].poc = pic.poc
         /\ e.entries[pic.n].pic_latency_cnt = pic.pic_latency_cnt
         /\ Waiting(e) = Waiting(d) \cup (IF pic.pic_output_flag THEN {pic.n} ELSE {})
         /\ References(e) = References(d) \cup {pic.n}
         /\ Fullness(e) = Fullness(d) + 1
<1> DEFINE D == DOMAIN d.entries \cup {pic.n}
           Later(p) == [p EXCEPT !.pic_latency_cnt = p.pic_latency_cnt + 1]
           new == [pic EXCEPT !.needed_for_output = pic.pic_output_flag, !.reference = "ShortTerm"]
           f == [i \in D |-> IF i = pic.n THEN new ELSE Later(d.entries[i])]
<1>1. e = [d EXCEPT !.entries = f]
  BY DEF StorePicture
<1>2. new \in Picture /\ new.needed_for_output = pic.pic_output_flag /\ new.reference = "ShortTerm"
      /\ new.poc = pic.poc /\ new.pic_latency_cnt = pic.pic_latency_cnt
  BY DEF Picture
<1>3. \A i \in DOMAIN d.entries : Later(d.entries[i]) \in Picture
  <2> SUFFICES ASSUME NEW i \in DOMAIN d.entries
               PROVE  Later(d.entries[i]) \in Picture
    OBVIOUS
  <2>1. d.entries[i] \in Picture
    BY DEF IsBuffer
  <2>2. d.entries[i].pic_latency_cnt + 1 \in Nat
    BY <2>1 DEF Picture
  <2>3. QED BY <2>1, <2>2 DEF Picture
<1> HIDE DEF new
<1>4. f \in [D -> Picture]
  BY <1>2, <1>3
<1>5. pic.n \in Nat \ {0} /\ IsFiniteSet(D) /\ Cardinality(D) = Cardinality(DOMAIN d.entries) + 1
  BY FS_AddElement DEF IsBuffer, Picture
<1>6. /\ e = [entries |-> f, max_num_pics |-> d.max_num_pics] /\ e.entries = f
      /\ e.max_num_pics = d.max_num_pics /\ DOMAIN e.entries = D
  BY <1>1 DEF IsBuffer
<1>7. IsBuffer(e)
  BY <1>4, <1>5, <1>6 DEF IsBuffer
<1>8. /\ \A i \in DOMAIN d.entries :
           /\ e.entries[i] = [d.entries[i] EXCEPT !.pic_latency_cnt = d.entries[i].pic_latency_cnt + 1]
           /\ i # pic.n
      /\ e.entries[pic.n] = new
  BY <1>6
<1>9. \A i \in DOMAIN d.entries : /\ e.entries[i].needed_for_output = d.entries[i].needed_for_output
                                  /\ e.entries[i].reference = d.entries[i].reference
                                  /\ e.entries[i].poc = d.entries[i].poc
                                  /\ e.entries[i].pic_latency_cnt = d.entries[i].pic_latency_cnt + 1
  <2> SUFFICES ASSUME NEW i \in DOMAIN d.entries
               PROVE  /\ e.entries[i].needed_for_output = d.entries[i].needed_for_output
                      /\ e.entries[i].reference = d.entries[i].reference
                      /\ e.entries[i].poc = d.entries[i].poc
                      /\ e.entries[i].pic_latency_cnt = d.entries[i].pic_latency_cnt + 1
    OBVIOUS
  <2>1. d.entries[i] \in Picture
    BY DEF IsBuffer
  <2>2. QED BY <1>8, <2>1 DEF Picture
<1> HIDE DEF f
<1>10. \A i : i \in Waiting(e) <=> i \in Waiting(d) \cup (IF pic.pic_output_flag THEN {pic.n} ELSE {})
  BY <1>2, <1>6, <1>8, <1>9, PlaceSets
<1>11. \A i : i \in References(e) <=> i \in References(d) \cup {pic.n}
  BY <1>2, <1>6, <1>8, <1>9, PlaceSets
<1>12. Fullness(e) = Fullness(d) + 1
  BY <1>5, <1>6 DEF Fullness
<1>13. QED BY <1>2, <1>6, <1>7, <1>8, <1>9, <1>10, <1>11, <1>12

-----------------------------------------------------------------------------
(* Bumping.                                                                *)

LEMMA Appended ==
  ASSUME NEW T, NEW s \in Seq(T), NEW x \in T
  PROVE  /\ Append(s, x) \in Seq(T) /\ Len(s) \in Nat /\ Len(Append(s, x)) = Len(s) + 1
         /\ \A k \in 1..Len(s) : Append(s, x)[k] = s[k]
         /\ Append(s, x)[Len(s) + 1] = x
         /\ Range(Append(s, x)) = Range(s) \cup {x}
<1> DEFINE t == Append(s, x)
<1>1. /\ t \in Seq(T) /\ Len(s) \in Nat /\ Len(t) = Len(s) + 1
      /\ \A k \in 1..Len(s) : t[k] = s[k]
      /\ t[Len(s) + 1] = x
  BY AppendProperties, LenProperties
<1>2. DOMAIN s = 1..Len(s) /\ DOMAIN t = 1..(Len(s) + 1)
  BY <1>1, LenProperties
<1>3. DOMAIN t = DOMAIN s \cup {Len(s) + 1}
  BY <1>1, <1>2
<1> HIDE DEF t
<1>4. Range(t) = Range(s) \cup {x}
  BY <1>1, <1>2, <1>3 DEF Range
<1>5. QED BY <1>1, <1>4 DEF t

PocOf(d, n) == d.entries[n].poc
PocsDiffer(d) == \A m, n \in DOMAIN d.entries : PocOf(d, m) = PocOf(d, n) => m = n

(* Two pictures that differ at most in whether they wait.                  *)
Same(p, q) ==
  q.poc = p.poc /\ q.reference = p.reference /\ q.pic_latency_cnt = p.pic_latency_cnt

Injective(s) == \A k, l \in 1..Len(s) : s[k] = s[l] => k = l
Extends(t, s, x) == t = Append(s, x)

LEMMA LowestFacts ==
  ASSUME NEW d, IsBuffer(d), PocsDiffer(d), Waiting(d) # {}, NEW n, n = LowestPocForBumping(d)
  PROVE  /\ n \in Waiting(d) /\ n \in DOMAIN d.entries
         /\ \A j \in Waiting(d) : /\ PocOf(d, n) \in Int /\ PocOf(d, j) \in Int
                                  /\ PocOf(d, n) <= PocOf(d, j)
<1> DEFINE pocs == {d.entries[i].poc : i \in Waiting(d)}
           lowest == Min(pocs)
           places == {i \in DOMAIN d.entries : d.entries[i].poc = lowest}
<1>1. \A i \in DOMAIN d.entries : d.entries[i].poc \in Int
  BY DEF IsBuffer, Picture
<1>2. Waiting(d) \in SUBSET DOMAIN d.entries /\ IsFiniteSet(Waiting(d)) /\ DOMAIN d.entries \in SUBSET Nat
  BY PlacesFinite
<1>3. IsFiniteSet(pocs) /\ pocs \in SUBSET Int /\ pocs # {}
  <2>1. IsFiniteSet(pocs)
    <3> DEFINE f == [i \in Waiting(d) |-> d.entries[i].poc]
    <3>1. IsFiniteSet({f[i] : i \in Waiting(d)})
      BY <1>2, FiniteRange
    <3>2. QED BY <3>1
  <2>2. QED BY <1>1, <1>2, <2>1
<1>4. lowest \in pocs /\ \A y \in pocs : lowest <= y
  <2> HIDE DEF pocs
  <2> QED
    BY <1>3, Extremes
<1>5. PICK i \in Waiting(d) : d.entries[i].poc = lowest
  BY <1>4
<1>6. places = {i}
  BY <1>2, <1>5 DEF PocsDiffer, PocOf
<1>7. n = Min(places)
  BY DEF LowestPocForBumping, At
<1>8. Min({i}) = i
  <2> DEFINE S == {i}
  <2>1. i \in Int
    BY <1>2
  <2>2. IsFiniteSet(S) /\ S \in SUBSET Int /\ S # {}
    BY <2>1, FS_Singleton
  <2> HIDE DEF S
  <2>3. Min(S) \in S
    BY <2>2, Extremes
  <2>4. QED BY <2>3 DEF S
<1>9. n = i
  BY <1>6, <1>7, <1>8
<1>10. QED BY <1>1, <1>2, <1>4, <1>5, <1>9 DEF PocOf

LEMMA BumpFacts ==
  ASSUME NEW b, IsBuffer(b.dpb), PocsDiffer(b.dpb), Waiting(b.dpb) # {},
         NEW flush \in BOOLEAN, NEW c, c = Bump(b, flush)
  PROVE  \E n \in Waiting(b.dpb) :
           /\ \A j \in Waiting(b.dpb) : /\ PocOf(b.dpb, n) \in Int /\ PocOf(b.dpb, j) \in Int
                                        /\ PocOf(b.dpb, n) <= PocOf(b.dpb, j)
           /\ c = [dpb |-> c.dpb, out |-> c.out]
           /\ Extends(c.out, b.out, n)
           /\ IsBuffer(c.dpb) /\ c.dpb.max_num_pics = b.dpb.max_num_pics
           /\ DOMAIN c.dpb.entries \subseteq DOMAIN b.dpb.entries
           /\ flush \/ DOMAIN c.dpb.entries
                         = DOMAIN b.dpb.entries \ (IF n \in References(b.dpb) THEN {} ELSE {n})
           /\ \A j \in DOMAIN c.dpb.entries : Same(b.dpb.entries[j], c.dpb.entries[j])
           /\ Waiting(c.dpb) = Waiting(b.dpb) \ {n}
<1> DEFINE d == b.dpb
           n == LowestPocForBumping(d)
           e == c.dpb
<1>1. /\ n \in Waiting(d) /\ n \in DOMAIN d.entries
      /\ \A j \in Waiting(d) : /\ PocOf(d, n) \in Int /\ PocOf(d, j) \in Int
                               /\ PocOf(d, n) <= PocOf(d, j)
  BY LowestFacts
<1>2. /\ c = [dpb |-> c.dpb, out |-> c.out] /\ c.out = Append(b.out, n)
      /\ e = IF IsRef(d.entries[n]) /\ ~flush
               THEN [d EXCEPT !.entries[n].needed_for_output = FALSE]
               ELSE [d EXCEPT !.entries = Restrict(d.entries, DOMAIN d.entries \ {n})]
  BY DEF Bump
<1> HIDE DEF n, e
<1>3. n \in References(d) <=> IsRef(d.entries[n])
  BY <1>1, PlaceSets DEF IsRef
<1>4. d.entries[n] \in Picture
  BY <1>1 DEF IsBuffer
<1>5. CASE IsRef(d.entries[n]) /\ ~flush
  <2> DEFINE D == DOMAIN d.entries
             f == [i \in D |->
                     IF i = n THEN [d.entries[i] EXCEPT !.needed_for_output = FALSE] ELSE d.entries[i]]
  <2>1. f \in [D -> Picture] /\ D \in SUBSET DOMAIN d.entries
    BY <1>4 DEF IsBuffer, Picture
  <2>2. e = [d EXCEPT !.entries = f]
    <3>1. [d.entries EXCEPT ![n].needed_for_output = FALSE] = f
      BY <1>1 DEF IsBuffer
    <3>2. QED BY <1>2, <1>5, <3>1
  <2>3. \A i \in D : /\ Same(d.entries[i], f[i])
                     /\ f[i].needed_for_output <=> d.entries[i].needed_for_output /\ i # n
    BY <1>4 DEF Same, Picture
  <2> HIDE DEF D, f
  <2>4. IsBuffer(e) /\ e.max_num_pics = d.max_num_pics /\ DOMAIN e.entries = D /\ e.entries = f
    BY <2>1, <2>2, ChangedBuffer
  <2>5. \A i : i \in Waiting(e) <=> i \in Waiting(d) \ {n}
    BY <2>3, <2>4, PlaceSets DEF D
  <2>6. QED BY <1>1, <1>2, <1>3, <1>5, <2>3, <2>4, <2>5 DEF Extends, e, D
<1>6. CASE ~(IsRef(d.entries[n]) /\ ~flush)
  <2> DEFINE D == DOMAIN d.entries \ {n}
             f == [i \in D |-> d.entries[i]]
  <2>1. f \in [D -> Picture] /\ D \in SUBSET DOMAIN d.entries
    BY DEF IsBuffer
  <2>2. e = [d EXCEPT !.entries = f]
    BY <1>2, <1>6 DEF Restrict
  <2>3. \A i \in D : Same(d.entries[i], f[i]) /\ f[i] = d.entries[i]
    BY DEF Same
  <2> HIDE DEF D, f
  <2>4. IsBuffer(e) /\ e.max_num_pics = d.max_num_pics /\ DOMAIN e.entries = D /\ e.entries = f
    BY <2>1, <2>2, ChangedBuffer
  <2>5. \A i : i \in Waiting(e) <=> i \in Waiting(d) \ {n}
    BY <2>3, <2>4, PlaceSets DEF D
  <2>6. QED BY <1>1, <1>2, <1>3, <1>6, <2>3, <2>4, <2>5 DEF Extends, e, D
<1>7. QED BY <1>5, <1>6

-----------------------------------------------------------------------------
(* Bumping from d has come to b: what waited is output, in order, or waits *)
(* and follows what is output.                                             *)
Ascending(d, out) == \A k, l \in 1..Len(out) : k < l => PocOf(d, out[k]) < PocOf(d, out[l])
Popped(d, when, b) ==
  /\ b = [dpb |-> b.dpb, out |-> b.out]
  /\ IsBuffer(b.dpb) /\ b.dpb.max_num_pics = d.max_num_pics
  /\ DOMAIN b.dpb.entries \subseteq DOMAIN d.entries
  /\ \A n \in DOMAIN b.dpb.entries : Same(d.entries[n], b.dpb.entries[n])
  /\ Waiting(b.dpb) \subseteq Waiting(d)
  /\ b.out \in Seq(Waiting(d)) /\ Injective(b.out)
  /\ Range(b.out) = Waiting(d) \ Waiting(b.dpb)
  /\ Ascending(d, b.out)
  /\ \A m \in Range(b.out), n \in Waiting(b.dpb) : PocOf(d, m) < PocOf(d, n)
  /\ when # "Draining" =>
       DOMAIN b.dpb.entries = (DOMAIN d.entries \ Range(b.out)) \cup References(d)

(* The reason why x was output, in terms of d.                             *)
From(d, x) == {w \in Waiting(d) : PocOf(d, w) >= PocOf(d, x)}
Called(d, limits, when, x) ==
  \/ when = "Draining"
  \/ Cardinality(From(d, x)) > limits.max_num_reorder_pics
  \/ /\ limits.max_latency_increase_plus1 # 0
     /\ \E w \in From(d, x) : d.entries[w].pic_latency_cnt >= limits.max_latency_increase_plus1
  \/ /\ when = "BeforeDecoding"
     /\ Cardinality((DOMAIN d.entries \ Waiting(d)) \cup References(d) \cup From(d, x))
          >= limits.max_dec_pic_buffering

Whens == {"BeforeDecoding", "AfterDecoding", "Draining"}

LEMMA PoppedNothing ==
  ASSUME NEW d, IsBuffer(d), NEW when
  PROVE  Popped(d, when, [dpb |-> d, out |-> <<>>])
<1>1. <<>> \in Seq(Waiting(d)) /\ Range(<<>>) = {} /\ Len(<<>>) = 0
  BY DEF Range
<1>2. References(d) \subseteq DOMAIN d.entries
  BY PlaceSets
<1>3. QED BY <1>1, <1>2 DEF Popped, Injective, Ascending, Same

LEMMA PoppedOne ==
  ASSUME NEW d, IsBuffer(d), PocsDiffer(d), NEW when, NEW b, Popped(d, when, b),
         Waiting(b.dpb) # {}, NEW c, c = Bump(b, when = "Draining")
  PROVE  /\ Popped(d, when, c)
         /\ \E x \in Waiting(b.dpb) :
              /\ Waiting(c.dpb) = Waiting(b.dpb) \ {x}
              /\ Range(c.out) = Range(b.out) \cup {x}
              /\ Waiting(b.dpb) = From(d, x)
<1> DEFINE e == b.dpb
           flush == when = "Draining"
<1>1. IsBuffer(e) /\ flush \in BOOLEAN
  BY DEF Popped
<1>2. \A j \in DOMAIN e.entries : j \in DOMAIN d.entries /\ PocOf(e, j) = PocOf(d, j)
  BY DEF Popped, Same, PocOf
<1>3. PocsDiffer(e)
  BY <1>2 DEF PocsDiffer
<1>4. PICK x \in Waiting(e) :
           /\ \A j \in Waiting(e) : /\ PocOf(e, x) \in Int /\ PocOf(e, j) \in Int
                                    /\ PocOf(e, x) <= PocOf(e, j)
           /\ c = [dpb |-> c.dpb, out |-> c.out]
           /\ Extends(c.out, b.out, x)
           /\ IsBuffer(c.dpb) /\ c.dpb.max_num_pics = e.max_num_pics
           /\ DOMAIN c.dpb.entries \subseteq DOMAIN e.entries
           /\ flush \/ DOMAIN c.dpb.entries
                         = DOMAIN e.entries \ (IF x \in References(e) THEN {} ELSE {x})
           /\ \A j \in DOMAIN c.dpb.entries : Same(e.entries[j], c.dpb.entries[j])
           /\ Waiting(c.dpb) = Waiting(e) \ {x}
  <2> HIDE DEF flush
  <2>1. c = Bump(b, flush)
    BY DEF flush
  <2>2. QED BY <1>1, <1>3, <2>1, BumpFacts
<1>5. Waiting(e) \subseteq DOMAIN e.entries /\ Waiting(e) \subseteq Waiting(d)
  BY PlaceSets DEF Popped
<1>6. \A j \in Waiting(e) : /\ PocOf(d, x) \in Int /\ PocOf(d, j) \in Int
                            /\ PocOf(d, x) <= PocOf(d, j)
                            /\ j # x => PocOf(d, x) < PocOf(d, j)
  <2>1. \A j \in Waiting(e) : PocOf(d, j) = PocOf(d, x) => j = x
    BY <1>2, <1>5 DEF PocsDiffer
  <2>2. QED BY <1>2, <1>4, <1>5, <2>1
<1>7. /\ c.out \in Seq(Waiting(d)) /\ Len(b.out) \in Nat /\ Len(c.out) = Len(b.out) + 1
      /\ \A k \in 1..Len(b.out) : c.out[k] = b.out[k]
      /\ c.out[Len(b.out) + 1] = x
      /\ Range(c.out) = Range(b.out) \cup {x}
  <2>1. b.out \in Seq(Waiting(d)) /\ c.out = Append(b.out, x) /\ x \in Waiting(d)
    BY <1>4, <1>5 DEF Popped, Extends
  <2> DEFINE T == Waiting(d)
  <2> HIDE DEF T
  <2>2. b.out \in Seq(T) /\ x \in T
    BY <2>1 DEF T
  <2>3. /\ Append(b.out, x) \in Seq(T) /\ Len(b.out) \in Nat /\ Len(Append(b.out, x)) = Len(b.out) + 1
        /\ \A k \in 1..Len(b.out) : Append(b.out, x)[k] = b.out[k]
        /\ Append(b.out, x)[Len(b.out) + 1] = x
        /\ Range(Append(b.out, x)) = Range(b.out) \cup {x}
    BY <2>2, Appended
  <2>4. QED BY <2>1, <2>3 DEF T
<1>8. \A k \in 1..Len(b.out) : /\ b.out[k] \in Range(b.out) /\ b.out[k] # x
                               /\ PocOf(d, b.out[k]) < PocOf(d, x)
  <2>1. DOMAIN b.out = 1..Len(b.out)
    BY LenProperties DEF Popped
  <2>2. \A k \in 1..Len(b.out) : b.out[k] \in Range(b.out)
    BY <2>1 DEF Range
  <2>3. x \notin Range(b.out)
    BY <1>4 DEF Popped
  <2>4. \A m \in Range(b.out) : PocOf(d, m) < PocOf(d, x)
    BY <1>4 DEF Popped
  <2>5. QED BY <2>2, <2>3, <2>4
<1>9. \A k \in 1..Len(c.out) : k \in 1..Len(b.out) \/ k = Len(b.out) + 1
  BY <1>7
<1>10. Injective(c.out)
  BY <1>7, <1>8, <1>9 DEF Popped, Injective
<1>11. Ascending(d, c.out)
  <2> SUFFICES ASSUME NEW k \in 1..Len(c.out), NEW l \in 1..Len(c.out), k < l
               PROVE  PocOf(d, c.out[k]) < PocOf(d, c.out[l])
    BY DEF Ascending
  <2>1. k \in 1..Len(b.out)
    BY <1>7
  <2>2. CASE l \in 1..Len(b.out)
    BY <1>7, <2>1, <2>2 DEF Popped, Ascending
  <2>3. CASE l = Len(b.out) + 1
    BY <1>7, <1>8, <2>1, <2>3
  <2>4. QED BY <1>9, <2>2, <2>3
<1>12. Waiting(c.dpb) \subseteq Waiting(d) /\ Range(c.out) = Waiting(d) \ Waiting(c.dpb)
  BY <1>4, <1>5, <1>7 DEF Popped
<1>13. \A m \in Range(c.out), n \in Waiting(c.dpb) : PocOf(d, m) < PocOf(d, n)
  BY <1>4, <1>6, <1>7 DEF Popped
<1>14. \A n \in DOMAIN c.dpb.entries : n \in DOMAIN e.entries /\ Same(d.entries[n], c.dpb.entries[n])
  BY <1>4 DEF Popped, Same
<1>15. flush \/ DOMAIN c.dpb.entries = (DOMAIN d.entries \ Range(c.out)) \cup References(d)
  <2> SUFFICES ASSUME ~flush
               PROVE  DOMAIN c.dpb.entries = (DOMAIN d.entries \ Range(c.out)) \cup References(d)
    OBVIOUS
  <2>1. DOMAIN e.entries = (DOMAIN d.entries \ Range(b.out)) \cup References(d)
    BY DEF Popped
  <2>2. x \in References(e) <=> x \in References(d)
    BY <1>2, <1>5, PlaceSets DEF Popped, Same
  <2>3. QED BY <1>4, <1>7, <2>1, <2>2
<1>16. Popped(d, when, c)
  <2>1. c.dpb.max_num_pics = d.max_num_pics /\ DOMAIN c.dpb.entries \subseteq DOMAIN d.entries
    BY <1>4, <1>14 DEF Popped
  <2>2. QED BY <1>4, <1>7, <1>10, <1>11, <1>12, <1>13, <1>14, <1>15, <2>1 DEF Popped
<1>17. Waiting(e) = From(d, x)
  <2>1. \A w \in Waiting(d) : w \notin Waiting(e) => PocOf(d, w) < PocOf(d, x)
    BY <1>4 DEF Popped
  <2>2. \A w \in Waiting(d) : PocOf(d, w) \in Int
    BY PlaceSets DEF PocOf, IsBuffer, Picture
  <2>3. QED BY <1>5, <1>6, <2>1, <2>2 DEF From
<1>18. QED BY <1>4, <1>7, <1>16, <1>17

(* The rounds of the loops.                                                *)
LoopSoFar(d, limits, when, n, g) ==
  g = [round \in 0..n |-> IF round = 0 THEN [dpb |-> d, out |-> <<>>]
                                       ELSE BumpOnceIfNeeded(g[round - 1], limits, when)]

LEMMA LoopChain ==
  ASSUME NEW d, NEW limits, NEW when
  PROVE  \A n \in Nat : \E g : LoopSoFar(d, limits, when, n, g)
<1> DEFINE S == {n \in Nat : \E g : LoopSoFar(d, limits, when, n, g)}
           first == [dpb |-> d, out |-> <<>>]
<1>1. 0 \in S
  <2> DEFINE g == [round \in 0..0 |-> first]
  <2>1. LoopSoFar(d, limits, when, 0, g)
    BY DEF LoopSoFar
  <2>2. QED BY <2>1
<1>2. \A n \in Nat : n \in S => n + 1 \in S
  <2> SUFFICES ASSUME NEW n \in Nat, NEW g, LoopSoFar(d, limits, when, n, g)
               PROVE  \E h : LoopSoFar(d, limits, when, n + 1, h)
    OBVIOUS
  <2> DEFINE one_more == BumpOnceIfNeeded(g[n], limits, when)
             h == [round \in 0..(n + 1) |-> IF round <= n THEN g[round] ELSE one_more]
  <2>1. \A k \in 0..n : g[k] = IF k = 0 THEN first ELSE BumpOnceIfNeeded(g[k - 1], limits, when)
    BY DEF LoopSoFar
  <2>2. \A k \in 0..(n + 1) : h[k] = IF k = 0 THEN first ELSE BumpOnceIfNeeded(h[k - 1], limits, when)
    <3> SUFFICES ASSUME NEW k \in 0..(n + 1)
                 PROVE  h[k] = IF k = 0 THEN first ELSE BumpOnceIfNeeded(h[k - 1], limits, when)
      OBVIOUS
    <3>1. CASE k <= n
      <4>1. k \in 0..n /\ h[k] = g[k] /\ (k # 0 => h[k - 1] = g[k - 1])
        BY <3>1
      <4>2. QED BY <2>1, <4>1
    <3>2. CASE k = n + 1
      <4>1. k # 0 /\ h[k] = one_more /\ h[k - 1] = g[n]
        BY <3>2
      <4>2. QED BY <4>1
    <3>3. QED BY <3>1, <3>2
  <2>3. h = [k \in 0..(n + 1) |-> h[k]]
    OBVIOUS
  <2> HIDE DEF h
  <2>4. h = [k \in 0..(n + 1) |-> IF k = 0 THEN first
                                           ELSE BumpOnceIfNeeded(h[k - 1], limits, when)]
    BY <2>2, <2>3
  <2>5. LoopSoFar(d, limits, when, n + 1, h)
    BY <2>4 DEF LoopSoFar
  <2>6. QED BY <2>5
<1> HIDE DEF S
<1>3. \A n \in Nat : n \in S
  BY <1>1, <1>2, SetInduction
<1>4. QED BY <1>3 DEF S

GoesOn(b, limits, when) == Waiting(b.dpb) # {} /\ Needed(b.dpb, limits, when)

(* What a round keeps, and how far it has come.                            *)
Round(d, limits, when, n, k, b) ==
  /\ Popped(d, when, b)
  /\ \A x \in Range(b.out) : Called(d, limits, when, x)
  /\ Cardinality(Waiting(b.dpb)) + k <= n \/ ~GoesOn(b, limits, when)

LEMMA RoundGoesOn ==
  ASSUME NEW d, IsBuffer(d), PocsDiffer(d), NEW limits, NEW when, NEW n \in Nat, NEW k \in Nat,
         NEW b, Round(d, limits, when, n, k, b), GoesOn(b, limits, when),
         NEW c, c = Bump(b, when = "Draining")
  PROVE  Round(d, limits, when, n, k + 1, c)
<1>1. Popped(d, when, b) /\ IsBuffer(b.dpb) /\ Waiting(b.dpb) # {} /\ Needed(b.dpb, limits, when)
  BY DEF Round, Popped, GoesOn
<1>2. /\ Popped(d, when, c)
      /\ \E x \in Waiting(b.dpb) :
           /\ Waiting(c.dpb) = Waiting(b.dpb) \ {x}
           /\ Range(c.out) = Range(b.out) \cup {x}
           /\ Waiting(b.dpb) = From(d, x)
  BY <1>1, PoppedOne
<1>3. PICK x \in Waiting(b.dpb) : /\ Waiting(c.dpb) = Waiting(b.dpb) \ {x}
                                  /\ Range(c.out) = Range(b.out) \cup {x}
                                  /\ Waiting(b.dpb) = From(d, x)
  BY <1>2
<1>4. Called(d, limits, when, x)
  <2>1. CASE NeedsAdditionalBumping(b.dpb, limits)
    <3>1. \A w \in Waiting(b.dpb) : b.dpb.entries[w].pic_latency_cnt = d.entries[w].pic_latency_cnt
      BY <1>1, PlaceSets DEF Popped, Same
    <3>2. QED BY <1>3, <2>1, <3>1 DEF NeedsAdditionalBumping, Called
  <2>2. CASE when = "BeforeDecoding" /\ Fullness(b.dpb) >= limits.max_dec_pic_buffering
    <3>1. DOMAIN b.dpb.entries = (DOMAIN d.entries \ Range(b.out)) \cup References(d)
      BY <1>1, <2>2 DEF Popped
    <3>2. /\ Range(b.out) = Waiting(d) \ Waiting(b.dpb)
          /\ Waiting(b.dpb) \subseteq DOMAIN d.entries /\ Waiting(b.dpb) \subseteq Waiting(d)
      BY <1>1, PlaceSets DEF Popped
    <3>3. DOMAIN b.dpb.entries = (DOMAIN d.entries \ Waiting(d)) \cup References(d) \cup Waiting(b.dpb)
      BY <3>1, <3>2
    <3>4. QED BY <1>3, <2>2, <3>3 DEF Fullness, Called
  <2>3. QED BY <1>1, <2>1, <2>2 DEF Needed, NeedsBumping, Called
<1>5. Cardinality(Waiting(c.dpb)) + (k + 1) <= n
  <2>1. IsFiniteSet(Waiting(b.dpb)) /\ Cardinality(Waiting(b.dpb)) \in Nat
    BY <1>1, PlacesFinite
  <2>2. Cardinality(Waiting(c.dpb)) = Cardinality(Waiting(b.dpb)) - 1
    BY <1>3, <2>1, FS_RemoveElement
  <2>3. Cardinality(Waiting(b.dpb)) + k <= n
    BY DEF Round
  <2>4. QED BY <2>1, <2>2, <2>3
<1>6. QED BY <1>2, <1>3, <1>4, <1>5 DEF Round

LEMMA BumpedAsNeeded ==
  ASSUME NEW d, IsBuffer(d), PocsDiffer(d), NEW limits, NEW when,
         NEW b, b = BumpAsNeeded(d, limits, when)
  PROVE  /\ Popped(d, when, b)
         /\ \A x \in Range(b.out) : Called(d, limits, when, x)
         /\ Waiting(b.dpb) = {} \/ ~Needed(b.dpb, limits, when)
<1> DEFINE n == Fullness(d)
           first == [dpb |-> d, out |-> <<>>]
           after == CHOOSE g : LoopSoFar(d, limits, when, n, g)
<1>1. n \in Nat /\ Cardinality(Waiting(d)) \in Nat /\ Cardinality(Waiting(d)) <= n
  BY PlacesFinite, FS_Subset DEF IsBuffer, Fullness
<1>2. b = after[n]
  BY DEF BumpAsNeeded, LoopSoFar
<1> HIDE DEF n
<1>3. LoopSoFar(d, limits, when, n, after)
  BY <1>1, LoopChain
<1> HIDE DEF after
<1>4. \A k \in 0..n : after[k] = IF k = 0 THEN first ELSE BumpOnceIfNeeded(after[k - 1], limits, when)
  BY <1>3 DEF LoopSoFar
<1> DEFINE S == {k \in Nat : k <= n => Round(d, limits, when, n, k, after[k])}
<1>5. 0 \in S
  <2>1. after[0] = first
    BY <1>1, <1>4
  <2>2. Popped(d, when, first)
    BY PoppedNothing
  <2>3. Range(first.out) = {} /\ Cardinality(Waiting(first.dpb)) + 0 <= n
    BY <1>1 DEF Range
  <2>4. Round(d, limits, when, n, 0, first)
    BY <2>2, <2>3 DEF Round
  <2>5. QED BY <2>1, <2>4
<1>6. \A k \in Nat : k \in S => k + 1 \in S
  <2> SUFFICES ASSUME NEW k \in Nat, Round(d, limits, when, n, k, after[k]), k + 1 <= n
               PROVE  Round(d, limits, when, n, k + 1, after[k + 1])
    BY <1>1
  <2>1. after[k + 1] = BumpOnceIfNeeded(after[k], limits, when)
    BY <1>1, <1>4
  <2>2. CASE GoesOn(after[k], limits, when)
    <3>1. after[k + 1] = Bump(after[k], when = "Draining")
      BY <2>1, <2>2 DEF BumpOnceIfNeeded, GoesOn
    <3>2. QED BY <1>1, <2>2, <3>1, RoundGoesOn
  <2>3. CASE ~GoesOn(after[k], limits, when)
    <3>1. after[k + 1] = after[k]
      BY <2>1, <2>3 DEF BumpOnceIfNeeded, GoesOn
    <3>2. QED BY <2>3, <3>1 DEF Round
  <2>4. QED BY <2>2, <2>3
<1> HIDE DEF S
<1>7. \A k \in Nat : k \in S
  BY <1>5, <1>6, SetInduction
<1>8. Round(d, limits, when, n, n, b)
  BY <1>1, <1>2, <1>7 DEF S
<1>9. ~GoesOn(b, limits, when)
  <2>1. SUFFICES ASSUME Cardinality(Waiting(b.dpb)) + n <= n
                 PROVE  Waiting(b.dpb) = {}
    BY <1>8 DEF Round, GoesOn
  <2>2. IsFiniteSet(Waiting(b.dpb)) /\ Cardinality(Waiting(b.dpb)) \in Nat
    BY <1>8, PlacesFinite DEF Round, Popped
  <2>3. Cardinality(Waiting(b.dpb)) = 0
    BY <1>1, <2>1, <2>2
  <2>4. QED BY <2>2, <2>3, FS_EmptySet
<1>10. QED BY <1>8, <1>9 DEF Round, GoesOn

LEMMA Drained ==
  ASSUME NEW d, IsBuffer(d), PocsDiffer(d), NEW r, r = Drain(d)
  PROVE  /\ r = [dpb |-> r.dpb, out |-> r.out]
         /\ r.dpb = EmptyDpb(d.max_num_pics)
         /\ r.out \in Seq(Waiting(d)) /\ Injective(r.out) /\ Range(r.out) = Waiting(d)
         /\ Ascending(d, r.out)
<1> DEFINE b == BumpAsNeeded(d, <<>>, "Draining")
<1>1. r = [b EXCEPT !.dpb = Clear(d)]
  BY DEF Drain
<1>2. Popped(d, "Draining", b) /\ (Waiting(b.dpb) = {} \/ ~Needed(b.dpb, <<>>, "Draining"))
  BY BumpedAsNeeded
<1> HIDE DEF b
<1>3. Waiting(b.dpb) = {}
  BY <1>2 DEF Needed
<1>4. b = [dpb |-> b.dpb, out |-> b.out]
  BY <1>2 DEF Popped
<1>5. r = [dpb |-> r.dpb, out |-> r.out] /\ r.dpb = Clear(d) /\ r.out = b.out
  BY <1>1, <1>4
<1>6. QED BY <1>2, <1>3, <1>5 DEF Popped, Clear

-----------------------------------------------------------------------------
(* Marking.                                                                *)

Marks == {"None", "ShortTerm", "LongTerm"}

(* A list of a header has n entries, each of them used or not.             *)
HasEntries(list, n) ==
  /\ n \in Nat /\ DOMAIN list = 1..n
  /\ \A i \in 1..n : list[i].used \in BOOLEAN
Names(h, n) ==
  \E n0, n1, nl \in Nat : /\ HasEntries(h.s0, n0) /\ HasEntries(h.s1, n1) /\ HasEntries(h.lt, nl)
                         /\ n0 + n1 + nl = n

(* e is d with other marks.                                                *)
Remarked(d, e) ==
  /\ IsBuffer(e) /\ e.max_num_pics = d.max_num_pics
  /\ DOMAIN e.entries = DOMAIN d.entries
  /\ \A i \in DOMAIN d.entries : /\ e.entries[i].poc = d.entries[i].poc
                                 /\ e.entries[i].pic_latency_cnt = d.entries[i].pic_latency_cnt
  /\ Waiting(e) = Waiting(d)

LEMMA MarkAsFacts ==
  ASSUME NEW d, IsBuffer(d), NEW pictures, NEW mark \in Marks, NEW e, e = MarkAs(d, pictures, mark)
  PROVE  /\ Remarked(d, e)
         /\ \A i \in DOMAIN d.entries :
              e.entries[i].reference = IF i \in pictures THEN mark ELSE d.entries[i].reference
<1> DEFINE D == DOMAIN d.entries
           Marked(p) == [p EXCEPT !.reference = mark]
           f == [i \in D |-> IF i \in pictures THEN Marked(d.entries[i]) ELSE d.entries[i]]
<1>1. e = [d EXCEPT !.entries = f]
  BY DEF MarkAs
<1>2. \A i \in D : /\ f[i] \in Picture /\ f[i].poc = d.entries[i].poc
                   /\ f[i].pic_latency_cnt = d.entries[i].pic_latency_cnt
                   /\ f[i].needed_for_output = d.entries[i].needed_for_output
                   /\ f[i].reference = IF i \in pictures THEN mark ELSE d.entries[i].reference
  <2> SUFFICES ASSUME NEW i \in D
               PROVE  /\ f[i] \in Picture /\ f[i].poc = d.entries[i].poc
                      /\ f[i].pic_latency_cnt = d.entries[i].pic_latency_cnt
                      /\ f[i].needed_for_output = d.entries[i].needed_for_output
                      /\ f[i].reference = IF i \in pictures THEN mark ELSE d.entries[i].reference
    OBVIOUS
  <2>1. d.entries[i] \in Picture
    BY DEF IsBuffer
  <2>2. Marked(d.entries[i]) \in Picture
    BY <2>1 DEF Picture, Marks
  <2>3. QED BY <2>1, <2>2 DEF Picture
<1>3. f \in [D -> Picture] /\ D \in SUBSET DOMAIN d.entries
  BY <1>2
<1> HIDE DEF f, D
<1>4. IsBuffer(e) /\ e.max_num_pics = d.max_num_pics /\ DOMAIN e.entries = D /\ e.entries = f
  BY <1>1, <1>3, ChangedBuffer
<1>5. \A i : i \in Waiting(e) <=> i \in Waiting(d)
  BY <1>2, <1>4, PlaceSets DEF D
<1>6. QED BY <1>2, <1>4, <1>5 DEF Remarked, D

LEMMA AllUnmarkedFacts ==
  ASSUME NEW d, IsBuffer(d), NEW e, e = MarkAllAsUnusedForRef(d)
  PROVE  Remarked(d, e) /\ References(e) = {}
<1> DEFINE D == DOMAIN d.entries
           f == [i \in D |-> [d.entries[i] EXCEPT !.reference = "None"]]
<1>1. e = [d EXCEPT !.entries = f]
  BY DEF MarkAllAsUnusedForRef, Change
<1>2. \A i \in D : /\ f[i] \in Picture /\ f[i].poc = d.entries[i].poc
                   /\ f[i].pic_latency_cnt = d.entries[i].pic_latency_cnt
                   /\ f[i].needed_for_output = d.entries[i].needed_for_output
                   /\ f[i].reference = "None"
  <2> SUFFICES ASSUME NEW i \in D
               PROVE  /\ f[i] \in Picture /\ f[i].poc = d.entries[i].poc
                      /\ f[i].pic_latency_cnt = d.entries[i].pic_latency_cnt
                      /\ f[i].needed_for_output = d.entries[i].needed_for_output
                      /\ f[i].reference = "None"
    OBVIOUS
  <2>1. d.entries[i] \in Picture
    BY DEF IsBuffer
  <2>2. QED BY <2>1 DEF Picture
<1>3. f \in [D -> Picture] /\ D \in SUBSET DOMAIN d.entries
  BY <1>2
<1> HIDE DEF f, D
<1>4. IsBuffer(e) /\ e.max_num_pics = d.max_num_pics /\ DOMAIN e.entries = D /\ e.entries = f
  BY <1>1, <1>3, ChangedBuffer
<1>5. \A i : i \in Waiting(e) <=> i \in Waiting(d)
  BY <1>2, <1>4, PlaceSets DEF D
<1>6. References(e) = {}
  BY <1>2, <1>4, PlaceSets
<1>7. QED BY <1>2, <1>4, <1>5, <1>6 DEF Remarked, D

LEMMA RemarkedTrans ==
  ASSUME NEW d, NEW e, NEW f, Remarked(d, e), Remarked(e, f)
  PROVE  Remarked(d, f)
  BY DEF Remarked

LEMMA FirstFacts ==
  ASSUME NEW d, IsBuffer(d), NEW S \in SUBSET DOMAIN d.entries, NEW n, n = First(S)
  PROVE  /\ n \in Nat
         /\ S = {} => n = Missing
         /\ S # {} => n \in S /\ n # Missing /\ \A m \in S : n <= m
<1>1. IsFiniteSet(S) /\ S \in SUBSET Int /\ S \in SUBSET Nat /\ 0 \notin S
  BY PlacesFinite DEF IsBuffer
<1>2. CASE S = {}
  BY <1>2 DEF First, Missing
<1>3. CASE S # {}
  <2>1. n = Min(S)
    BY <1>3 DEF First
  <2>2. n \in S /\ \A m \in S : n <= m
    BY <1>1, <1>3, <2>1, Extremes
  <2>3. QED BY <1>1, <1>3, <2>2 DEF Missing
<1>4. QED BY <1>2, <1>3

(* The searches.                                                           *)
LEMMA SearchesFind ==
  ASSUME NEW d, IsBuffer(d), NEW poc, NEW max_lsb
  PROVE  /\ FindRefByPoc(d, poc) = First({n \in References(d) : PocOf(d, n) = poc})
         /\ FindRefByPocMasked(d, poc, max_lsb)
              = First({n \in References(d) : PocOf(d, n) % max_lsb = poc})
         /\ FindShortTermRefByPoc(d, poc)
              = First({n \in DOMAIN d.entries : d.entries[n].reference = "ShortTerm" /\ PocOf(d, n) = poc})
         /\ FindRefByPoc(d, poc) \in Nat
         /\ FindRefByPocMasked(d, poc, max_lsb) \in Nat
         /\ FindShortTermRefByPoc(d, poc) \in Nat
<1> DEFINE S == {n \in References(d) : PocOf(d, n) = poc}
           T == {n \in References(d) : PocOf(d, n) % max_lsb = poc}
           U == {n \in DOMAIN d.entries : d.entries[n].reference = "ShortTerm" /\ PocOf(d, n) = poc}
<1>1. /\ S = {n \in DOMAIN d.entries : IsRef(d.entries[n]) /\ d.entries[n].poc = poc}
      /\ T = {n \in DOMAIN d.entries : IsRef(d.entries[n]) /\ d.entries[n].poc % max_lsb = poc}
      /\ U = {n \in DOMAIN d.entries : d.entries[n].reference = "ShortTerm" /\ d.entries[n].poc = poc}
  BY DEF References, At, PocOf
<1>2. FindRefByPoc(d, poc) = First(S)
  BY <1>1 DEF FindRefByPoc, At
<1>3. FindRefByPocMasked(d, poc, max_lsb) = First(T)
  BY <1>1 DEF FindRefByPocMasked, At
<1>4. FindShortTermRefByPoc(d, poc) = First(U)
  BY <1>1 DEF FindShortTermRefByPoc, At
<1>5. S \in SUBSET DOMAIN d.entries /\ T \in SUBSET DOMAIN d.entries /\ U \in SUBSET DOMAIN d.entries
  BY <1>1
<1> HIDE DEF S, T, U
<1>6. First(S) \in Nat /\ First(T) \in Nat /\ First(U) \in Nat
  BY <1>5, FirstFacts
<1>7. QED BY <1>2, <1>3, <1>4, <1>6 DEF S, T, U

LEMMA SearchesAreNumbers ==
  ASSUME NEW d, IsBuffer(d)
  PROVE  /\ \A poc : FindRefByPoc(d, poc) \in Nat /\ FindShortTermRefByPoc(d, poc) \in Nat
         /\ \A poc, max_lsb : FindRefByPocMasked(d, poc, max_lsb) \in Nat
<1>1. ASSUME NEW poc, NEW max_lsb
      PROVE  /\ FindRefByPoc(d, poc) \in Nat /\ FindShortTermRefByPoc(d, poc) \in Nat
             /\ FindRefByPocMasked(d, poc, max_lsb) \in Nat
  BY SearchesFind
<1>2. QED BY <1>1

(* The places of what is used, or is not, in a list of a header.           *)
UsedPlaces(list, used) == {i \in DOMAIN list : list[i].used = used}

LEMMA UsedPlacesFinite ==
  ASSUME NEW list, NEW n, HasEntries(list, n)
  PROVE  /\ \A used \in BOOLEAN : /\ IsFiniteSet(UsedPlaces(list, used))
                                  /\ Cardinality(UsedPlaces(list, used)) \in Nat
         /\ Cardinality(UsedPlaces(list, TRUE)) + Cardinality(UsedPlaces(list, FALSE)) = n
<1> DEFINE S == UsedPlaces(list, TRUE)
           T == UsedPlaces(list, FALSE)
<1>1. n \in Nat /\ DOMAIN list = 1..n /\ \A i \in DOMAIN list : list[i].used \in BOOLEAN
  BY DEF HasEntries
<1>2. IsFiniteSet(1..n) /\ Cardinality(1..n) = n
  <2>1. 1 \in Int /\ n \in Int
    BY <1>1
  <2>2. IsFiniteSet(1..n) /\ Cardinality(1..n) = IF 1 > n THEN 0 ELSE n - 1 + 1
    BY <2>1, FS_Interval
  <2>3. n - 1 + 1 = n /\ (1 > n => n = 0)
    BY <1>1
  <2>4. QED BY <2>2, <2>3
<1>3. S \cup T = 1..n /\ S \cap T = {}
  BY <1>1 DEF UsedPlaces
<1>4. S \in SUBSET (1..n) /\ T \in SUBSET (1..n)
  BY <1>3
<1> HIDE DEF S, T
<1>5. IsFiniteSet(S) /\ IsFiniteSet(T) /\ Cardinality(S) \in Nat /\ Cardinality(T) \in Nat
  BY <1>2, <1>4, FS_Subset, FS_CardinalityType
<1>6. Cardinality(S \cup T) = Cardinality(S) + Cardinality(T) - Cardinality(S \cap T)
  BY <1>5, FS_Union
<1>7. Cardinality(S) + Cardinality(T) = n
  <2>1. Cardinality(S \cap T) = 0
    BY <1>3, FS_EmptySet
  <2>2. Cardinality(S \cup T) = n
    BY <1>2, <1>3
  <2>3. Cardinality(S) + Cardinality(T) - 0 = n
    BY <1>6, <2>1, <2>2
  <2>4. QED BY <1>5, <2>3
<1>8. QED BY <1>5, <1>7 DEF S, T

LEMMA InOrderLength ==
  ASSUME NEW S, IsFiniteSet(S)
  PROVE  /\ DOMAIN Increasing(S) = 1..Cardinality(S)
         /\ Cardinality(S) \in Nat
  BY FS_CardinalityType DEF Increasing, InOrder

(* A list of what was found is a list of numbers, and has as many of them  *)
(* as places.                                                              *)
IsListOf(list, n) ==
  /\ list \in Seq(Nat) /\ Len(list) = n
  /\ IsFiniteSet(Range(list)) /\ Cardinality(Range(list)) <= n /\ Cardinality(Range(list)) \in Nat

LEMMA ListOf ==
  ASSUME NEW n \in Nat, NEW f \in [1..n -> Nat]
  PROVE  IsListOf(f, n)
<1>1. IsFiniteSet(1..n) /\ Cardinality(1..n) = n
  BY FS_Interval
<1>2. f \in Seq(Nat) /\ Len(f) = n
  BY SeqDef
<1>3. f = [i \in 1..n |-> f[i]]
  OBVIOUS
<1>4. /\ IsFiniteSet({f[i] : i \in 1..n}) /\ Cardinality({f[i] : i \in 1..n}) <= Cardinality(1..n)
      /\ Range(f) = {f[i] : i \in 1..n}
  BY <1>1, <1>3, FiniteRange
<1>5. IsFiniteSet(Range(f)) /\ Cardinality(Range(f)) <= n
  BY <1>1, <1>4
<1>6. Cardinality(Range(f)) \in Nat
  BY <1>5, FS_CardinalityType
<1>7. QED BY <1>2, <1>5, <1>6 DEF IsListOf

LEMMA FoundShortTermList ==
  ASSUME NEW d, IsBuffer(d), NEW pic, NEW deltas, NEW len, HasEntries(deltas, len),
         NEW used \in BOOLEAN
  PROVE  /\ IsListOf(FoundShortTerm(d, PocsOf(pic, deltas, used)), Cardinality(UsedPlaces(deltas, used)))
         /\ FoundShortTerm(d, PocsOf(pic, deltas, used)) =
              [i \in 1..Cardinality(UsedPlaces(deltas, used)) |->
                 FindShortTermRefByPoc(d, pic.poc + deltas[Increasing(UsedPlaces(deltas, used))[i]].delta)]
<1> DEFINE S == UsedPlaces(deltas, used)
           chosen == Increasing(S)
           n == Cardinality(S)
           pocs == PocsOf(pic, deltas, used)
           f == FoundShortTerm(d, pocs)
<1>1. IsFiniteSet(S) /\ n \in Nat
  BY UsedPlacesFinite
<1>2. DOMAIN chosen = 1..n
  BY <1>1, InOrderLength
<1>3. pocs = [i \in DOMAIN chosen |-> pic.poc + deltas[chosen[i]].delta]
  BY DEF PocsOf, UsedPlaces
<1> HIDE DEF chosen, n
<1>4. f = [i \in 1..n |-> FindShortTermRefByPoc(d, pic.poc + deltas[chosen[i]].delta)]
  BY <1>2, <1>3 DEF FoundShortTerm
<1>5. f \in [1..n -> Nat]
  BY <1>4, SearchesAreNumbers
<1> HIDE DEF f
<1>6. IsListOf(f, n)
  BY <1>1, <1>5, ListOf
<1>7. QED BY <1>4, <1>6 DEF f, n, chosen

FoundFor(d, pic, l) ==
  IF l.delta_poc_msb_present_flag
    THEN FindRefByPoc(d, PocLt(pic, l))
    ELSE FindRefByPocMasked(d, l.poc_lsb, max_pic_order_cnt_lsb)

LEMMA FoundLongTermList ==
  ASSUME NEW d, IsBuffer(d), NEW pic, NEW lts, NEW len, HasEntries(lts, len),
         NEW used \in BOOLEAN
  PROVE  /\ IsListOf(FoundLongTerm(d, pic, lts, used), Cardinality(UsedPlaces(lts, used)))
         /\ FoundLongTerm(d, pic, lts, used) =
              [i \in 1..Cardinality(UsedPlaces(lts, used)) |->
                 FoundFor(d, pic, lts[Increasing(UsedPlaces(lts, used))[i]])]
<1> DEFINE S == UsedPlaces(lts, used)
           chosen == Increasing(S)
           n == Cardinality(S)
           f == FoundLongTerm(d, pic, lts, used)
<1>1. IsFiniteSet(S) /\ n \in Nat
  BY UsedPlacesFinite
<1>2. DOMAIN chosen = 1..n
  BY <1>1, InOrderLength
<1>3. f = [i \in DOMAIN chosen |-> FoundFor(d, pic, lts[chosen[i]])]
  BY DEF FoundLongTerm, UsedPlaces, FoundFor
<1> HIDE DEF chosen, n
<1>4. f = [i \in 1..n |-> FoundFor(d, pic, lts[chosen[i]])]
  BY <1>2, <1>3
<1>5. f \in [1..n -> Nat]
  BY <1>4, SearchesAreNumbers DEF FoundFor
<1> HIDE DEF f
<1>6. IsListOf(f, n)
  BY <1>1, <1>5, ListOf
<1>7. QED BY <1>4, <1>6 DEF f, n, chosen

LEMMA ListsJoined ==
  ASSUME NEW m \in Nat, NEW n \in Nat, NEW s, IsListOf(s, m), NEW t, IsListOf(t, n)
  PROVE  IsListOf(s \o t, m + n) /\ Range(s \o t) = Range(s) \cup Range(t)
<1> DEFINE u == s \o t
<1>1. /\ u \in Seq(Nat) /\ Len(u) = Len(s) + Len(t)
      /\ \A i \in 1..(Len(s) + Len(t)) : u[i] = IF i <= Len(s) THEN s[i] ELSE t[i - Len(s)]
  BY ConcatProperties DEF IsListOf
<1>2. DOMAIN s = 1..m /\ DOMAIN t = 1..n /\ DOMAIN u = 1..(m + n) /\ Len(s) = m /\ Len(t) = n
  BY <1>1, LenProperties DEF IsListOf
<1> HIDE DEF u
<1>3. \A i \in DOMAIN u : u[i] \in Range(s) \cup Range(t)
  <2> SUFFICES ASSUME NEW i \in 1..(m + n) PROVE u[i] \in Range(s) \cup Range(t)
    BY <1>2
  <2>1. CASE i <= m
    <3>1. i \in 1..m /\ u[i] = s[i]
      BY <1>1, <1>2, <2>1
    <3>2. QED BY <1>2, <3>1 DEF Range
  <2>2. CASE ~(i <= m)
    <3>1. i - m \in 1..n /\ u[i] = t[i - m]
      BY <1>1, <1>2, <2>2
    <3>2. QED BY <1>2, <3>1 DEF Range
  <2>3. QED BY <2>1, <2>2
<1>4. \A x \in Range(s) : x \in Range(u)
  <2> SUFFICES ASSUME NEW i \in 1..m PROVE s[i] \in Range(u)
    BY <1>2 DEF Range
  <2>1. i \in 1..(m + n) /\ u[i] = s[i]
    BY <1>1, <1>2
  <2>2. QED BY <1>2, <2>1 DEF Range
<1>5. \A x \in Range(t) : x \in Range(u)
  <2> SUFFICES ASSUME NEW i \in 1..n PROVE t[i] \in Range(u)
    BY <1>2 DEF Range
  <2>1. i + m \in 1..(m + n) /\ ~(i + m <= m) /\ (i + m) - m = i
    OBVIOUS
  <2>2. u[i + m] = t[i]
    BY <1>1, <1>2, <2>1
  <2>3. QED BY <1>2, <2>1, <2>2 DEF Range
<1>6. Range(u) = Range(s) \cup Range(t)
  BY <1>3, <1>4, <1>5 DEF Range
<1>7. u \in [1..(m + n) -> Nat] /\ m + n \in Nat
  BY <1>1, <1>2, SeqDef
<1>8. IsListOf(u, m + n)
  BY <1>7, ListOf
<1>9. QED BY <1>6, <1>8 DEF u

LEMMA RangesJoined ==
  ASSUME NEW S, IsFiniteSet(S), NEW T, IsFiniteSet(T),
         NEW m \in Nat, Cardinality(S) <= m, NEW n \in Nat, Cardinality(T) <= n
  PROVE  IsFiniteSet(S \cup T) /\ Cardinality(S \cup T) <= m + n
<1>1. Cardinality(S) \in Nat /\ Cardinality(T) \in Nat
  BY FS_CardinalityType
<1>2. IsFiniteSet(S \cap T)
  BY FS_Subset
<1>3. Cardinality(S \cap T) \in Nat
  BY <1>2, FS_CardinalityType
<1>4. IsFiniteSet(S \cup T) /\ Cardinality(S \cup T) = Cardinality(S) + Cardinality(T) - Cardinality(S \cap T)
  BY FS_Union
<1>5. QED BY <1>1, <1>3, <1>4

(* The parts of what derive_and_mark_rps makes.                            *)
LongTermMarked(d, pic, h) ==
  MarkAs(d, Range(FoundLongTerm(d, pic, h.lt, TRUE)) \cup Range(FoundLongTerm(d, pic, h.lt, FALSE)),
         "LongTerm")

LEMMA DerivedParts ==
  ASSUME NEW d, NEW pic, NEW h, NEW m, m = DeriveAndMark(d, pic, h),
         NEW e, e = LongTermMarked(d, pic, h)
  PROVE  /\ m = [dpb |-> m.dpb, rps |-> m.rps]
         /\ m.rps = [st_curr_before |-> m.rps.st_curr_before, st_curr_after |-> m.rps.st_curr_after,
                     st_foll |-> m.rps.st_foll, lt_curr |-> m.rps.lt_curr, lt_foll |-> m.rps.lt_foll]
         /\ m.rps.lt_curr = FoundLongTerm(d, pic, h.lt, TRUE)
         /\ m.rps.lt_foll = FoundLongTerm(d, pic, h.lt, FALSE)
         /\ m.rps.st_curr_before = FoundShortTerm(e, PocsOf(pic, h.s0, TRUE))
         /\ m.rps.st_curr_after = FoundShortTerm(e, PocsOf(pic, h.s1, TRUE))
         /\ m.rps.st_foll = FoundShortTerm(e, PocsOf(pic, h.s0, FALSE) \o PocsOf(pic, h.s1, FALSE))
         /\ m.dpb = MarkAs(e, DOMAIN d.entries \ RpsPictures(m.rps), "None")
  BY DEF DeriveAndMark, LongTermMarked

LEMMA FoundInBoth ==
  ASSUME NEW d, IsBuffer(d), NEW pic, pic.poc \in Int,
         NEW s, NEW ns, HasEntries(s, ns), NEW t, NEW nt, HasEntries(t, nt)
  PROVE  FoundShortTerm(d, PocsOf(pic, s, FALSE) \o PocsOf(pic, t, FALSE))
           = FoundShortTerm(d, PocsOf(pic, s, FALSE)) \o FoundShortTerm(d, PocsOf(pic, t, FALSE))
<1> DEFINE a == PocsOf(pic, s, FALSE)
           b == PocsOf(pic, t, FALSE)
           m == Cardinality(UsedPlaces(s, FALSE))
           n == Cardinality(UsedPlaces(t, FALSE))
<1>1. /\ m \in Nat /\ n \in Nat /\ IsFiniteSet(UsedPlaces(s, FALSE)) /\ IsFiniteSet(UsedPlaces(t, FALSE))
  BY UsedPlacesFinite
<1>2. DOMAIN a = 1..m /\ DOMAIN b = 1..n
  <2>1. /\ DOMAIN Increasing(UsedPlaces(s, FALSE)) = 1..m
        /\ DOMAIN Increasing(UsedPlaces(t, FALSE)) = 1..n
    BY <1>1, InOrderLength
  <2>2. QED BY <2>1 DEF PocsOf, UsedPlaces
<1>3. a = [i \in 1..m |-> a[i]] /\ b = [i \in 1..n |-> b[i]]
  BY <1>2 DEF PocsOf
<1> HIDE DEF a, b, m, n
<1> DEFINE T == {a[i] : i \in 1..m} \cup {b[i] : i \in 1..n}
           f == FoundShortTerm(d, a)
           g == FoundShortTerm(d, b)
           c == a \o b
           h == FoundShortTerm(d, c)
<1>4. a \in Seq(T) /\ b \in Seq(T) /\ Len(a) = m /\ Len(b) = n
  <2>1. a \in [1..m -> T] /\ b \in [1..n -> T]
    BY <1>3
  <2> HIDE DEF T
  <2>2. QED BY <1>1, <2>1, SeqDef
<1> HIDE DEF T
<1>5. /\ c \in Seq(T) /\ Len(c) = m + n
      /\ \A i \in 1..(m + n) : c[i] = IF i <= m THEN a[i] ELSE b[i - m]
  BY <1>4, ConcatProperties
<1>6. DOMAIN c = 1..(m + n)
  BY <1>5, LenProperties
<1> HIDE DEF c
<1>7. /\ f = [i \in 1..m |-> FindShortTermRefByPoc(d, a[i])]
      /\ g = [i \in 1..n |-> FindShortTermRefByPoc(d, b[i])]
      /\ h = [i \in 1..(m + n) |-> FindShortTermRefByPoc(d, c[i])]
  BY <1>2, <1>6 DEF FoundShortTerm
<1> HIDE DEF f, g, h
<1>8. f \in [1..m -> Nat] /\ g \in [1..n -> Nat] /\ h \in [1..(m + n) -> Nat]
  BY <1>7, SearchesAreNumbers
<1>9. /\ f \in Seq(Nat) /\ g \in Seq(Nat) /\ h \in Seq(Nat)
      /\ Len(f) = m /\ Len(g) = n /\ Len(h) = m + n
  BY <1>1, <1>8, SeqDef
<1>10. /\ f \o g \in Seq(Nat) /\ Len(f \o g) = m + n
       /\ \A i \in 1..(m + n) : (f \o g)[i] = IF i <= m THEN f[i] ELSE g[i - m]
  BY <1>9, ConcatProperties
<1>11. \A i \in 1..(m + n) : h[i] = (f \o g)[i]
  <2> SUFFICES ASSUME NEW i \in 1..(m + n) PROVE h[i] = (f \o g)[i]
    OBVIOUS
  <2>1. CASE i <= m
    <3>1. i \in 1..m
      BY <1>1, <2>1
    <3>2. QED BY <1>5, <1>7, <1>10, <2>1, <3>1
  <2>2. CASE ~(i <= m)
    <3>1. i - m \in 1..n
      BY <1>1, <2>2
    <3>2. QED BY <1>5, <1>7, <1>10, <2>2, <3>1
  <2>3. QED BY <2>1, <2>2
<1>12. h = f \o g
  BY <1>9, <1>10, <1>11, SeqEqual
<1>13. QED BY <1>12 DEF h, f, g, c, a, b

(* The set that is found has no more pictures than the header names, and   *)
(* what is in no list is no reference.                                     *)
SetOf(rps, total) ==
  \E na, nb, nc, nl, nk \in Nat :
    /\ IsListOf(rps.st_curr_before, na) /\ IsListOf(rps.st_curr_after, nb)
    /\ IsListOf(rps.st_foll, nc)
    /\ IsListOf(rps.lt_curr, nl) /\ IsListOf(rps.lt_foll, nk)
    /\ na + nb + nc + nl + nk = total

LEMMA RangesOfLists ==
  ASSUME NEW rps, NEW total, SetOf(rps, total)
  PROVE  IsFiniteSet(RpsPictures(rps)) /\ Cardinality(RpsPictures(rps)) <= total
<1> DEFINE a == rps.st_curr_before
           b == rps.st_curr_after
           c == rps.st_foll
           l == rps.lt_curr
           k == rps.lt_foll
           U == RpsPictures(rps)
<1>0. PICK na, nb, nc, nl, nk \in Nat :
        /\ IsListOf(a, na) /\ IsListOf(b, nb) /\ IsListOf(c, nc) /\ IsListOf(l, nl) /\ IsListOf(k, nk)
        /\ na + nb + nc + nl + nk = total
  BY DEF SetOf
<1>u. U \in SUBSET (Range(a) \cup Range(b) \cup Range(c) \cup Range(l) \cup Range(k))
  BY DEF RpsPictures
<1> HIDE DEF a, b, c, l, k, U
<1> DEFINE A == Range(a) \cup Range(b)
           B == A \cup Range(c)
           C == B \cup Range(l)
           D == C \cup Range(k)
<1>1. /\ IsFiniteSet(Range(a)) /\ Cardinality(Range(a)) <= na
      /\ IsFiniteSet(Range(b)) /\ Cardinality(Range(b)) <= nb
      /\ IsFiniteSet(Range(c)) /\ Cardinality(Range(c)) <= nc
      /\ IsFiniteSet(Range(l)) /\ Cardinality(Range(l)) <= nl
      /\ IsFiniteSet(Range(k)) /\ Cardinality(Range(k)) <= nk
  BY <1>0 DEF IsListOf
<1>2. IsFiniteSet(A) /\ Cardinality(A) <= na + nb
  BY <1>1, RangesJoined
<1> HIDE DEF A
<1>3. na + nb \in Nat /\ na + nb + nc \in Nat /\ na + nb + nc + nl \in Nat
  OBVIOUS
<1>4. IsFiniteSet(B) /\ Cardinality(B) <= (na + nb) + nc
  BY <1>1, <1>2, <1>3, RangesJoined
<1> HIDE DEF B
<1>5. IsFiniteSet(C) /\ Cardinality(C) <= (na + nb + nc) + nl
  BY <1>1, <1>4, <1>3, RangesJoined
<1> HIDE DEF C
<1>6. IsFiniteSet(D) /\ Cardinality(D) <= (na + nb + nc + nl) + nk
  BY <1>1, <1>5, <1>3, RangesJoined
<1>7. U \in SUBSET D
  BY <1>u DEF A, B, C
<1> HIDE DEF D
<1>8. IsFiniteSet(U) /\ Cardinality(U) <= Cardinality(D)
  BY <1>6, <1>7, FS_Subset
<1>9. Cardinality(U) \in Nat /\ Cardinality(D) \in Nat
  BY <1>6, <1>8, FS_CardinalityType
<1>10. QED BY <1>0, <1>6, <1>8, <1>9 DEF U

LEMMA DerivedLists ==
  ASSUME NEW d, IsBuffer(d), NEW pic, pic.poc \in Int, NEW h, NEW n, Names(h, n),
         NEW m, m = DeriveAndMark(d, pic, h), NEW e, e = LongTermMarked(d, pic, h)
  PROVE  /\ Remarked(d, e) /\ IsBuffer(e)
         /\ SetOf(m.rps, n)
<1> DEFINE before == FoundShortTerm(e, PocsOf(pic, h.s0, TRUE))
           after == FoundShortTerm(e, PocsOf(pic, h.s1, TRUE))
           foll0 == FoundShortTerm(e, PocsOf(pic, h.s0, FALSE))
           foll1 == FoundShortTerm(e, PocsOf(pic, h.s1, FALSE))
<1>1. PICK n0, n1, nl \in Nat : /\ HasEntries(h.s0, n0) /\ HasEntries(h.s1, n1)
                                /\ HasEntries(h.lt, nl) /\ n0 + n1 + nl = n
  BY DEF Names
<1>3. PICK s0t \in Nat, s0f \in Nat :
        /\ s0t = Cardinality(UsedPlaces(h.s0, TRUE)) /\ s0f = Cardinality(UsedPlaces(h.s0, FALSE))
        /\ s0t + s0f = n0
  <2>1. /\ Cardinality(UsedPlaces(h.s0, TRUE)) \in Nat /\ Cardinality(UsedPlaces(h.s0, FALSE)) \in Nat
        /\ Cardinality(UsedPlaces(h.s0, TRUE)) + Cardinality(UsedPlaces(h.s0, FALSE)) = n0
    BY <1>1, UsedPlacesFinite
  <2>2. QED BY <2>1
<1>4. PICK s1t \in Nat, s1f \in Nat :
        /\ s1t = Cardinality(UsedPlaces(h.s1, TRUE)) /\ s1f = Cardinality(UsedPlaces(h.s1, FALSE))
        /\ s1t + s1f = n1
  <2>1. /\ Cardinality(UsedPlaces(h.s1, TRUE)) \in Nat /\ Cardinality(UsedPlaces(h.s1, FALSE)) \in Nat
        /\ Cardinality(UsedPlaces(h.s1, TRUE)) + Cardinality(UsedPlaces(h.s1, FALSE)) = n1
    BY <1>1, UsedPlacesFinite
  <2>2. QED BY <2>1
<1>5. PICK ltt \in Nat, ltf \in Nat :
        /\ ltt = Cardinality(UsedPlaces(h.lt, TRUE)) /\ ltf = Cardinality(UsedPlaces(h.lt, FALSE))
        /\ ltt + ltf = nl
  <2>1. /\ Cardinality(UsedPlaces(h.lt, TRUE)) \in Nat /\ Cardinality(UsedPlaces(h.lt, FALSE)) \in Nat
        /\ Cardinality(UsedPlaces(h.lt, TRUE)) + Cardinality(UsedPlaces(h.lt, FALSE)) = nl
    BY <1>1, UsedPlacesFinite
  <2>2. QED BY <2>1
<1>6. Remarked(d, e)
  BY MarkAsFacts DEF LongTermMarked, Marks
<1>7. IsBuffer(e)
  BY <1>6 DEF Remarked
<1>8. /\ m = [dpb |-> m.dpb, rps |-> m.rps]
      /\ m.rps = [st_curr_before |-> m.rps.st_curr_before, st_curr_after |-> m.rps.st_curr_after,
                  st_foll |-> m.rps.st_foll, lt_curr |-> m.rps.lt_curr, lt_foll |-> m.rps.lt_foll]
      /\ m.rps.lt_curr = FoundLongTerm(d, pic, h.lt, TRUE)
      /\ m.rps.lt_foll = FoundLongTerm(d, pic, h.lt, FALSE)
      /\ m.rps.st_curr_before = FoundShortTerm(e, PocsOf(pic, h.s0, TRUE))
      /\ m.rps.st_curr_after = FoundShortTerm(e, PocsOf(pic, h.s1, TRUE))
      /\ m.rps.st_foll = FoundShortTerm(e, PocsOf(pic, h.s0, FALSE) \o PocsOf(pic, h.s1, FALSE))
      /\ m.dpb = MarkAs(e, DOMAIN d.entries \ RpsPictures(m.rps), "None")
  BY DEF DeriveAndMark, LongTermMarked
<1>9. m.rps.st_foll = foll0 \o foll1
  <2>1. HasEntries(h.s0, n0) /\ HasEntries(h.s1, n1)
    BY <1>1
  <2>2. FoundShortTerm(e, PocsOf(pic, h.s0, FALSE) \o PocsOf(pic, h.s1, FALSE))
          = FoundShortTerm(e, PocsOf(pic, h.s0, FALSE)) \o FoundShortTerm(e, PocsOf(pic, h.s1, FALSE))
    BY <1>7, <2>1, FoundInBoth
  <2>3. QED BY <1>8, <2>2
<1>10. IsListOf(before, s0t)
  BY <1>1, <1>3, <1>7, FoundShortTermList
<1>11. IsListOf(foll0, s0f)
  BY <1>1, <1>3, <1>7, FoundShortTermList
<1>12. IsListOf(after, s1t)
  BY <1>1, <1>4, <1>7, FoundShortTermList
<1>13. IsListOf(foll1, s1f)
  BY <1>1, <1>4, <1>7, FoundShortTermList
<1>14. IsListOf(m.rps.lt_curr, ltt) /\ IsListOf(m.rps.lt_foll, ltf)
  <2>1. IsListOf(FoundLongTerm(d, pic, h.lt, TRUE), ltt)
    BY <1>1, <1>5, FoundLongTermList
  <2>2. IsListOf(FoundLongTerm(d, pic, h.lt, FALSE), ltf)
    BY <1>1, <1>5, FoundLongTermList
  <2>3. QED BY <1>8, <2>1, <2>2
<1> HIDE DEF before, after, foll0, foll1
<1>16. IsListOf(m.rps.st_foll, s0f + s1f)
  BY <1>3, <1>4, <1>9, <1>11, <1>13, ListsJoined
<1>17. s0t + s1t + (s0f + s1f) + ltt + ltf = n /\ s0f + s1f \in Nat
  <2>1. s0f + s1f \in Nat
    OBVIOUS
  <2>2. s0t + s1t + (s0f + s1f) + ltt + ltf = (s0t + s0f) + (s1t + s1f) + (ltt + ltf)
    OBVIOUS
  <2>3. s0t + s0f = n0
    BY <1>3
  <2>4. s1t + s1f = n1
    BY <1>4
  <2>5. ltt + ltf = nl
    BY <1>5
  <2>6. QED BY <1>1, <2>1, <2>2, <2>3, <2>4, <2>5
<1>18. IsListOf(m.rps.st_curr_before, s0t) /\ IsListOf(m.rps.st_curr_after, s1t)
  BY <1>8, <1>10, <1>12 DEF before, after
<1>19. SetOf(m.rps, n)
  <2> s0f + s1f \in Nat
    BY <1>17
  <2> SUFFICES \E na, nb, nc, nd, ne \in Nat :
                 /\ IsListOf(m.rps.st_curr_before, na) /\ IsListOf(m.rps.st_curr_after, nb)
                 /\ IsListOf(m.rps.st_foll, nc)
                 /\ IsListOf(m.rps.lt_curr, nd) /\ IsListOf(m.rps.lt_foll, ne)
                 /\ na + nb + nc + nd + ne = n
    BY DEF SetOf
  <2> WITNESS s0t \in Nat, s1t \in Nat, s0f + s1f \in Nat, ltt \in Nat, ltf \in Nat
  <2> QED BY <1>14, <1>16, <1>17, <1>18
<1>20. QED BY <1>6, <1>7, <1>19

LEMMA DerivedFacts ==
  ASSUME NEW d, IsBuffer(d), NEW pic, pic.poc \in Int, NEW h, NEW n, Names(h, n),
         NEW m, m = DeriveAndMark(d, pic, h)
  PROVE  /\ m = [dpb |-> m.dpb, rps |-> m.rps]
         /\ Remarked(d, m.dpb)
         /\ m.rps \in RefPicSet
         /\ References(m.dpb) \subseteq RpsPictures(m.rps)
         /\ IsFiniteSet(RpsPictures(m.rps))
         /\ Cardinality(RpsPictures(m.rps)) <= n
<1> DEFINE e == LongTermMarked(d, pic, h)
<1>1. /\ Remarked(d, e) /\ IsBuffer(e)
      /\ SetOf(m.rps, n)
  <2> HIDE DEF e
  <2>1. e = LongTermMarked(d, pic, h)
    BY DEF e
  <2>2. QED BY <2>1, DerivedLists
<1> HIDE DEF e
<1>2. /\ m = [dpb |-> m.dpb, rps |-> m.rps]
      /\ m.rps = [st_curr_before |-> m.rps.st_curr_before, st_curr_after |-> m.rps.st_curr_after,
                  st_foll |-> m.rps.st_foll, lt_curr |-> m.rps.lt_curr, lt_foll |-> m.rps.lt_foll]
      /\ m.rps.lt_curr = FoundLongTerm(d, pic, h.lt, TRUE)
      /\ m.rps.lt_foll = FoundLongTerm(d, pic, h.lt, FALSE)
      /\ m.rps.st_curr_before = FoundShortTerm(e, PocsOf(pic, h.s0, TRUE))
      /\ m.rps.st_curr_after = FoundShortTerm(e, PocsOf(pic, h.s1, TRUE))
      /\ m.rps.st_foll = FoundShortTerm(e, PocsOf(pic, h.s0, FALSE) \o PocsOf(pic, h.s1, FALSE))
      /\ m.dpb = MarkAs(e, DOMAIN d.entries \ RpsPictures(m.rps), "None")
  BY DEF DeriveAndMark, LongTermMarked, e
<1>4. m.rps \in RefPicSet
  BY <1>1, <1>2 DEF SetOf, RefPicSet, IsListOf
<1>5. Remarked(e, m.dpb)
      /\ \A i \in DOMAIN e.entries :
           m.dpb.entries[i].reference = IF i \in DOMAIN d.entries \ RpsPictures(m.rps) THEN "None"
                                        ELSE e.entries[i].reference
  BY <1>1, <1>2, MarkAsFacts DEF Marks
<1>6. Remarked(d, m.dpb)
  BY <1>1, <1>5, RemarkedTrans
<1>7. References(m.dpb) \subseteq RpsPictures(m.rps)
  BY <1>1, <1>5, <1>6, PlaceSets DEF Remarked
<1>8. /\ IsFiniteSet(RpsPictures(m.rps))
      /\ Cardinality(RpsPictures(m.rps)) <= n
  BY <1>1, RangesOfLists
<1>9. QED BY <1>2, <1>4, <1>6, <1>7, <1>8

-----------------------------------------------------------------------------
(* Order counts.                                                           *)

LEMMA DivMod ==
  ASSUME NEW M \in Nat \ {0}, NEW x \in Int
  PROVE  x % M \in 0..(M-1) /\ (x \div M) \in Int /\ x = M * (x \div M) + (x % M)
  OBVIOUS

LEMMA Multiples ==
  ASSUME NEW M \in Nat \ {0, 1}, NEW k \in Int
  PROVE  /\ M * k \in Int
         /\ k >= 2 => M * k >= M + M
         /\ k <= -2 => M * k <= -(M + M)
         /\ k = 1 => M * k = M
         /\ k = 0 => M * k = 0
         /\ k = -1 => M * k = -M
  OBVIOUS

LEMMA Half ==
  ASSUME NEW M \in Nat \ {0, 1}
  PROVE  (M \div 2) \in Nat /\ 2 * (M \div 2) <= M /\ M <= 2 * (M \div 2) + 1
  OBVIOUS

(* 8-1: a number is told from its low bits by one that is near.            *)
Recoverable(M, a, p) ==
  \E la, lp \in 0..(M - 1), half \in Nat, d \in Int :
    /\ la = a % M /\ lp = p % M /\ half = M \div 2
    /\ p = (a - la) + d + lp
    /\ d = IF lp < la /\ la - lp >= half THEN M
           ELSE IF lp > la /\ lp - la > half THEN -M ELSE 0

LEMMA Recovered ==
  ASSUME NEW M \in Nat \ {0, 1}, NEW a \in Int, NEW p \in Int,
         p \in (a - (M \div 2) + 1)..(a + (M \div 2) - 1)
  PROVE  Recoverable(M, a, p)
<1>1. PICK half \in Nat : half = M \div 2 /\ 2 * half <= M /\ M <= 2 * half + 1
  BY Half
<1>2. PICK la \in 0..(M-1), q \in Int : la = a % M /\ a = M * q + la
  BY DivMod
<1>3. PICK lp \in 0..(M-1), r \in Int : lp = p % M /\ p = M * r + lp
  BY DivMod
<1>4. PICK k \in Int : k = r - q
  OBVIOUS
<1>5. PICK d \in Int, mq \in Int, mr \in Int : d = M * k /\ mq = M * q /\ mr = M * r /\ mr = mq + d
  BY <1>4
<1>6. /\ k >= 2 => d >= M + M
      /\ k <= -2 => d <= -(M + M)
      /\ k = 1 => d = M
      /\ k = 0 => d = 0
      /\ k = -1 => d = -M
  BY <1>5, Multiples
<1>7. p >= a - half + 1 /\ p <= a + half - 1
  <2>1. p \in (a - half + 1)..(a + half - 1)
    BY <1>1
  <2>2. QED BY <2>1
<1>8. p - a = d + lp - la /\ p - a <= half - 1 /\ p - a >= 1 - half
  <2>1. a = mq + la /\ p = mr + lp /\ mr = mq + d
    BY <1>2, <1>3, <1>5
  <2>2. lp \in Int /\ la \in Int
    OBVIOUS
  <2>3. p - a = d + lp - la
    BY <2>1, <2>2
  <2>4. QED BY <1>7, <2>3
<1>9. d = M \/ d = 0 \/ d = -M
  BY <1>1, <1>6, <1>8
<1>10. d = IF lp < la /\ la - lp >= half THEN M
           ELSE IF lp > la /\ lp - la > half THEN -M ELSE 0
  BY <1>1, <1>8, <1>9
<1>11. p = (a - la) + d + lp
  BY <1>8
<1>12. QED BY <1>1, <1>2, <1>3, <1>10, <1>11 DEF Recoverable

-----------------------------------------------------------------------------
(* The inductive invariant.                                                *)

Cur == IF current_pic = NoPicture THEN {} ELSE {current_pic.pic.n}
LastTid0 ==
  IF current_pic # NoPicture /\ current_pic.pic.valid_for_prev_tid0_pic
    THEN current_pic.pic ELSE prev_tid_0_pic

Sent ==
  [type : Types, tid : Nat, poc : Int, pic_output_flag : BOOLEAN, refs : SUBSET Nat,
   long_term : SUBSET Nat, use : SUBSET Nat, seq : Nat, joined : BOOLEAN]
States == {"AwaitingStreamInfo", "AwaitingFormat", "Decoding", "Reset"}
Comings == {"IRAP", "any", "new sequence", "IRAP after a seek"}

TypesRight ==
  /\ stream \in Streams
  /\ decoding_state \in States
  /\ sps \in stream.sets \cup {NoSet} /\ awaited \in stream.sets \cup {NoSet}
  /\ max_pic_order_cnt_lsb \in Nat /\ negotiation_info \in Nat \cup {NoSet}
  /\ IsBuffer(dpb)
  /\ current_pic \in [pic : Picture, rps : RefPicSet] \cup {NoPicture}
  /\ prev_tid_0_pic \in Picture \cup {NoPicture}
  /\ first_picture_after_eos \in BOOLEAN /\ first_picture_in_bitstream \in BOOLEAN
  /\ irap_no_rasl_output_flag \in BOOLEAN
  /\ ready_queue \in Seq(Nat)
  /\ outcome \in {"Ok", "Error"}
  /\ sent \in Seq(Sent)
  /\ next \in Comings
  /\ dropped \in SUBSET DOMAIN sent

(* What may come next goes with the state of the decoder.                  *)
ModesRight ==
  /\ decoding_state = "AwaitingStreamInfo" => sent = <<>> /\ negotiation_info = NoSet
  /\ decoding_state = "AwaitingFormat" => awaited # NoSet /\ awaited = sps /\ current_pic = NoPicture
  /\ decoding_state \in {"AwaitingStreamInfo", "AwaitingFormat"} => outcome = "Ok"
  /\ negotiation_info # NoSet => sps # NoSet /\ max_pic_order_cnt_lsb = sps.max_lsb
  /\ next = "any" => /\ decoding_state = "Decoding"
                     /\ ~first_picture_after_eos /\ ~first_picture_in_bitstream
                     /\ sent # <<>> /\ sps # NoSet /\ ~NegotiationPossible(dpb)
  /\ next = "IRAP" => first_picture_after_eos
  /\ next = "IRAP after a seek" => DOMAIN dpb.entries = {} /\ current_pic = NoPicture

(* The stream.                                                             *)
StreamRight ==
  /\ \A n \in DOMAIN sent : sent[n].seq <= Sequence /\ sent[n].refs \subseteq 1..(n - 1)
  /\ sent # <<>> => \E n \in Numbers : sent[n].tid = 0 /\ IsIrap(sent[n].type)
  /\ \A m, n \in Numbers : Poc(m) = Poc(n) => m = n

(* What is in the buffer is of the sequence that was sent last.            *)
PlacesRight ==
  /\ DOMAIN dpb.entries \subseteq Numbers
  /\ current_pic # NoPicture => /\ sent # <<>> /\ current_pic.pic.n = Len(sent)
                                /\ Len(sent) \notin DOMAIN dpb.entries

(* The pictures have their order counts but for an offset, and the picture *)
(* that the next is numbered after is the one that it should be.           *)
Offset(off) ==
  /\ \A n \in DOMAIN dpb.entries : PocOf(dpb, n) = Poc(n) + off
  /\ current_pic # NoPicture => current_pic.pic.poc = Latest.poc + off
  /\ next = "any" => /\ LastTid0 # NoPicture
                     /\ LastTid0.poc = Poc(Anchor) + off
                     /\ LastTid0.poc = LastTid0.msb + LastTid0.lsb
                     /\ LastTid0.lsb = Poc(Anchor) % sps.max_lsb
CountsRight == \E off \in Int : Offset(off)

LevelSuffices == \A set \in stream.sets : set.max_num_pics >= set.max_dec_pic_buffering
RoomRight ==
  /\ outcome = "Error" => ~LevelSuffices
  /\ LevelSuffices /\ current_pic # NoPicture => ~IsFull(dpb)

Shown == {n \in DOMAIN sent : sent[n].pic_output_flag}
(* What is in q is what was for output and does not wait in W.             *)
Queue(q, W) ==
  /\ q \in Seq(Nat) /\ Injective(q)
  /\ W \subseteq Shown \ dropped
  /\ Range(q) = Shown \ (W \cup dropped)
Pending ==
  Waits \cup (IF current_pic # NoPicture /\ current_pic.pic.pic_output_flag THEN Cur ELSE {})
AccountRight ==
  outcome = "Ok" =>
    /\ Queue(ready_queue, Pending)
    /\ current_pic # NoPicture => current_pic.pic.pic_output_flag = Latest.pic_output_flag

Invariant ==
  /\ TypesRight /\ ModesRight /\ StreamRight /\ PlacesRight /\ CountsRight /\ RoomRight
  /\ AccountRight

LEMMA Joined ==
  ASSUME NEW T, NEW s \in Seq(T), NEW t \in Seq(T)
  PROVE  /\ s \o t \in Seq(T) /\ Len(s \o t) = Len(s) + Len(t)
         /\ Len(s) \in Nat /\ Len(t) \in Nat
         /\ \A k \in 1..(Len(s) + Len(t)) : (s \o t)[k] = IF k <= Len(s) THEN s[k] ELSE t[k - Len(s)]
         /\ Range(s \o t) = Range(s) \cup Range(t)
<1> DEFINE u == s \o t
<1>1. /\ u \in Seq(T) /\ Len(u) = Len(s) + Len(t) /\ Len(s) \in Nat /\ Len(t) \in Nat
      /\ \A k \in 1..(Len(s) + Len(t)) : u[k] = IF k <= Len(s) THEN s[k] ELSE t[k - Len(s)]
  BY ConcatProperties, LenProperties
<1>2. DOMAIN s = 1..Len(s) /\ DOMAIN t = 1..Len(t) /\ DOMAIN u = 1..(Len(s) + Len(t))
  BY <1>1, LenProperties
<1> HIDE DEF u
<1>3. \A k \in DOMAIN u : u[k] \in Range(s) \cup Range(t)
  <2> SUFFICES ASSUME NEW k \in 1..(Len(s) + Len(t)) PROVE u[k] \in Range(s) \cup Range(t)
    BY <1>2
  <2>1. CASE k <= Len(s)
    <3>1. k \in 1..Len(s) /\ u[k] = s[k]
      BY <1>1, <2>1
    <3>2. QED BY <1>2, <3>1 DEF Range
  <2>2. CASE ~(k <= Len(s))
    <3>1. k - Len(s) \in 1..Len(t) /\ u[k] = t[k - Len(s)]
      BY <1>1, <2>2
    <3>2. QED BY <1>2, <3>1 DEF Range
  <2>3. QED BY <2>1, <2>2
<1>4. \A x \in Range(s) : x \in Range(u)
  <2> SUFFICES ASSUME NEW k \in 1..Len(s) PROVE s[k] \in Range(u)
    BY <1>2 DEF Range
  <2>1. k \in 1..(Len(s) + Len(t)) /\ u[k] = s[k]
    BY <1>1
  <2>2. QED BY <1>2, <2>1 DEF Range
<1>5. \A x \in Range(t) : x \in Range(u)
  <2> SUFFICES ASSUME NEW k \in 1..Len(t) PROVE t[k] \in Range(u)
    BY <1>2 DEF Range
  <2>1. k + Len(s) \in 1..(Len(s) + Len(t)) /\ ~(k + Len(s) <= Len(s)) /\ (k + Len(s)) - Len(s) = k
    BY <1>1
  <2>2. u[k + Len(s)] = t[k]
    BY <1>1, <2>1
  <2>3. QED BY <1>2, <2>1, <2>2 DEF Range
<1>6. Range(u) = Range(s) \cup Range(t)
  BY <1>3, <1>4, <1>5 DEF Range
<1>7. QED BY <1>1, <1>6 DEF u

LEMMA Queued ==
  ASSUME NEW q, NEW W, Queue(q, W), NEW out \in Seq(Nat), Injective(out),
         NEW V \in SUBSET W, Range(out) = W \ V
  PROVE  Queue(q \o out, V)
<1> DEFINE u == q \o out
<1>1. q \in Seq(Nat) /\ Injective(q) /\ W \subseteq Shown \ dropped /\ Range(q) = Shown \ (W \cup dropped)
  BY DEF Queue
<1>2. /\ u \in Seq(Nat) /\ Len(u) = Len(q) + Len(out)
      /\ Len(q) \in Nat /\ Len(out) \in Nat
      /\ \A k \in 1..(Len(q) + Len(out)) : u[k] = IF k <= Len(q) THEN q[k] ELSE out[k - Len(q)]
      /\ Range(u) = Range(q) \cup Range(out)
  BY <1>1, Joined
<1> HIDE DEF u
<1>3. DOMAIN q = 1..Len(q) /\ DOMAIN out = 1..Len(out)
  BY <1>1, LenProperties
<1>4. \A k \in 1..Len(q) : q[k] \in Range(q)
  BY <1>3 DEF Range
<1>5. \A k \in 1..Len(out) : out[k] \in Range(out)
  BY <1>3 DEF Range
<1>6. \A k \in 1..Len(q), l \in 1..Len(out) : q[k] # out[l]
  BY <1>1, <1>4, <1>5
<1>7. Injective(u)
  <2> SUFFICES ASSUME NEW k \in 1..(Len(q) + Len(out)), NEW l \in 1..(Len(q) + Len(out)), u[k] = u[l]
               PROVE  k = l
    BY <1>2 DEF Injective
  <2>1. CASE k <= Len(q) /\ l <= Len(q)
    <3>1. k \in 1..Len(q) /\ l \in 1..Len(q) /\ q[k] = q[l]
      BY <1>2, <2>1
    <3>2. QED BY <1>1, <3>1 DEF Injective
  <2>2. CASE ~(k <= Len(q)) /\ ~(l <= Len(q))
    <3>1. k - Len(q) \in 1..Len(out) /\ l - Len(q) \in 1..Len(out) /\ out[k - Len(q)] = out[l - Len(q)]
      BY <1>2, <2>2
    <3>2. k - Len(q) = l - Len(q)
      BY <3>1 DEF Injective
    <3>3. QED BY <1>2, <3>2
  <2>3. CASE k <= Len(q) /\ ~(l <= Len(q))
    <3>1. k \in 1..Len(q) /\ l - Len(q) \in 1..Len(out)
      BY <1>2, <2>3
    <3>2. u[k] = q[k] /\ u[l] = out[l - Len(q)]
      BY <1>2, <2>3
    <3>3. QED BY <1>6, <3>1, <3>2
  <2>4. CASE ~(k <= Len(q)) /\ l <= Len(q)
    <3>1. l \in 1..Len(q) /\ k - Len(q) \in 1..Len(out) /\ q[l] = out[k - Len(q)]
      BY <1>2, <2>4
    <3>2. QED BY <1>6, <3>1
  <2>5. QED BY <2>1, <2>2, <2>3, <2>4
<1>8. Range(u) = Shown \ (V \cup dropped) /\ V \subseteq Shown \ dropped
  BY <1>1, <1>2
<1>9. QED BY <1>2, <1>7, <1>8 DEF Queue, u

(* What a call has come to, before it sends anything on.                   *)
Settled(s) ==
  /\ s.prev_tid_0_pic = LastTid0
  /\ IsBuffer(s.dpb)
  /\ DOMAIN s.dpb.entries \subseteq Numbers
  /\ \A off \in Int : Offset(off) => \A n \in DOMAIN s.dpb.entries : PocOf(s.dpb, n) = Poc(n) + off
  /\ next = "IRAP after a seek" => DOMAIN s.dpb.entries = {}
  /\ Queue(ready_queue \o s.out, Waiting(s.dpb))

(* The picture before is finished: s is how.                               *)
Resumed(s) ==
  /\ s = [dpb |-> s.dpb, prev_tid_0_pic |-> s.prev_tid_0_pic, out |-> s.out, cleared |-> {},
          ok |-> TRUE]
  /\ Settled(s)
  /\ PocsDiffer(s.dpb)
  /\ s.out \in Seq(Nat)

LEMMA SentTypes ==
  ASSUME TypesRight
  PROVE  /\ Len(sent) \in Nat /\ DOMAIN sent = 1..Len(sent)
         /\ \A n \in DOMAIN sent : sent[n] \in Sent
         /\ \A n \in DOMAIN sent : Poc(n) \in Int
         /\ sent # <<>> => Len(sent) \in DOMAIN sent /\ Len(sent) \in Numbers /\ Latest \in Sent
         /\ Sequence \in Nat
         /\ Numbers \subseteq DOMAIN sent /\ IsFiniteSet(Numbers) /\ Numbers \subseteq Nat \ {0}
<1>1. Len(sent) \in Nat /\ DOMAIN sent = 1..Len(sent) /\ \A n \in DOMAIN sent : sent[n] \in Sent
  BY LenProperties, ElementOfSeq DEF TypesRight
<1>2. \A n \in DOMAIN sent : Poc(n) \in Int
  BY <1>1 DEF Poc, Sent
<1>3. sent # <<>> => Len(sent) \in DOMAIN sent /\ Latest \in Sent
  BY <1>1, EmptySeq DEF TypesRight, Latest
<1>4. sent # <<>> => Len(sent) \in Numbers
  BY <1>3 DEF Numbers, OfSequence, Sequence, Latest
<1>5. Sequence \in Nat
  BY <1>3 DEF Sequence, Sent
<1>6. Numbers \subseteq DOMAIN sent
  BY DEF Numbers
<1>7. IsFiniteSet(Numbers)
  <2>1. IsFiniteSet(1..Len(sent))
    BY <1>1, FS_Interval
  <2>2. QED BY <1>1, <1>6, <2>1, FS_Subset
<1>8. QED BY <1>1, <1>2, <1>3, <1>4, <1>5, <1>6, <1>7

LEMMA FinishedFacts ==
  ASSUME Invariant, outcome = "Ok", NEW s, s = Finished, s.ok
  PROVE  Resumed(s) /\ s.dpb.max_num_pics = dpb.max_num_pics
<1>1. /\ TypesRight /\ PlacesRight /\ StreamRight /\ IsBuffer(dpb)
      /\ Queue(ready_queue, Pending)
      /\ ready_queue \in Seq(Nat)
  BY DEF Invariant, TypesRight, AccountRight
<1>2. PICK off \in Int : Offset(off)
  BY DEF Invariant, CountsRight
<1>3. \A n \in DOMAIN dpb.entries : n \in DOMAIN sent /\ n \in Numbers /\ n \in Nat /\ Poc(n) \in Int
  BY <1>1, SentTypes DEF PlacesRight
<1>4. \A m, n \in Numbers : Poc(m) = Poc(n) => m = n
  BY <1>1 DEF StreamRight
<1>5. CASE current_pic = NoPicture
  <2>1. s = [dpb |-> dpb, prev_tid_0_pic |-> prev_tid_0_pic, out |-> <<>>, cleared |-> {}, ok |-> TRUE]
    BY <1>5 DEF Finished, Session
  <2>2. s.prev_tid_0_pic = LastTid0
    BY <1>5, <2>1 DEF LastTid0
  <2>3. PocsDiffer(dpb)
    BY <1>2, <1>3, <1>4 DEF PocsDiffer, Offset
  <2>4. Pending = Waiting(dpb)
    BY <1>5 DEF Pending, Waits
  <2>5. ready_queue \o <<>> = ready_queue
    BY <1>1, ConcatEmptySeq
  <2>6. \A o \in Int : Offset(o) => \A n \in DOMAIN dpb.entries : PocOf(dpb, n) = Poc(n) + o
    BY DEF Offset
  <2>7. next = "IRAP after a seek" => DOMAIN dpb.entries = {}
    BY DEF Invariant, ModesRight
  <2>8. DOMAIN dpb.entries \subseteq Numbers
    BY <1>3
  <2>9. /\ s.dpb = dpb /\ s.out = <<>> /\ s.out \in Seq(Nat)
        /\ s = [dpb |-> s.dpb, prev_tid_0_pic |-> s.prev_tid_0_pic, out |-> s.out, cleared |-> {},
                ok |-> TRUE]
    BY <2>1
  <2>10. Queue(ready_queue \o s.out, Waiting(s.dpb))
    BY <1>1, <2>4, <2>5, <2>9
  <2>11. QED BY <1>1, <2>2, <2>3, <2>6, <2>7, <2>8, <2>9, <2>10 DEF Resumed, Settled
<1>6. CASE current_pic # NoPicture
  <2>a. PICK pic : pic = current_pic.pic
    OBVIOUS
  <2>b. PICK stored : stored = StorePicture(dpb, pic)
    OBVIOUS
  <2> DEFINE b == BumpAsNeeded(stored, sps, "AfterDecoding")
             new == IF pic.pic_output_flag THEN {pic.n} ELSE {}
  <2>1. /\ pic \in Picture /\ sent # <<>> /\ pic.n = Len(sent) /\ pic.n \notin DOMAIN dpb.entries
        /\ pic.n \in Numbers /\ pic.n # 0 /\ pic.n \in Nat /\ Latest.poc = Poc(pic.n)
        /\ Cur = {pic.n} /\ Pending = Waiting(dpb) \cup new
    <3>1. pic \in Picture
      BY <1>1, <1>6, <2>a DEF TypesRight
    <3>2. sent # <<>> /\ pic.n = Len(sent) /\ pic.n \notin DOMAIN dpb.entries
      BY <1>1, <1>6, <2>a DEF PlacesRight
    <3>3. QED BY <1>1, <1>6, <2>a, <3>1, <3>2, SentTypes DEF Cur, Pending, Latest, Poc, Waits
  <2>2. /\ ~IsFull(dpb)
        /\ s = Bumped([Session EXCEPT !.prev_tid_0_pic =
                         IF pic.valid_for_prev_tid0_pic THEN pic ELSE Session.prev_tid_0_pic], b)
    <3>1. s = FinishPicture(Session, pic)
      BY <1>6, <2>a DEF Finished
    <3>2. Session.dpb = dpb
      BY DEF Session
    <3>3. ~IsFull(dpb)
      BY <3>1, <3>2 DEF FinishPicture, Session
    <3>4. QED BY <2>b, <3>1, <3>2, <3>3 DEF FinishPicture
  <2>3. s = [dpb |-> b.dpb, prev_tid_0_pic |-> LastTid0, out |-> <<>> \o b.out, cleared |-> {},
             ok |-> TRUE]
    BY <1>6, <2>a, <2>2 DEF Bumped, Session, LastTid0
  <2>4. /\ IsBuffer(stored) /\ stored.max_num_pics = dpb.max_num_pics
        /\ DOMAIN stored.entries = DOMAIN dpb.entries \cup {pic.n}
        /\ \A i \in DOMAIN dpb.entries : stored.entries[i].poc = dpb.entries[i].poc /\ i # pic.n
        /\ stored.entries[pic.n].poc = pic.poc
        /\ Waiting(stored) = Waiting(dpb) \cup new
    BY <1>1, <2>b, <2>1, StorePictureFacts
  <2>5. \A n \in DOMAIN stored.entries :
          PocOf(stored, n) = IF n = pic.n THEN pic.poc ELSE PocOf(dpb, n)
    BY <2>4 DEF PocOf
  <2>6. \A o \in Int : Offset(o) => \A n \in DOMAIN stored.entries : PocOf(stored, n) = Poc(n) + o
    BY <1>6, <2>a, <2>1, <2>4, <2>5 DEF Offset
  <2>7. DOMAIN stored.entries \subseteq Numbers
    BY <1>3, <2>1, <2>4
  <2>8. PocsDiffer(stored)
    <3>1. \A n \in DOMAIN stored.entries : n \in Numbers /\ Poc(n) \in Int
      BY <1>1, <2>7, SentTypes
    <3>2. QED BY <1>2, <1>4, <2>6, <3>1 DEF PocsDiffer
  <2>9. Popped(stored, "AfterDecoding", b)
    BY <2>4, <2>8, BumpedAsNeeded
  <2> HIDE DEF b, new
  <2>10. /\ IsBuffer(b.dpb) /\ b.dpb.max_num_pics = dpb.max_num_pics
         /\ DOMAIN b.dpb.entries \subseteq DOMAIN stored.entries
         /\ \A n \in DOMAIN b.dpb.entries : PocOf(b.dpb, n) = PocOf(stored, n)
         /\ Waiting(b.dpb) \subseteq Pending
         /\ b.out \in Seq(Pending) /\ Injective(b.out) /\ Range(b.out) = Pending \ Waiting(b.dpb)
    BY <2>1, <2>4, <2>9 DEF Popped, Same, PocOf
  <2>11. PocsDiffer(b.dpb)
    BY <2>8, <2>10 DEF PocsDiffer
  <2>12. b.out \in Seq(Nat) /\ <<>> \o b.out = b.out
    <3>1. Pending \subseteq Nat
      BY <1>1, SentTypes DEF Queue, Shown
    <3>2. b.out \in Seq(Nat)
      BY <2>10, <3>1, SeqMonotonic
    <3>3. QED BY <3>2, ConcatEmptySeq
  <2>13. Queue(ready_queue \o b.out, Waiting(b.dpb))
    BY <1>1, <2>10, <2>12, Queued
  <2>14. next # "IRAP after a seek"
    BY <1>6 DEF Invariant, ModesRight
  <2>15. /\ s.dpb = b.dpb /\ s.out = b.out /\ s.prev_tid_0_pic = LastTid0
         /\ s = [dpb |-> s.dpb, prev_tid_0_pic |-> s.prev_tid_0_pic, out |-> s.out, cleared |-> {},
                 ok |-> TRUE]
    BY <2>3, <2>12
  <2>16. DOMAIN b.dpb.entries \subseteq Numbers
    BY <2>7, <2>10
  <2>17. \A o \in Int : Offset(o) => \A n \in DOMAIN b.dpb.entries : PocOf(b.dpb, n) = Poc(n) + o
    BY <2>6, <2>10
  <2>18. QED BY <2>10, <2>11, <2>12, <2>13, <2>14, <2>15, <2>16, <2>17 DEF Resumed, Settled
<1>7. QED BY <1>5, <1>6

LEMMA DrainedFacts ==
  ASSUME Invariant, NEW s, Resumed(s), NEW t, t = DrainAll(s)
  PROVE  Settled(t) /\ t.dpb = EmptyDpb(s.dpb.max_num_pics) /\ t.cleared = {}
<1> DEFINE r == Drain(s.dpb)
<1>1. IsBuffer(s.dpb) /\ PocsDiffer(s.dpb)
  BY DEF Resumed, Settled
<1>2. /\ r.dpb = EmptyDpb(s.dpb.max_num_pics)
      /\ r.out \in Seq(Waiting(s.dpb)) /\ Injective(r.out) /\ Range(r.out) = Waiting(s.dpb)
  BY <1>1, Drained
<1>3. t = [s EXCEPT !.dpb = r.dpb, !.out = s.out \o r.out]
  BY DEF DrainAll, Bumped
<1> HIDE DEF r
<1>4. /\ t.dpb = r.dpb /\ t.prev_tid_0_pic = LastTid0 /\ t.cleared = {} /\ t.out = s.out \o r.out
  <2>1. PICK d, p, o : s = [dpb |-> d, prev_tid_0_pic |-> p, out |-> o, cleared |-> {}, ok |-> TRUE]
    BY DEF Resumed, Settled
  <2>2. PICK o2 : o2 = s.out \o r.out
    OBVIOUS
  <2>3. PICK e : e = r.dpb
    OBVIOUS
  <2>4. t = [s EXCEPT !.dpb = e, !.out = o2]
    BY <1>3, <2>2, <2>3
  <2>5. t.dpb = e /\ t.prev_tid_0_pic = s.prev_tid_0_pic /\ t.cleared = {} /\ t.out = o2
    BY <2>1, <2>4
  <2>6. QED BY <2>2, <2>3, <2>5 DEF Resumed, Settled
<1>5. Queue(ready_queue \o s.out, Waiting(s.dpb))
  BY DEF Resumed, Settled
<1>6. s.out \in Seq(Nat) /\ ready_queue \in Seq(Nat) /\ r.out \in Seq(Nat)
  <2>1. Waiting(s.dpb) \subseteq Nat
    BY <1>1, PlacesFinite
  <2>2. r.out \in Seq(Nat)
    BY <1>2, <2>1, SeqMonotonic
  <2>3. QED BY <2>2 DEF Resumed, Invariant, TypesRight
<1>7. Queue((ready_queue \o s.out) \o r.out, {})
  <2>1. {} \in SUBSET Waiting(s.dpb) /\ Range(r.out) = Waiting(s.dpb) \ {}
    BY <1>2
  <2>2. QED BY <1>2, <1>5, <1>6, <2>1, Queued
<1>8. (ready_queue \o s.out) \o r.out = ready_queue \o (s.out \o r.out)
  <2>1. PICK a \in Seq(Nat), b \in Seq(Nat), c \in Seq(Nat) : a = ready_queue /\ b = s.out /\ c = r.out
    BY <1>6
  <2>2. (a \o b) \o c = a \o (b \o c)
    BY ConcatAssociative
  <2>3. QED BY <2>1, <2>2
<1>9. s.dpb.max_num_pics \in Nat
  BY <1>1 DEF IsBuffer
<1>10. IsBuffer(t.dpb) /\ DOMAIN t.dpb.entries = {} /\ Waiting(t.dpb) = {}
  BY <1>2, <1>4, <1>9, EmptyFacts
<1>11. QED BY <1>2, <1>4, <1>7, <1>8, <1>10 DEF Settled

LEMMA StreamKept ==
  ASSUME StreamRight, sent' = sent
  PROVE  StreamRight' /\ Numbers' = Numbers /\ Sequence' = Sequence /\ \A n : Poc(n)' = Poc(n)
  BY DEF StreamRight, Numbers, OfSequence, Sequence, Latest, Poc

(* The parts of the invariant that do not depend on the modes.             *)
LEMMA SettledKept ==
  ASSUME Invariant, outcome = "Ok", NEW s, Settled(s), Keep(s), current_pic' = NoPicture,
         UNCHANGED <<stream, sent, dropped>>, outcome' = "Ok",
         next' # "any" \/ (next' = next /\ sps' = sps)
  PROVE  StreamRight' /\ PlacesRight' /\ CountsRight' /\ RoomRight' /\ AccountRight'
<1>1. /\ StreamRight' /\ Numbers' = Numbers /\ Sequence' = Sequence
      /\ \A n : Poc(n)' = Poc(n)
  BY StreamKept DEF Invariant
<1>2. PlacesRight'
  BY <1>1 DEF PlacesRight, Settled, Keep
<1>3. PICK off \in Int : Offset(off)
  BY DEF Invariant, CountsRight
<1>4. \A n \in DOMAIN s.dpb.entries : PocOf(s.dpb, n) = Poc(n) + off
  BY <1>3 DEF Settled
<1>5. LastTid0' = LastTid0
  BY DEF LastTid0, Settled, Keep
<1>6. Anchor' = Anchor
  BY <1>1 DEF Anchor
<1>7. Offset(off)'
  <2>1. next' = "any" => next = "any" /\ sps' = sps
    OBVIOUS
  <2>2. \A n \in DOMAIN dpb'.entries : PocOf(dpb', n) = Poc(n)' + off
    BY <1>1, <1>4 DEF Keep
  <2>3. Poc(Anchor)' = Poc(Anchor)
    BY <1>6 DEF Poc
  <2>4. QED BY <1>3, <1>5, <2>1, <2>2, <2>3 DEF Offset
<1>8. CountsRight'
  BY <1>7 DEF CountsRight
<1>9. RoomRight'
  BY DEF RoomRight
<1>10. Pending' = Waiting(s.dpb) /\ Shown' = Shown
  BY DEF Pending, Waits, Keep, Shown
<1>11. AccountRight'
  BY <1>10 DEF AccountRight, Settled, Keep, Queue
<1>12. QED BY <1>1, <1>2, <1>8, <1>9, <1>11

LEMMA SettledTypes ==
  ASSUME Invariant, NEW s, Settled(s), Keep(s)
  PROVE  /\ IsBuffer(dpb') /\ dpb' = s.dpb
         /\ prev_tid_0_pic' \in Picture \cup {NoPicture}
         /\ ready_queue' \in Seq(Nat)
<1>1. current_pic # NoPicture => current_pic.pic \in Picture
  BY DEF Invariant, TypesRight
<1>2. LastTid0 \in Picture \cup {NoPicture}
  BY <1>1 DEF LastTid0, Invariant, TypesRight
<1>3. QED BY <1>2 DEF Settled, Keep, Queue

(* A set that the stream has is one of parameters.                         *)
LEMMA SetTypes ==
  ASSUME TypesRight
  PROVE  /\ stream \in Stream
         /\ \A set \in stream.sets :
              /\ set # NoSet /\ set \in Sets /\ set.format \in Nat /\ set.max_num_pics \in Nat \ {0}
              /\ set.max_dec_pic_buffering \in Nat \ {0} /\ set.max_lsb \in Nat \ {0, 1}
              /\ set.format # NoSet
         /\ sps # NoSet => sps \in stream.sets
         /\ awaited # NoSet => awaited \in stream.sets
<1>1. stream \in Stream
  BY H265Assumption DEF TypesRight
<1>2. stream.sets \subseteq Sets
  BY <1>1 DEF Stream
<1>3. QED BY <1>1, <1>2, H265Assumption DEF TypesRight, Sets

LEMMA InitInvariant ==
  ASSUME Init
  PROVE  Invariant
<1>1. /\ IsBuffer(dpb) /\ DOMAIN dpb.entries = {} /\ Waiting(dpb) = {}
  BY EmptyFacts DEF Init
<1>2. <<>> \in Seq(Nat) /\ <<>> \in Seq(Sent) /\ Len(<<>>) = 0 /\ DOMAIN <<>> = {} /\ Range(<<>>) = {}
  BY EmptySeq DEF Range
<1>3. TypesRight
  BY <1>1, <1>2 DEF Init, TypesRight, States, Comings
<1>4. ModesRight
  BY DEF Init, ModesRight
<1>5. Numbers = {} /\ Shown = {}
  BY <1>2 DEF Init, Numbers, Shown
<1>6. StreamRight
  BY <1>2, <1>5 DEF Init, StreamRight
<1>7. PlacesRight /\ RoomRight
  BY <1>1 DEF Init, PlacesRight, RoomRight
<1>8. Offset(0)
  BY <1>1 DEF Init, Offset
<1>9. CountsRight
  BY <1>8 DEF CountsRight
<1>10. AccountRight
  BY <1>1, <1>2, <1>5 DEF Init, AccountRight, Queue, Injective, Pending, Waits
<1>11. QED BY <1>3, <1>4, <1>6, <1>7, <1>9, <1>10 DEF Invariant

-----------------------------------------------------------------------------
(* The actions that send nothing.                                          *)

(* The parts that are about what these actions leave alone.                *)
LEMMA PicturesKept ==
  ASSUME Invariant, UNCHANGED <<dpb, current_pic, prev_tid_0_pic, ready_queue, outcome, stream, sent,
                                dropped>>,
         next' # "any" \/ (next' = next /\ sps' = sps)
  PROVE  StreamRight' /\ PlacesRight' /\ CountsRight' /\ RoomRight' /\ AccountRight'
<1>1. /\ StreamRight' /\ Numbers' = Numbers /\ Sequence' = Sequence
      /\ \A n : Poc(n)' = Poc(n)
  BY StreamKept DEF Invariant
<1>2. PlacesRight'
  BY <1>1 DEF PlacesRight, Invariant
<1>3. PICK off \in Int : Offset(off)
  BY DEF Invariant, CountsRight
<1>4. LastTid0' = LastTid0 /\ Anchor' = Anchor /\ Latest' = Latest
  BY <1>1 DEF LastTid0, Anchor, Latest
<1>5. Poc(Anchor)' = Poc(Anchor)
  BY <1>4 DEF Poc
<1>6. next' = "any" => next = "any" /\ sps' = sps
  OBVIOUS
<1>7. Offset(off)'
  BY <1>1, <1>3, <1>4, <1>5, <1>6 DEF Offset
<1>8. CountsRight'
  BY <1>7 DEF CountsRight
<1>9. RoomRight'
  BY DEF RoomRight, LevelSuffices, Invariant
<1>10. Pending' = Pending /\ Shown' = Shown
  BY DEF Pending, Waits, Cur, Shown
<1>11. AccountRight'
  BY <1>4, <1>10 DEF AccountRight, Queue, Invariant
<1>12. QED BY <1>1, <1>2, <1>8, <1>9, <1>11

LEMMA FirstSpsKeeps ==
  ASSUME Invariant, NEW set \in stream.sets, FirstSps(set)
  PROVE  Invariant'
<1>1. /\ TypesRight /\ ModesRight /\ decoding_state = "AwaitingStreamInfo"
      /\ sent = <<>> /\ negotiation_info = NoSet /\ current_pic = NoPicture /\ outcome = "Ok"
      /\ next # "any"
  BY DEF Invariant, FirstSps, ModesRight, PlacesRight
<1>2. set # NoSet
  BY <1>1, SetTypes
<1>3. TypesRight'
  BY <1>1 DEF TypesRight, FirstSps, States, picture_vars, stream_vars
<1>4. ModesRight'
  BY <1>1, <1>2 DEF ModesRight, FirstSps, picture_vars, stream_vars
<1>5. StreamRight' /\ PlacesRight' /\ CountsRight' /\ RoomRight' /\ AccountRight'
  BY <1>1, PicturesKept DEF FirstSps, picture_vars, stream_vars
<1>6. QED BY <1>3, <1>4, <1>5 DEF Invariant

LEMMA NewSpsKeeps ==
  ASSUME Invariant, NEW set \in stream.sets, NewSps(set)
  PROVE  Invariant'
<1>1. /\ TypesRight /\ ModesRight /\ decoding_state \in {"Decoding", "Reset"} /\ outcome = "Ok"
      /\ next' # "any" /\ next' \in Comings
  BY DEF Invariant, NewSps, Running, ModesRight, TypesRight, Comings
<1>2. set # NoSet /\ set.max_lsb \in Nat
  BY <1>1, SetTypes
<1>3. TypesRight'
  BY <1>1, <1>2 DEF TypesRight, NewSps, States, picture_vars
<1>4. ModesRight'
  BY <1>1, <1>2 DEF ModesRight, NewSps, picture_vars
<1>5. StreamRight' /\ PlacesRight' /\ CountsRight' /\ RoomRight' /\ AccountRight'
  BY <1>1, PicturesKept DEF NewSps, picture_vars
<1>6. QED BY <1>3, <1>4, <1>5 DEF Invariant

LEMMA EndsKeep ==
  ASSUME Invariant, EndOfSequence \/ EndOfBitstream
  PROVE  Invariant'
<1>1. /\ TypesRight /\ ModesRight /\ outcome = "Ok" /\ first_picture_after_eos'
      /\ decoding_state = "Decoding"
      /\ (next' = next /\ first_picture_after_eos) \/ next' = "IRAP"
  BY DEF Invariant, EndOfSequence, EndOfBitstream, Running, stream_vars
<1>2. next # "any" \/ next' = "IRAP"
  BY <1>1 DEF ModesRight
<1>3. /\ UNCHANGED <<format_vars, dpb, current_pic, prev_tid_0_pic, irap_no_rasl_output_flag,
                     ready_queue, outcome, stream, sent, dropped>>
      /\ first_picture_after_eos' \in BOOLEAN /\ first_picture_in_bitstream' \in BOOLEAN
  BY <1>1 DEF EndOfSequence, EndOfBitstream, stream_vars, TypesRight
<1>4. TypesRight'
  BY <1>1, <1>3 DEF TypesRight, format_vars, Comings
<1>5. ModesRight'
  BY <1>1, <1>2, <1>3 DEF ModesRight, format_vars
<1>6. StreamRight' /\ PlacesRight' /\ CountsRight' /\ RoomRight' /\ AccountRight'
  BY <1>1, <1>2, <1>3, PicturesKept
<1>7. QED BY <1>4, <1>5, <1>6 DEF Invariant

LEMMA AcceptFormatKeeps ==
  ASSUME Invariant, AcceptFormat
  PROVE  Invariant'
<1>1. /\ TypesRight /\ ModesRight /\ decoding_state = "AwaitingFormat" /\ awaited # NoSet
      /\ awaited = sps /\ current_pic = NoPicture /\ outcome = "Ok" /\ next # "any"
  BY DEF Invariant, AcceptFormat, ModesRight
<1>2. awaited.format \in Nat /\ awaited.format # NoSet /\ awaited.max_lsb \in Nat /\ awaited.max_num_pics \in Nat
  BY <1>1, SetTypes
<1>3. PICK s, t : /\ s = [Session EXCEPT !.dpb.max_num_pics = awaited.max_num_pics]
                  /\ t = DrainAll(s) /\ Keep(t)
  BY DEF AcceptFormat
<1>4. Resumed(Session)
  <2>1. Finished = Session /\ Session.ok
    BY <1>1 DEF Finished, Session
  <2>2. PICK r : r = Finished
    OBVIOUS
  <2>3. QED BY <1>1, <2>1, <2>2, FinishedFacts
<1>5. Resumed(s)
  <2>1. /\ s = [dpb |-> s.dpb, prev_tid_0_pic |-> s.prev_tid_0_pic, out |-> s.out, cleared |-> {},
                ok |-> TRUE]
        /\ s.dpb = [dpb EXCEPT !.max_num_pics = awaited.max_num_pics]
        /\ s.out = Session.out /\ s.prev_tid_0_pic = Session.prev_tid_0_pic
    BY <1>3 DEF Session
  <2>2. IsBuffer(dpb)
    BY <1>1 DEF TypesRight
  <2>3. IsBuffer(s.dpb) /\ s.dpb.entries = dpb.entries
    BY <1>2, <2>1, <2>2 DEF IsBuffer
  <2>4. \A i : i \in Waiting(s.dpb) <=> i \in Waiting(dpb)
    BY <2>3, PlaceSets
  <2>5. Waiting(s.dpb) = Waiting(dpb) /\ Session.dpb = dpb
    BY <2>4 DEF Session
  <2>6. QED BY <1>4, <2>1, <2>3, <2>5 DEF Resumed, Settled, PocsDiffer, PocOf
<1>6. Settled(t)
  BY <1>3, <1>5, DrainedFacts
<1>7. IsBuffer(dpb') /\ prev_tid_0_pic' \in Picture \cup {NoPicture} /\ ready_queue' \in Seq(Nat)
  BY <1>3, <1>6, SettledTypes
<1>8. /\ UNCHANGED <<sps, current_pic, first_picture_after_eos, first_picture_in_bitstream,
                     irap_no_rasl_output_flag, outcome, stream, sent, next, dropped>>
      /\ negotiation_info' = awaited.format /\ max_pic_order_cnt_lsb' = awaited.max_lsb
      /\ decoding_state' = "Decoding" /\ awaited' = NoSet
  BY DEF AcceptFormat, stream_vars
<1>9. TypesRight'
  BY <1>1, <1>2, <1>7, <1>8 DEF TypesRight, States
<1>10. ModesRight'
  <2>1. next = "IRAP after a seek" => DOMAIN dpb'.entries = {}
    BY <1>3, <1>6 DEF Settled, Keep
  <2>2. QED BY <1>1, <1>2, <1>8, <2>1 DEF ModesRight
<1>11. StreamRight' /\ PlacesRight' /\ CountsRight' /\ RoomRight' /\ AccountRight'
  BY <1>1, <1>3, <1>6, <1>8, SettledKept
<1>12. QED BY <1>9, <1>10, <1>11 DEF Invariant

LEMMA RenegotiateKeeps ==
  ASSUME Invariant, NEW s, s = Finished, NEW h, sps # NoSet, decoding_state \in {"Decoding", "Reset"},
         Renegotiate(s, h)
  PROVE  Invariant'
<1>1. /\ TypesRight /\ ModesRight /\ outcome = "Ok" /\ s.ok /\ NegotiationPossible(s.dpb)
  BY DEF Invariant, Renegotiate, Decodable
<1>2. Resumed(s) /\ s.dpb.max_num_pics = dpb.max_num_pics
  BY <1>1, FinishedFacts
<1>3. next # "any"
  BY <1>1, <1>2 DEF ModesRight, NegotiationPossible
<1>4. PICK t : t = DrainAll(s) /\ Keep(t)
  BY DEF Renegotiate
<1>5. Settled(t)
  BY <1>2, <1>4, DrainedFacts
<1>6. IsBuffer(dpb') /\ prev_tid_0_pic' \in Picture \cup {NoPicture} /\ ready_queue' \in Seq(Nat)
  BY <1>4, <1>5, SettledTypes
<1>7. /\ UNCHANGED <<sps, max_pic_order_cnt_lsb, negotiation_info, first_picture_after_eos,
                     first_picture_in_bitstream, irap_no_rasl_output_flag, outcome, stream, sent, next,
                     dropped>>
      /\ decoding_state' = "AwaitingFormat" /\ awaited' = sps /\ current_pic' = NoPicture
  BY DEF Renegotiate, stream_vars
<1>8. TypesRight'
  BY <1>1, <1>6, <1>7 DEF TypesRight, States
<1>9. ModesRight'
  <2>1. next = "IRAP after a seek" => DOMAIN dpb'.entries = {}
    BY <1>4, <1>5 DEF Settled, Keep
  <2>2. QED BY <1>1, <1>3, <1>7, <2>1 DEF ModesRight
<1>10. StreamRight' /\ PlacesRight' /\ CountsRight' /\ RoomRight' /\ AccountRight'
  BY <1>1, <1>3, <1>4, <1>5, <1>7, SettledKept
<1>11. QED BY <1>8, <1>9, <1>10 DEF Invariant

LEMMA NoOutputBufferKeeps ==
  ASSUME Invariant, NEW s, s = Finished, NEW h, sps # NoSet, decoding_state \in {"Decoding", "Reset"},
         NoOutputBuffer(s, h)
  PROVE  Invariant'
<1>1. /\ TypesRight /\ ModesRight /\ outcome = "Ok" /\ s.ok /\ ~NegotiationPossible(s.dpb) /\ Keep(s)
  BY DEF Invariant, NoOutputBuffer, Decodable
<1>2. Resumed(s) /\ s.dpb.max_num_pics = dpb.max_num_pics
  BY <1>1, FinishedFacts
<1>3. Settled(s)
  BY <1>2 DEF Resumed
<1>4. IsBuffer(dpb') /\ prev_tid_0_pic' \in Picture \cup {NoPicture} /\ ready_queue' \in Seq(Nat)
  BY <1>1, <1>3, SettledTypes
<1>5. /\ UNCHANGED <<awaited, sps, max_pic_order_cnt_lsb, negotiation_info, first_picture_after_eos,
                     first_picture_in_bitstream, irap_no_rasl_output_flag, outcome, stream, sent, next,
                     dropped>>
      /\ decoding_state' = "Decoding" /\ current_pic' = NoPicture
  BY DEF NoOutputBuffer, stream_vars
<1>6. TypesRight'
  BY <1>1, <1>4, <1>5 DEF TypesRight, States
<1>7. ModesRight'
  <2>1. next = "IRAP after a seek" => DOMAIN dpb'.entries = {}
    BY <1>1, <1>3 DEF Settled, Keep
  <2>2. ~NegotiationPossible(dpb)'
    BY <1>1, <1>5 DEF NegotiationPossible, Keep
  <2>3. QED BY <1>1, <1>5, <2>1, <2>2 DEF ModesRight
<1>8. StreamRight' /\ PlacesRight' /\ CountsRight' /\ RoomRight' /\ AccountRight'
  BY <1>1, <1>3, <1>5, SettledKept
<1>9. QED BY <1>6, <1>7, <1>8 DEF Invariant

LEMMA FlushKeeps ==
  ASSUME Invariant, NEW s, s = Finished, Flush(s)
  PROVE  Invariant'
<1>1. TypesRight /\ ModesRight /\ outcome = "Ok" /\ s.ok
  BY DEF Invariant, Flush
<1>2. Resumed(s)
  BY <1>1, FinishedFacts
<1>3. PICK t : t = DrainAll(s) /\ Keep(t)
  BY DEF Flush
<1>4. Settled(t) /\ t.dpb = EmptyDpb(s.dpb.max_num_pics) /\ s.dpb.max_num_pics \in Nat
  <2>1. Settled(t) /\ t.dpb = EmptyDpb(s.dpb.max_num_pics)
    BY <1>2, <1>3, DrainedFacts
  <2>2. s.dpb.max_num_pics \in Nat
    BY <1>2 DEF Resumed, Settled, IsBuffer
  <2>3. QED BY <2>1, <2>2
<1>5. /\ IsBuffer(dpb') /\ prev_tid_0_pic' \in Picture \cup {NoPicture} /\ ready_queue' \in Seq(Nat)
      /\ DOMAIN dpb'.entries = {}
  <2>1. dpb' = t.dpb
    BY <1>3 DEF Keep
  <2>2. DOMAIN t.dpb.entries = {}
    BY <1>4, EmptyFacts
  <2>3. QED BY <1>3, <1>4, <2>1, <2>2, SettledTypes
<1>6. /\ UNCHANGED <<sps, max_pic_order_cnt_lsb, negotiation_info, first_picture_after_eos,
                     first_picture_in_bitstream, irap_no_rasl_output_flag, outcome, stream, sent,
                     dropped>>
      /\ decoding_state' = "Reset" /\ awaited' = NoSet /\ current_pic' = NoPicture
      /\ next' = IF sent = <<>> THEN next ELSE "IRAP after a seek"
  BY DEF Flush
<1>7. next' # "any" /\ next' \in Comings
  BY <1>1, <1>6 DEF ModesRight, TypesRight, Comings
<1>8. TypesRight'
  BY <1>1, <1>5, <1>6, <1>7 DEF TypesRight, States
<1>9. ModesRight'
  BY <1>1, <1>5, <1>6, <1>7 DEF ModesRight
<1>10. StreamRight' /\ PlacesRight' /\ CountsRight' /\ RoomRight' /\ AccountRight'
  BY <1>1, <1>3, <1>4, <1>6, <1>7, SettledKept
<1>11. QED BY <1>8, <1>9, <1>10 DEF Invariant

(* The call that fails leaves the buffer as it was, and finds it full.     *)
LEMMA FinishFailsKeeps ==
  ASSUME Invariant, NEW s, s = Finished, FinishFails(s)
  PROVE  Invariant'
<1>1. TypesRight /\ ModesRight /\ StreamRight /\ PlacesRight /\ outcome = "Ok" /\ ~s.ok /\ Keep(s)
  BY DEF Invariant, FinishFails
<1>2. current_pic # NoPicture
  BY <1>1 DEF Finished, Session
<1>3. IsFull(dpb) /\ s.dpb = dpb /\ s.prev_tid_0_pic = LastTid0 /\ s.out = <<>>
  <2>1. s = FinishPicture(Session, current_pic.pic)
    BY <1>2 DEF Finished
  <2>2. IsFull(Session.dpb)
    BY <1>1, <2>1 DEF FinishPicture, Bumped, Session
  <2>3. QED BY <1>2, <2>1, <2>2 DEF FinishPicture, Session, LastTid0
<1>4. ~LevelSuffices
  BY <1>2, <1>3 DEF Invariant, RoomRight
<1>5. /\ UNCHANGED <<decoding_state, awaited, sps, max_pic_order_cnt_lsb, negotiation_info,
                     first_picture_after_eos, first_picture_in_bitstream, irap_no_rasl_output_flag,
                     stream, sent, next, dropped>>
      /\ current_pic' = NoPicture /\ outcome' = "Error" /\ dpb' = dpb /\ prev_tid_0_pic' = LastTid0
  BY <1>3 DEF FinishFails, format_vars, stream_vars, Keep
<1>6. ready_queue' \in Seq(Nat)
  <2>1. ready_queue \in Seq(Nat)
    BY <1>1 DEF TypesRight
  <2>2. ready_queue \o <<>> = ready_queue
    BY <2>1, ConcatEmptySeq
  <2>3. QED BY <1>1, <1>3, <2>1, <2>2 DEF Keep
<1>7. LastTid0 \in Picture \cup {NoPicture}
  BY <1>1 DEF LastTid0, TypesRight
<1>8. TypesRight'
  BY <1>1, <1>5, <1>6, <1>7 DEF TypesRight
<1>9. ModesRight'
  <2>1. decoding_state \notin {"AwaitingStreamInfo", "AwaitingFormat"}
    BY <1>1, <1>2 DEF ModesRight, PlacesRight
  <2>2. NegotiationPossible(dpb)' = NegotiationPossible(dpb)
    BY <1>5 DEF NegotiationPossible
  <2>3. QED BY <1>1, <1>5, <2>1, <2>2 DEF ModesRight
<1>10. /\ StreamRight' /\ Numbers' = Numbers /\ Sequence' = Sequence
       /\ \A n : Poc(n)' = Poc(n)
  BY <1>1, <1>5, StreamKept
<1>11. PlacesRight'
  BY <1>1, <1>5, <1>10 DEF PlacesRight
<1>12. PICK off \in Int : Offset(off)
  BY DEF Invariant, CountsRight
<1>13. Offset(off)'
  <2>1. Anchor' = Anchor
    BY <1>5, <1>10 DEF Anchor
  <2>2. LastTid0' = LastTid0
    BY <1>5 DEF LastTid0
  <2>3. Poc(Anchor)' = Poc(Anchor)
    BY <1>5, <2>1 DEF Poc
  <2>4. QED BY <1>5, <1>10, <1>12, <2>2, <2>3 DEF Offset
<1>14. CountsRight'
  BY <1>13 DEF CountsRight
<1>15. RoomRight' /\ AccountRight'
  BY <1>4, <1>5 DEF RoomRight, AccountRight, LevelSuffices
<1>16. QED BY <1>8, <1>9, <1>10, <1>11, <1>14, <1>15 DEF Invariant

-----------------------------------------------------------------------------
(* A picture is sent.                                                      *)

StartsAnew(p) == p.seq = Sequence + 1 /\ p.tid = 0 /\ IsIrap(p.type)
GoesOnWith(p) == sent # <<>> /\ p.seq = Sequence /\ \A n \in Numbers : Poc(n) # p.poc
CountsAsAnchor(p) == p.tid = 0 /\ (IsIrap(p.type) \/ p.type = "TRAIL_R")

LEMMA SentOneMore ==
  ASSUME TypesRight, NEW p \in Sent, sent' = Append(sent, p)
  PROVE  /\ sent' \in Seq(Sent) /\ Len(sent') = Len(sent) + 1 /\ Len(sent) \in Nat
         /\ DOMAIN sent = 1..Len(sent) /\ DOMAIN sent' = 1..(Len(sent) + 1)
         /\ DOMAIN sent' = DOMAIN sent \cup {Len(sent) + 1} /\ Len(sent) + 1 \notin DOMAIN sent
         /\ sent'[Len(sent) + 1] = p
         /\ \A n \in DOMAIN sent : sent'[n] = sent[n] /\ Poc(n)' = Poc(n)
         /\ sent' # <<>> /\ Latest' = p /\ Sequence' = p.seq
<1>1. sent \in Seq(Sent)
  BY DEF TypesRight
<1>2. /\ sent' \in Seq(Sent) /\ Len(sent) \in Nat /\ Len(sent') = Len(sent) + 1
      /\ \A k \in 1..Len(sent) : sent'[k] = sent[k]
      /\ sent'[Len(sent) + 1] = p
  BY <1>1, Appended
<1>3. DOMAIN sent = 1..Len(sent) /\ DOMAIN sent' = 1..(Len(sent) + 1)
  BY <1>1, <1>2, LenProperties
<1>4. DOMAIN sent' = DOMAIN sent \cup {Len(sent) + 1} /\ Len(sent) + 1 \notin DOMAIN sent
  BY <1>2, <1>3
<1>5. sent' # <<>>
  BY <1>2, <1>3
<1>6. Latest' = p
  BY <1>2 DEF Latest
<1>7. Sequence' = p.seq
  BY <1>5, <1>6 DEF Sequence
<1>8. \A n \in DOMAIN sent : sent'[n] = sent[n] /\ Poc(n)' = Poc(n)
  BY <1>2, <1>3 DEF Poc
<1>9. QED BY <1>2, <1>3, <1>4, <1>5, <1>6, <1>7, <1>8

LEMMA SentKeepsStream ==
  ASSUME Invariant, NEW p \in Sent, sent' = Append(sent, p), p.refs \subseteq 1..Len(sent),
         StartsAnew(p) \/ GoesOnWith(p)
  PROVE  /\ StreamRight'
         /\ Numbers' = IF p.seq = Sequence THEN Numbers \cup {Len(sent) + 1} ELSE {Len(sent) + 1}
<1>0. TypesRight /\ StreamRight
  BY DEF Invariant
<1>1. /\ Len(sent') = Len(sent) + 1 /\ Len(sent) \in Nat
      /\ DOMAIN sent = 1..Len(sent) /\ DOMAIN sent' = 1..(Len(sent) + 1)
      /\ DOMAIN sent' = DOMAIN sent \cup {Len(sent) + 1} /\ Len(sent) + 1 \notin DOMAIN sent
      /\ sent'[Len(sent) + 1] = p
      /\ \A n \in DOMAIN sent : sent'[n] = sent[n] /\ Poc(n)' = Poc(n)
      /\ sent' # <<>> /\ Sequence' = p.seq
  BY <1>0, SentOneMore
<1>2. /\ Sequence \in Nat /\ Numbers \subseteq DOMAIN sent
      /\ \A n \in DOMAIN sent : sent[n].seq \in Nat /\ sent[n].seq <= Sequence
      /\ p.seq \in Nat
  BY <1>0, SentTypes DEF StreamRight, Sent
<1>3. Numbers' = {n \in DOMAIN sent' : sent'[n].seq = p.seq}
  BY <1>1 DEF Numbers, OfSequence
<1>4. Numbers' = IF p.seq = Sequence THEN Numbers \cup {Len(sent) + 1} ELSE {Len(sent) + 1}
  <2>1. CASE p.seq = Sequence
    <3>1. \A n \in DOMAIN sent : n \in Numbers <=> sent'[n].seq = p.seq
      BY <1>1, <2>1 DEF Numbers, OfSequence
    <3>2. QED BY <1>1, <1>2, <1>3, <2>1, <3>1
  <2>2. CASE p.seq = Sequence + 1
    <3>1. \A n \in DOMAIN sent : sent'[n].seq # p.seq
      BY <1>1, <1>2, <2>2
    <3>2. p.seq # Sequence
      BY <1>2, <2>2
    <3>3. QED BY <1>1, <1>3, <3>1, <3>2
  <2>3. QED BY <2>1, <2>2 DEF StartsAnew, GoesOnWith
<1>5. \A n \in DOMAIN sent' : sent'[n].seq <= Sequence'
  <2>1. Sequence <= p.seq
    BY <1>2 DEF StartsAnew, GoesOnWith
  <2>2. QED BY <1>1, <1>2, <2>1
<1>6. \A n \in DOMAIN sent' : sent'[n].refs \subseteq 1..(n - 1)
  <2>1. \A n \in DOMAIN sent : sent'[n].refs \subseteq 1..(n - 1)
    BY <1>0, <1>1 DEF StreamRight
  <2>2. (Len(sent) + 1) - 1 = Len(sent)
    BY <1>1
  <2>3. QED BY <1>1, <2>1, <2>2
<1>7. \E n \in Numbers' : sent'[n].tid = 0 /\ IsIrap(sent'[n].type)
  <2>1. CASE StartsAnew(p)
    BY <1>1, <1>4, <2>1 DEF StartsAnew
  <2>2. CASE GoesOnWith(p)
    <3>1. PICK n \in Numbers : sent[n].tid = 0 /\ IsIrap(sent[n].type)
      BY <1>0, <2>2 DEF StreamRight, GoesOnWith
    <3>2. n \in Numbers' /\ sent'[n] = sent[n]
      BY <1>1, <1>2, <1>4, <2>2 DEF GoesOnWith
    <3>3. QED BY <3>1, <3>2
  <2>3. QED BY <2>1, <2>2
<1>8. \A m, n \in Numbers' : Poc(m)' = Poc(n)' => m = n
  <2>1. CASE p.seq # Sequence
    BY <1>4, <2>1
  <2>2. CASE p.seq = Sequence
    <3>1. GoesOnWith(p)
      BY <1>2, <2>2 DEF StartsAnew
    <3>2. \A n \in Numbers : Poc(n)' = Poc(n) /\ Poc(n) # p.poc
      BY <1>1, <1>2, <3>1 DEF GoesOnWith
    <3>3. \A m, n \in Numbers : Poc(m) = Poc(n) => m = n
      BY <1>0 DEF StreamRight
    <3>4. SUFFICES ASSUME NEW m \in Numbers', NEW n \in Numbers', Poc(m)' = Poc(n)'
                   PROVE  m = n
      OBVIOUS
    <3>5. Numbers' = Numbers \cup {Len(sent) + 1}
      BY <1>4, <2>2
    <3>6. CASE m \in Numbers /\ n \in Numbers
      BY <3>2, <3>3, <3>4, <3>6
    <3>7. CASE m \in Numbers /\ n = Len(sent) + 1
      <4>1. Poc(m)' = Poc(m) /\ Poc(m) # p.poc
        BY <3>2, <3>7
      <4>2. Poc(n)' = p.poc
        BY <1>1, <3>7 DEF Poc
      <4>3. QED BY <3>4, <4>1, <4>2
    <3>8. CASE m = Len(sent) + 1 /\ n \in Numbers
      <4>1. Poc(n)' = Poc(n) /\ Poc(n) # p.poc
        BY <3>2, <3>8
      <4>2. Poc(m)' = p.poc
        BY <1>1, <3>8 DEF Poc
      <4>3. QED BY <3>4, <4>1, <4>2
    <3>9. QED BY <3>4, <3>5, <3>6, <3>7, <3>8
  <2>3. QED BY <2>1, <2>2
<1>9. QED BY <1>4, <1>5, <1>6, <1>7, <1>8 DEF StreamRight

(* The picture that the next is numbered after.                            *)
Anchors == {n \in Numbers : CountsAsAnchor(sent[n])}

LEMMA AnchorFacts ==
  ASSUME TypesRight, StreamRight, sent # <<>>
  PROVE  /\ Anchor = Max(Anchors) /\ Anchors # {} /\ IsFiniteSet(Anchors) /\ Anchors \in SUBSET Int
         /\ Anchor \in Anchors /\ Anchor \in Numbers /\ \A n \in Anchors : n <= Anchor
         /\ Anchor \in DOMAIN sent /\ Poc(Anchor) \in Int
<1>1. Anchor = Max(Anchors)
  BY DEF Anchor, Anchors, CountsAsAnchor
<1>2. Numbers \subseteq DOMAIN sent /\ IsFiniteSet(Numbers) /\ Numbers \subseteq Nat \ {0}
      /\ \A n \in DOMAIN sent : Poc(n) \in Int
  BY SentTypes
<1>3. Anchors \subseteq Numbers /\ Anchors \in SUBSET Int
  BY <1>2 DEF Anchors
<1>4. IsFiniteSet(Anchors)
  BY <1>2, <1>3, FS_Subset
<1>5. Anchors # {}
  BY DEF Anchors, CountsAsAnchor, StreamRight
<1>6. Anchor \in Anchors /\ \A n \in Anchors : n <= Anchor
  BY <1>1, <1>3, <1>4, <1>5, Extremes
<1>7. QED BY <1>1, <1>2, <1>3, <1>4, <1>5, <1>6

LEMMA AnchorMoves ==
  ASSUME Invariant, NEW p \in Sent, sent' = Append(sent, p), p.refs \subseteq 1..Len(sent),
         StartsAnew(p) \/ GoesOnWith(p), TypesRight'
  PROVE  Anchor' = IF CountsAsAnchor(p) THEN Len(sent) + 1 ELSE Anchor
<1>0. TypesRight /\ StreamRight
  BY DEF Invariant
<1>1. /\ StreamRight'
      /\ Numbers' = IF p.seq = Sequence THEN Numbers \cup {Len(sent) + 1} ELSE {Len(sent) + 1}
  BY SentKeepsStream
<1>2. /\ Len(sent) \in Nat /\ DOMAIN sent = 1..Len(sent) /\ sent'[Len(sent) + 1] = p
      /\ \A n \in DOMAIN sent : sent'[n] = sent[n]
      /\ sent' # <<>>
  BY <1>0, SentOneMore
<1>3. /\ Anchors' \in SUBSET Int /\ Anchor' \in Anchors' /\ \A n \in Anchors' : n <= Anchor'
  <2>1. /\ TypesRight' /\ StreamRight' /\ (sent # <<>>)'
    BY <1>1, <1>2
  <2>2. (Anchors \in SUBSET Int /\ Anchor \in Anchors /\ \A n \in Anchors : n <= Anchor)'
    BY <2>1, AnchorFacts, PTL
  <2>3. QED BY <2>2
<1>4. \A n \in Numbers : n \in DOMAIN sent /\ n \in Nat
  BY <1>0, SentTypes
<1>5. CASE CountsAsAnchor(p)
  <2>1. Len(sent) + 1 \in Anchors'
    BY <1>1, <1>2, <1>5 DEF Anchors, CountsAsAnchor
  <2>2. \A n \in Anchors' : n <= Len(sent) + 1
    BY <1>1, <1>2, <1>4 DEF Anchors
  <2>3. Anchor' \in Int /\ Len(sent) + 1 <= Anchor' /\ Anchor' <= Len(sent) + 1
    BY <1>3, <2>1, <2>2
  <2>4. QED BY <1>2, <1>5, <2>3
<1>6. CASE ~CountsAsAnchor(p)
  <2>1. GoesOnWith(p)
    BY <1>6 DEF StartsAnew, CountsAsAnchor
  <2>2. \A n : n \in Anchors' <=> n \in Anchors
    BY <1>1, <1>2, <1>4, <1>6, <2>1 DEF Anchors, CountsAsAnchor, GoesOnWith
  <2>3. Anchors' = Anchors
    BY <2>2
  <2>4. Anchor = Max(Anchors) /\ Anchor' = Max(Anchors')
    BY DEF Anchor, Anchors, CountsAsAnchor
  <2>5. QED BY <1>6, <2>3, <2>4
<1>7. QED BY <1>5, <1>6

-----------------------------------------------------------------------------
(* What the stream may send.                                               *)

(* A header, with what its lists name of the n pictures at most.           *)
IsHeader(h) ==
  /\ h = [type |-> h.type, tid |-> h.tid, lsb |-> h.lsb, pic_output_flag |-> h.pic_output_flag,
          no_output_of_prior_pics_flag |-> h.no_output_of_prior_pics_flag,
          s0 |-> h.s0, s1 |-> h.s1, lt |-> h.lt]
  /\ h.type \in Types /\ h.tid \in Nat /\ h.lsb \in Nat
  /\ h.pic_output_flag \in BOOLEAN /\ h.no_output_of_prior_pics_flag \in BOOLEAN
HeaderOf(p, h) ==
  /\ IsHeader(h)
  /\ h.type = p.type /\ h.tid = p.tid /\ h.pic_output_flag = p.pic_output_flag
  /\ h.lsb = p.poc % sps.max_lsb

LEMMA NothingNamed ==
  HasEntries(<<>>, 0)
  BY DEF HasEntries

LEMMA StartFacts ==
  ASSUME Invariant, sps # NoSet, NEW h \in Starts, NEW p, p = StartOf(h)
  PROVE  /\ p \in Sent /\ p.refs \subseteq 1..Len(sent) /\ StartsAnew(p)
         /\ HeaderOf(p, h) /\ \E n \in Nat : Names(h, n)
         /\ p.poc = h.lsb
         /\ h.type = "CRA" => next \in {"IRAP", "IRAP after a seek"}
<1>1. TypesRight /\ Sequence \in Nat
  BY SentTypes DEF Invariant
<1>2. sps \in Sets /\ stream \in Stream
  BY <1>1, H265Assumption DEF TypesRight, Stream
<1>3. PICK M \in Nat \ {0, 1} : M = sps.max_lsb
  BY <1>2 DEF Sets
<1>4. /\ h \in [type : stream.types \cap {"IDR", "BLA", "CRA"}, tid : {0}, lsb : {0, M - 2},
                pic_output_flag : {TRUE}, no_output_of_prior_pics_flag : BOOLEAN,
                s0 : {<<>>, <<Elsewhere>>}, s1 : {<<>>}, lt : {<<>>}]
      /\ h.type = "CRA" => next \in {"IRAP", "IRAP after a seek"}
  BY <1>3 DEF Starts
<1>5. /\ h.type \in {"IDR", "BLA", "CRA"} /\ h.tid = 0 /\ h.lsb \in {0, M - 2} /\ h.pic_output_flag = TRUE
      /\ h.no_output_of_prior_pics_flag \in BOOLEAN
      /\ h.s0 \in {<<>>, <<Elsewhere>>} /\ h.s1 = <<>> /\ h.lt = <<>>
      /\ h = [type |-> h.type, tid |-> h.tid, lsb |-> h.lsb, pic_output_flag |-> h.pic_output_flag,
              no_output_of_prior_pics_flag |-> h.no_output_of_prior_pics_flag,
              s0 |-> h.s0, s1 |-> h.s1, lt |-> h.lt]
  BY <1>4
<1>6. h.lsb \in Nat /\ h.lsb % M = h.lsb
  <2>1. h.lsb \in 0..(M - 1)
    BY <1>5
  <2>2. QED BY <2>1
<1>7. /\ p.type = h.type /\ p.tid = 0 /\ p.poc = h.lsb /\ p.pic_output_flag = TRUE /\ p.refs = {}
      /\ p.seq = Sequence + 1
      /\ p = [type |-> p.type, tid |-> p.tid, poc |-> p.poc, pic_output_flag |-> p.pic_output_flag,
              refs |-> p.refs, long_term |-> {}, use |-> {}, seq |-> p.seq, joined |-> p.joined]
      /\ p.joined \in BOOLEAN
  BY DEF StartOf
<1>8. p \in Sent
  <2>1. /\ p.type \in Types /\ p.tid \in Nat /\ p.poc \in Int /\ p.pic_output_flag \in BOOLEAN
        /\ p.refs \in SUBSET Nat /\ {} \in SUBSET Nat /\ p.seq \in Nat
    <3>1. p.pic_output_flag \in BOOLEAN
      BY <1>7
    <3>2. p.type \in Types
      BY <1>5, <1>7 DEF Types
    <3>3. p.seq \in Nat /\ p.poc \in Int /\ p.tid \in Nat
      BY <1>1, <1>6, <1>7
    <3>4. QED BY <1>7, <3>1, <3>2, <3>3
  <2>2. QED BY <1>7, <2>1 DEF Sent
<1>9. \E n \in Nat : Names(h, n)
  <2>1. \E n \in Nat : HasEntries(h.s0, n)
    <3>1. CASE h.s0 = <<>>
      BY <3>1, NothingNamed
    <3>2. CASE h.s0 = <<Elsewhere>>
      <4>1. DOMAIN <<Elsewhere>> = 1..1 /\ <<Elsewhere>>[1] = Elsewhere /\ Elsewhere.used = FALSE
        BY DEF Elsewhere
      <4>2. \A i \in 1..1 : i = 1
        OBVIOUS
      <4>3. HasEntries(h.s0, 1)
        BY <3>2, <4>1, <4>2 DEF HasEntries
      <4>4. QED BY <4>3
    <3>3. QED BY <1>5, <3>1, <3>2
  <2>2. PICK n \in Nat : HasEntries(h.s0, n)
    BY <2>1
  <2>3. HasEntries(h.s1, 0) /\ HasEntries(h.lt, 0) /\ n + 0 + 0 = n
    BY <1>5, NothingNamed
  <2>4. Names(h, n)
    BY <2>2, <2>3 DEF Names
  <2>5. QED BY <2>4
<1>10. HeaderOf(p, h)
  <2>1. h.type \in Types /\ h.tid \in Nat /\ h.lsb \in Nat /\ h.pic_output_flag \in BOOLEAN
    <3>1. h.pic_output_flag \in BOOLEAN
      BY <1>5
    <3>2. h.type \in Types
      BY <1>5 DEF Types
    <3>3. QED BY <1>5, <1>6, <3>1, <3>2
  <2>2. IsHeader(h)
    BY <1>5, <2>1 DEF IsHeader
  <2>3. QED BY <1>3, <1>5, <1>6, <1>7, <2>2 DEF HeaderOf
<1>11. StartsAnew(p)
  BY <1>5, <1>7 DEF StartsAnew, IsIrap
<1>12. QED BY <1>4, <1>7, <1>8, <1>9, <1>10, <1>11

Nearby(p, M) == p \in (Poc(Anchor) - (M \div 2) + 1)..(Poc(Anchor) + (M \div 2) - 1)

LEMMA NewPocsAreNear ==
  ASSUME NEW type \in Types, NEW p \in NewPocs(type)
  PROVE  Nearby(p, sps.max_lsb) /\ p \notin Pocs
<1> DEFINE near == ((Poc(Anchor) - (sps.max_lsb \div 2) + 1)..(Poc(Anchor) + (sps.max_lsb \div 2) - 1)) \ Pocs
<1>1. p \in near
  <2>1. CASE IsIrap(type)
    BY <2>1 DEF NewPocs
  <2>2. CASE type \in {"TRAIL_R", "TRAIL_N"}
    BY <2>2 DEF NewPocs, IsIrap
  <2>3. CASE type = "RADL"
    BY <2>3 DEF NewPocs, IsIrap
  <2>4. CASE type = "RASL"
    BY <2>4 DEF NewPocs, IsIrap
  <2>5. QED BY <2>1, <2>2, <2>3, <2>4 DEF Types, IsIrap
<1>2. QED BY <1>1 DEF Nearby

LEMMA ContinuationFacts ==
  ASSUME Invariant, next = "any", NEW p \in Continuations
  PROVE  /\ p \in Sent /\ p.refs \subseteq 1..Len(sent) /\ GoesOnWith(p)
         /\ p.type \notin {"IDR", "BLA"}
         /\ Nearby(p.poc, sps.max_lsb)
         /\ IsFiniteSet(p.refs) /\ Cardinality(p.refs) \in Nat
         /\ Cardinality(p.refs) < sps.max_dec_pic_buffering
         /\ p.long_term \subseteq p.refs
<1>1. TypesRight /\ StreamRight /\ sent # <<>> /\ sps # NoSet
  BY DEF Invariant, ModesRight
<1>2. sps \in Sets /\ stream \in Stream
  BY <1>1, H265Assumption DEF TypesRight, Stream
<1>3. PICK type \in stream.types \ {"IDR", "BLA"}, tid \in stream.layers : p \in Conceivable(type, tid)
  BY DEF Continuations
<1>4. /\ p.type = type /\ p.tid = tid /\ p.poc \in NewPocs(type) /\ p.pic_output_flag \in BOOLEAN
      /\ p.refs \subseteq Keepable(type) /\ p.use \subseteq Usable(type, tid)
      /\ p.long_term \subseteq Keepable(type)
      /\ p.seq = Sequence /\ p.joined = Latest.joined
      /\ p = [type |-> p.type, tid |-> p.tid, poc |-> p.poc, pic_output_flag |-> p.pic_output_flag,
              refs |-> p.refs, use |-> p.use, long_term |-> p.long_term, seq |-> p.seq,
              joined |-> p.joined]
  <2> PICK flags, lts : /\ flags = IF stream.hides THEN BOOLEAN ELSE {TRUE}
                        /\ lts = IF stream.long_term THEN SUBSET Keepable(type) ELSE {{}}
    OBVIOUS
  <2>1. p \in [type : {type}, tid : {tid}, poc : NewPocs(type), pic_output_flag : flags,
               refs : SUBSET Keepable(type), use : SUBSET Usable(type, tid), long_term : lts,
               seq : {Sequence}, joined : {Latest.joined}]
    BY <1>3 DEF Conceivable
  <2>2. /\ p.type = type /\ p.tid = tid /\ p.poc \in NewPocs(type) /\ p.pic_output_flag \in flags
        /\ p.refs \subseteq Keepable(type) /\ p.use \subseteq Usable(type, tid) /\ p.long_term \in lts
        /\ p.seq = Sequence /\ p.joined = Latest.joined
        /\ p = [type |-> p.type, tid |-> p.tid, poc |-> p.poc, pic_output_flag |-> p.pic_output_flag,
                refs |-> p.refs, use |-> p.use, long_term |-> p.long_term, seq |-> p.seq,
                joined |-> p.joined]
    BY <2>1
  <2>3. flags \subseteq BOOLEAN /\ \A l \in lts : l \subseteq Keepable(type)
    OBVIOUS
  <2>4. QED BY <2>2, <2>3
<1>5. /\ Len(sent) \in Nat /\ DOMAIN sent = 1..Len(sent) /\ Latest \in Sent /\ Len(sent) \in DOMAIN sent
      /\ Sequence \in Nat /\ Numbers \subseteq DOMAIN sent /\ \A n \in DOMAIN sent : Poc(n) \in Int
  BY <1>1, SentTypes
<1>6. Kept \subseteq 1..Len(sent)
  <2>1. Latest.refs \subseteq 1..(Len(sent) - 1)
    BY <1>1, <1>5 DEF StreamRight, Latest
  <2>2. QED BY <1>5, <2>1 DEF Kept
<1>7. Keepable(type) \subseteq 1..Len(sent) /\ Usable(type, tid) \subseteq 1..Len(sent)
  BY <1>6 DEF Keepable, Usable
<1>8. p.refs \subseteq 1..Len(sent) /\ p.use \subseteq 1..Len(sent) /\ p.long_term \subseteq 1..Len(sent)
  BY <1>4, <1>7
<1>9. type \in Types /\ tid \in Nat
  BY <1>2 DEF Stream
<1>10. Nearby(p.poc, sps.max_lsb) /\ p.poc \notin Pocs
  BY <1>4, <1>9, NewPocsAreNear
<1>11. p.poc \in Int
  BY <1>10 DEF Nearby
<1>12. p \in Sent
  <2>1. Latest.joined \in BOOLEAN
    BY <1>5 DEF Sent
  <2>2. p.refs \in SUBSET Nat /\ p.use \in SUBSET Nat /\ p.long_term \in SUBSET Nat
    BY <1>5, <1>8
  <2>3. QED BY <1>4, <1>5, <1>9, <1>11, <2>1, <2>2 DEF Sent
<1>13. GoesOnWith(p)
  BY <1>1, <1>4, <1>10 DEF GoesOnWith, Pocs
<1>14. IsFiniteSet(p.refs) /\ Cardinality(p.refs) \in Nat
  <2>1. IsFiniteSet(1..Len(sent))
    BY <1>5, FS_Interval
  <2>2. IsFiniteSet(p.refs)
    BY <1>8, <2>1, FS_Subset
  <2>3. QED BY <2>2, FS_CardinalityType
<1>15. PICK pics : pics = Append(sent, p)
  OBVIOUS
<1>16. Len(pics) = Len(sent) + 1 /\ DOMAIN pics = 1..(Len(sent) + 1) /\ pics[Len(sent) + 1] = p
  <2>1. sent \in Seq(Sent)
    BY <1>1 DEF TypesRight
  <2>2. pics \in Seq(Sent) /\ Len(pics) = Len(sent) + 1 /\ pics[Len(sent) + 1] = p
    BY <1>12, <1>15, <2>1, Appended
  <2>3. QED BY <2>2, LenProperties
<1>17. Cardinality(HeldAt(pics, Len(sent) + 1)) < sps.max_dec_pic_buffering
  <2>1. KeepsPromises(pics)
    BY <1>15 DEF Continuations
  <2>2. Len(sent) + 1 \in {n \in DOMAIN pics : pics[n].seq = pics[Len(pics)].seq}
    BY <1>5, <1>16
  <2>3. QED BY <2>1, <2>2 DEF KeepsPromises
<1>18. Cardinality(p.refs) < sps.max_dec_pic_buffering
  <2> DEFINE held == HeldAt(pics, Len(sent) + 1)
  <2>1. p.refs \subseteq held /\ held \subseteq 1..(Len(sent) + 1)
    BY <1>5, <1>8, <1>16 DEF HeldAt, SeqOut
  <2>2. IsFiniteSet(1..(Len(sent) + 1))
    BY <1>5, FS_Interval
  <2> HIDE DEF held
  <2>3. IsFiniteSet(held)
    BY <2>1, <2>2, FS_Subset
  <2>4. Cardinality(p.refs) <= Cardinality(held) /\ Cardinality(held) \in Nat
    BY <2>1, <2>3, FS_Subset, FS_CardinalityType
  <2>5. sps.max_dec_pic_buffering \in Nat
    BY <1>2 DEF Sets
  <2>6. QED BY <1>14, <1>17, <2>4, <2>5 DEF held
<1>19. p.long_term \subseteq p.refs
  BY DEF Continuations
<1>20. QED BY <1>4, <1>8, <1>10, <1>12, <1>13, <1>14, <1>18, <1>19

LEMMA DeltasNamed ==
  ASSUME NEW p, NEW s, NEW n \in Nat, DOMAIN s = 1..n
  PROVE  HasEntries(Deltas(p, s), n)
<1> DEFINE list == [i \in DOMAIN s |-> [delta |-> Poc(s[i]) - p.poc, used |-> s[i] \in p.use]]
<1>1. DOMAIN list = 1..n
  OBVIOUS
<1>2. ASSUME NEW i \in 1..n PROVE list[i].used \in BOOLEAN
  <2>1. list[i] = [delta |-> Poc(s[i]) - p.poc, used |-> s[i] \in p.use]
    OBVIOUS
  <2> HIDE DEF list
  <2>2. list[i].used = (s[i] \in p.use)
    BY <2>1
  <2>3. QED BY <2>2
<1>3. Deltas(p, s) = list
  BY DEF Deltas
<1> HIDE DEF list
<1>4. QED BY <1>1, <1>2, <1>3 DEF HasEntries

LEMMA HeaderFacts ==
  ASSUME NEW p \in Sent, IsFiniteSet(p.refs), p.refs \subseteq DOMAIN sent, p.long_term \subseteq p.refs,
         \A n \in DOMAIN sent : Poc(n) \in Int, sps.max_lsb \in Nat \ {0, 1}, NEW h \in Headers(p)
  PROVE  HeaderOf(p, h) /\ \E n \in Nat : n <= Cardinality(p.refs) /\ Names(h, n)
<1> DEFINE B == {n \in p.refs \ p.long_term : Poc(n) < p.poc}
           A == {n \in p.refs \ p.long_term : Poc(n) > p.poc}
           L == p.long_term
<1>1. IsFiniteSet(B) /\ IsFiniteSet(A) /\ IsFiniteSet(L)
  BY FS_Subset
<1>2. PICK nb, na, nl \in Nat : nb = Cardinality(B) /\ na = Cardinality(A) /\ nl = Cardinality(L)
  BY <1>1, FS_CardinalityType
<1>3. nb + na + nl <= Cardinality(p.refs)
  <2>1. /\ B \cap A = {} /\ (B \cup A) \cap L = {} /\ B \cup A \cup L \subseteq p.refs
    BY DEF Sent
  <2> HIDE DEF B, A, L
  <2>2. Cardinality(B \cap A) = 0 /\ Cardinality((B \cup A) \cap L) = 0
    BY <2>1, FS_EmptySet
  <2>3. IsFiniteSet(B \cup A) /\ Cardinality(B \cup A) = nb + na - 0
    BY <1>1, <1>2, <2>2, FS_Union
  <2>4. Cardinality((B \cup A) \cup L) = nb + na + nl
    <3>1. Cardinality((B \cup A) \cup L)
            = Cardinality(B \cup A) + Cardinality(L) - Cardinality((B \cup A) \cap L)
      BY <1>1, <2>3, FS_Union
    <3>2. Cardinality((B \cup A) \cup L) = (nb + na - 0) + nl - 0
      BY <1>2, <2>2, <2>3, <3>1
    <3>3. QED BY <3>2
  <2>5. Cardinality((B \cup A) \cup L) <= Cardinality(p.refs)
    BY <2>1, FS_Subset
  <2>6. QED BY <2>4, <2>5
<1>4. PICK present \in BOOLEAN :
        h = [type |-> p.type, tid |-> p.tid, lsb |-> p.poc % sps.max_lsb,
             pic_output_flag |-> p.pic_output_flag, no_output_of_prior_pics_flag |-> FALSE,
             s0 |-> Deltas(p, Before(p)), s1 |-> Deltas(p, After(p)),
             lt |-> [i \in DOMAIN LongTerms(p) |->
                       LongTermEntry(p, LongTerms(p)[i], present \/ Ambiguous(LongTerms(p)[i]))]]
  BY DEF Headers
<1>5. HasEntries(h.s0, nb) /\ HasEntries(h.s1, na)
  <2>0. DOMAIN Before(p) = 1..nb /\ DOMAIN After(p) = 1..na
    BY <1>2 DEF Before, After, InOrder
  <2>1. HasEntries(Deltas(p, Before(p)), nb)
    BY <1>2, <2>0, DeltasNamed
  <2>2. HasEntries(Deltas(p, After(p)), na)
    BY <1>2, <2>0, DeltasNamed
  <2>3. h.s0 = Deltas(p, Before(p)) /\ h.s1 = Deltas(p, After(p))
    BY <1>4
  <2>4. QED BY <2>1, <2>2, <2>3
<1>6. HasEntries(h.lt, nl)
  <2>1. DOMAIN LongTerms(p) = 1..nl
    BY <1>1, <1>2, InOrderLength DEF LongTerms
  <2>2. h.lt = [i \in DOMAIN LongTerms(p) |->
                  LongTermEntry(p, LongTerms(p)[i], present \/ Ambiguous(LongTerms(p)[i]))]
    BY <1>4
  <2>3. \A n, b : LongTermEntry(p, n, b).used \in BOOLEAN
    BY DEF LongTermEntry
  <2>4. QED BY <2>1, <2>2, <2>3 DEF HasEntries
<1>7. Names(h, nb + na + nl) /\ nb + na + nl \in Nat
  <2>1. nb + na + nl \in Nat /\ nb + na + nl = nb + na + nl
    OBVIOUS
  <2> SUFFICES \E n0, n1, n2 \in Nat : /\ HasEntries(h.s0, n0) /\ HasEntries(h.s1, n1)
                                       /\ HasEntries(h.lt, n2) /\ n0 + n1 + n2 = nb + na + nl
    BY <2>1 DEF Names
  <2> WITNESS nb \in Nat, na \in Nat, nl \in Nat
  <2> QED BY <1>5, <1>6, <2>1
<1>8. HeaderOf(p, h)
  <2>1. p.poc % sps.max_lsb \in Nat /\ p.type \in Types /\ p.tid \in Nat /\ p.pic_output_flag \in BOOLEAN
    <3>1. PICK M \in Nat \ {0} : M = sps.max_lsb
      OBVIOUS
    <3>2. p.poc \in Int /\ p.type \in Types /\ p.tid \in Nat /\ p.pic_output_flag \in BOOLEAN
      BY DEF Sent
    <3>3. p.poc % M \in 0..(M - 1)
      BY <3>1, <3>2, DivMod
    <3>4. QED BY <3>1, <3>2, <3>3
  <2>2. /\ h.type = p.type /\ h.tid = p.tid /\ h.pic_output_flag = p.pic_output_flag
        /\ h.lsb = p.poc % sps.max_lsb /\ h.no_output_of_prior_pics_flag \in BOOLEAN
        /\ h = [type |-> h.type, tid |-> h.tid, lsb |-> h.lsb, pic_output_flag |-> h.pic_output_flag,
                no_output_of_prior_pics_flag |-> h.no_output_of_prior_pics_flag,
                s0 |-> h.s0, s1 |-> h.s1, lt |-> h.lt]
    BY <1>4
  <2>3. QED BY <2>1, <2>2 DEF HeaderOf, IsHeader
<1>9. QED BY <1>3, <1>7, <1>8

(* PictureData::new_from_slice.                                            *)
LEMMA NewPictureFacts ==
  ASSUME TypesRight, NEW h, IsHeader(h), NEW prev \in Picture \cup {NoPicture},
         NEW pic, pic = NewPicture(h, prev)
  PROVE  /\ pic \in Picture
         /\ pic.n = Len(sent) + 1 /\ pic.type = h.type /\ pic.lsb = h.lsb
         /\ pic.poc = pic.msb + pic.lsb
         /\ pic.msb = IF StartsSequence(h) \/ prev = NoPicture
                        THEN 0 ELSE PicOrderCntMsb(h, prev, max_pic_order_cnt_lsb)
         /\ pic.no_rasl_output_flag = NoRaslOutputFlag(h)
         /\ pic.valid_for_prev_tid0_pic = ValidForPrevTid0Pic(h)
         /\ pic.pic_output_flag = (h.pic_output_flag /\ ~(h.type = "RASL" /\ NoRaslOutputFlag(h)))
<1>1. PICK msb : msb = IF StartsSequence(h) \/ prev = NoPicture
                         THEN 0 ELSE PicOrderCntMsb(h, prev, max_pic_order_cnt_lsb)
  OBVIOUS
<1>2. PICK rasl, out, valid, discard \in BOOLEAN :
        /\ rasl = NoRaslOutputFlag(h)
        /\ out = (h.pic_output_flag /\ ~(h.type = "RASL" /\ NoRaslOutputFlag(h)))
        /\ valid = ValidForPrevTid0Pic(h)
        /\ discard = (/\ StartsSequence(h) /\ ~first_picture_in_bitstream
                      /\ h.type = "CRA" \/ h.no_output_of_prior_pics_flag)
  <2>1. NoRaslOutputFlag(h) \in BOOLEAN
    BY DEF NoRaslOutputFlag, TypesRight
  <2>2. ValidForPrevTid0Pic(h) \in BOOLEAN
    BY DEF ValidForPrevTid0Pic
  <2>3. QED BY <2>1, <2>2
<1>3. pic = [n |-> Len(sent) + 1, type |-> h.type, lsb |-> h.lsb, msb |-> msb, poc |-> msb + h.lsb,
             no_rasl_output_flag |-> rasl, pic_output_flag |-> out, valid_for_prev_tid0_pic |-> valid,
             no_output_of_prior_pics_flag |-> discard,
             reference |-> "None", pic_latency_cnt |-> 0, needed_for_output |-> FALSE]
  BY <1>1, <1>2 DEF NewPicture
<1>4. msb \in Int
  <2>1. CASE StartsSequence(h) \/ prev = NoPicture
    BY <1>1, <2>1
  <2>2. CASE ~(StartsSequence(h) \/ prev = NoPicture)
    <3>1. prev.msb \in Int /\ max_pic_order_cnt_lsb \in Nat
      BY <2>2 DEF Picture, TypesRight
    <3>2. QED BY <1>1, <2>2, <3>1 DEF PicOrderCntMsb
  <2>3. QED BY <2>1, <2>2
<1>5. Len(sent) + 1 \in Nat
  BY SentTypes
<1>6. pic \in Picture
  BY <1>3, <1>4, <1>5 DEF Picture, IsHeader
<1>7. QED BY <1>1, <1>2, <1>3, <1>6

(* decode_rps.                                                             *)
LEMMA DecodeRpsFacts ==
  ASSUME NEW d, IsBuffer(d), NEW pic, pic.poc \in Int, NEW h, IsHeader(h),
         NEW n \in Nat, Names(h, n), NEW m, m = DecodeRps(d, pic, h)
  PROVE  /\ m = [dpb |-> m.dpb, rps |-> m.rps]
         /\ Remarked(d, m.dpb)
         /\ m.rps \in RefPicSet
         /\ References(m.dpb) \subseteq RpsPictures(m.rps)
         /\ IsFiniteSet(RpsPictures(m.rps))
         /\ Cardinality(RpsPictures(m.rps)) <= n
<1>1. PICK e : e = IF IsIrap(pic.type) /\ pic.no_rasl_output_flag THEN MarkAllAsUnusedForRef(d) ELSE d
  OBVIOUS
<1>2. PICK g : g = IF h.type = "IDR" THEN [h EXCEPT !.s0 = <<>>, !.s1 = <<>>, !.lt = <<>>] ELSE h
  OBVIOUS
<1>3. m = DeriveAndMark(e, pic, g)
  BY <1>1, <1>2 DEF DecodeRps
<1>4. IsBuffer(e) /\ Remarked(d, e)
  <2>1. Remarked(d, d)
    BY DEF Remarked
  <2>2. QED BY <1>1, <2>1, AllUnmarkedFacts DEF Remarked
<1>5. PICK k \in Nat : k <= n /\ Names(g, k)
  <2>1. CASE h.type = "IDR"
    <3>1. g.s0 = <<>> /\ g.s1 = <<>> /\ g.lt = <<>>
      BY <1>2, <2>1 DEF IsHeader
    <3>2. Names(g, 0)
      BY <3>1, NothingNamed DEF Names
    <3>3. QED BY <3>2
  <2>2. CASE h.type # "IDR"
    BY <1>2, <2>2
  <2>3. QED BY <2>1, <2>2
<1>6. /\ m = [dpb |-> m.dpb, rps |-> m.rps]
      /\ Remarked(e, m.dpb)
      /\ m.rps \in RefPicSet
      /\ References(m.dpb) \subseteq RpsPictures(m.rps)
      /\ IsFiniteSet(RpsPictures(m.rps))
      /\ Cardinality(RpsPictures(m.rps)) <= k
  BY <1>3, <1>4, <1>5, DerivedFacts
<1>7. Remarked(d, m.dpb)
  BY <1>4, <1>6, RemarkedTrans
<1>8. Cardinality(RpsPictures(m.rps)) <= n
  BY <1>5, <1>6, FS_CardinalityType
<1>9. QED BY <1>6, <1>7, <1>8

LEMMA RemarkedResumes ==
  ASSUME NEW s, Resumed(s), NEW d, Remarked(s.dpb, d), NEW t, t = [s EXCEPT !.dpb = d]
  PROVE  Resumed(t) /\ t.dpb = d /\ t.out = s.out
<1>1. PICK e, p, o : s = [dpb |-> e, prev_tid_0_pic |-> p, out |-> o, cleared |-> {}, ok |-> TRUE]
  BY DEF Resumed
<1>2. t = [dpb |-> d, prev_tid_0_pic |-> p, out |-> o, cleared |-> {}, ok |-> TRUE]
  BY <1>1
<1>3. t.dpb = d /\ t.out = s.out /\ t.prev_tid_0_pic = s.prev_tid_0_pic
      /\ t = [dpb |-> t.dpb, prev_tid_0_pic |-> t.prev_tid_0_pic, out |-> t.out, cleared |-> {},
              ok |-> TRUE]
  BY <1>1, <1>2
<1>4. \A n \in DOMAIN d.entries : n \in DOMAIN s.dpb.entries /\ PocOf(d, n) = PocOf(s.dpb, n)
  BY DEF Remarked, PocOf
<1>5. IsBuffer(d) /\ DOMAIN d.entries = DOMAIN s.dpb.entries /\ Waiting(d) = Waiting(s.dpb)
  BY DEF Remarked
<1>6. PocsDiffer(d)
  BY <1>4 DEF Resumed, PocsDiffer
<1>7. Settled(t)
  <2>1. /\ s.prev_tid_0_pic = LastTid0 /\ DOMAIN s.dpb.entries \subseteq Numbers
        /\ \A off \in Int : Offset(off) => \A n \in DOMAIN s.dpb.entries : PocOf(s.dpb, n) = Poc(n) + off
        /\ next = "IRAP after a seek" => DOMAIN s.dpb.entries = {}
        /\ Queue(ready_queue \o s.out, Waiting(s.dpb))
    BY DEF Resumed, Settled
  <2>2. \A off \in Int : Offset(off) => \A n \in DOMAIN d.entries : PocOf(d, n) = Poc(n) + off
    BY <1>4, <2>1
  <2>3. QED BY <1>3, <1>5, <2>1, <2>2 DEF Settled
<1>8. s.out \in Seq(Nat)
  BY DEF Resumed
<1>9. QED BY <1>3, <1>6, <1>7, <1>8 DEF Resumed

(* update_dpb_before_decoding.                                             *)
StartsClean(pic) == IsIrap(pic.type) /\ pic.no_rasl_output_flag

Updated(s, t, pic) ==
  /\ IsBuffer(t.dpb) /\ t.dpb.max_num_pics = s.dpb.max_num_pics
  /\ t.prev_tid_0_pic = LastTid0
  /\ DOMAIN t.dpb.entries \subseteq DOMAIN s.dpb.entries
  /\ \A n \in DOMAIN t.dpb.entries : PocOf(t.dpb, n) = PocOf(s.dpb, n)
  /\ t.cleared \subseteq Waiting(s.dpb) /\ t.cleared \cap Waiting(t.dpb) = {}
  /\ Queue(ready_queue \o t.out, Waiting(t.dpb) \cup t.cleared)
  /\ StartsClean(pic) => DOMAIN t.dpb.entries = {}
  /\ ~StartsClean(pic) =>
       Fullness(t.dpb) < sps.max_dec_pic_buffering \/ DOMAIN t.dpb.entries \subseteq References(s.dpb)

LEMMA UpdateDrains ==
  ASSUME Invariant, NEW s, Resumed(s), NEW pic, StartsClean(pic), ~pic.no_output_of_prior_pics_flag,
         NEW t, t = UpdateDpbBeforeDecoding(s, pic)
  PROVE  Updated(s, t, pic)
<1>1. t = DrainAll(s)
  BY DEF UpdateDpbBeforeDecoding, StartsClean
<1>2. Settled(t) /\ t.dpb = EmptyDpb(s.dpb.max_num_pics) /\ t.cleared = {}
  BY <1>1, DrainedFacts
<1>3. s.dpb.max_num_pics \in Nat
  BY DEF Resumed, Settled, IsBuffer
<1>4. IsBuffer(t.dpb) /\ t.dpb.max_num_pics = s.dpb.max_num_pics /\ DOMAIN t.dpb.entries = {}
      /\ Waiting(t.dpb) = {}
  BY <1>2, <1>3, EmptyFacts
<1>5. Queue(ready_queue \o t.out, Waiting(t.dpb)) /\ t.prev_tid_0_pic = LastTid0
  BY <1>2 DEF Settled
<1>6. Waiting(t.dpb) \cup t.cleared = Waiting(t.dpb)
  BY <1>2, <1>4
<1>7. QED BY <1>2, <1>4, <1>5, <1>6 DEF Updated

LEMMA UpdateClears ==
  ASSUME Invariant, NEW s, Resumed(s), NEW pic, StartsClean(pic), pic.no_output_of_prior_pics_flag,
         NEW t, t = UpdateDpbBeforeDecoding(s, pic)
  PROVE  Updated(s, t, pic)
<1>1. t = [s EXCEPT !.dpb = Clear(s.dpb), !.cleared = Waiting(s.dpb)]
  BY DEF UpdateDpbBeforeDecoding, StartsClean, Resumed
<1>2. PICK e, p, o : s = [dpb |-> e, prev_tid_0_pic |-> p, out |-> o, cleared |-> {}, ok |-> TRUE]
  BY DEF Resumed
<1>3. /\ t.dpb = EmptyDpb(s.dpb.max_num_pics) /\ t.prev_tid_0_pic = s.prev_tid_0_pic /\ t.out = s.out
      /\ t.cleared = Waiting(s.dpb)
  BY <1>1, <1>2 DEF Clear
<1>4. s.dpb.max_num_pics \in Nat
  BY DEF Resumed, Settled, IsBuffer
<1>5. IsBuffer(t.dpb) /\ t.dpb.max_num_pics = s.dpb.max_num_pics /\ DOMAIN t.dpb.entries = {}
      /\ Waiting(t.dpb) = {}
  BY <1>3, <1>4, EmptyFacts
<1>6. Queue(ready_queue \o s.out, Waiting(s.dpb)) /\ s.prev_tid_0_pic = LastTid0
  BY DEF Resumed, Settled
<1>7. Waiting(t.dpb) \cup t.cleared = Waiting(s.dpb)
  BY <1>3, <1>5
<1>8. QED BY <1>3, <1>5, <1>6, <1>7 DEF Updated

LEMMA UpdateBumps ==
  ASSUME Invariant, NEW s, Resumed(s), NEW pic, ~StartsClean(pic), sps \in Sets,
         NEW t, t = UpdateDpbBeforeDecoding(s, pic)
  PROVE  Updated(s, t, pic) /\ t.cleared = {}
<1>1. PICK d : d = RemoveUnused(s.dpb)
  OBVIOUS
<1>2. /\ IsBuffer(s.dpb) /\ PocsDiffer(s.dpb) /\ s.prev_tid_0_pic = LastTid0 /\ s.out \in Seq(Nat)
      /\ Queue(ready_queue \o s.out, Waiting(s.dpb))
  BY DEF Resumed, Settled
<1>3. /\ IsBuffer(d)
      /\ d.max_num_pics = s.dpb.max_num_pics
      /\ DOMAIN d.entries = References(s.dpb) \cup Waiting(s.dpb)
      /\ \A i \in DOMAIN d.entries : d.entries[i] = s.dpb.entries[i]
      /\ References(d) = References(s.dpb) /\ Waiting(d) = Waiting(s.dpb)
  BY <1>1, <1>2, RemoveUnusedFacts
<1>4. DOMAIN d.entries \subseteq DOMAIN s.dpb.entries
      /\ \A n \in DOMAIN d.entries : PocOf(d, n) = PocOf(s.dpb, n)
  BY <1>3, PlaceSets DEF PocOf
<1>5. PocsDiffer(d)
  BY <1>2, <1>4 DEF PocsDiffer
<1>6. PICK b : b = BumpAsNeeded(d, sps, "BeforeDecoding")
  OBVIOUS
<1>7. Popped(d, "BeforeDecoding", b)
      /\ (Waiting(b.dpb) = {} \/ ~Needed(b.dpb, sps, "BeforeDecoding"))
  BY <1>3, <1>5, <1>6, BumpedAsNeeded
<1>8. t = [s EXCEPT !.dpb = b.dpb, !.out = s.out \o b.out]
  BY <1>1, <1>6 DEF UpdateDpbBeforeDecoding, StartsClean, Bumped
<1>9. /\ t.dpb = b.dpb /\ t.prev_tid_0_pic = LastTid0 /\ t.cleared = {} /\ t.out = s.out \o b.out
  <2>1. PICK e, p, o : s = [dpb |-> e, prev_tid_0_pic |-> p, out |-> o, cleared |-> {}, ok |-> TRUE]
    BY DEF Resumed
  <2>2. PICK o2 : o2 = s.out \o b.out
    OBVIOUS
  <2>3. PICK f : f = b.dpb
    OBVIOUS
  <2>4. t = [s EXCEPT !.dpb = f, !.out = o2]
    BY <1>8, <2>2, <2>3
  <2>5. t.dpb = f /\ t.prev_tid_0_pic = s.prev_tid_0_pic /\ t.cleared = {} /\ t.out = o2
    BY <2>1, <2>4
  <2>6. QED BY <1>2, <2>2, <2>3, <2>5
<1>10. /\ IsBuffer(b.dpb) /\ b.dpb.max_num_pics = d.max_num_pics
       /\ DOMAIN b.dpb.entries \subseteq DOMAIN d.entries
       /\ \A n \in DOMAIN b.dpb.entries : PocOf(b.dpb, n) = PocOf(d, n)
       /\ Waiting(b.dpb) \subseteq Waiting(s.dpb)
       /\ b.out \in Seq(Waiting(s.dpb)) /\ Injective(b.out)
       /\ Range(b.out) = Waiting(s.dpb) \ Waiting(b.dpb)
       /\ DOMAIN b.dpb.entries = (DOMAIN d.entries \ Range(b.out)) \cup References(d)
  BY <1>3, <1>7 DEF Popped, Same, PocOf
<1>11. b.out \in Seq(Nat) /\ ready_queue \in Seq(Nat)
  <2>1. Waiting(s.dpb) \subseteq Nat
    BY <1>2, PlacesFinite
  <2>2. b.out \in Seq(Nat)
    BY <1>10, <2>1, SeqMonotonic
  <2>3. QED BY <2>2 DEF Invariant, TypesRight
<1>12. Queue((ready_queue \o s.out) \o b.out, Waiting(b.dpb))
  BY <1>2, <1>10, <1>11, Queued
<1>13. (ready_queue \o s.out) \o b.out = ready_queue \o (s.out \o b.out)
  <2>1. PICK x \in Seq(Nat), y \in Seq(Nat), z \in Seq(Nat) : x = ready_queue /\ y = s.out /\ z = b.out
    BY <1>2, <1>11
  <2>2. (x \o y) \o z = x \o (y \o z)
    BY ConcatAssociative
  <2>3. QED BY <2>1, <2>2
<1>14. Waiting(t.dpb) \cup t.cleared = Waiting(b.dpb) /\ t.cleared \cap Waiting(t.dpb) = {}
  BY <1>9
<1>15. Fullness(t.dpb) < sps.max_dec_pic_buffering \/ DOMAIN t.dpb.entries \subseteq References(s.dpb)
  <2>1. CASE Waiting(b.dpb) = {}
    BY <1>3, <1>9, <1>10, <2>1
  <2>2. CASE ~Needed(b.dpb, sps, "BeforeDecoding")
    <3>1. ~(Fullness(b.dpb) >= sps.max_dec_pic_buffering)
      BY <2>2 DEF Needed, NeedsBumping
    <3>2. Fullness(b.dpb) \in Nat /\ sps.max_dec_pic_buffering \in Nat
      BY <1>10, PlacesFinite DEF Sets
    <3>3. QED BY <1>9, <3>1, <3>2
  <2>3. QED BY <1>7, <2>1, <2>2
<1>16. \A n \in DOMAIN b.dpb.entries : PocOf(b.dpb, n) = PocOf(s.dpb, n)
  BY <1>4, <1>10
<1>17. t.cleared \subseteq Waiting(s.dpb) /\ DOMAIN t.dpb.entries \subseteq DOMAIN s.dpb.entries
  BY <1>4, <1>9, <1>10
<1>18. Queue(ready_queue \o t.out, Waiting(t.dpb) \cup t.cleared)
  BY <1>9, <1>12, <1>13, <1>14
<1>19. t.dpb.max_num_pics = s.dpb.max_num_pics
  BY <1>3, <1>9, <1>10
<1>20. QED BY <1>9, <1>10, <1>14, <1>15, <1>16, <1>17, <1>18, <1>19 DEF Updated

LEMMA UpdateFacts ==
  ASSUME Invariant, NEW s, Resumed(s), NEW pic, sps \in Sets,
         NEW t, t = UpdateDpbBeforeDecoding(s, pic)
  PROVE  Updated(s, t, pic) /\ (~StartsClean(pic) => t.cleared = {})
<1>1. CASE StartsClean(pic) /\ pic.no_output_of_prior_pics_flag
  BY <1>1, UpdateClears
<1>2. CASE StartsClean(pic) /\ ~pic.no_output_of_prior_pics_flag
  BY <1>2, UpdateDrains
<1>3. CASE ~StartsClean(pic)
  BY <1>3, UpdateBumps
<1>4. QED BY <1>1, <1>2, <1>3

-----------------------------------------------------------------------------
(* The first slice of a picture.                                           *)

(* What may come, with its header.                                         *)
Starting(p, h) ==
  /\ p \in Sent /\ p.refs \subseteq 1..Len(sent) /\ StartsAnew(p)
  /\ HeaderOf(p, h) /\ \E n \in Nat : Names(h, n)
  /\ p.poc = h.lsb
  /\ h.type = "CRA" => next \in {"IRAP", "IRAP after a seek"}
Continuing(p, h) ==
  /\ next = "any"
  /\ p \in Sent /\ p.refs \subseteq 1..Len(sent) /\ GoesOnWith(p)
  /\ p.type \notin {"IDR", "BLA"}
  /\ Nearby(p.poc, sps.max_lsb)
  /\ HeaderOf(p, h)
  /\ \E n \in Nat : n < sps.max_dec_pic_buffering /\ Names(h, n)

LEMMA StartComes ==
  ASSUME Invariant, sps # NoSet, NEW h \in Starts, NEW p, p = StartOf(h)
  PROVE  Starting(p, h)
  BY StartFacts DEF Starting

LEMMA ContinuationComes ==
  ASSUME Invariant, next = "any", NEW p \in Continuations, NEW h \in Headers(p)
  PROVE  Continuing(p, h) /\ sps # NoSet
<1>1. /\ p \in Sent /\ p.refs \subseteq 1..Len(sent) /\ GoesOnWith(p)
      /\ p.type \notin {"IDR", "BLA"}
      /\ Nearby(p.poc, sps.max_lsb)
      /\ IsFiniteSet(p.refs) /\ Cardinality(p.refs) \in Nat
      /\ Cardinality(p.refs) < sps.max_dec_pic_buffering
      /\ p.long_term \subseteq p.refs
  BY ContinuationFacts
<1>2. TypesRight /\ sps # NoSet
  BY DEF Invariant, ModesRight
<1>3. DOMAIN sent = 1..Len(sent) /\ \A n \in DOMAIN sent : Poc(n) \in Int
  BY <1>2, SentTypes
<1>4. sps.max_lsb \in Nat \ {0, 1} /\ sps.max_dec_pic_buffering \in Nat
  BY <1>2, SetTypes
<1>5. HeaderOf(p, h) /\ \E n \in Nat : n <= Cardinality(p.refs) /\ Names(h, n)
  <2>1. p.refs \subseteq DOMAIN sent
    BY <1>1, <1>3
  <2>2. QED BY <1>1, <1>3, <1>4, <2>1, HeaderFacts
<1>6. PICK n \in Nat : n <= Cardinality(p.refs) /\ Names(h, n)
  BY <1>5
<1>7. n < sps.max_dec_pic_buffering
  BY <1>1, <1>4, <1>6
<1>8. QED BY <1>1, <1>2, <1>5, <1>6, <1>7 DEF Continuing

LEMMA BegunKeeps ==
  ASSUME Invariant, sps # NoSet, NEW s, s = Finished, NEW p, NEW h, Starting(p, h) \/ Continuing(p, h),
         Begins(s, p, h), IsBuffer(dpb'), dpb'.max_num_pics = s.dpb.max_num_pics,
         prev_tid_0_pic' = LastTid0, ready_queue' \in Seq(Nat),
         current_pic' \in [pic : Picture, rps : RefPicSet] \cup {NoPicture},
         irap_no_rasl_output_flag' \in BOOLEAN, dropped' \subseteq DOMAIN sent \cup {Len(sent) + 1}
  PROVE  /\ TypesRight' /\ ModesRight' /\ StreamRight'
         /\ Numbers' = IF p.seq = Sequence THEN Numbers \cup {Len(sent) + 1} ELSE {Len(sent) + 1}
         /\ Anchor' = IF CountsAsAnchor(p) THEN Len(sent) + 1 ELSE Anchor
<1>1. TypesRight /\ ModesRight
  BY DEF Invariant
<1>2. /\ decoding_state' = "Decoding" /\ first_picture_after_eos' = FALSE
      /\ first_picture_in_bitstream' = FALSE /\ sent' = Append(sent, p) /\ next' = "any"
      /\ UNCHANGED <<awaited, sps, max_pic_order_cnt_lsb, negotiation_info, outcome, stream>>
      /\ ~NegotiationPossible(s.dpb) /\ outcome = "Ok"
  BY DEF Begins, Decodable
<1>3. p \in Sent /\ p.refs \subseteq 1..Len(sent) /\ (StartsAnew(p) \/ GoesOnWith(p))
  BY DEF Starting, Continuing
<1>4. sent' \in Seq(Sent) /\ sent' # <<>> /\ DOMAIN sent' = DOMAIN sent \cup {Len(sent) + 1}
  BY <1>1, <1>2, <1>3, SentOneMore
<1>5. LastTid0 \in Picture \cup {NoPicture}
  BY <1>1 DEF LastTid0, TypesRight
<1>6. TypesRight'
  <2>1. dropped' \in SUBSET DOMAIN sent'
    BY <1>4
  <2>2. QED BY <1>1, <1>2, <1>4, <1>5, <2>1 DEF TypesRight, States, Comings
<1>7. ModesRight'
  <2>1. ~NegotiationPossible(dpb)'
    BY <1>2 DEF NegotiationPossible
  <2>2. QED BY <1>1, <1>2, <1>4, <2>1 DEF ModesRight
<1>8. /\ StreamRight'
      /\ Numbers' = IF p.seq = Sequence THEN Numbers \cup {Len(sent) + 1} ELSE {Len(sent) + 1}
  BY <1>2, <1>3, SentKeepsStream
<1>9. Anchor' = IF CountsAsAnchor(p) THEN Len(sent) + 1 ELSE Anchor
  BY <1>2, <1>3, <1>6, AnchorMoves
<1>10. QED BY <1>6, <1>7, <1>8, <1>9

LEMMA BegunResumes ==
  ASSUME Invariant, sps # NoSet, NEW s, s = Finished, NEW p, NEW h, Begins(s, p, h)
  PROVE  /\ Resumed(s) /\ s.dpb.max_num_pics = sps.max_num_pics /\ outcome = "Ok" /\ outcome' = "Ok"
         /\ sps \in Sets /\ sps.max_lsb \in Nat \ {0, 1} /\ max_pic_order_cnt_lsb = sps.max_lsb
         /\ sps.max_dec_pic_buffering \in Nat \ {0} /\ sps.max_num_pics \in Nat \ {0}
<1>1. TypesRight /\ ModesRight
  BY DEF Invariant
<1>2. ~NegotiationPossible(s.dpb) /\ outcome = "Ok" /\ s.ok /\ outcome' = outcome
  BY DEF Begins, Decodable
<1>3. /\ sps \in Sets /\ sps.max_lsb \in Nat \ {0, 1} /\ sps.format # NoSet
      /\ sps.max_dec_pic_buffering \in Nat \ {0} /\ sps.max_num_pics \in Nat \ {0}
  BY <1>1, SetTypes
<1>4. Resumed(s)
  BY <1>2, FinishedFacts
<1>5. s.dpb.max_num_pics = sps.max_num_pics /\ negotiation_info = sps.format
  BY <1>2 DEF NegotiationPossible
<1>6. max_pic_order_cnt_lsb = sps.max_lsb
  BY <1>1, <1>3, <1>5 DEF ModesRight
<1>7. QED BY <1>2, <1>3, <1>4, <1>5, <1>6

(* What was queued, after p was sent: c is discarded, and x what is not    *)
(* decoded.                                                                *)
LEMMA QueueMoves ==
  ASSUME TypesRight, NEW p \in Sent, sent' = Append(sent, p), NEW q, NEW V, NEW c,
         Queue(q, V \cup c), V \cap c = {}, NEW x \in SUBSET {Len(sent) + 1},
         dropped' = dropped \cup c \cup x,
         NEW new, new = IF p.pic_output_flag THEN {Len(sent) + 1} ELSE {}
  PROVE  Queue(q, V \cup (new \ x))'
<1>1. /\ DOMAIN sent' = DOMAIN sent \cup {Len(sent) + 1} /\ Len(sent) + 1 \notin DOMAIN sent
      /\ sent'[Len(sent) + 1] = p
      /\ \A n \in DOMAIN sent : sent'[n] = sent[n]
  BY SentOneMore
<1>2. Shown' = Shown \cup new
  <2>1. \A n \in DOMAIN sent : n \in Shown' <=> n \in Shown
    BY <1>1 DEF Shown
  <2>2. Len(sent) + 1 \in Shown' <=> p.pic_output_flag
    BY <1>1 DEF Shown
  <2>3. Shown \subseteq DOMAIN sent /\ Shown' \subseteq DOMAIN sent'
    BY DEF Shown
  <2>4. QED BY <1>1, <2>1, <2>2, <2>3
<1>3. Shown \subseteq DOMAIN sent /\ dropped \subseteq DOMAIN sent
  BY DEF Shown, TypesRight
<1>4. /\ q \in Seq(Nat) /\ Injective(q)
      /\ V \cup c \subseteq Shown \ dropped
      /\ Range(q) = Shown \ ((V \cup c) \cup dropped)
  BY DEF Queue
<1>5. Len(sent) + 1 \notin Shown /\ Len(sent) + 1 \notin dropped
  BY <1>1, <1>3
<1>6. V \cup (new \ x) \subseteq Shown' \ dropped'
  BY <1>2, <1>4, <1>5
<1>7. Range(q) = Shown' \ ((V \cup (new \ x)) \cup dropped')
  BY <1>2, <1>4, <1>5
<1>8. QED BY <1>4, <1>6, <1>7 DEF Queue

(* The order count of a picture that goes on with a sequence is off by as  *)
(* much as those before it.                                                *)
LEMMA CountGoesOn ==
  ASSUME Invariant, NEW p, NEW h, Continuing(p, h), NEW off \in Int, Offset(off),
         sps.max_lsb \in Nat \ {0, 1}, max_pic_order_cnt_lsb = sps.max_lsb,
         NEW pic, pic = NewPicture(h, LastTid0)
  PROVE  /\ pic.poc = p.poc + off
         /\ ~StartsSequence(h) /\ ~NoRaslOutputFlag(h)
<1>1. TypesRight /\ StreamRight /\ ~first_picture_after_eos /\ ~first_picture_in_bitstream /\ sent # <<>>
  BY DEF Invariant, ModesRight, Continuing
<1>2. IsHeader(h) /\ h.type = p.type /\ h.lsb = p.poc % sps.max_lsb /\ h.type \notin {"IDR", "BLA"}
  BY DEF Continuing, HeaderOf
<1>3. ~NoRaslOutputFlag(h) /\ ~StartsSequence(h)
  BY <1>1, <1>2 DEF NoRaslOutputFlag, StartsSequence
<1>4. LastTid0 \in Picture /\ LastTid0 # NoPicture
  BY <1>1 DEF LastTid0, TypesRight, Continuing, Offset
<1>5. PICK msb, a, M : msb = LastTid0.msb /\ a = Poc(Anchor) /\ M = sps.max_lsb
  OBVIOUS
<1>6. msb \in Int /\ a \in Int /\ M \in Nat \ {0, 1} /\ p.poc \in Int
  BY <1>1, <1>4, <1>5, AnchorFacts DEF Picture, Continuing, Sent
<1>7. LastTid0.poc = a + off /\ LastTid0.poc = msb + LastTid0.lsb /\ LastTid0.lsb = a % M
  BY <1>5 DEF Offset, Continuing
<1>8. p.poc \in (a - (M \div 2) + 1)..(a + (M \div 2) - 1)
  BY <1>5 DEF Continuing, Nearby
<1>9. PICK la \in 0..(M - 1), lp \in 0..(M - 1), half \in Nat, d \in Int :
        /\ la = a % M /\ lp = p.poc % M /\ half = M \div 2
        /\ p.poc = (a - la) + d + lp
        /\ d = IF lp < la /\ la - lp >= half THEN M
               ELSE IF lp > la /\ lp - la > half THEN -M ELSE 0
  <2>1. PICK x \in Int : x = p.poc
    BY <1>6
  <2>2. x \in (a - (M \div 2) + 1)..(a + (M \div 2) - 1)
    BY <1>8, <2>1
  <2>3. M \in Nat \ {0, 1} /\ a \in Int
    BY <1>6
  <2>4. Recoverable(M, a, x)
    BY <2>2, <2>3, Recovered
  <2>5. QED BY <2>1, <2>4 DEF Recoverable
<1>10. PicOrderCntMsb(h, LastTid0, max_pic_order_cnt_lsb) = msb + d
  <2>1. LastTid0.lsb = la /\ h.lsb = lp /\ max_pic_order_cnt_lsb = M /\ M \div 2 = half
    BY <1>2, <1>5, <1>7, <1>9
  <2>2. PicOrderCntMsb(h, LastTid0, max_pic_order_cnt_lsb)
          = IF lp < la /\ la - lp >= half THEN msb + M
            ELSE IF lp > la /\ lp - la > half THEN msb - M ELSE msb
    BY <1>5, <2>1 DEF PicOrderCntMsb
  <2>3. QED BY <1>6, <1>9, <2>2
<1>11. pic.msb = msb + d /\ pic.poc = pic.msb + pic.lsb /\ pic.lsb = lp
  <2>1. /\ pic.lsb = h.lsb /\ pic.poc = pic.msb + pic.lsb
        /\ pic.msb = IF StartsSequence(h) \/ LastTid0 = NoPicture
                       THEN 0 ELSE PicOrderCntMsb(h, LastTid0, max_pic_order_cnt_lsb)
    BY <1>1, <1>2, <1>4, NewPictureFacts
  <2>2. QED BY <1>2, <1>3, <1>4, <1>5, <1>9, <1>10, <2>1
<1>12. msb + la = a + off
  BY <1>7, <1>9
<1>13. pic.poc = p.poc + off
  <2>1. pic.poc = msb + d + lp
    BY <1>6, <1>11
  <2>2. p.poc + off = (a - la) + d + lp + off
    BY <1>9
  <2>3. msb = a + off - la
    BY <1>6, <1>12
  <2>4. QED BY <1>6, <2>1, <2>2, <2>3
<1>14. QED BY <1>3, <1>13

LEMMA DropPictureKeeps ==
  ASSUME Invariant, sps # NoSet, NEW s, s = Finished, NEW p, NEW h,
         Starting(p, h) \/ Continuing(p, h), DropPicture(s, p, h)
  PROVE  Invariant'
<1>1. /\ Begins(s, p, h) /\ Droppable(h) /\ Keep(s) /\ current_pic' = NoPicture
      /\ dropped' = dropped \cup {Len(sent')} /\ UNCHANGED irap_no_rasl_output_flag
  BY DEF DropPicture
<1>2. TypesRight /\ StreamRight
  BY DEF Invariant
<1>3. /\ Continuing(p, h) /\ p.type = "RASL" /\ p \in Sent /\ GoesOnWith(p) /\ sent' = Append(sent, p)
      /\ sps' = sps
  BY <1>1 DEF Droppable, Starting, Continuing, StartsAnew, HeaderOf, IsIrap, Begins
<1>4. Resumed(s) /\ s.dpb.max_num_pics = sps.max_num_pics /\ outcome = "Ok" /\ outcome' = "Ok"
  BY <1>1, BegunResumes
<1>5. Settled(s) /\ s.out \in Seq(Nat)
  BY <1>4 DEF Resumed
<1>6. IsBuffer(dpb') /\ dpb' = s.dpb /\ prev_tid_0_pic' = LastTid0 /\ ready_queue' \in Seq(Nat)
      /\ ready_queue' = ready_queue \o s.out
  BY <1>1, <1>5, SettledTypes DEF Keep, Settled
<1>7. /\ Len(sent) \in Nat /\ Len(sent') = Len(sent) + 1 /\ Numbers \subseteq DOMAIN sent
      /\ \A n \in DOMAIN sent : sent'[n] = sent[n] /\ Poc(n)' = Poc(n)
      /\ Len(sent) + 1 \notin DOMAIN sent
  BY <1>2, <1>3, SentOneMore, SentTypes
<1>8. dropped' = dropped \cup {Len(sent) + 1} /\ dropped \subseteq DOMAIN sent
  BY <1>1, <1>2, <1>7 DEF TypesRight
<1>9. /\ TypesRight' /\ ModesRight' /\ StreamRight'
      /\ Numbers' = IF p.seq = Sequence THEN Numbers \cup {Len(sent) + 1} ELSE {Len(sent) + 1}
      /\ Anchor' = IF CountsAsAnchor(p) THEN Len(sent) + 1 ELSE Anchor
  <2>1. current_pic' \in [pic : Picture, rps : RefPicSet] \cup {NoPicture}
    BY <1>1
  <2>2. irap_no_rasl_output_flag' \in BOOLEAN /\ dropped' \subseteq DOMAIN sent \cup {Len(sent) + 1}
    BY <1>1, <1>2, <1>8 DEF TypesRight
  <2>3. QED BY <1>1, <1>3, <1>6, <2>1, <2>2, BegunKeeps
<1>10. Numbers \subseteq Numbers' /\ Anchor' = Anchor /\ Anchor \in DOMAIN sent
  <2>1. Anchor \in DOMAIN sent
    BY <1>2, <1>3, AnchorFacts DEF GoesOnWith
  <2>2. QED BY <1>3, <1>9, <2>1 DEF GoesOnWith, CountsAsAnchor, IsIrap
<1>11. PlacesRight'
  BY <1>1, <1>5, <1>6, <1>10 DEF PlacesRight, Settled
<1>12. PICK off \in Int : Offset(off)
  BY DEF Invariant, CountsRight
<1>13. Offset(off)'
  <2>1. \A n \in DOMAIN dpb'.entries : PocOf(dpb', n) = Poc(n)' + off
    BY <1>5, <1>6, <1>7, <1>12 DEF Settled
  <2>2. LastTid0' = LastTid0
    BY <1>1, <1>6 DEF LastTid0
  <2>3. Poc(Anchor)' = Poc(Anchor)
    BY <1>7, <1>10 DEF Poc
  <2>4. next = "any"
    BY <1>3 DEF Continuing
  <2>5. QED BY <1>1, <1>3, <1>12, <2>1, <2>2, <2>3, <2>4 DEF Offset
<1>14. CountsRight'
  BY <1>13 DEF CountsRight
<1>15. RoomRight'
  BY <1>1, <1>4 DEF RoomRight
<1>16. AccountRight'
  <2>1. PICK q, V : q = ready_queue' /\ V = Waiting(dpb')
    OBVIOUS
  <2>2. Queue(q, V \cup {}) /\ V \cap {} = {}
    BY <1>5, <1>6, <2>1 DEF Settled
  <2>3. PICK new : new = IF p.pic_output_flag THEN {Len(sent) + 1} ELSE {}
    OBVIOUS
  <2>4. PICK x \in SUBSET {Len(sent) + 1} : x = {Len(sent) + 1}
    OBVIOUS
  <2>5. dropped' = dropped \cup {} \cup x
    BY <1>8, <2>4
  <2>6. Queue(q, V \cup (new \ x))'
    BY <1>2, <1>3, <2>2, <2>3, <2>5, QueueMoves
  <2>7. V \cup (new \ x) = V
    BY <2>3, <2>4
  <2>8. Pending' = Waiting(dpb')
    BY <1>1 DEF Pending, Waits
  <2>9. QED BY <1>1, <2>1, <2>6, <2>7, <2>8 DEF AccountRight
<1>17. QED BY <1>9, <1>11, <1>14, <1>15, <1>16 DEF Invariant

LEMMA StartPicture ==
  ASSUME Invariant, NEW p, NEW h, Starting(p, h), NEW pic, pic = NewPicture(h, LastTid0)
  PROVE  /\ StartsClean(pic) \/ next = "IRAP after a seek"
         /\ pic.pic_output_flag = p.pic_output_flag
<1>1. TypesRight /\ ModesRight
  BY DEF Invariant
<1>2. IsHeader(h) /\ h.type = p.type /\ h.pic_output_flag = p.pic_output_flag /\ IsIrap(h.type)
  BY DEF Starting, HeaderOf, StartsAnew
<1>3. LastTid0 \in Picture \cup {NoPicture}
  BY <1>1 DEF LastTid0, TypesRight
<1>4. /\ pic.type = h.type /\ pic.no_rasl_output_flag = NoRaslOutputFlag(h)
      /\ pic.pic_output_flag = (h.pic_output_flag /\ ~(h.type = "RASL" /\ NoRaslOutputFlag(h)))
  BY <1>1, <1>2, <1>3, NewPictureFacts
<1>5. pic.pic_output_flag = p.pic_output_flag
  <2>1. h.type # "RASL" /\ h.pic_output_flag \in BOOLEAN
    BY <1>2 DEF IsIrap, IsHeader
  <2>2. pic.pic_output_flag = h.pic_output_flag
    BY <1>4, <2>1
  <2>3. QED BY <1>2, <2>2
<1>6. CASE h.type = "CRA" /\ next = "IRAP"
  <2>1. NoRaslOutputFlag(h)
    BY <1>1, <1>6 DEF ModesRight, NoRaslOutputFlag
  <2>2. QED BY <1>2, <1>4, <1>5, <2>1 DEF StartsClean
<1>7. CASE h.type \in {"IDR", "BLA"}
  <2>1. NoRaslOutputFlag(h)
    BY <1>7 DEF NoRaslOutputFlag
  <2>2. QED BY <1>2, <1>4, <1>5, <2>1 DEF StartsClean
<1>8. QED BY <1>2, <1>5, <1>6, <1>7 DEF IsIrap, Starting

(* What the picture being decoded is, of those that were sent.             *)
Begun(s, p, h, pic, m, t) ==
  /\ pic = NewPicture(h, LastTid0)
  /\ pic.n = Len(sent) + 1 /\ pic.pic_output_flag = p.pic_output_flag
  /\ pic.lsb = h.lsb /\ pic.poc = pic.msb + pic.lsb
  /\ pic.valid_for_prev_tid0_pic = ValidForPrevTid0Pic(h)
  /\ Starting(p, h) => StartsClean(pic) \/ next = "IRAP after a seek"
  /\ Continuing(p, h) => ~StartsClean(pic)
  /\ Remarked(s.dpb, m.dpb) /\ m.rps \in RefPicSet
  /\ Continuing(p, h) =>
       \A S \in SUBSET References(m.dpb) : Cardinality(S) < sps.max_dec_pic_buffering
  /\ Keep(t) /\ current_pic' = [pic |-> pic, rps |-> m.rps]
  /\ dropped' = dropped \cup t.cleared /\ irap_no_rasl_output_flag' \in BOOLEAN
  /\ Resumed([s EXCEPT !.dpb = m.dpb])
  /\ Updated([s EXCEPT !.dpb = m.dpb], t, pic)

(* How it came to that.                                                    *)
Made(s, h, pic, m, t) ==
  /\ m = DecodeRps(s.dpb, pic, h)
  /\ t = UpdateDpbBeforeDecoding([s EXCEPT !.dpb = m.dpb], pic)
  /\ pic.type = h.type /\ pic.no_rasl_output_flag = NoRaslOutputFlag(h)
  /\ irap_no_rasl_output_flag' =
       IF IsIrap(h.type) THEN pic.no_rasl_output_flag ELSE irap_no_rasl_output_flag

LEMMA PictureBegun ==
  ASSUME Invariant, sps # NoSet, NEW s, s = Finished, NEW p, NEW h,
         Starting(p, h) \/ Continuing(p, h), DecodePicture(s, p, h)
  PROVE  \E pic, m, t : pic \in Picture /\ Begun(s, p, h, pic, m, t) /\ Made(s, h, pic, m, t)
<1>1. Begins(s, p, h) /\ TypesRight
  BY DEF DecodePicture, Invariant
<1>2. /\ Resumed(s) /\ s.prev_tid_0_pic = LastTid0 /\ IsBuffer(s.dpb) /\ sps \in Sets
      /\ sps.max_lsb \in Nat \ {0, 1} /\ max_pic_order_cnt_lsb = sps.max_lsb
      /\ sps.max_dec_pic_buffering \in Nat
  BY <1>1, BegunResumes DEF Resumed, Settled
<1>3. PICK pic, m, t :
        /\ pic = NewPicture(h, LastTid0) /\ m = DecodeRps(s.dpb, pic, h)
        /\ t = UpdateDpbBeforeDecoding([s EXCEPT !.dpb = m.dpb], pic)
        /\ Keep(t) /\ current_pic' = [pic |-> pic, rps |-> m.rps]
        /\ dropped' = dropped \cup t.cleared
        /\ irap_no_rasl_output_flag' =
             IF IsIrap(h.type) THEN pic.no_rasl_output_flag ELSE irap_no_rasl_output_flag
  BY <1>2 DEF DecodePicture
<1>4. IsHeader(h) /\ h.type = p.type /\ h.pic_output_flag = p.pic_output_flag
  BY DEF Starting, Continuing, HeaderOf
<1>5. LastTid0 \in Picture \cup {NoPicture}
  BY <1>1 DEF LastTid0, TypesRight
<1>6. /\ pic \in Picture /\ pic.n = Len(sent) + 1
      /\ pic.lsb = h.lsb /\ pic.poc = pic.msb + pic.lsb
      /\ pic.valid_for_prev_tid0_pic = ValidForPrevTid0Pic(h)
      /\ pic.type = h.type /\ pic.no_rasl_output_flag = NoRaslOutputFlag(h)
      /\ pic.pic_output_flag = (h.pic_output_flag /\ ~(h.type = "RASL" /\ NoRaslOutputFlag(h)))
  BY <1>1, <1>3, <1>4, <1>5, NewPictureFacts
<1>7. Continuing(p, h) => ~NoRaslOutputFlag(h)
  <2> SUFFICES ASSUME Continuing(p, h) PROVE ~NoRaslOutputFlag(h)
    OBVIOUS
  <2>1. PICK off \in Int : Offset(off)
    BY DEF Invariant, CountsRight
  <2>2. QED BY <1>2, <1>3, <2>1, CountGoesOn
<1>8. /\ Starting(p, h) => StartsClean(pic) \/ next = "IRAP after a seek"
      /\ pic.pic_output_flag = p.pic_output_flag
      /\ Continuing(p, h) => ~StartsClean(pic)
  <2>1. CASE Starting(p, h)
    <3>1. (StartsClean(pic) \/ next = "IRAP after a seek") /\ pic.pic_output_flag = p.pic_output_flag
      BY <1>3, <2>1, StartPicture
    <3>2. Continuing(p, h) => next = "any" /\ ~StartsClean(pic)
      BY <1>6, <1>7 DEF Continuing, StartsClean
    <3>3. QED BY <3>1, <3>2
  <2>2. CASE Continuing(p, h)
    <3>1. ~StartsClean(pic)
      BY <1>6, <1>7, <2>2 DEF StartsClean
    <3>2. pic.pic_output_flag = p.pic_output_flag
      <4>1. h.pic_output_flag \in BOOLEAN
        BY <1>4 DEF IsHeader
      <4>2. pic.pic_output_flag = h.pic_output_flag
        BY <1>6, <1>7, <2>2, <4>1
      <4>3. QED BY <1>4, <4>2
    <3>3. Starting(p, h) => StartsClean(pic) \/ next = "IRAP after a seek"
      BY <1>3, StartPicture
    <3>4. QED BY <3>1, <3>2, <3>3
  <2>3. QED BY <2>1, <2>2
<1>9. PICK n \in Nat : Names(h, n) /\ (Continuing(p, h) => n < sps.max_dec_pic_buffering)
  BY DEF Starting, Continuing
<1>10. pic.poc \in Int
  BY <1>6 DEF Picture
<1>11. /\ Remarked(s.dpb, m.dpb) /\ m.rps \in RefPicSet
       /\ References(m.dpb) \subseteq RpsPictures(m.rps)
       /\ IsFiniteSet(RpsPictures(m.rps)) /\ Cardinality(RpsPictures(m.rps)) <= n
  BY <1>2, <1>3, <1>4, <1>9, <1>10, DecodeRpsFacts
<1>12. Continuing(p, h) =>
         \A S \in SUBSET References(m.dpb) : Cardinality(S) < sps.max_dec_pic_buffering
  <2> SUFFICES ASSUME Continuing(p, h), NEW S \in SUBSET References(m.dpb)
               PROVE  Cardinality(S) < sps.max_dec_pic_buffering
    OBVIOUS
  <2>1. Cardinality(S) <= Cardinality(RpsPictures(m.rps)) /\ IsFiniteSet(S)
    BY <1>11, FS_Subset
  <2>2. Cardinality(S) \in Nat /\ Cardinality(RpsPictures(m.rps)) \in Nat
    BY <1>11, <2>1, FS_CardinalityType
  <2>3. QED BY <1>2, <1>9, <1>11, <2>1, <2>2
<1>13. PICK r : r = [s EXCEPT !.dpb = m.dpb]
  OBVIOUS
<1>14. Resumed(r)
  BY <1>2, <1>11, <1>13, RemarkedResumes
<1>15. Updated(r, t, pic)
  BY <1>2, <1>3, <1>13, <1>14, UpdateFacts
<1>16. irap_no_rasl_output_flag' \in BOOLEAN
  <2>1. pic.no_rasl_output_flag \in BOOLEAN /\ irap_no_rasl_output_flag \in BOOLEAN
    BY <1>1, <1>6 DEF Picture, TypesRight
  <2>2. QED BY <1>3, <2>1
<1>17. /\ Resumed([s EXCEPT !.dpb = m.dpb])
       /\ Updated([s EXCEPT !.dpb = m.dpb], t, pic)
  BY <1>13, <1>14, <1>15
<1>18. Begun(s, p, h, pic, m, t)
  BY <1>3, <1>6, <1>8, <1>11, <1>12, <1>16, <1>17 DEF Begun
<1>19. Made(s, h, pic, m, t)
  BY <1>3, <1>6 DEF Made
<1>20. QED BY <1>6, <1>18, <1>19

LEMMA DecodePictureKeeps ==
  ASSUME Invariant, sps # NoSet, NEW s, s = Finished, NEW p, NEW h,
         Starting(p, h) \/ Continuing(p, h), DecodePicture(s, p, h)
  PROVE  Invariant'
<1>1. Begins(s, p, h) /\ TypesRight /\ StreamRight
  BY DEF DecodePicture, Invariant
<1>a. PICK pic \in Picture : \E m, t : Begun(s, p, h, pic, m, t)
  BY PictureBegun
<1>0. PICK m, t : Begun(s, p, h, pic, m, t)
  BY <1>a
<1>2. /\ pic = NewPicture(h, LastTid0)
      /\ pic.n = Len(sent) + 1 /\ pic.pic_output_flag = p.pic_output_flag
      /\ pic.lsb = h.lsb /\ pic.poc = pic.msb + pic.lsb
      /\ pic.valid_for_prev_tid0_pic = ValidForPrevTid0Pic(h)
      /\ Starting(p, h) => StartsClean(pic) \/ next = "IRAP after a seek"
      /\ Continuing(p, h) => ~StartsClean(pic)
      /\ Remarked(s.dpb, m.dpb) /\ m.rps \in RefPicSet
      /\ Continuing(p, h) =>
           \A S \in SUBSET References(m.dpb) : Cardinality(S) < sps.max_dec_pic_buffering
      /\ Keep(t) /\ current_pic' = [pic |-> pic, rps |-> m.rps]
      /\ dropped' = dropped \cup t.cleared /\ irap_no_rasl_output_flag' \in BOOLEAN
      /\ Resumed([s EXCEPT !.dpb = m.dpb])
      /\ Updated([s EXCEPT !.dpb = m.dpb], t, pic)
  BY <1>0 DEF Begun
<1>3. /\ Resumed(s) /\ s.dpb.max_num_pics = sps.max_num_pics /\ outcome = "Ok" /\ outcome' = "Ok"
      /\ sps \in Sets /\ sps.max_lsb \in Nat \ {0, 1} /\ max_pic_order_cnt_lsb = sps.max_lsb
      /\ sps.max_dec_pic_buffering \in Nat \ {0} /\ sps.max_num_pics \in Nat \ {0}
  BY <1>1, BegunResumes
<1>4. PICK r : r = [s EXCEPT !.dpb = m.dpb]
  OBVIOUS
<1>5. r.dpb = m.dpb
  <2>1. PICK d, b, q, o : /\ d = m.dpb
                          /\ s = [dpb |-> b, prev_tid_0_pic |-> q, out |-> o, cleared |-> {}, ok |-> TRUE]
    BY <1>3 DEF Resumed
  <2>2. r = [s EXCEPT !.dpb = d]
    BY <1>4, <2>1
  <2>3. QED BY <2>1, <2>2
<1>6. /\ Resumed(r) /\ Updated(r, t, pic)
      /\ Settled(r) /\ r.dpb.max_num_pics = sps.max_num_pics
  BY <1>2, <1>3, <1>4, <1>5 DEF Resumed, Remarked
<1>7. /\ IsBuffer(t.dpb) /\ t.dpb.max_num_pics = sps.max_num_pics
      /\ t.prev_tid_0_pic = LastTid0
      /\ DOMAIN t.dpb.entries \subseteq DOMAIN r.dpb.entries
      /\ \A n \in DOMAIN t.dpb.entries : PocOf(t.dpb, n) = PocOf(r.dpb, n)
      /\ t.cleared \subseteq Waiting(r.dpb) /\ t.cleared \cap Waiting(t.dpb) = {}
      /\ Queue(ready_queue \o t.out, Waiting(t.dpb) \cup t.cleared)
      /\ StartsClean(pic) => DOMAIN t.dpb.entries = {}
      /\ ~StartsClean(pic) =>
           \/ Fullness(t.dpb) < sps.max_dec_pic_buffering
           \/ DOMAIN t.dpb.entries \subseteq References(r.dpb)
  BY <1>6 DEF Updated
<1>8. /\ dpb' = t.dpb /\ prev_tid_0_pic' = LastTid0 /\ ready_queue' = ready_queue \o t.out
      /\ ready_queue' \in Seq(Nat)
  BY <1>2, <1>7 DEF Keep, Queue
<1>9. Starting(p, h) => DOMAIN t.dpb.entries = {}
  BY <1>2, <1>6, <1>7 DEF Settled
<1>10. /\ p \in Sent /\ sent' = Append(sent, p) /\ sps' = sps /\ stream' = stream
  BY <1>1 DEF Begins, Starting, Continuing
<1>11. /\ Len(sent) \in Nat /\ Len(sent') = Len(sent) + 1 /\ Numbers \subseteq DOMAIN sent
       /\ sent'[Len(sent) + 1] = p
       /\ \A n \in DOMAIN sent : sent'[n] = sent[n] /\ Poc(n)' = Poc(n)
       /\ Len(sent) + 1 \notin DOMAIN sent /\ Latest' = p /\ sent' # <<>>
  BY <1>1, <1>10, SentOneMore, SentTypes
<1>12. DOMAIN t.dpb.entries \subseteq Numbers /\ DOMAIN t.dpb.entries \subseteq DOMAIN sent
  BY <1>6, <1>7, <1>11 DEF Settled
<1>13. current_pic' # NoPicture /\ current_pic'.pic = pic /\ current_pic' \in [pic : Picture, rps : RefPicSet]
  <2>1. current_pic' = [pic |-> pic, rps |-> m.rps] /\ m.rps \in RefPicSet
    BY <1>2
  <2>2. current_pic' \in [pic : Picture, rps : RefPicSet] /\ current_pic'.pic = pic
    BY <2>1
  <2>3. NoPicture \notin [pic : Picture, rps : RefPicSet]
    BY H265Assumption
  <2>4. QED BY <2>2, <2>3
<1>14. t.cleared \subseteq DOMAIN sent
  <2>1. Waiting(r.dpb) \subseteq DOMAIN r.dpb.entries
    BY PlaceSets
  <2>2. QED BY <1>6, <1>7, <1>11, <2>1 DEF Settled
<1>15. /\ TypesRight' /\ ModesRight' /\ StreamRight'
       /\ Numbers' = IF p.seq = Sequence THEN Numbers \cup {Len(sent) + 1} ELSE {Len(sent) + 1}
       /\ Anchor' = IF CountsAsAnchor(p) THEN Len(sent) + 1 ELSE Anchor
  <2>1. dropped' \subseteq DOMAIN sent \cup {Len(sent) + 1}
    BY <1>1, <1>2, <1>14 DEF TypesRight
  <2>2. irap_no_rasl_output_flag' \in BOOLEAN
    BY <1>2
  <2>3. IsBuffer(dpb') /\ dpb'.max_num_pics = s.dpb.max_num_pics
    BY <1>3, <1>7, <1>8
  <2>4. QED BY <1>1, <1>8, <1>13, <2>1, <2>2, <2>3, BegunKeeps
<1>16. Continuing(p, h) => Numbers \subseteq Numbers'
  BY <1>15 DEF Continuing, GoesOnWith
<1>17. PlacesRight'
  <2>1. DOMAIN dpb'.entries \subseteq Numbers'
    BY <1>8, <1>9, <1>12, <1>16
  <2>2. Len(sent') \notin DOMAIN dpb'.entries
    BY <1>8, <1>11, <1>12
  <2>3. current_pic'.pic.n = Len(sent')
    BY <1>2, <1>11, <1>13
  <2>4. QED BY <1>11, <2>1, <2>2, <2>3 DEF PlacesRight
<1>18. LastTid0' = IF CountsAsAnchor(p) THEN pic ELSE LastTid0
  <2>1. pic.valid_for_prev_tid0_pic = ValidForPrevTid0Pic(h)
    BY <1>2
  <2>2. ValidForPrevTid0Pic(h) <=> CountsAsAnchor(p)
    <3>1. h.type = p.type /\ h.tid = p.tid /\ p.type \in Types
      BY DEF Starting, Continuing, HeaderOf, Sent
    <3>2. QED BY <3>1 DEF ValidForPrevTid0Pic, CountsAsAnchor, IsIrap, IsLeading, Types
  <2>3. LastTid0' = IF pic.valid_for_prev_tid0_pic THEN pic ELSE LastTid0
    BY <1>8, <1>13 DEF LastTid0
  <2>4. QED BY <2>1, <2>2, <2>3
<1>19. /\ pic.poc = pic.msb + pic.lsb /\ pic.poc \in Int /\ p.poc \in Int
       /\ pic.lsb = p.poc % sps.max_lsb
  <2>1. h.lsb = p.poc % sps.max_lsb
    BY DEF Starting, Continuing, HeaderOf
  <2>2. QED BY <1>2, <1>10, <2>1 DEF Picture, Sent
<1>20. CountsRight'
  <2>1. CASE Starting(p, h)
    <3>1. PICK off \in Int : off = pic.poc - p.poc
      BY <1>19
    <3>2. CountsAsAnchor(p)
      BY <2>1 DEF Starting, StartsAnew, CountsAsAnchor
    <3>3. LastTid0' = pic /\ Poc(Anchor)' = p.poc
      BY <1>11, <1>15, <1>18, <3>2 DEF Poc
    <3>4. pic # NoPicture
      BY <1>2, H265Assumption
    <3>5. pic.poc = p.poc + off
      BY <1>19, <3>1
    <3>6. Offset(off)'
      BY <1>8, <1>9, <1>10, <1>11, <1>13, <1>19, <2>1, <3>3, <3>4, <3>5 DEF Offset
    <3>7. QED BY <3>6 DEF CountsRight
  <2>2. CASE Continuing(p, h)
    <3>1. PICK off \in Int : Offset(off)
      BY DEF Invariant, CountsRight
    <3>2. pic.poc = p.poc + off
      BY <1>2, <1>3, <2>2, <3>1, CountGoesOn
    <3>3. \A n \in DOMAIN dpb'.entries : PocOf(dpb', n) = Poc(n)' + off
      <4>1. \A n \in DOMAIN r.dpb.entries : PocOf(r.dpb, n) = Poc(n) + off
        BY <1>6, <3>1 DEF Settled
      <4>2. QED BY <1>7, <1>8, <1>11, <1>12, <4>1
    <3>4. /\ LastTid0' # NoPicture
          /\ LastTid0'.poc = Poc(Anchor)' + off
          /\ LastTid0'.poc = LastTid0'.msb + LastTid0'.lsb
          /\ LastTid0'.lsb = Poc(Anchor)' % sps.max_lsb
      <4>1. CASE CountsAsAnchor(p)
        <5>1. LastTid0' = pic /\ Poc(Anchor)' = p.poc
          BY <1>11, <1>15, <1>18, <4>1 DEF Poc
        <5>2. pic # NoPicture
          BY <1>2, H265Assumption
        <5>3. QED BY <1>19, <3>2, <5>1, <5>2
      <4>2. CASE ~CountsAsAnchor(p)
        <5>1. Anchor \in DOMAIN sent
          BY <1>1, <2>2, AnchorFacts DEF Continuing, GoesOnWith
        <5>2. LastTid0' = LastTid0 /\ Poc(Anchor)' = Poc(Anchor)
          BY <1>11, <1>15, <1>18, <4>2, <5>1 DEF Poc
        <5>3. QED BY <2>2, <3>1, <5>2 DEF Offset, Continuing
      <4>3. QED BY <4>1, <4>2
    <3>5. Offset(off)'
      BY <1>10, <1>11, <1>13, <3>2, <3>3, <3>4 DEF Offset
    <3>6. QED BY <3>5 DEF CountsRight
  <2>3. QED BY <2>1, <2>2
<1>21. RoomRight'
  <2> SUFFICES ASSUME LevelSuffices PROVE ~IsFull(t.dpb)
    BY <1>3, <1>8, <1>10 DEF RoomRight, LevelSuffices
  <2>1. sps.max_dec_pic_buffering <= sps.max_num_pics
    BY <1>1, <1>3, SetTypes DEF LevelSuffices, Invariant, TypesRight
  <2>2. Fullness(t.dpb) \in Nat
    BY <1>7, PlacesFinite
  <2>3. CASE DOMAIN t.dpb.entries = {}
    <3>1. Fullness(t.dpb) = 0
      BY <2>3, FS_EmptySet DEF Fullness
    <3>2. QED BY <1>3, <1>7, <3>1 DEF IsFull
  <2>4. CASE Continuing(p, h)
    <3>1. Fullness(t.dpb) < sps.max_dec_pic_buffering
      BY <1>2, <1>5, <1>7, <2>4 DEF Fullness
    <3>2. QED BY <1>3, <1>7, <2>1, <2>2, <3>1 DEF IsFull
  <2>5. QED BY <1>9, <2>3, <2>4
<1>22. AccountRight'
  <2>1. PICK q, V, c : q = ready_queue' /\ V = Waiting(dpb') /\ c = t.cleared
    OBVIOUS
  <2>2. Queue(q, V \cup c) /\ V \cap c = {}
    BY <1>7, <1>8, <2>1
  <2>3. PICK new : new = IF p.pic_output_flag THEN {Len(sent) + 1} ELSE {}
    OBVIOUS
  <2>4. PICK x \in SUBSET {Len(sent) + 1} : x = {}
    OBVIOUS
  <2>5. dropped' = dropped \cup c \cup x
    BY <1>2, <2>1, <2>4
  <2>6. Queue(q, V \cup (new \ x))'
    BY <1>1, <1>10, <2>2, <2>3, <2>5, QueueMoves
  <2>7. V \cup (new \ x) = V \cup new
    BY <2>4
  <2>8. Pending' = Waiting(dpb') \cup new
    BY <1>2, <1>13, <2>3 DEF Pending, Waits, Cur
  <2>9. current_pic'.pic.pic_output_flag = Latest'.pic_output_flag
    BY <1>2, <1>11, <1>13
  <2>10. QED BY <2>1, <2>6, <2>7, <2>8, <2>9 DEF AccountRight
<1>23. QED BY <1>15, <1>17, <1>20, <1>21, <1>22 DEF Invariant

-----------------------------------------------------------------------------
LEMMA DecodeKeeps ==
  ASSUME Invariant, sps # NoSet, decoding_state \in {"Decoding", "Reset"}, NEW s, s = Finished, NEW p,
         NEW h, Starting(p, h) \/ Continuing(p, h), Decode(s, p, h)
  PROVE  Invariant'
  BY RenegotiateKeeps, NoOutputBufferKeeps, DropPictureKeeps, DecodePictureKeeps DEF Decode

LEMMA NextKeeps ==
  ASSUME Invariant, [Next]_vars
  PROVE  Invariant'
<1>1. CASE \E set \in stream.sets : FirstSps(set) \/ NewSps(set)
  BY <1>1, FirstSpsKeeps, NewSpsKeeps
<1>2. CASE AcceptFormat
  BY <1>2, AcceptFormatKeeps
<1>3. CASE EndOfSequence \/ EndOfBitstream
  BY <1>3, EndsKeep
<1>4. ASSUME NEW h \in Starts, decoding_state \in {"Decoding", "Reset"}, sps # NoSet,
             Decode(Finished, StartOf(h), h)
      PROVE  Invariant'
  <2>1. PICK s, p : s = Finished /\ p = StartOf(h)
    OBVIOUS
  <2>2. Starting(p, h)
    BY <1>4, <2>1, StartComes
  <2>3. Decode(s, p, h)
    BY <1>4, <2>1
  <2>4. QED BY <1>4, <2>1, <2>2, <2>3, DecodeKeeps
<1>5. ASSUME NEW p \in Continuations, NEW h \in Headers(p), decoding_state = "Decoding", next = "any",
             Decode(Finished, p, h)
      PROVE  Invariant'
  <2>1. PICK s : s = Finished
    OBVIOUS
  <2>2. Continuing(p, h) /\ sps # NoSet
    BY <1>5, ContinuationComes
  <2>3. Decode(s, p, h)
    BY <1>5, <2>1
  <2>4. QED BY <1>5, <2>1, <2>2, <2>3, DecodeKeeps
<1>6. CASE FinishFails(Finished)
  <2>1. PICK s : s = Finished /\ FinishFails(s)
    BY <1>6
  <2>2. QED BY <2>1, FinishFailsKeeps
<1>7. CASE Flush(Finished)
  <2>1. PICK s : s = Finished /\ Flush(s)
    BY <1>7
  <2>2. QED BY <2>1, FlushKeeps
<1>8. CASE UNCHANGED vars
  <2>1. UNCHANGED <<decoding_state, awaited, sps, max_pic_order_cnt_lsb, negotiation_info, dpb,
                    current_pic, prev_tid_0_pic, first_picture_after_eos, first_picture_in_bitstream,
                    irap_no_rasl_output_flag, ready_queue, outcome, stream, sent, next, dropped>>
    BY <1>8 DEF vars, format_vars, picture_vars, stream_vars
  <2>2. StreamRight' /\ PlacesRight' /\ CountsRight' /\ RoomRight' /\ AccountRight'
    BY <2>1, PicturesKept
  <2>3. TypesRight'
    BY <2>1 DEF Invariant, TypesRight
  <2>4. ModesRight'
    BY <2>1 DEF Invariant, ModesRight, NegotiationPossible
  <2>5. QED BY <2>2, <2>3, <2>4 DEF Invariant
<1>9. CASE Next
  BY <1>1, <1>2, <1>3, <1>4, <1>5, <1>6, <1>7, <1>9 DEF Next
<1>10. QED BY <1>8, <1>9

(* The invariant holds of every state.                                     *)
THEOREM InvariantHolds == Spec => []Invariant
<1>1. Init => Invariant
  BY InitInvariant
<1>2. Invariant /\ [Next]_vars => Invariant'
  BY NextKeeps
<1>3. QED BY <1>1, <1>2, PTL DEF Spec

LEMMA InvariantGivesOnce ==
  ASSUME Invariant
  PROVE  EveryPictureOnce
<1>1. TypesRight /\ RoomRight /\ PlacesRight
  BY DEF Invariant
<1>2. outcome = "Error" => \E set \in stream.sets : set.max_num_pics < set.max_dec_pic_buffering
  <2> SUFFICES ASSUME ~LevelSuffices
               PROVE  \E set \in stream.sets : set.max_num_pics < set.max_dec_pic_buffering
    BY <1>1 DEF RoomRight
  <2>1. PICK set \in stream.sets : ~(set.max_num_pics >= set.max_dec_pic_buffering)
    BY DEF LevelSuffices
  <2>2. set.max_num_pics \in Nat /\ set.max_dec_pic_buffering \in Nat
    BY <1>1, SetTypes
  <2>3. QED BY <2>1, <2>2
<1>3. ASSUME outcome = "Ok", NEW n \in DOMAIN sent
      PROVE  Cardinality({k \in DOMAIN ready_queue : ready_queue[k] = n})
               = IF IsCurrent(n) \/ n \in Waits \cup dropped \/ ~sent[n].pic_output_flag THEN 0 ELSE 1
  <2> DEFINE times == {k \in DOMAIN ready_queue : ready_queue[k] = n}
             left == IsCurrent(n) \/ n \in Waits \cup dropped \/ ~sent[n].pic_output_flag
  <2>1. /\ ready_queue \in Seq(Nat) /\ Injective(ready_queue)
        /\ Range(ready_queue) = Shown \ (Pending \cup dropped)
        /\ current_pic # NoPicture => current_pic.pic.pic_output_flag = Latest.pic_output_flag
    BY <1>3 DEF Invariant, AccountRight, Queue
  <2>2. DOMAIN ready_queue = 1..Len(ready_queue)
    BY <2>1, LenProperties
  <2>3. n \in Range(ready_queue) <=> ~left
    <3>1. IsCurrent(n) => n = Len(sent) /\ sent[n] = Latest
      BY <1>1 DEF IsCurrent, PlacesRight, Latest
    <3>2. n \in Pending <=> n \in Waits \/ (IsCurrent(n) /\ current_pic.pic.pic_output_flag)
      BY DEF Pending, Cur, IsCurrent
    <3>3. n \in Shown <=> sent[n].pic_output_flag
      BY DEF Shown
    <3>4. IsCurrent(n) => (current_pic.pic.pic_output_flag = sent[n].pic_output_flag)
      BY <2>1, <3>1 DEF IsCurrent
    <3>5. QED BY <2>1, <3>2, <3>3, <3>4
  <2>4. CASE left
    <3>1. times = {}
      BY <2>3, <2>4 DEF Range
    <3>2. QED BY <2>4, <3>1, FS_EmptySet
  <2>5. CASE ~left
    <3>1. PICK k \in DOMAIN ready_queue : ready_queue[k] = n
      BY <2>3, <2>5 DEF Range
    <3>2. times = {k}
      BY <2>1, <2>2, <3>1 DEF Injective
    <3>3. Cardinality({k}) = 1
      BY FS_Singleton
    <3>4. QED BY <2>5, <3>2, <3>3
  <2>6. QED BY <2>4, <2>5
<1>4. QED BY <1>2, <1>3 DEF EveryPictureOnce

(* Every picture that is sent is being decoded, or waits, or was dropped,  *)
(* or was output exactly once; and no call fails for want of room if the   *)
(* level allows as many pictures as the stream needs.                      *)
THEOREM PicturesOnce == Spec => []EveryPictureOnce
<1>1. Invariant => EveryPictureOnce
  BY InvariantGivesOnce
<1>2. QED BY InvariantHolds, <1>1, PTL

-----------------------------------------------------------------------------
(* Lists in an order.                                                      *)

(* A list of S by increasing key: before a place go as many as it counts.  *)
Below(S, key, x) == {y \in S : key[y] < key[x]}
Listed(list, S, key) ==
  /\ list = [i \in 1..Cardinality(S) |-> list[i]]
  /\ \A i \in 1..Cardinality(S) : list[i] \in S /\ Cardinality(Below(S, key, list[i])) = i - 1
IsKey(S, key) == key \in [S -> Int] /\ \A x, y \in S : key[x] = key[y] => x = y

LEMMA Ranked ==
  ASSUME NEW S, IsFiniteSet(S), NEW key, IsKey(S, key)
  PROVE  /\ Cardinality(S) \in Nat
         /\ \A i \in 1..Cardinality(S) : \E x \in S : Cardinality(Below(S, key, x)) = i - 1
         /\ \A x, y \in S : Cardinality(Below(S, key, x)) = Cardinality(Below(S, key, y)) => x = y
<1> DEFINE N == Cardinality(S)
           rank == [x \in S |-> Cardinality(Below(S, key, x)) + 1]
<1>1. N \in Nat
  BY FS_CardinalityType
<1>2. \A x \in S : key[x] \in Int
  BY DEF IsKey
<1>3. ASSUME NEW x \in S
      PROVE  /\ IsFiniteSet(Below(S, key, x)) /\ Cardinality(Below(S, key, x)) \in Nat
             /\ Cardinality(Below(S, key, x)) < N
  <2>1. Below(S, key, x) \in SUBSET S /\ x \notin Below(S, key, x)
    BY <1>2 DEF Below
  <2>2. IsFiniteSet(Below(S, key, x)) /\ Cardinality(Below(S, key, x)) <= N
        /\ Cardinality(Below(S, key, x)) # N
    BY <2>1, FS_Subset
  <2>3. Cardinality(Below(S, key, x)) \in Nat
    BY <2>2, FS_CardinalityType
  <2>4. QED BY <1>1, <2>2, <2>3
<1>4. ASSUME NEW x \in S, NEW y \in S, key[x] < key[y]
      PROVE  Cardinality(Below(S, key, x)) < Cardinality(Below(S, key, y))
  <2>1. Below(S, key, x) \in SUBSET Below(S, key, y) /\ x \in Below(S, key, y)
        /\ x \notin Below(S, key, x)
    BY <1>2, <1>4 DEF Below
  <2>2. /\ Cardinality(Below(S, key, x)) <= Cardinality(Below(S, key, y))
        /\ Cardinality(Below(S, key, x)) # Cardinality(Below(S, key, y))
    BY <1>3, <2>1, FS_Subset
  <2>3. QED BY <1>3, <2>2
<1>5. ASSUME NEW x \in S, NEW y \in S, Cardinality(Below(S, key, x)) = Cardinality(Below(S, key, y))
      PROVE  x = y
  <2>1. ~(key[x] < key[y]) /\ ~(key[y] < key[x])
    <3>1. Cardinality(Below(S, key, x)) \in Nat /\ Cardinality(Below(S, key, y)) \in Nat
      BY <1>3
    <3>2. QED BY <1>4, <1>5, <3>1
  <2>2. key[x] = key[y]
    BY <1>2, <2>1
  <2>3. QED BY <2>2 DEF IsKey
<1>6. rank \in Injection(S, 1..N)
  <2>1. \A x \in S : rank[x] \in 1..N
    BY <1>1, <1>3
  <2>2. \A x, y \in S : rank[x] = rank[y] => x = y
    BY <1>3, <1>5
  <2>3. rank \in [S -> 1..N]
    BY <2>1
  <2> HIDE DEF rank
  <2>4. QED BY <2>2, <2>3 DEF Injection, IsInjective
<1>7. IsFiniteSet(1..N) /\ Cardinality(1..N) = N
  <2>1. N >= 1 => N - 1 + 1 = N
    BY <1>1
  <2>2. QED BY <1>1, <2>1, FS_Interval
<1>8. rank \in Surjection(S, 1..N)
  <2> HIDE DEF rank
  <2>1. Cardinality(S) = Cardinality(1..N)
    BY <1>7
  <2>2. QED BY <1>6, <1>7, <2>1, FS_Injection
<1>9. \A i \in 1..N : \E x \in S : rank[x] = i
  BY <1>8 DEF Surjection
<1>10. ASSUME NEW i \in 1..N PROVE \E x \in S : Cardinality(Below(S, key, x)) = i - 1
  <2>1. PICK x \in S : Cardinality(Below(S, key, x)) + 1 = i
    BY <1>9
  <2>2. QED BY <1>3, <2>1
<1>11. QED BY <1>1, <1>5, <1>10

LEMMA ListedFacts ==
  ASSUME NEW S, IsFiniteSet(S), NEW key, IsKey(S, key), NEW list, Listed(list, S, key)
  PROVE  /\ DOMAIN list = 1..Cardinality(S) /\ Cardinality(S) \in Nat
         /\ \A i \in DOMAIN list : list[i] \in S
         /\ \A i, j \in DOMAIN list : list[i] = list[j] => i = j
         /\ \A x \in S : \E i \in DOMAIN list : list[i] = x
         /\ \A other : Listed(other, S, key) => other = list
<1> DEFINE N == Cardinality(S)
<1>1. /\ N \in Nat
      /\ \A x, y \in S : Cardinality(Below(S, key, x)) = Cardinality(Below(S, key, y)) => x = y
  BY Ranked
<1>2. /\ DOMAIN list = 1..N
      /\ \A i \in 1..N : list[i] \in S /\ Cardinality(Below(S, key, list[i])) = i - 1
  BY DEF Listed
<1>3. \A i, j \in 1..N : list[i] = list[j] => i = j
  <2>1. ASSUME NEW i \in 1..N, NEW j \in 1..N, list[i] = list[j] PROVE i = j
    <3>1. i - 1 = j - 1
      BY <1>2, <2>1
    <3>2. i \in Int /\ j \in Int
      BY <1>1
    <3>3. QED BY <3>1, <3>2
  <2>2. QED BY <2>1
<1>4. IsFiniteSet(1..N) /\ Cardinality(1..N) = N
  <2>1. N >= 1 => N - 1 + 1 = N
    BY <1>1
  <2>2. QED BY <1>1, <2>1, FS_Interval
<1>5. \A x \in S : \E i \in 1..N : list[i] = x
  <2>1. list \in [1..N -> S]
    BY <1>2 DEF Listed
  <2>2. list \in Injection(1..N, S)
    BY <1>3, <2>1 DEF Injection, IsInjective
  <2>3. list \in Surjection(1..N, S)
    BY <1>4, <2>2, FS_Injection
  <2>4. QED BY <2>3 DEF Surjection
<1>6. ASSUME NEW other, Listed(other, S, key) PROVE other = list
  <2>1. \A i \in 1..N : other[i] \in S /\ Cardinality(Below(S, key, other[i])) = i - 1
    BY <1>6 DEF Listed
  <2>2. \A i \in 1..N : other[i] = list[i]
    BY <1>1, <1>2, <2>1
  <2>3. other = [i \in 1..N |-> other[i]] /\ list = [i \in 1..N |-> list[i]]
    BY <1>6 DEF Listed
  <2>4. QED BY <2>2, <2>3
<1>7. QED BY <1>1, <1>2, <1>3, <1>5, <1>6

Itself(S) == [n \in S |-> n]
LEMMA IncreasingFacts ==
  ASSUME NEW S \in SUBSET Int, IsFiniteSet(S)
  PROVE  IsKey(S, Itself(S)) /\ Listed(Increasing(S), S, Itself(S))
<1> DEFINE N == Cardinality(S)
           list == Increasing(S)
<1>0. PICK key : key = Itself(S)
  OBVIOUS
<1>1. IsKey(S, key)
  BY <1>0 DEF IsKey, Itself
<1>2. \A i \in 1..N : \E x \in S : Cardinality(Below(S, key, x)) = i - 1
  <2>1. PICK T : T = S
    OBVIOUS
  <2>2. IsFiniteSet(T) /\ IsKey(T, key)
    BY <1>1, <2>1
  <2>3. \A i \in 1..Cardinality(T) : \E x \in T : Cardinality(Below(T, key, x)) = i - 1
    BY <2>2, Ranked
  <2>4. QED BY <2>1, <2>3
<1>3. \A x \in S : Below(S, key, x) = {y \in S : y < x}
  BY <1>0 DEF Below, Itself
<1>4. list = [i \in 1..N |-> CHOOSE x \in S : Cardinality({y \in S : y < x}) = i - 1]
  BY DEF Increasing, InOrder
<1>5. \A i \in 1..N : list[i] \in S /\ Cardinality({y \in S : y < list[i]}) = i - 1
  <2> TAKE i \in 1..N
  <2>1. \E x \in S : Cardinality({y \in S : y < x}) = i - 1
    BY <1>2, <1>3
  <2>2. list[i] = CHOOSE x \in S : Cardinality({y \in S : y < x}) = i - 1
    BY <1>4
  <2> HIDE DEF list
  <2>3. QED BY <2>1, <2>2
<1>6. list = [i \in 1..N |-> list[i]]
  BY <1>4
<1> HIDE DEF list
<1>7. Listed(list, S, key)
  BY <1>3, <1>5, <1>6 DEF Listed
<1>8. QED BY <1>0, <1>1, <1>7 DEF list

(* The lists of a header, of pictures that p keeps.                        *)
CanBeListed(p) ==
  /\ IsFiniteSet(p.refs) /\ p.refs \in SUBSET Nat /\ p.long_term \subseteq p.refs /\ p.poc \in Int
  /\ \A n \in p.refs : Poc(n) \in Int
  /\ \A m, n \in p.refs : Poc(m) = Poc(n) => m = n
Befores(p) == {n \in p.refs \ p.long_term : Poc(n) < p.poc}
Afters(p) == {n \in p.refs \ p.long_term : Poc(n) > p.poc}
Backwards(S) == [n \in S |-> -Poc(n)]
Forwards(S) == [n \in S |-> Poc(n)]

BeforesListed ==
  \A p : CanBeListed(p) =>
    /\ IsFiniteSet(Befores(p)) /\ IsKey(Befores(p), Backwards(Befores(p)))
    /\ Listed(Before(p), Befores(p), Backwards(Befores(p)))
LEMMA BeforeFacts ==
  BeforesListed
<1> SUFFICES ASSUME NEW p, CanBeListed(p)
             PROVE  /\ IsFiniteSet(Befores(p)) /\ IsKey(Befores(p), Backwards(Befores(p)))
                    /\ Listed(Before(p), Befores(p), Backwards(Befores(p)))
  BY DEF BeforesListed
<1>0. PICK S, key : S = Befores(p) /\ key = Backwards(S)
  OBVIOUS
<1> DEFINE N == Cardinality(S)
           list == Before(p)
<1>1. IsFiniteSet(S) /\ S \in SUBSET p.refs
  BY <1>0, FS_Subset DEF Befores, CanBeListed
<1>2. \A n \in S : Poc(n) \in Int /\ key[n] = -Poc(n)
  BY <1>0, <1>1 DEF Backwards, CanBeListed
<1>3. IsKey(S, key)
  <2>1. \A m, n \in S : Poc(m) = Poc(n) => m = n
    BY <1>1 DEF CanBeListed
  <2>2. key = [n \in S |-> -Poc(n)]
    BY <1>0 DEF Backwards
  <2>3. key \in [S -> Int]
    BY <1>2, <2>2
  <2>4. \A m, n \in S : key[m] = key[n] => m = n
    BY <1>2, <2>1
  <2>5. QED BY <2>3, <2>4 DEF IsKey
<1>4. \A i \in 1..N : \E x \in S : Cardinality(Below(S, key, x)) = i - 1
  BY <1>1, <1>3, Ranked
<1>5. \A x \in S : Below(S, key, x) = {y \in S : Poc(y) > Poc(x)}
  BY <1>2 DEF Below
<1>6. list = [i \in 1..N |-> CHOOSE x \in S : Cardinality({y \in S : Poc(y) > Poc(x)}) = i - 1]
  BY <1>0 DEF Before, InOrder, Befores
<1>7. \A i \in 1..N : list[i] \in S /\ Cardinality({y \in S : Poc(y) > Poc(list[i])}) = i - 1
  <2> TAKE i \in 1..N
  <2>1. \E x \in S : Cardinality({y \in S : Poc(y) > Poc(x)}) = i - 1
    BY <1>4, <1>5
  <2>2. list[i] = CHOOSE x \in S : Cardinality({y \in S : Poc(y) > Poc(x)}) = i - 1
    BY <1>6
  <2> HIDE DEF list
  <2>3. QED BY <2>1, <2>2
<1>8. list = [i \in 1..N |-> list[i]]
  BY <1>6
<1> HIDE DEF list
<1>9. Listed(list, S, key)
  BY <1>5, <1>7, <1>8 DEF Listed
<1>10. QED BY <1>0, <1>1, <1>3, <1>9 DEF list

AftersListed ==
  \A p : CanBeListed(p) =>
    /\ IsFiniteSet(Afters(p)) /\ IsKey(Afters(p), Forwards(Afters(p)))
    /\ Listed(After(p), Afters(p), Forwards(Afters(p)))
LEMMA AfterFacts ==
  AftersListed
<1> SUFFICES ASSUME NEW p, CanBeListed(p)
             PROVE  /\ IsFiniteSet(Afters(p)) /\ IsKey(Afters(p), Forwards(Afters(p)))
                    /\ Listed(After(p), Afters(p), Forwards(Afters(p)))
  BY DEF AftersListed
<1>0. PICK S, key : S = Afters(p) /\ key = Forwards(S)
  OBVIOUS
<1> DEFINE N == Cardinality(S)
           list == After(p)
<1>1. IsFiniteSet(S) /\ S \in SUBSET p.refs
  BY <1>0, FS_Subset DEF Afters, CanBeListed
<1>2. \A n \in S : Poc(n) \in Int /\ key[n] = Poc(n)
  BY <1>0, <1>1 DEF Forwards, CanBeListed
<1>3. IsKey(S, key)
  <2>1. \A m, n \in S : Poc(m) = Poc(n) => m = n
    BY <1>1 DEF CanBeListed
  <2>2. key = [n \in S |-> Poc(n)]
    BY <1>0 DEF Forwards
  <2>3. key \in [S -> Int]
    BY <1>2, <2>2
  <2>4. QED BY <1>2, <2>1, <2>3 DEF IsKey
<1>4. \A i \in 1..N : \E x \in S : Cardinality(Below(S, key, x)) = i - 1
  BY <1>1, <1>3, Ranked
<1>5. \A x \in S : Below(S, key, x) = {y \in S : Poc(y) < Poc(x)}
  BY <1>2 DEF Below
<1>6. list = [i \in 1..N |-> CHOOSE x \in S : Cardinality({y \in S : Poc(y) < Poc(x)}) = i - 1]
  BY <1>0 DEF After, InOrder, Afters
<1>7. \A i \in 1..N : list[i] \in S /\ Cardinality({y \in S : Poc(y) < Poc(list[i])}) = i - 1
  <2> TAKE i \in 1..N
  <2>1. \E x \in S : Cardinality({y \in S : Poc(y) < Poc(x)}) = i - 1
    BY <1>4, <1>5
  <2>2. list[i] = CHOOSE x \in S : Cardinality({y \in S : Poc(y) < Poc(x)}) = i - 1
    BY <1>6
  <2> HIDE DEF list
  <2>3. QED BY <2>1, <2>2
<1>8. list = [i \in 1..N |-> list[i]]
  BY <1>6
<1> HIDE DEF list
<1>9. Listed(list, S, key)
  BY <1>5, <1>7, <1>8 DEF Listed
<1>10. QED BY <1>0, <1>1, <1>3, <1>9 DEF list

LEMMA LongTermsFacts ==
  ASSUME NEW p, IsFiniteSet(p.refs), p.refs \in SUBSET Nat, p.long_term \subseteq p.refs
  PROVE  /\ IsFiniteSet(p.long_term) /\ IsKey(p.long_term, Itself(p.long_term))
         /\ Listed(LongTerms(p), p.long_term, Itself(p.long_term))
<1>1. p.long_term \in SUBSET Int /\ IsFiniteSet(p.long_term)
  BY FS_Subset
<1>2. QED BY <1>1, IncreasingFacts DEF LongTerms

(* What is sent later does not change them.                                *)
LEMMA ListsStay ==
  ASSUME NEW p, CanBeListed(p), \A n \in p.refs : Poc(n)' = Poc(n)
  PROVE  Before(p)' = Before(p) /\ After(p)' = After(p)
<1>1. CanBeListed(p)'
  BY DEF CanBeListed
<1>2. Befores(p)' = Befores(p) /\ Afters(p)' = Afters(p)
  BY DEF Befores, Afters
<1>3. Backwards(Befores(p))' = Backwards(Befores(p)) /\ Forwards(Afters(p))' = Forwards(Afters(p))
  <2>1. \A n \in Befores(p) : Poc(n)' = Poc(n)
    BY DEF Befores
  <2>2. \A n \in Afters(p) : Poc(n)' = Poc(n)
    BY DEF Afters
  <2>3. QED BY <1>2, <2>1, <2>2 DEF Backwards, Forwards
<1>4. (BeforesListed)'
  BY BeforeFacts, PTL
<1>5. (AftersListed)'
  BY AfterFacts, PTL
<1>6. /\ Listed(Before(p)', Befores(p), Backwards(Befores(p)))
      /\ Listed(After(p)', Afters(p), Forwards(Afters(p)))
  BY <1>1, <1>2, <1>3, <1>4, <1>5 DEF BeforesListed, AftersListed
<1>7. /\ IsFiniteSet(Befores(p)) /\ IsKey(Befores(p), Backwards(Befores(p)))
      /\ Listed(Before(p), Befores(p), Backwards(Befores(p)))
  BY BeforeFacts DEF BeforesListed
<1>8. /\ IsFiniteSet(Afters(p)) /\ IsKey(Afters(p), Forwards(Afters(p)))
      /\ Listed(After(p), Afters(p), Forwards(Afters(p)))
  BY AfterFacts DEF AftersListed
<1>9. Before(p)' = Before(p)
  BY <1>6, <1>7, ListedFacts
<1>10. After(p)' = After(p)
  BY <1>6, <1>8, ListedFacts
<1>11. QED BY <1>9, <1>10

(* Of a list, the pictures that are used, or are not; and what is found of *)
(* a list if some are lost.                                                *)
Chosen(list, use, used) == Increasing({i \in DOMAIN list : (list[i] \in use) = used})
ChosenOf(list, use, used) ==
  [i \in DOMAIN Chosen(list, use, used) |-> list[Chosen(list, use, used)[i]]]
Without(lost, list) == [i \in DOMAIN list |-> IF list[i] \in lost THEN Missing ELSE list[i]]

IsListing(list, n, S) ==
  /\ n \in Nat /\ list = [i \in 1..n |-> list[i]]
  /\ \A i \in 1..n : list[i] \in S
  /\ \A i, j \in 1..n : list[i] = list[j] => i = j
  /\ \A x \in S : \E i \in 1..n : list[i] = x

LEMMA PlacesIncreasing ==
  ASSUME NEW n \in Nat, NEW U \in SUBSET (1..n)
  PROVE  /\ IsFiniteSet(U) /\ Cardinality(U) \in Nat
         /\ IsListing(Increasing(U), Cardinality(U), U)
<1>1. IsFiniteSet(1..n)
  BY FS_Interval
<1>2. IsFiniteSet(U) /\ U \in SUBSET Int
  <2>1. IsFiniteSet(U)
    BY <1>1, FS_Subset
  <2>2. U \subseteq Int
    OBVIOUS
  <2>3. QED BY <2>1, <2>2
<1>3. PICK key : key = Itself(U)
  OBVIOUS
<1>4. IsKey(U, key) /\ Listed(Increasing(U), U, key)
  BY <1>2, <1>3, IncreasingFacts
<1>5. PICK list : list = Increasing(U)
  OBVIOUS
<1>6. /\ DOMAIN list = 1..Cardinality(U) /\ Cardinality(U) \in Nat
      /\ \A i \in DOMAIN list : list[i] \in U
      /\ \A i, j \in DOMAIN list : list[i] = list[j] => i = j
      /\ \A x \in U : \E i \in DOMAIN list : list[i] = x
  BY <1>2, <1>4, <1>5, ListedFacts
<1>7. list = [i \in 1..Cardinality(U) |-> list[i]]
  BY <1>4, <1>5 DEF Listed
<1>8. IsListing(list, Cardinality(U), U)
  BY <1>6, <1>7 DEF IsListing
<1>9. QED BY <1>2, <1>5, <1>6, <1>8

Picked(S, use, used) == IF used THEN S \cap use ELSE S \ use

LEMMA ChosenFacts ==
  ASSUME NEW S, NEW n, NEW list, IsListing(list, n, S), NEW use, NEW used \in BOOLEAN,
         NEW c, c = ChosenOf(list, use, used)
  PROVE  \E k \in Nat : IsListing(c, k, Picked(S, use, used))
<1>1. PICK U : U = {i \in DOMAIN list : (list[i] \in use) = used}
  OBVIOUS
<1>2. DOMAIN list = 1..n /\ n \in Nat
  BY DEF IsListing
<1>3. U \in SUBSET (1..n) /\ \A i : i \in U <=> i \in 1..n /\ (list[i] \in use) = used
  BY <1>1, <1>2
<1>4. PICK m, k : m = Increasing(U) /\ k = Cardinality(U)
  OBVIOUS
<1>5. k \in Nat /\ IsListing(m, k, U)
  BY <1>2, <1>3, <1>4, PlacesIncreasing
<1>6. m = Chosen(list, use, used)
  BY <1>1, <1>4 DEF Chosen
<1>7. DOMAIN m = 1..k
  BY <1>5 DEF IsListing
<1>8. c = [i \in 1..k |-> list[m[i]]]
  BY <1>6, <1>7 DEF ChosenOf
<1>9. \A i \in 1..k : m[i] \in U
  BY <1>5 DEF IsListing
<1>10. ASSUME NEW i \in 1..k PROVE c[i] \in Picked(S, use, used)
  <2>1. c[i] = list[m[i]] /\ m[i] \in 1..n /\ (list[m[i]] \in use) = used
    BY <1>3, <1>8, <1>9
  <2>2. list[m[i]] \in S
    BY <2>1 DEF IsListing
  <2>3. QED BY <2>1, <2>2 DEF Picked
<1>11. \A i, j \in 1..k : c[i] = c[j] => i = j
  <2>1. ASSUME NEW i \in 1..k, NEW j \in 1..k, c[i] = c[j] PROVE i = j
    <3>1. m[i] \in 1..n /\ m[j] \in 1..n /\ list[m[i]] = list[m[j]]
      BY <1>3, <1>8, <1>9, <2>1
    <3>2. m[i] = m[j]
      BY <3>1 DEF IsListing
    <3>3. QED BY <1>5, <3>2 DEF IsListing
  <2>2. QED BY <2>1
<1>12. ASSUME NEW x \in Picked(S, use, used) PROVE \E i \in 1..k : c[i] = x
  <2>a. x \in S /\ (x \in use) = used
    BY <1>12 DEF Picked
  <2>1. PICK j \in 1..n : list[j] = x
    BY <2>a DEF IsListing
  <2>2. j \in U
    BY <1>3, <2>a, <2>1
  <2>3. PICK i \in 1..k : m[i] = j
    BY <1>5, <2>2 DEF IsListing
  <2>4. QED BY <1>8, <2>1, <2>3
<1>13. c = [i \in 1..k |-> c[i]]
  BY <1>8
<1>14. IsListing(c, k, Picked(S, use, used))
  BY <1>5, <1>10, <1>11, <1>12, <1>13 DEF IsListing
<1>15. QED BY <1>5, <1>14

(* The searches of a list of the header find what it names.                *)
Finds(d, pic, l, n, lost) ==
  FindShortTermRefByPoc(d, pic.poc + l.delta) = IF n \in lost THEN Missing ELSE n
FindsLong(d, pic, l, n, lost) ==
  FoundFor(d, pic, l) = IF n \in lost THEN Missing ELSE n

LEMMA FoundInList ==
  ASSUME NEW d, IsBuffer(d), NEW pic, NEW n \in Nat, NEW list, DOMAIN list = 1..n,
         NEW l, HasEntries(l, n), NEW use, NEW lost,
         \A i \in 1..n : l[i].used = (list[i] \in use) /\ Finds(d, pic, l[i], list[i], lost)
  PROVE  \A used \in BOOLEAN :
           FoundShortTerm(d, PocsOf(pic, l, used)) = Without(lost, ChosenOf(list, use, used))
<1> SUFFICES ASSUME NEW used \in BOOLEAN
             PROVE  FoundShortTerm(d, PocsOf(pic, l, used)) = Without(lost, ChosenOf(list, use, used))
  OBVIOUS
<1>1. PICK U : U = UsedPlaces(l, used)
  OBVIOUS
<1>2. DOMAIN l = 1..n /\ \A i \in 1..n : l[i].used \in BOOLEAN
  BY DEF HasEntries
<1>3. U = {i \in DOMAIN list : (list[i] \in use) = used} /\ U \in SUBSET (1..n)
  BY <1>1, <1>2 DEF UsedPlaces
<1>4. PICK m, k : m = Increasing(U) /\ k = Cardinality(U)
  OBVIOUS
<1>5. k \in Nat /\ IsListing(m, k, U)
  BY <1>3, <1>4, PlacesIncreasing
<1>6. m = Chosen(list, use, used) /\ DOMAIN m = 1..k /\ \A i \in 1..k : m[i] \in 1..n
  BY <1>3, <1>4, <1>5 DEF Chosen, IsListing
<1>7. FoundShortTerm(d, PocsOf(pic, l, used))
        = [i \in 1..k |-> FindShortTermRefByPoc(d, pic.poc + l[m[i]].delta)]
  <2>1. PICK pocs : pocs = PocsOf(pic, l, used)
    OBVIOUS
  <2>2. pocs = [i \in 1..k |-> pic.poc + l[m[i]].delta]
    <3>1. m = Increasing({i \in DOMAIN l : l[i].used = used})
      BY <1>1, <1>4 DEF UsedPlaces
    <3>2. pocs = [i \in DOMAIN m |-> pic.poc + l[m[i]].delta]
      BY <2>1, <3>1 DEF PocsOf
    <3>3. QED BY <1>6, <3>2
  <2>3. DOMAIN pocs = 1..k /\ \A i \in 1..k : pocs[i] = pic.poc + l[m[i]].delta
    BY <2>2
  <2>4. FoundShortTerm(d, pocs) = [i \in 1..k |-> FindShortTermRefByPoc(d, pocs[i])]
    BY <2>3 DEF FoundShortTerm
  <2>5. QED BY <2>1, <2>3, <2>4
<1>8. \A i \in 1..k : FindShortTermRefByPoc(d, pic.poc + l[m[i]].delta)
                        = IF list[m[i]] \in lost THEN Missing ELSE list[m[i]]
  BY <1>6 DEF Finds
<1>9. PICK c : c = ChosenOf(list, use, used)
  OBVIOUS
<1>10. c = [i \in 1..k |-> list[m[i]]]
  BY <1>6, <1>9 DEF ChosenOf
<1>11. Without(lost, c) = [i \in 1..k |-> IF list[m[i]] \in lost THEN Missing ELSE list[m[i]]]
  BY <1>10 DEF Without
<1>12. QED BY <1>7, <1>8, <1>9, <1>11

LEMMA FoundInLongList ==
  ASSUME NEW d, IsBuffer(d), NEW pic, NEW n \in Nat, NEW list, DOMAIN list = 1..n,
         NEW l, HasEntries(l, n), NEW use, NEW lost,
         \A i \in 1..n : l[i].used = (list[i] \in use) /\ FindsLong(d, pic, l[i], list[i], lost)
  PROVE  \A used \in BOOLEAN :
           FoundLongTerm(d, pic, l, used) = Without(lost, ChosenOf(list, use, used))
<1> SUFFICES ASSUME NEW used \in BOOLEAN
             PROVE  FoundLongTerm(d, pic, l, used) = Without(lost, ChosenOf(list, use, used))
  OBVIOUS
<1>1. PICK U : U = UsedPlaces(l, used)
  OBVIOUS
<1>2. DOMAIN l = 1..n /\ \A i \in 1..n : l[i].used \in BOOLEAN
  BY DEF HasEntries
<1>3. U = {i \in DOMAIN list : (list[i] \in use) = used} /\ U \in SUBSET (1..n)
  BY <1>1, <1>2 DEF UsedPlaces
<1>4. PICK m, k : m = Increasing(U) /\ k = Cardinality(U)
  OBVIOUS
<1>5. k \in Nat /\ IsListing(m, k, U)
  BY <1>3, <1>4, PlacesIncreasing
<1>6. m = Chosen(list, use, used) /\ DOMAIN m = 1..k /\ \A i \in 1..k : m[i] \in 1..n
  BY <1>3, <1>4, <1>5 DEF Chosen, IsListing
<1>7. FoundLongTerm(d, pic, l, used) = [i \in 1..k |-> FoundFor(d, pic, l[m[i]])]
  BY <1>1, <1>4, FoundLongTermList
<1>8. \A i \in 1..k : FoundFor(d, pic, l[m[i]]) = IF list[m[i]] \in lost THEN Missing ELSE list[m[i]]
  BY <1>6 DEF FindsLong
<1>9. PICK c : c = ChosenOf(list, use, used)
  OBVIOUS
<1>10. c = [i \in 1..k |-> list[m[i]]]
  BY <1>6, <1>9 DEF ChosenOf
<1>11. Without(lost, c) = [i \in 1..k |-> IF list[m[i]] \in lost THEN Missing ELSE list[m[i]]]
  BY <1>10 DEF Without
<1>12. QED BY <1>7, <1>8, <1>9, <1>11

LEMMA WithoutJoined ==
  ASSUME NEW j \in Nat, NEW k \in Nat, NEW s \in [1..j -> Nat], NEW t \in [1..k -> Nat], NEW lost
  PROVE  Without(lost, s \o t) = Without(lost, s) \o Without(lost, t)
<1> DEFINE Fate(x) == IF x \in lost THEN Missing ELSE x
<1>1. /\ s \in Seq(Nat) /\ t \in Seq(Nat) /\ Len(s) = j /\ Len(t) = k
  BY SeqDef
<1>2. PICK a, b : a = Without(lost, s) /\ b = Without(lost, t)
  OBVIOUS
<1>3. /\ a = [i \in 1..j |-> IF s[i] \in lost THEN Missing ELSE s[i]]
      /\ b = [i \in 1..k |-> IF t[i] \in lost THEN Missing ELSE t[i]]
  BY <1>2 DEF Without
<1>4. a \in [1..j -> Nat] /\ b \in [1..k -> Nat]
  BY <1>3 DEF Missing
<1>5. a \in Seq(Nat) /\ b \in Seq(Nat) /\ Len(a) = j /\ Len(b) = k
  BY <1>4, SeqDef
<1>6. PICK u, v : u = s \o t /\ v = a \o b
  OBVIOUS
<1>7. /\ u \in Seq(Nat) /\ Len(u) = j + k
      /\ \A i \in 1..(j + k) : u[i] = IF i <= j THEN s[i] ELSE t[i - j]
  BY <1>1, <1>6, Joined
<1>8. /\ v \in Seq(Nat) /\ Len(v) = j + k
      /\ \A i \in 1..(j + k) : v[i] = IF i <= j THEN a[i] ELSE b[i - j]
  BY <1>5, <1>6, Joined
<1>9. DOMAIN u = 1..(j + k) /\ DOMAIN v = 1..(j + k)
  BY <1>7, <1>8, LenProperties
<1>10. PICK w : w = Without(lost, u)
  OBVIOUS
<1>11. w = [i \in 1..(j + k) |-> IF u[i] \in lost THEN Missing ELSE u[i]]
  BY <1>9, <1>10 DEF Without
<1>12. \A i \in 1..(j + k) : w[i] = v[i]
  <2> TAKE i \in 1..(j + k)
  <2>1. CASE i <= j
    <3>1. i \in 1..j
      BY <2>1
    <3>2. u[i] = s[i] /\ v[i] = a[i]
      BY <1>7, <1>8, <2>1
    <3>3. QED BY <1>3, <1>11, <3>1, <3>2
  <2>2. CASE ~(i <= j)
    <3>1. i - j \in 1..k
      BY <2>2
    <3>2. u[i] = t[i - j] /\ v[i] = b[i - j]
      BY <1>7, <1>8, <2>2
    <3>3. b[i - j] = IF t[i - j] \in lost THEN Missing ELSE t[i - j]
      BY <1>3, <3>1
    <3>4. QED BY <1>11, <3>2, <3>3
  <2>3. QED BY <2>1, <2>2
<1>13. v = [i \in 1..(j + k) |-> v[i]]
  BY <1>8, <1>9
<1>14. w = v
  BY <1>11, <1>12, <1>13
<1>15. QED BY <1>2, <1>6, <1>10, <1>14

-----------------------------------------------------------------------------
(* The steps, by what they do with the pictures.                           *)

(* What the end of a picture does: it is stored as a short-term reference, *)
(* the others keep their marks and wait one picture longer, and what is    *)
(* then output follows from the limits.                                    *)
FromPending(x) == {w \in Pending : Poc(w) >= Poc(x)}
LatencyNow(w) ==
  IF w \in Cur THEN current_pic.pic.pic_latency_cnt
               ELSE dpb.entries[w].pic_latency_cnt + (IF Cur = {} THEN 0 ELSE 1)
CalledNow(x) ==
  \/ Cardinality(FromPending(x)) > sps.max_num_reorder_pics
  \/ /\ sps.max_latency_increase_plus1 # 0
     /\ \E w \in FromPending(x) : LatencyNow(w) >= sps.max_latency_increase_plus1
Stored(s) ==
  /\ References(s.dpb) = References(dpb) \cup Cur
  /\ \A n \in DOMAIN s.dpb.entries :
       /\ n \in DOMAIN dpb.entries \cup Cur
       /\ s.dpb.entries[n].reference = IF n \in Cur THEN "ShortTerm" ELSE dpb.entries[n].reference
       /\ s.dpb.entries[n].pic_latency_cnt = LatencyNow(n)
  /\ Waiting(s.dpb) \subseteq Pending
  /\ s.out \in Seq(Pending)
  /\ \A k, l \in 1..Len(s.out) : k < l => Poc(s.out[k]) < Poc(s.out[l])
  /\ \A x \in Range(s.out) : CalledNow(x) /\ \A w \in Waiting(s.dpb) : Poc(x) < Poc(w)

LEMMA StoredNothing ==
  ASSUME TypesRight, current_pic = NoPicture, NEW s, s.out = <<>>, s.dpb.entries = dpb.entries
  PROVE  Stored(s)
<1>1. Cur = {} /\ Pending = Waiting(dpb)
  BY DEF Cur, Pending, Waits
<1>2. \A i : /\ i \in References(s.dpb) <=> i \in References(dpb)
             /\ i \in Waiting(s.dpb) <=> i \in Waiting(dpb)
  BY PlaceSets
<1>3. Range(s.out) = {} /\ Len(s.out) = 0 /\ s.out \in Seq(Pending)
  BY DEF Range
<1>4. \A n \in DOMAIN dpb.entries : LatencyNow(n) = dpb.entries[n].pic_latency_cnt
  <2> TAKE n \in DOMAIN dpb.entries
  <2>1. dpb.entries[n].pic_latency_cnt \in Nat
    BY DEF TypesRight, IsBuffer, Picture
  <2>2. QED BY <1>1, <2>1 DEF LatencyNow
<1>5. References(s.dpb) = References(dpb) \cup Cur /\ Waiting(s.dpb) \subseteq Pending
  BY <1>1, <1>2
<1>6. \A n \in DOMAIN s.dpb.entries :
        /\ n \in DOMAIN dpb.entries \cup Cur
        /\ s.dpb.entries[n].reference = IF n \in Cur THEN "ShortTerm" ELSE dpb.entries[n].reference
        /\ s.dpb.entries[n].pic_latency_cnt = LatencyNow(n)
  BY <1>1, <1>4
<1>7. \A k, l \in 1..Len(s.out) : k < l => Poc(s.out[k]) < Poc(s.out[l])
  BY <1>3
<1>8. QED BY <1>3, <1>5, <1>6, <1>7 DEF Stored

LEMMA MarksStored ==
  ASSUME NEW d, IsBuffer(d), NEW pic \in Picture, pic.n # 0, pic.n \notin DOMAIN d.entries,
         NEW e, e = StorePicture(d, pic)
  PROVE  /\ \A i \in DOMAIN d.entries : e.entries[i].reference = d.entries[i].reference
         /\ e.entries[pic.n].reference = "ShortTerm"
<1> DEFINE D == DOMAIN d.entries \cup {pic.n}
           Later(p) == [p EXCEPT !.pic_latency_cnt = p.pic_latency_cnt + 1]
           new == [pic EXCEPT !.needed_for_output = pic.pic_output_flag, !.reference = "ShortTerm"]
           f == [i \in D |-> IF i = pic.n THEN new ELSE Later(d.entries[i])]
<1>1. e = [d EXCEPT !.entries = f]
  BY DEF StorePicture
<1>2. new.reference = "ShortTerm"
  BY DEF Picture
<1> HIDE DEF new
<1>3. e.entries = f
  BY <1>1 DEF IsBuffer
<1>4. /\ \A i \in DOMAIN d.entries :
           e.entries[i] = [d.entries[i] EXCEPT !.pic_latency_cnt = d.entries[i].pic_latency_cnt + 1]
      /\ e.entries[pic.n] = new
  BY <1>3
<1>5. \A i \in DOMAIN d.entries : e.entries[i].reference = d.entries[i].reference
  <2> TAKE i \in DOMAIN d.entries
  <2>1. d.entries[i] \in Picture
    BY DEF IsBuffer
  <2>2. QED BY <1>4, <2>1 DEF Picture
<1>6. QED BY <1>2, <1>4, <1>5

LEMMA StoredOne ==
  ASSUME Invariant, outcome = "Ok", current_pic # NoPicture, NEW s, s = Finished, s.ok
  PROVE  Stored(s)
<1>1. /\ TypesRight /\ PlacesRight /\ StreamRight /\ IsBuffer(dpb)
      /\ Queue(ready_queue, Pending)
  BY DEF Invariant, TypesRight, AccountRight
<1>2. PICK off \in Int : Offset(off)
  BY DEF Invariant, CountsRight
<1>3. \A n \in DOMAIN dpb.entries : n \in DOMAIN sent /\ n \in Numbers /\ n \in Nat /\ Poc(n) \in Int
  BY <1>1, SentTypes DEF PlacesRight
<1>4. \A m, n \in Numbers : Poc(m) = Poc(n) => m = n
  BY <1>1 DEF StreamRight
<1>5. PICK pic : pic = current_pic.pic
  OBVIOUS
<1>6. PICK stored : stored = StorePicture(dpb, pic)
  OBVIOUS
<1>7. PICK b : b = BumpAsNeeded(stored, sps, "AfterDecoding")
  OBVIOUS
<1>8. PICK new : new = IF pic.pic_output_flag THEN {pic.n} ELSE {}
  OBVIOUS
<1>9. /\ pic \in Picture /\ sent # <<>> /\ pic.n = Len(sent) /\ pic.n \notin DOMAIN dpb.entries
      /\ pic.n \in Numbers /\ pic.n # 0 /\ pic.n \in Nat /\ Latest.poc = Poc(pic.n)
      /\ Cur = {pic.n} /\ Pending = Waiting(dpb) \cup new
  <2>1. pic \in Picture
    BY <1>1, <1>5 DEF TypesRight
  <2>2. sent # <<>> /\ pic.n = Len(sent) /\ pic.n \notin DOMAIN dpb.entries
    BY <1>1, <1>5 DEF PlacesRight
  <2>3. QED BY <1>1, <1>5, <1>8, <2>1, <2>2, SentTypes DEF Cur, Pending, Latest, Poc, Waits
<1>10. s = Bumped([Session EXCEPT !.prev_tid_0_pic =
                     IF pic.valid_for_prev_tid0_pic THEN pic ELSE Session.prev_tid_0_pic], b)
  <2>1. s = FinishPicture(Session, pic) /\ Session.dpb = dpb
    BY <1>5 DEF Finished, Session
  <2>2. ~IsFull(dpb)
    BY <2>1 DEF FinishPicture, Session
  <2>3. QED BY <1>6, <1>7, <2>1, <2>2 DEF FinishPicture
<1>11. s.dpb = b.dpb /\ s.out = <<>> \o b.out
  BY <1>10 DEF Bumped, Session
<1>12. /\ IsBuffer(stored)
       /\ DOMAIN stored.entries = DOMAIN dpb.entries \cup {pic.n}
       /\ \A i \in DOMAIN dpb.entries :
            /\ stored.entries[i].poc = dpb.entries[i].poc /\ i # pic.n
            /\ stored.entries[i].pic_latency_cnt = dpb.entries[i].pic_latency_cnt + 1
       /\ stored.entries[pic.n].poc = pic.poc
       /\ stored.entries[pic.n].pic_latency_cnt = pic.pic_latency_cnt
       /\ Waiting(stored) = Waiting(dpb) \cup new
       /\ References(stored) = References(dpb) \cup {pic.n}
  BY <1>1, <1>6, <1>8, <1>9, StorePictureFacts
<1>13. /\ \A i \in DOMAIN dpb.entries : stored.entries[i].reference = dpb.entries[i].reference
       /\ stored.entries[pic.n].reference = "ShortTerm"
  BY <1>1, <1>6, <1>9, MarksStored
<1>14. \A n \in DOMAIN stored.entries : PocOf(stored, n) = Poc(n) + off /\ n \in Numbers /\ Poc(n) \in Int
  <2>1. \A n \in DOMAIN stored.entries :
          PocOf(stored, n) = IF n = pic.n THEN pic.poc ELSE PocOf(dpb, n)
    BY <1>12 DEF PocOf
  <2>2. \A n \in DOMAIN stored.entries : PocOf(stored, n) = Poc(n) + off
    BY <1>2, <1>5, <1>9, <1>12, <2>1 DEF Offset
  <2>3. \A n \in DOMAIN stored.entries : n \in Numbers
    BY <1>3, <1>9, <1>12
  <2>4. QED BY <1>1, <2>2, <2>3, SentTypes
<1>15. PocsDiffer(stored)
  BY <1>4, <1>14 DEF PocsDiffer
<1>16. Popped(stored, "AfterDecoding", b)
       /\ \A x \in Range(b.out) : Called(stored, sps, "AfterDecoding", x)
  BY <1>7, <1>12, <1>15, BumpedAsNeeded
<1>17. /\ IsBuffer(b.dpb) /\ DOMAIN b.dpb.entries \subseteq DOMAIN stored.entries
       /\ \A n \in DOMAIN b.dpb.entries : Same(stored.entries[n], b.dpb.entries[n])
       /\ Waiting(b.dpb) \subseteq Pending
       /\ b.out \in Seq(Pending) /\ Range(b.out) = Pending \ Waiting(b.dpb)
       /\ Ascending(stored, b.out)
       /\ \A m \in Range(b.out), n \in Waiting(b.dpb) : PocOf(stored, m) < PocOf(stored, n)
       /\ DOMAIN b.dpb.entries = (DOMAIN stored.entries \ Range(b.out)) \cup References(stored)
  BY <1>9, <1>12, <1>16 DEF Popped
<1>18. s.out = b.out /\ s.out \in Seq(Pending)
  BY <1>11, <1>17, ConcatEmptySeq
<1>19. \A n \in DOMAIN stored.entries :
         stored.entries[n].reference = IF n \in Cur THEN "ShortTerm" ELSE dpb.entries[n].reference
  BY <1>9, <1>12, <1>13
<1>20. \A n \in DOMAIN stored.entries : stored.entries[n].pic_latency_cnt = LatencyNow(n)
  BY <1>5, <1>9, <1>12 DEF LatencyNow
<1>21. \A n \in DOMAIN b.dpb.entries :
         /\ n \in DOMAIN dpb.entries \cup Cur
         /\ b.dpb.entries[n].reference = stored.entries[n].reference
         /\ b.dpb.entries[n].reference = IF n \in Cur THEN "ShortTerm" ELSE dpb.entries[n].reference
         /\ b.dpb.entries[n].pic_latency_cnt = LatencyNow(n)
  BY <1>9, <1>12, <1>17, <1>19, <1>20 DEF Same
<1>22. References(b.dpb) = References(dpb) \cup Cur
  <2>1. \A i : i \in References(b.dpb) <=> i \in References(stored)
    BY <1>17, <1>21, PlaceSets
  <2>2. QED BY <1>9, <1>12, <2>1
<1>23. \A w \in Pending : w \in DOMAIN stored.entries /\ w \in Waiting(stored)
  <2>1. \A w \in Waiting(stored) : w \in DOMAIN stored.entries
    BY PlaceSets
  <2>2. QED BY <1>9, <1>12, <2>1
<1>24. \A x \in Range(b.out) : x \in Pending
  BY <1>17
<1>25. \A k, l \in 1..Len(s.out) : k < l => Poc(s.out[k]) < Poc(s.out[l])
  <2> TAKE k, l \in 1..Len(s.out)
  <2> HAVE k < l
  <2>1. s.out[k] \in Pending /\ s.out[l] \in Pending
    BY <1>18, ElementOfSeq
  <2>2. PocOf(stored, s.out[k]) < PocOf(stored, s.out[l])
    BY <1>17, <1>18 DEF Ascending
  <2>3. QED BY <1>14, <1>23, <2>1, <2>2
<1>26. \A x \in Range(s.out) : \A w \in Waiting(s.dpb) : Poc(x) < Poc(w)
  <2> TAKE x \in Range(s.out)
  <2> TAKE w \in Waiting(s.dpb)
  <2>1. x \in Pending /\ w \in Pending
    BY <1>11, <1>17, <1>18
  <2>2. PocOf(stored, x) < PocOf(stored, w)
    BY <1>11, <1>17, <1>18
  <2>3. QED BY <1>14, <1>23, <2>1, <2>2
<1>27. \A x \in Range(s.out) : CalledNow(x)
  <2> TAKE x \in Range(s.out)
  <2>1. x \in Pending /\ Called(stored, sps, "AfterDecoding", x)
    BY <1>16, <1>17, <1>18
  <2>2. \A w : w \in From(stored, x) <=> w \in FromPending(x)
    <3>1. \A w : w \in From(stored, x) <=> w \in Pending /\ PocOf(stored, w) >= PocOf(stored, x)
      BY <1>9, <1>12, <1>23 DEF From
    <3>2. \A w \in Pending : PocOf(stored, w) >= PocOf(stored, x) <=> Poc(w) >= Poc(x)
      BY <1>2, <1>14, <1>23, <2>1
    <3>3. QED BY <3>1, <3>2 DEF FromPending
  <2>3. From(stored, x) = FromPending(x)
    BY <2>2
  <2>4. \A w \in FromPending(x) : stored.entries[w].pic_latency_cnt = LatencyNow(w)
    BY <1>20, <1>23 DEF FromPending
  <2>5. QED BY <2>1, <2>3, <2>4 DEF Called, CalledNow
<1>28. QED BY <1>11, <1>17, <1>18, <1>21, <1>22, <1>25, <1>26, <1>27 DEF Stored

Finishes(s) == Resumed(s) /\ Stored(s)
Comes(p, h) ==
  /\ sps # NoSet
  /\ \/ h \in Starts /\ p = StartOf(h)
     \/ next = "any" /\ p \in Continuations /\ h \in Headers(p)

Idles ==
  /\ UNCHANGED <<dpb, current_pic, prev_tid_0_pic, ready_queue, outcome, stream, sent, dropped,
                 irap_no_rasl_output_flag>>
  /\ next' # "any" \/ (next' = next /\ sps' = sps)
  /\ next' = "IRAP after a seek" => next = "IRAP after a seek"
Settles(s, t) ==
  /\ Finishes(s) /\ Keep(t) /\ current_pic' = NoPicture
  /\ outcome = "Ok" /\ outcome' = "Ok"
  /\ UNCHANGED <<stream, sent, dropped, irap_no_rasl_output_flag>>
  /\ (t = s /\ next' = next /\ sps' = sps) \/ (t = DrainAll(s) /\ next' # "any")
  /\ next' = "IRAP after a seek" => next = "IRAP after a seek" \/ stream.seeks
Fails ==
  /\ current_pic # NoPicture /\ current_pic' = NoPicture /\ outcome' = "Error"
  /\ prev_tid_0_pic' = LastTid0
  /\ UNCHANGED <<dpb, ready_queue, stream, sent, dropped, irap_no_rasl_output_flag, next, sps>>
Sends(s, p, h) ==
  /\ s = Finished /\ Comes(p, h) /\ Finishes(s)
  /\ DropPicture(s, p, h) \/ DecodePicture(s, p, h)

LEMMA FinishedStores ==
  ASSUME Invariant, outcome = "Ok", NEW s, s = Finished, s.ok
  PROVE  Finishes(s) /\ s.dpb.max_num_pics = dpb.max_num_pics
<1>1. Resumed(s) /\ s.dpb.max_num_pics = dpb.max_num_pics
  BY FinishedFacts
<1>2. TypesRight
  BY DEF Invariant
<1>3. CASE current_pic = NoPicture
  <2>1. s.out = <<>> /\ s.dpb.entries = dpb.entries
    BY <1>3 DEF Finished, Session
  <2>2. QED BY <1>1, <1>2, <1>3, <2>1, StoredNothing DEF Finishes
<1>4. CASE current_pic # NoPicture
  BY <1>1, <1>4, StoredOne DEF Finishes
<1>5. QED BY <1>3, <1>4

LEMMA AcceptFormatSettles ==
  ASSUME Invariant, AcceptFormat
  PROVE  \E s, t : Settles(s, t)
<1>1. /\ TypesRight /\ ModesRight /\ decoding_state = "AwaitingFormat" /\ awaited # NoSet
      /\ awaited = sps /\ current_pic = NoPicture /\ outcome = "Ok" /\ next # "any"
  BY DEF Invariant, AcceptFormat, ModesRight
<1>2. awaited.max_num_pics \in Nat
  BY <1>1, SetTypes
<1>3. PICK s, t : /\ s = [Session EXCEPT !.dpb.max_num_pics = awaited.max_num_pics]
                  /\ t = DrainAll(s) /\ Keep(t)
  BY DEF AcceptFormat
<1>4. Resumed(Session)
  <2>1. Finished = Session /\ Session.ok
    BY <1>1 DEF Finished, Session
  <2>2. PICK r : r = Finished
    OBVIOUS
  <2>3. QED BY <1>1, <2>1, <2>2, FinishedFacts
<1>5. Resumed(s) /\ s.out = <<>> /\ s.dpb.entries = dpb.entries
  <2>1. /\ s = [dpb |-> s.dpb, prev_tid_0_pic |-> s.prev_tid_0_pic, out |-> s.out, cleared |-> {},
                ok |-> TRUE]
        /\ s.dpb = [dpb EXCEPT !.max_num_pics = awaited.max_num_pics]
        /\ s.out = Session.out /\ s.prev_tid_0_pic = Session.prev_tid_0_pic
    BY <1>3 DEF Session
  <2>2. IsBuffer(dpb)
    BY <1>1 DEF TypesRight
  <2>3. IsBuffer(s.dpb) /\ s.dpb.entries = dpb.entries
    BY <1>2, <2>1, <2>2 DEF IsBuffer
  <2>4. \A i : i \in Waiting(s.dpb) <=> i \in Waiting(dpb)
    BY <2>3, PlaceSets
  <2>5. Waiting(s.dpb) = Waiting(dpb) /\ Session.dpb = dpb
    BY <2>4 DEF Session
  <2>6. Session.out = <<>>
    BY DEF Session
  <2>7. QED BY <1>4, <2>1, <2>3, <2>5, <2>6 DEF Resumed, Settled, PocsDiffer, PocOf
<1>6. Finishes(s)
  BY <1>1, <1>5, StoredNothing DEF Finishes
<1>7. UNCHANGED <<current_pic, irap_no_rasl_output_flag, outcome, stream, sent, next, dropped>>
  BY DEF AcceptFormat, stream_vars
<1>8. Settles(s, t)
  BY <1>1, <1>3, <1>6, <1>7 DEF Settles
<1>9. QED BY <1>8

LEMMA RenegotiateSettles ==
  ASSUME Invariant, NEW s, s = Finished, NEW h, Renegotiate(s, h)
  PROVE  \E t : Settles(s, t)
<1>1. ModesRight /\ outcome = "Ok" /\ s.ok /\ NegotiationPossible(s.dpb)
  BY DEF Invariant, Renegotiate, Decodable
<1>2. Finishes(s) /\ s.dpb.max_num_pics = dpb.max_num_pics
  BY <1>1, FinishedStores
<1>3. next # "any"
  <2>1. NegotiationPossible(dpb)
    BY <1>1, <1>2 DEF NegotiationPossible
  <2>2. QED BY <1>1, <2>1 DEF ModesRight
<1>4. PICK t : t = DrainAll(s) /\ Keep(t)
  BY DEF Renegotiate
<1>5. UNCHANGED <<irap_no_rasl_output_flag, outcome, stream, sent, next, dropped>>
      /\ current_pic' = NoPicture
  BY DEF Renegotiate, stream_vars
<1>6. Settles(s, t)
  BY <1>1, <1>2, <1>3, <1>4, <1>5 DEF Settles
<1>7. QED BY <1>6

LEMMA NoOutputBufferSettles ==
  ASSUME Invariant, NEW s, s = Finished, NEW h, NoOutputBuffer(s, h)
  PROVE  \E t : Settles(s, t)
<1>1. outcome = "Ok" /\ s.ok /\ Keep(s)
  BY DEF NoOutputBuffer, Decodable
<1>2. Finishes(s)
  BY <1>1, FinishedStores
<1>3. UNCHANGED <<sps, irap_no_rasl_output_flag, outcome, stream, sent, next, dropped>>
      /\ current_pic' = NoPicture
  BY DEF NoOutputBuffer, stream_vars
<1>4. Settles(s, s)
  BY <1>1, <1>2, <1>3 DEF Settles
<1>5. QED BY <1>4

LEMMA FlushSettles ==
  ASSUME Invariant, NEW s, s = Finished, Flush(s)
  PROVE  \E t : Settles(s, t)
<1>1. ModesRight /\ outcome = "Ok" /\ s.ok /\ stream.seeks
  BY DEF Invariant, Flush
<1>2. Finishes(s)
  BY <1>1, FinishedStores
<1>3. PICK t : t = DrainAll(s) /\ Keep(t)
  BY DEF Flush
<1>4. UNCHANGED <<irap_no_rasl_output_flag, outcome, stream, sent, dropped>>
      /\ current_pic' = NoPicture
  BY DEF Flush
<1>5. next' # "any"
  BY <1>1 DEF Flush, ModesRight
<1>6. Settles(s, t)
  BY <1>1, <1>2, <1>3, <1>4, <1>5 DEF Settles
<1>7. QED BY <1>6

LEMMA FinishFailsFails ==
  ASSUME Invariant, NEW s, s = Finished, FinishFails(s)
  PROVE  Fails
<1>1. TypesRight /\ outcome = "Ok" /\ ~s.ok /\ Keep(s)
  BY DEF Invariant, FinishFails
<1>2. current_pic # NoPicture
  BY <1>1 DEF Finished, Session
<1>3. s.dpb = dpb /\ s.prev_tid_0_pic = LastTid0 /\ s.out = <<>>
  <2>1. s = FinishPicture(Session, current_pic.pic)
    BY <1>2 DEF Finished
  <2>2. IsFull(Session.dpb)
    BY <1>1, <2>1 DEF FinishPicture, Bumped, Session
  <2>3. QED BY <1>2, <2>1, <2>2 DEF FinishPicture, Session, LastTid0
<1>4. ready_queue' = ready_queue
  <2>1. ready_queue \in Seq(Nat)
    BY <1>1 DEF TypesRight
  <2>2. ready_queue \o <<>> = ready_queue
    BY <2>1, ConcatEmptySeq
  <2>3. QED BY <1>1, <1>3, <2>2 DEF Keep
<1>5. /\ UNCHANGED <<sps, irap_no_rasl_output_flag, stream, sent, next, dropped>>
      /\ current_pic' = NoPicture /\ outcome' = "Error" /\ dpb' = dpb /\ prev_tid_0_pic' = LastTid0
  BY <1>1, <1>3 DEF FinishFails, format_vars, stream_vars, Keep
<1>6. QED BY <1>2, <1>4, <1>5 DEF Fails

LEMMA DecodeSteps ==
  ASSUME Invariant, NEW s, s = Finished, NEW p, NEW h, Comes(p, h), Decode(s, p, h)
  PROVE  (\E a, b : Settles(a, b)) \/ (\E a, q, g : Sends(a, q, g))
<1>1. CASE Renegotiate(s, h)
  BY <1>1, RenegotiateSettles
<1>2. CASE NoOutputBuffer(s, h)
  BY <1>2, NoOutputBufferSettles
<1>3. CASE DropPicture(s, p, h) \/ DecodePicture(s, p, h)
  <2>1. outcome = "Ok" /\ s.ok
    BY <1>3 DEF DropPicture, DecodePicture, Begins, Decodable
  <2>2. Finishes(s)
    BY <2>1, FinishedStores
  <2>3. Sends(s, p, h)
    BY <1>3, <2>2 DEF Sends
  <2>4. QED BY <2>3
<1>4. QED BY <1>1, <1>2, <1>3 DEF Decode

LEMMA StepKinds ==
  ASSUME Invariant, [Next]_vars
  PROVE  Idles \/ (\E s, t : Settles(s, t)) \/ Fails \/ (\E s, p, h : Sends(s, p, h))
<1>1. CASE \E set \in stream.sets : FirstSps(set) \/ NewSps(set)
  <2>1. PICK set \in stream.sets : FirstSps(set) \/ NewSps(set)
    BY <1>1
  <2>2. CASE FirstSps(set)
    <3>1. UNCHANGED <<picture_vars, stream_vars>> /\ decoding_state = "AwaitingStreamInfo"
      BY <2>2 DEF FirstSps
    <3>2. next # "any"
      BY <3>1 DEF Invariant, ModesRight
    <3>3. QED BY <3>1, <3>2 DEF Idles, picture_vars, stream_vars
  <2>3. CASE NewSps(set)
    <3>1. /\ UNCHANGED <<picture_vars, stream, sent, dropped>> /\ sps' = set
          /\ next' = IF set # sps /\ next = "any" THEN "new sequence" ELSE next
      BY <2>3 DEF NewSps
    <3>2. next' # "any" \/ (next' = next /\ sps' = sps)
      BY <3>1
    <3>3. QED BY <3>1, <3>2 DEF Idles, picture_vars
  <2>4. QED BY <2>1, <2>2, <2>3
<1>2. CASE AcceptFormat
  BY <1>2, AcceptFormatSettles
<1>3. CASE EndOfSequence
  BY <1>3 DEF EndOfSequence, Idles
<1>4. CASE EndOfBitstream
  <2>1. UNCHANGED <<format_vars, dpb, current_pic, prev_tid_0_pic, first_picture_after_eos,
                    irap_no_rasl_output_flag, ready_queue, outcome, stream_vars>>
    BY <1>4 DEF EndOfBitstream
  <2>2. QED BY <2>1 DEF Idles, format_vars, stream_vars
<1>5. ASSUME NEW h \in Starts, sps # NoSet, Decode(Finished, StartOf(h), h)
      PROVE  (\E s, t : Settles(s, t)) \/ (\E s, p, g : Sends(s, p, g))
  <2>1. PICK s, p : s = Finished /\ p = StartOf(h)
    OBVIOUS
  <2>2. Comes(p, h)
    BY <1>5, <2>1 DEF Comes
  <2>3. Decode(s, p, h)
    BY <1>5, <2>1
  <2>4. QED BY <2>1, <2>2, <2>3, DecodeSteps
<1>6. ASSUME NEW p \in Continuations, NEW h \in Headers(p), next = "any", Decode(Finished, p, h)
      PROVE  (\E s, t : Settles(s, t)) \/ (\E s, q, g : Sends(s, q, g))
  <2>1. PICK s : s = Finished
    OBVIOUS
  <2>2. Comes(p, h)
    BY <1>6, ContinuationComes DEF Comes
  <2>3. Decode(s, p, h)
    BY <1>6, <2>1
  <2>4. QED BY <2>1, <2>2, <2>3, DecodeSteps
<1>7. CASE FinishFails(Finished)
  <2>1. PICK s : s = Finished /\ FinishFails(s)
    BY <1>7
  <2>2. QED BY <2>1, FinishFailsFails
<1>8. CASE Flush(Finished)
  <2>1. PICK s : s = Finished /\ Flush(s)
    BY <1>8
  <2>2. QED BY <2>1, FlushSettles
<1>9. CASE UNCHANGED vars
  BY <1>9 DEF vars, format_vars, picture_vars, stream_vars, Idles
<1>10. CASE Next
  BY <1>1, <1>2, <1>3, <1>4, <1>5, <1>6, <1>7, <1>8, <1>10 DEF Next
<1>11. QED BY <1>9, <1>10

-----------------------------------------------------------------------------
(* More of what the stream may send.                                       *)

Opens(p, h) ==
  /\ Starting(p, h)
  /\ p.type \in {"IDR", "BLA", "CRA"} /\ h.type = p.type
  /\ p.tid = 0 /\ p.refs = {} /\ p.long_term = {} /\ p.use = {} /\ p.seq = Sequence + 1
  /\ p.pic_output_flag = TRUE
  /\ p.joined \in BOOLEAN /\ (p.joined <=> p.type = "CRA" /\ next = "IRAP after a seek")
  /\ h.s0 \in {<<>>, <<Elsewhere>>} /\ h.s1 = <<>> /\ h.lt = <<>>

HasLists(p, h) ==
  \E present \in BOOLEAN :
    h = [type |-> p.type, tid |-> p.tid, lsb |-> p.poc % sps.max_lsb,
         pic_output_flag |-> p.pic_output_flag, no_output_of_prior_pics_flag |-> FALSE,
         s0 |-> Deltas(p, Before(p)), s1 |-> Deltas(p, After(p)),
         lt |-> [i \in DOMAIN LongTerms(p) |->
                   LongTermEntry(p, LongTerms(p)[i], present \/ Ambiguous(LongTerms(p)[i]))]]
Extended(p, h) ==
  /\ Continuing(p, h)
  /\ p.poc \in NewPocs(p.type) /\ Follows(p.type)
  /\ p.refs \subseteq Keepable(p.type) /\ p.use \subseteq Usable(p.type, p.tid)
  /\ p.use \subseteq p.refs /\ p.long_term \subseteq p.refs
  /\ Latest.long_term \cap p.refs \subseteq p.long_term
  /\ \A n \in p.long_term : ~IsLeading(sent[n].type)
  /\ p.seq = Sequence /\ p.joined = Latest.joined
  /\ ~stream.hides => p.pic_output_flag
  /\ KeepsPromises(Append(sent, p))
  /\ HasLists(p, h)

LEMMA StartOpens ==
  ASSUME Invariant, sps # NoSet, NEW h \in Starts, NEW p, p = StartOf(h)
  PROVE  Opens(p, h)
<1>1. PICK M : M = sps.max_lsb
  OBVIOUS
<1>2. h \in [type : stream.types \cap {"IDR", "BLA", "CRA"}, tid : {0}, lsb : {0, M - 2},
             pic_output_flag : {TRUE}, no_output_of_prior_pics_flag : BOOLEAN,
             s0 : {<<>>, <<Elsewhere>>}, s1 : {<<>>}, lt : {<<>>}]
  BY <1>1 DEF Starts
<1>3. h.type \in {"IDR", "BLA", "CRA"} /\ h.s0 \in {<<>>, <<Elsewhere>>} /\ h.s1 = <<>> /\ h.lt = <<>>
  BY <1>2
<1>4. /\ p.type = h.type /\ p.tid = 0 /\ p.pic_output_flag = TRUE /\ p.refs = {} /\ p.long_term = {}
      /\ p.use = {} /\ p.seq = Sequence + 1
      /\ p.joined \in BOOLEAN /\ (p.joined <=> h.type = "CRA" /\ next = "IRAP after a seek")
  BY DEF StartOf
<1>5. Starting(p, h)
  BY StartComes
<1>6. QED BY <1>3, <1>4, <1>5 DEF Opens

LEMMA ContinuationExtends ==
  ASSUME Invariant, next = "any", NEW p \in Continuations, NEW h \in Headers(p)
  PROVE  Extended(p, h)
<1>1. Continuing(p, h)
  BY ContinuationComes
<1>2. PICK type \in {t \in stream.types \ {"IDR", "BLA"} : Follows(t)}, tid \in stream.layers :
        p \in Conceivable(type, tid)
  BY DEF Continuations
<1>3. PICK flags, lts : /\ flags = IF stream.hides THEN BOOLEAN ELSE {TRUE}
                        /\ lts = IF stream.long_term THEN SUBSET Keepable(type) ELSE {{}}
  OBVIOUS
<1>4. p \in [type : {type}, tid : {tid}, poc : NewPocs(type), pic_output_flag : flags,
             refs : SUBSET Keepable(type), use : SUBSET Usable(type, tid), long_term : lts,
             seq : {Sequence}, joined : {Latest.joined}]
  BY <1>2, <1>3 DEF Conceivable
<1>5. /\ p.type = type /\ p.tid = tid /\ p.poc \in NewPocs(type) /\ p.pic_output_flag \in flags
      /\ p.refs \subseteq Keepable(type) /\ p.use \subseteq Usable(type, tid)
      /\ p.seq = Sequence /\ p.joined = Latest.joined
  BY <1>4
<1>6. ~stream.hides => p.pic_output_flag
  BY <1>3, <1>5
<1>7. /\ p.use \subseteq p.refs /\ p.long_term \subseteq p.refs
      /\ Latest.long_term \cap p.refs \subseteq p.long_term
      /\ \A n \in p.long_term : ~IsLeading(sent[n].type)
      /\ KeepsPromises(Append(sent, p))
  BY DEF Continuations
<1>8. HasLists(p, h)
  BY DEF Headers, HasLists
<1>9. Follows(p.type)
  BY <1>2, <1>5
<1>10. QED BY <1>1, <1>5, <1>6, <1>7, <1>8, <1>9 DEF Extended

LEMMA Coming ==
  ASSUME Invariant, NEW p, NEW h, Comes(p, h)
  PROVE  Opens(p, h) \/ Extended(p, h)
  BY StartOpens, ContinuationExtends DEF Comes

(* Of a sequence the first picture is a random access point.               *)
LEMMA LastIrapFacts ==
  ASSUME TypesRight, StreamRight, sent # <<>>
  PROVE  LastIrap \in Numbers /\ IsIrap(sent[LastIrap].type)
         /\ \A n \in Numbers : IsIrap(sent[n].type) => n <= LastIrap
<1> DEFINE S == {n \in Numbers : IsIrap(sent[n].type)}
<1>1. Numbers \subseteq DOMAIN sent /\ IsFiniteSet(Numbers) /\ Numbers \subseteq Nat \ {0}
  BY SentTypes
<1>2. S # {}
  BY DEF StreamRight
<1>3. IsFiniteSet(S)
  BY <1>1, FS_Subset
<1>4. S \in SUBSET Int
  BY <1>1
<1>5. LastIrap = Max(S)
  BY DEF LastIrap
<1> HIDE DEF S
<1>6. Max(S) \in S /\ \A y \in S : y <= Max(S)
  BY <1>2, <1>3, <1>4, Extremes
<1>7. LastIrap \in S /\ \A y \in S : y <= LastIrap
  BY <1>5, <1>6
<1>8. QED BY <1>7 DEF S

-----------------------------------------------------------------------------
(* The references are there.                                               *)

Goes == next = "any" /\ outcome = "Ok"
AllLead == \A m, n \in Numbers : m < n => IsLeading(sent[n].type)

SeekRight ==
  /\ next = "IRAP after a seek" => stream.seeks
  /\ sent # <<>> /\ Latest.joined => stream.seeks
ErrorRight == outcome = "Error" => current_pic = NoPicture
LatestRight == sent # <<>> => Latest.refs \subseteq Numbers /\ Latest.use \subseteq Latest.refs
DroppedRight == dropped \cap (DOMAIN dpb.entries \cup Cur) = {}

Close(M, x, y) == x - y \in (1 - (M \div 2))..((M \div 2) - 1)
(* Until a picture comes that does not lead, all are near the first.       *)
NearRight ==
  Goes /\ AllLead =>
    \A m, n \in Numbers : ~IsLeading(sent[n].type) =>
      Close(sps.max_lsb, Poc(m), Poc(n))
(* RASL pictures are dropped after the first picture of a sequence only.   *)
FlagRight == Goes /\ irap_no_rasl_output_flag => \A m, n \in Numbers : m < n => ~IsIrap(sent[n].type)

(* Order counts are off by a multiple of their range, and at all only in a *)
(* sequence that was joined.                                               *)
Divides(M, x) == x % M = 0
MsbRight ==
  LastTid0 # NoPicture =>
    /\ stream.seeks => \A set \in stream.sets : Divides(set.max_lsb, LastTid0.msb)
    /\ Goes => Divides(sps.max_lsb, LastTid0.msb)
JoinedRight == Goes => LastTid0.poc = Poc(Anchor) \/ Latest.joined

(* What may be kept is in the buffer, but for what was dropped, and with   *)
(* nothing else, or with pictures that lead only.                          *)
KeptRight ==
  Goes =>
    /\ Kept \ dropped \subseteq References(dpb) \cup Cur
    /\ IF current_pic # NoPicture THEN References(dpb) \subseteq Latest.refs
                                  ELSE AllLead \/ References(dpb) \subseteq Kept
    /\ \A n \in Kept \cap DOMAIN dpb.entries :
         dpb.entries[n].reference = "LongTerm" => n \in Latest.long_term
    /\ \A n \in Kept \cap dropped : sent[n].type = "RASL" /\ irap_no_rasl_output_flag

CountMeant(poc) ==
  \/ poc = Latest.poc
  \/ Latest.joined /\ \A set \in stream.sets : Divides(set.max_lsb, poc - Latest.poc)
SetMeant(rps) ==
  \/ \E p \in {Latest} : rps = Meant(p)
  \/ /\ Latest.refs = {} /\ RpsPictures(rps) = {}
     /\ rps.st_curr_before = <<>> /\ rps.st_curr_after = <<>> /\ rps.lt_curr = <<>>
RpsRight ==
  current_pic # NoPicture =>
    /\ CountMeant(current_pic.pic.poc)
    /\ SetMeant(current_pic.rps)
    /\ Latest.use \subseteq References(dpb) /\ Latest.use \cap dropped = {}

RefsRight ==
  /\ SeekRight /\ ErrorRight /\ LatestRight /\ DroppedRight /\ NearRight /\ FlagRight
  /\ MsbRight /\ JoinedRight /\ KeptRight /\ RpsRight

-----------------------------------------------------------------------------
(* What a step leaves of these.                                            *)

LEMMA MeantStays ==
  ASSUME NEW p, Before(p)' = Before(p), After(p)' = After(p), dropped' = dropped
  PROVE  Meant(p)' = Meant(p)
  BY DEF Meant, Found, LongTerms

LEMMA SameStream ==
  ASSUME UNCHANGED <<sent, stream, dropped>>
  PROVE  /\ Numbers' = Numbers /\ Sequence' = Sequence /\ Latest' = Latest /\ Anchor' = Anchor
         /\ Kept' = Kept /\ AllLead' = AllLead /\ (\A n : Poc(n)' = Poc(n)) /\ LatestRight' = LatestRight
         /\ \A p : Meant(p)' = Meant(p)
<1>1. Numbers' = Numbers /\ Sequence' = Sequence /\ Latest' = Latest /\ Kept' = Kept
  BY DEF Numbers, Sequence, Latest, OfSequence, Kept
<1>2. \A n : Poc(n)' = Poc(n)
  BY DEF Poc
<1>3. Anchor' = Anchor /\ AllLead' = AllLead
  BY <1>1 DEF Anchor, AllLead
<1>4. \A p : Meant(p)' = Meant(p)
  <2> TAKE p
  <2>1. Before(p)' = Before(p) /\ After(p)' = After(p)
    BY DEF Before, After, Poc, InOrder
  <2>2. QED BY <2>1, MeantStays
<1>5. LatestRight' = LatestRight
  BY <1>1 DEF LatestRight
<1>6. QED BY <1>1, <1>2, <1>3, <1>4, <1>5

LEMMA IdlesRefs ==
  ASSUME Invariant, RefsRight, Idles
  PROVE  RefsRight'
<1>1. /\ UNCHANGED <<dpb, current_pic, prev_tid_0_pic, ready_queue, outcome, stream, sent, dropped,
                     irap_no_rasl_output_flag>>
      /\ next' # "any" \/ (next' = next /\ sps' = sps)
      /\ next' = "IRAP after a seek" => next = "IRAP after a seek"
  BY DEF Idles
<1>2. /\ Numbers' = Numbers /\ Latest' = Latest /\ Anchor' = Anchor
      /\ Kept' = Kept /\ AllLead' = AllLead /\ (\A n : Poc(n)' = Poc(n)) /\ LatestRight' = LatestRight
      /\ \A p : Meant(p)' = Meant(p)
  BY <1>1, SameStream
<1>3. Cur' = Cur /\ LastTid0' = LastTid0
  BY <1>1 DEF Cur, LastTid0
<1>4. Goes' => Goes /\ sps' = sps
  BY <1>1 DEF Goes
<1>5. SeekRight' /\ ErrorRight' /\ LatestRight' /\ DroppedRight'
  BY <1>1, <1>2, <1>3 DEF RefsRight, SeekRight, ErrorRight, DroppedRight
<1>6. NearRight'
  BY <1>1, <1>2, <1>4 DEF RefsRight, NearRight
<1>7. FlagRight'
  BY <1>1, <1>2, <1>4 DEF RefsRight, FlagRight
<1>8. MsbRight'
  BY <1>1, <1>3, <1>4 DEF RefsRight, MsbRight
<1>9. JoinedRight'
  <2>1. Poc(Anchor)' = Poc(Anchor)
    BY <1>1, <1>2 DEF Poc
  <2>2. QED BY <1>2, <1>3, <1>4, <2>1 DEF RefsRight, JoinedRight
<1>10. KeptRight'
  BY <1>1, <1>2, <1>3, <1>4 DEF RefsRight, KeptRight
<1>11. RpsRight'
  BY <1>1, <1>2 DEF RefsRight, RpsRight, CountMeant, SetMeant
<1>12. QED BY <1>5, <1>6, <1>7, <1>8, <1>9, <1>10, <1>11 DEF RefsRight

LEMMA FailsRefs ==
  ASSUME Invariant, RefsRight, Fails
  PROVE  RefsRight'
<1>1. /\ UNCHANGED <<dpb, stream, sent, dropped, irap_no_rasl_output_flag, next, sps>>
      /\ current_pic' = NoPicture /\ outcome' = "Error" /\ prev_tid_0_pic' = LastTid0
  BY DEF Fails
<1>2. Numbers' = Numbers /\ Latest' = Latest /\ LatestRight' = LatestRight
  BY <1>1, SameStream
<1>3. Cur' = {} /\ LastTid0' = LastTid0
  BY <1>1 DEF Cur, LastTid0
<1>4. ~Goes'
  BY <1>1 DEF Goes
<1>5. SeekRight' /\ ErrorRight' /\ LatestRight' /\ DroppedRight'
  BY <1>1, <1>2, <1>3 DEF RefsRight, SeekRight, ErrorRight, DroppedRight
<1>6. NearRight' /\ FlagRight' /\ JoinedRight' /\ KeptRight'
  BY <1>4 DEF NearRight, FlagRight, JoinedRight, KeptRight
<1>7. MsbRight'
  BY <1>1, <1>3, <1>4 DEF RefsRight, MsbRight
<1>8. RpsRight'
  BY <1>1 DEF RpsRight
<1>9. QED BY <1>5, <1>6, <1>7, <1>8 DEF RefsRight

(* What is kept once the picture before has been finished.                 *)
KeptIn(s) ==
  /\ Kept \ dropped \subseteq References(s.dpb)
  /\ AllLead \/ References(s.dpb) \subseteq Kept
  /\ \A n \in Kept \cap DOMAIN s.dpb.entries :
       s.dpb.entries[n].reference = "LongTerm" => n \in Latest.long_term
  /\ \A n \in Kept \cap dropped : sent[n].type = "RASL" /\ irap_no_rasl_output_flag
  /\ dropped \cap DOMAIN s.dpb.entries = {}

LEMMA FinishedKept ==
  ASSUME Invariant, RefsRight, Goes, NEW s, Finishes(s)
  PROVE  KeptIn(s)
<1>1. /\ References(s.dpb) = References(dpb) \cup Cur
      /\ \A n \in DOMAIN s.dpb.entries :
           /\ n \in DOMAIN dpb.entries \cup Cur
           /\ s.dpb.entries[n].reference = IF n \in Cur THEN "ShortTerm" ELSE dpb.entries[n].reference
  BY DEF Finishes, Stored
<1>2. KeptRight /\ DroppedRight
  BY DEF RefsRight
<1>3. Kept \ dropped \subseteq References(s.dpb)
  BY <1>1, <1>2 DEF KeptRight
<1>4. AllLead \/ References(s.dpb) \subseteq Kept
  <2>1. CASE current_pic = NoPicture
    BY <1>1, <1>2, <2>1 DEF KeptRight, Cur
  <2>2. CASE current_pic # NoPicture
    <3>1. Cur = {Len(sent)}
      BY <2>2 DEF Cur, Invariant, PlacesRight
    <3>2. QED BY <1>1, <1>2, <2>2, <3>1 DEF KeptRight, Kept
  <2>3. QED BY <2>1, <2>2
<1>5. \A n \in Kept \cap DOMAIN s.dpb.entries :
        s.dpb.entries[n].reference = "LongTerm" => n \in Latest.long_term
  <2> TAKE n \in Kept \cap DOMAIN s.dpb.entries
  <2> HAVE s.dpb.entries[n].reference = "LongTerm"
  <2>1. n \notin Cur
    BY <1>1
  <2>2. n \in DOMAIN dpb.entries /\ dpb.entries[n].reference = "LongTerm"
    BY <1>1, <2>1
  <2>3. QED BY <1>2, <2>2 DEF KeptRight
<1>6. dropped \cap DOMAIN s.dpb.entries = {}
  BY <1>1, <1>2 DEF DroppedRight
<1>7. QED BY <1>2, <1>3, <1>4, <1>5, <1>6 DEF KeptIn, KeptRight

LEMMA SettlesRefs ==
  ASSUME Invariant, RefsRight, NEW s, NEW t, Settles(s, t)
  PROVE  RefsRight'
<1>1. /\ Finishes(s) /\ Keep(t) /\ current_pic' = NoPicture
      /\ outcome = "Ok" /\ outcome' = "Ok"
      /\ UNCHANGED <<stream, sent, dropped, irap_no_rasl_output_flag>>
      /\ (t = s /\ next' = next /\ sps' = sps) \/ (t = DrainAll(s) /\ next' # "any")
      /\ next' = "IRAP after a seek" => next = "IRAP after a seek" \/ stream.seeks
  BY DEF Settles
<1>2. Resumed(s) /\ s.prev_tid_0_pic = LastTid0
  BY <1>1 DEF Finishes, Resumed, Settled
<1>3. t.prev_tid_0_pic = LastTid0 /\ DOMAIN t.dpb.entries \subseteq DOMAIN s.dpb.entries
  <2>1. CASE t = s
    BY <1>2, <2>1
  <2>2. CASE t = DrainAll(s)
    <3>1. Settled(t) /\ t.dpb = EmptyDpb(s.dpb.max_num_pics)
      BY <1>2, <2>2, DrainedFacts
    <3>2. DOMAIN t.dpb.entries = {}
      BY <3>1 DEF EmptyDpb
    <3>3. QED BY <3>1, <3>2 DEF Settled
  <2>3. QED BY <1>1, <2>1, <2>2
<1>4. dpb' = t.dpb /\ prev_tid_0_pic' = LastTid0
  BY <1>1, <1>3 DEF Keep
<1>5. Numbers' = Numbers /\ Latest' = Latest /\ LatestRight' = LatestRight /\ Kept' = Kept
      /\ Anchor' = Anchor /\ AllLead' = AllLead /\ (\A n : Poc(n)' = Poc(n))
  BY <1>1, SameStream
<1>6. Cur' = {} /\ LastTid0' = LastTid0
  BY <1>1, <1>4 DEF Cur, LastTid0
<1>7. Goes' => Goes /\ sps' = sps /\ t = s
  BY <1>1 DEF Goes
<1>8. SeekRight' /\ ErrorRight' /\ LatestRight'
  BY <1>1, <1>5 DEF RefsRight, SeekRight, ErrorRight
<1>9. DroppedRight'
  <2>1. \A n \in DOMAIN s.dpb.entries : n \in DOMAIN dpb.entries \cup Cur
    BY <1>1 DEF Finishes, Stored
  <2>2. QED BY <1>1, <1>3, <1>4, <1>6, <2>1 DEF RefsRight, DroppedRight
<1>10. NearRight'
  BY <1>1, <1>5, <1>7 DEF RefsRight, NearRight
<1>11. FlagRight'
  BY <1>1, <1>5, <1>7 DEF RefsRight, FlagRight
<1>12. MsbRight'
  BY <1>1, <1>6, <1>7 DEF RefsRight, MsbRight
<1>13. JoinedRight'
  <2>1. Poc(Anchor)' = Poc(Anchor)
    BY <1>1, <1>5 DEF Poc
  <2>2. QED BY <1>5, <1>6, <1>7, <2>1 DEF RefsRight, JoinedRight
<1>14. KeptRight'
  <2>1. SUFFICES ASSUME Goes' PROVE KeptRight'
    BY DEF KeptRight
  <2>2. KeptIn(s) /\ dpb' = s.dpb
    BY <1>1, <1>4, <1>7, <2>1, FinishedKept
  <2>3. QED BY <1>1, <1>5, <1>6, <2>2 DEF KeptRight, KeptIn
<1>15. RpsRight'
  BY <1>1 DEF RpsRight
<1>16. QED BY <1>8, <1>9, <1>10, <1>11, <1>12, <1>13, <1>14, <1>15 DEF RefsRight

-----------------------------------------------------------------------------
(* What divides an order count.                                            *)

LEMMA Multiple ==
  ASSUME NEW M \in Nat \ {0}, NEW k \in Int
  PROVE  k # 0 => M * k >= M \/ M * k <= -M
  OBVIOUS

LEMMA SmallMultiple ==
  ASSUME NEW M \in Nat \ {0}, NEW a \in Int, NEW b \in Int, NEW r \in Int, -M < r, r < M,
         M * a = M * b + r
  PROVE  a = b /\ r = 0
<1>1. PICK k \in Int : k = a - b
  OBVIOUS
<1>2. M * k = r
  <2>1. M * k = M * a - M * b
    BY <1>1
  <2>2. M * a \in Int /\ M * b \in Int
    OBVIOUS
  <2>3. QED BY <2>1, <2>2
<1>3. k = 0
  <2>1. k # 0 => r >= M \/ r <= -M
    BY <1>2, Multiple
  <2>2. QED BY <2>1
<1>4. a = b
  BY <1>1, <1>3
<1>5. M * a = M * b /\ M * b \in Int
  BY <1>4
<1>6. QED BY <1>4, <1>5

LEMMA DividesMeans ==
  ASSUME NEW M \in Nat \ {0}, NEW x \in Int
  PROVE  Divides(M, x) <=> \E k \in Int : x = M * k
<1>1. /\ x % M \in 0..(M - 1) /\ (x \div M) \in Int /\ x = M * (x \div M) + (x % M)
  BY DivMod
<1>2. PICK q \in Int, r \in 0..(M - 1) : q = x \div M /\ r = x % M /\ x = M * q + r
  BY <1>1
<1>3. r = 0 => x = M * q
  <2>1. M * q \in Int
    OBVIOUS
  <2>2. QED BY <1>2, <2>1
<1>4. ASSUME NEW k \in Int, x = M * k PROVE r = 0
  <2>1. M * k = M * q + r /\ -M < r /\ r < M /\ r \in Int
    BY <1>2, <1>4
  <2>2. QED BY <2>1, SmallMultiple
<1>5. QED BY <1>2, <1>3, <1>4 DEF Divides

LEMMA DividesSum ==
  ASSUME NEW M \in Nat \ {0}, NEW x \in Int, NEW y \in Int, Divides(M, x), Divides(M, y)
  PROVE  Divides(M, x + y) /\ Divides(M, x - y)
<1>1. PICK a \in Int, b \in Int : x = M * a /\ y = M * b
  BY DividesMeans
<1>2. x + y = M * (a + b) /\ x - y = M * (a - b) /\ a + b \in Int /\ a - b \in Int
  BY <1>1
<1>3. x + y \in Int /\ x - y \in Int
  OBVIOUS
<1>4. PICK u \in Int, v \in Int : u = x + y /\ v = x - y
  BY <1>3
<1>5. Divides(M, u) /\ Divides(M, v)
  BY <1>2, <1>4, DividesMeans
<1>6. QED BY <1>4, <1>5

LEMMA DividesItself ==
  ASSUME NEW M \in Nat \ {0}
  PROVE  Divides(M, M) /\ Divides(M, 0) /\ Divides(M, -M)
<1>1. M = M * 1 /\ 0 = M * 0 /\ -M = M * (-1)
  OBVIOUS
<1>2. Divides(M, M)
  BY <1>1, DividesMeans
<1>3. Divides(M, 0)
  BY <1>1, DividesMeans
<1>4. PICK n \in Int : n = -M
  OBVIOUS
<1>5. Divides(M, n)
  BY <1>1, <1>4, DividesMeans
<1>6. QED BY <1>2, <1>3, <1>4, <1>5

LEMMA SameLowBits ==
  ASSUME NEW M \in Nat \ {0}, NEW x \in Int, NEW y \in Int
  PROVE  Divides(M, x - y) <=> x % M = y % M
<1>1. PICK a \in Int, r \in 0..(M - 1) : r = x % M /\ x = M * a + r
  BY DivMod
<1>2. PICK b \in Int, q \in 0..(M - 1) : q = y % M /\ y = M * b + q
  BY DivMod
<1>3. PICK z \in Int : z = x - y
  OBVIOUS
<1>4. M * a \in Int /\ M * b \in Int /\ z = M * (a - b) + (r - q)
  BY <1>1, <1>2, <1>3
<1>5. ASSUME r = q PROVE Divides(M, z)
  <2>1. z = M * (a - b) /\ a - b \in Int
    BY <1>4, <1>5
  <2>2. QED BY <2>1, DividesMeans
<1>6. ASSUME Divides(M, z) PROVE r = q
  <2>1. PICK k \in Int : z = M * k
    BY <1>6, DividesMeans
  <2>2. PICK c \in Int, d \in Int : c = a - b /\ d = r - q /\ -M < d /\ d < M
    OBVIOUS
  <2>3. M * k = M * c + d
    BY <1>4, <2>1, <2>2
  <2>4. d = 0
    BY <2>2, <2>3, SmallMultiple
  <2>5. QED BY <2>2, <2>4
<1>7. QED BY <1>1, <1>2, <1>3, <1>5, <1>6

LEMMA SmallDivides ==
  ASSUME NEW M \in Nat \ {0}, NEW x \in Int, Divides(M, x), -M < x, x < M
  PROVE  x = 0
<1>1. PICK k \in Int : x = M * k
  BY DividesMeans
<1>2. k # 0 => x >= M \/ x <= -M
  BY <1>1, Multiple
<1>3. k = 0
  BY <1>2
<1>4. QED BY <1>1, <1>3

-----------------------------------------------------------------------------
(* A sequence starts.                                                      *)

LEMMA NoUsedPlaces ==
  ASSUME NEW list, list \in {<<>>, <<Elsewhere>>}
  PROVE  HasEntries(list, IF list = <<>> THEN 0 ELSE 1) /\ UsedPlaces(list, TRUE) = {}
<1>1. CASE list = <<>>
  BY <1>1, NothingNamed DEF UsedPlaces
<1>2. CASE list = <<Elsewhere>> /\ list # <<>>
  <2>1. DOMAIN list = 1..1 /\ list[1].used = FALSE
    BY <1>2 DEF Elsewhere
  <2>2. \A i \in 1..1 : i = 1
    OBVIOUS
  <2>3. HasEntries(list, 1)
    BY <2>1, <2>2 DEF HasEntries
  <2>4. \A i \in DOMAIN list : list[i].used # TRUE
    BY <2>1, <2>2
  <2>5. UsedPlaces(list, TRUE) = {}
    BY <2>4 DEF UsedPlaces
  <2>6. QED BY <1>2, <2>3, <2>5
<1>3. QED BY <1>1, <1>2

LEMMA EmptyList ==
  ASSUME NEW list, IsListOf(list, 0)
  PROVE  list = <<>> /\ Range(list) = {}
<1>1. list \in Seq(Nat) /\ Len(list) = 0
  BY DEF IsListOf
<1>2. list = <<>>
  BY <1>1, EmptySeq
<1>3. QED BY <1>2 DEF Range

LEMMA NothingUsed ==
  ASSUME NEW d, IsBuffer(d), NEW pic, NEW list, list \in {<<>>, <<Elsewhere>>}
  PROVE  /\ FoundShortTerm(d, PocsOf(pic, list, TRUE)) = <<>>
         /\ list = <<>> => \A used \in BOOLEAN : FoundLongTerm(d, pic, list, used) = <<>>
<1>1. PICK n : n = IF list = <<>> THEN 0 ELSE 1
  OBVIOUS
<1>2. HasEntries(list, n) /\ UsedPlaces(list, TRUE) = {} /\ Cardinality(UsedPlaces(list, TRUE)) = 0
  BY <1>1, NoUsedPlaces, FS_EmptySet
<1>3. IsListOf(FoundShortTerm(d, PocsOf(pic, list, TRUE)), Cardinality(UsedPlaces(list, TRUE)))
  BY <1>2, FoundShortTermList
<1>4. FoundShortTerm(d, PocsOf(pic, list, TRUE)) = <<>>
  BY <1>2, <1>3, EmptyList
<1>5. ASSUME list = <<>>, NEW used \in BOOLEAN PROVE FoundLongTerm(d, pic, list, used) = <<>>
  <2>1. UsedPlaces(list, used) = {}
    BY <1>5 DEF UsedPlaces
  <2>2. Cardinality(UsedPlaces(list, used)) = 0
    BY <2>1, FS_EmptySet
  <2>3. IsListOf(FoundLongTerm(d, pic, list, used), Cardinality(UsedPlaces(list, used)))
    BY <1>2, <1>5, FoundLongTermList
  <2>4. QED BY <2>2, <2>3, EmptyList
<1>6. QED BY <1>4, <1>5

LEMMA NothingFound ==
  ASSUME NEW d, IsBuffer(d), References(d) = {}, NEW pic, NEW h,
         h.s0 \in {<<>>, <<Elsewhere>>}, h.s1 = <<>>, h.lt = <<>>,
         NEW m, m = DeriveAndMark(d, pic, h)
  PROVE  /\ RpsPictures(m.rps) = {}
         /\ m.rps.st_curr_before = <<>> /\ m.rps.st_curr_after = <<>> /\ m.rps.lt_curr = <<>>
<1>1. PICK e : e = LongTermMarked(d, pic, h)
  OBVIOUS
<1>2. /\ m.rps.lt_curr = FoundLongTerm(d, pic, h.lt, TRUE)
      /\ m.rps.lt_foll = FoundLongTerm(d, pic, h.lt, FALSE)
      /\ m.rps.st_curr_before = FoundShortTerm(e, PocsOf(pic, h.s0, TRUE))
      /\ m.rps.st_curr_after = FoundShortTerm(e, PocsOf(pic, h.s1, TRUE))
      /\ m.rps.st_foll = FoundShortTerm(e, PocsOf(pic, h.s0, FALSE) \o PocsOf(pic, h.s1, FALSE))
  BY <1>1 DEF DeriveAndMark, LongTermMarked
<1>3. m.rps.lt_curr = <<>> /\ m.rps.lt_foll = <<>>
  <2>1. FoundLongTerm(d, pic, h.lt, TRUE) = <<>> /\ FoundLongTerm(d, pic, h.lt, FALSE) = <<>>
    BY NothingUsed
  <2>2. QED BY <1>2, <2>1
<1>4. PICK named : named = Range(FoundLongTerm(d, pic, h.lt, TRUE)) \cup Range(FoundLongTerm(d, pic, h.lt, FALSE))
  OBVIOUS
<1>5. named = {}
  <2>1. Range(<<>>) = {}
    BY DEF Range
  <2>2. named = Range(m.rps.lt_curr) \cup Range(m.rps.lt_foll)
    BY <1>2, <1>4
  <2>3. QED BY <1>3, <2>1, <2>2
<1>6. e = MarkAs(d, named, "LongTerm")
  BY <1>1, <1>4 DEF LongTermMarked
<1>7. /\ Remarked(d, e)
      /\ \A i \in DOMAIN d.entries : e.entries[i].reference = d.entries[i].reference
  <2>1. "LongTerm" \in Marks
    BY DEF Marks
  <2>2. /\ Remarked(d, e)
        /\ \A i \in DOMAIN d.entries :
             e.entries[i].reference = IF i \in named THEN "LongTerm" ELSE d.entries[i].reference
    BY <1>6, <2>1, MarkAsFacts
  <2>3. QED BY <1>5, <2>2
<1>8. IsBuffer(e) /\ DOMAIN e.entries = DOMAIN d.entries
  BY <1>7 DEF Remarked
<1>9. \A i \in DOMAIN e.entries : e.entries[i].reference = "None"
  BY <1>7, <1>8, PlaceSets
<1>10. \A poc : FindShortTermRefByPoc(e, poc) = Missing
  <2> TAKE poc
  <2>1. PICK S : S = {n \in DOMAIN e.entries : e.entries[n].reference = "ShortTerm" /\ PocOf(e, n) = poc}
    OBVIOUS
  <2>2. S = {}
    BY <1>9, <2>1
  <2>3. FindShortTermRefByPoc(e, poc) = First(S)
    BY <2>1 DEF FindShortTermRefByPoc, At, PocOf
  <2>4. QED BY <2>2, <2>3 DEF First
<1>11. m.rps.st_curr_before = <<>> /\ m.rps.st_curr_after = <<>>
  <2>1. FoundShortTerm(e, PocsOf(pic, h.s0, TRUE)) = <<>>
    BY <1>8, NothingUsed
  <2>2. FoundShortTerm(e, PocsOf(pic, h.s1, TRUE)) = <<>>
    BY <1>8, NothingUsed
  <2>3. QED BY <1>2, <2>1, <2>2
<1>12. Range(m.rps.st_foll) \subseteq {Missing}
  <2>1. PICK pocs : pocs = PocsOf(pic, h.s0, FALSE) \o PocsOf(pic, h.s1, FALSE)
    OBVIOUS
  <2>2. m.rps.st_foll = [i \in DOMAIN pocs |-> Missing]
    BY <1>2, <1>10, <2>1 DEF FoundShortTerm
  <2>3. QED BY <2>2 DEF Range
<1>13. RpsPictures(m.rps) = {}
  <2>1. Range(<<>>) = {}
    BY DEF Range
  <2>2. QED BY <1>3, <1>11, <1>12, <2>1 DEF RpsPictures
<1>14. QED BY <1>3, <1>11, <1>13

LEMMA DecodeFindsNothing ==
  ASSUME NEW d, IsBuffer(d), NEW pic, StartsClean(pic) \/ DOMAIN d.entries = {}, NEW h, IsHeader(h),
         h.s0 \in {<<>>, <<Elsewhere>>}, h.s1 = <<>>, h.lt = <<>>,
         NEW m, m = DecodeRps(d, pic, h)
  PROVE  /\ RpsPictures(m.rps) = {}
         /\ m.rps.st_curr_before = <<>> /\ m.rps.st_curr_after = <<>> /\ m.rps.lt_curr = <<>>
<1>1. PICK e : e = IF StartsClean(pic) THEN MarkAllAsUnusedForRef(d) ELSE d
  OBVIOUS
<1>2. PICK g : g = IF h.type = "IDR" THEN [h EXCEPT !.s0 = <<>>, !.s1 = <<>>, !.lt = <<>>] ELSE h
  OBVIOUS
<1>3. m = DeriveAndMark(e, pic, g)
  BY <1>1, <1>2 DEF DecodeRps, StartsClean
<1>4. IsBuffer(e) /\ References(e) = {}
  <2>1. CASE StartsClean(pic)
    BY <1>1, <2>1, AllUnmarkedFacts DEF Remarked
  <2>2. CASE ~StartsClean(pic)
    BY <1>1, <2>2, PlaceSets
  <2>3. QED BY <2>1, <2>2
<1>5. g.s0 \in {<<>>, <<Elsewhere>>} /\ g.s1 = <<>> /\ g.lt = <<>>
  <2>1. CASE h.type = "IDR"
    BY <1>2, <2>1 DEF IsHeader
  <2>2. CASE h.type # "IDR"
    BY <1>2, <2>2
  <2>3. QED BY <2>1, <2>2
<1>6. QED BY <1>3, <1>4, <1>5, NothingFound

(* The high bits of a picture that starts a sequence.                      *)
LEMMA StartMsb ==
  ASSUME Invariant, RefsRight, JoinsAlike, sps # NoSet, NEW p, NEW h, Opens(p, h),
         max_pic_order_cnt_lsb = sps.max_lsb, NEW pic \in Picture, pic = NewPicture(h, LastTid0)
  PROVE  /\ pic.poc = pic.msb + p.poc /\ pic.msb \in Int /\ pic.poc \in Int /\ p.poc \in Int
         /\ \A set \in stream.sets : (stream.seeks \/ set = sps) => Divides(set.max_lsb, pic.msb)
         /\ pic.msb = 0 \/ p.joined
<1>1. TypesRight /\ sps \in stream.sets /\ \A set \in stream.sets : set.max_lsb \in Nat \ {0, 1}
  BY SetTypes DEF Invariant
<1>2. Starting(p, h) /\ IsHeader(h) /\ LastTid0 \in Picture \cup {NoPicture} /\ p \in Sent
  BY <1>1 DEF Opens, Starting, HeaderOf, LastTid0, TypesRight
<1>3. /\ pic.poc = pic.msb + pic.lsb /\ pic.lsb = h.lsb
      /\ pic.msb = IF StartsSequence(h) \/ LastTid0 = NoPicture
                     THEN 0 ELSE PicOrderCntMsb(h, LastTid0, max_pic_order_cnt_lsb)
      /\ pic.no_rasl_output_flag = NoRaslOutputFlag(h) /\ pic.type = h.type
  BY <1>1, <1>2, NewPictureFacts
<1>4. pic.msb \in Int /\ pic.poc \in Int /\ p.poc \in Int
  BY <1>2 DEF Picture, Sent
<1>5. pic.poc = pic.msb + p.poc
  BY <1>2, <1>3 DEF Starting
<1>6. CASE StartsSequence(h) \/ LastTid0 = NoPicture
  <2>1. pic.msb = 0
    BY <1>3, <1>6
  <2>2. \A set \in stream.sets : Divides(set.max_lsb, 0)
    BY <1>1, DividesItself
  <2>3. pic.msb = 0 \/ p.joined
    BY <2>1
  <2>4. QED BY <1>4, <1>5, <2>1, <2>2
<1>7. CASE ~StartsSequence(h) /\ LastTid0 # NoPicture
  <2>1. ~StartsClean(pic)
    BY <1>3, <1>7 DEF StartsSequence, StartsClean
  <2>2. next = "IRAP after a seek" /\ stream.seeks
    <3>1. StartsClean(pic) \/ next = "IRAP after a seek"
      BY <1>2, StartPicture
    <3>2. QED BY <2>1, <3>1 DEF RefsRight, SeekRight
  <2>3. p.type = "CRA" /\ p.joined
    <3>1. h.type \notin {"IDR", "BLA"}
      BY <1>7 DEF StartsSequence, NoRaslOutputFlag, IsIrap
    <3>2. QED BY <2>2, <3>1 DEF Opens
  <2>4. PICK M : M = sps.max_lsb
    OBVIOUS
  <2>5. M \in Nat \ {0} /\ LastTid0.msb \in Int /\ Divides(M, LastTid0.msb)
    <3>1. LastTid0.msb \in Int
      BY <1>2, <1>7 DEF Picture
    <3>2. Divides(sps.max_lsb, LastTid0.msb)
      BY <1>1, <1>7, <2>2 DEF RefsRight, MsbRight
    <3>3. QED BY <1>1, <2>4, <3>1, <3>2
  <2>6. pic.msb \in {LastTid0.msb + M, LastTid0.msb - M, LastTid0.msb}
    <3>1. pic.msb = PicOrderCntMsb(h, LastTid0, M)
      BY <1>3, <1>7, <2>4
    <3>2. QED BY <3>1 DEF PicOrderCntMsb
  <2>7. Divides(M, pic.msb)
    <3>1. Divides(M, M)
      BY <2>5, DividesItself
    <3>2. PICK x \in Int, y \in Int : x = LastTid0.msb /\ y = M /\ Divides(M, x) /\ Divides(M, y)
      BY <2>5, <3>1
    <3>3. Divides(M, x + y) /\ Divides(M, x - y)
      BY <2>5, <3>2, DividesSum
    <3>4. QED BY <2>5, <2>6, <3>2, <3>3
  <2>8. \A set \in stream.sets : set.max_lsb = M
    BY <1>1, <2>2, <2>4 DEF JoinsAlike
  <2>9. QED BY <1>4, <1>5, <2>3, <2>7, <2>8
<1>8. QED BY <1>6, <1>7

-----------------------------------------------------------------------------
(* What sending p does to the stream.                                      *)
SentOn(p) ==
  /\ sent' = Append(sent, p) /\ next' = "any" /\ outcome = "Ok" /\ outcome' = "Ok"
  /\ UNCHANGED <<sps, stream>>
  /\ Len(sent) \in Nat /\ DOMAIN sent = 1..Len(sent) /\ DOMAIN sent' = DOMAIN sent \cup {Len(sent) + 1}
  /\ Len(sent') = Len(sent) + 1 /\ Len(sent) + 1 \notin DOMAIN sent
  /\ sent'[Len(sent) + 1] = p
  /\ \A n \in DOMAIN sent : sent'[n] = sent[n] /\ Poc(n)' = Poc(n)
  /\ sent' # <<>> /\ Latest' = p /\ Sequence' = p.seq
  /\ Numbers' = IF p.seq = Sequence THEN Numbers \cup {Len(sent) + 1} ELSE {Len(sent) + 1}
  /\ Kept' = p.refs \cup {Len(sent) + 1}

LEMMA Sending ==
  ASSUME Invariant, Invariant', NEW s, NEW p, NEW h, Starting(p, h) \/ Continuing(p, h),
         Begins(s, p, h)
  PROVE  /\ SentOn(p)
         /\ Anchor' = IF CountsAsAnchor(p) THEN Len(sent) + 1 ELSE Anchor
<1>1. TypesRight /\ TypesRight'
  BY DEF Invariant
<1>2. p \in Sent /\ p.refs \subseteq 1..Len(sent) /\ (StartsAnew(p) \/ GoesOnWith(p))
  BY DEF Starting, Continuing
<1>3. /\ sent' = Append(sent, p) /\ next' = "any" /\ outcome = "Ok" /\ outcome' = "Ok"
      /\ UNCHANGED <<sps, stream>>
  BY DEF Begins, Decodable
<1>4. /\ Len(sent') = Len(sent) + 1 /\ Len(sent) \in Nat
      /\ DOMAIN sent = 1..Len(sent)
      /\ DOMAIN sent' = DOMAIN sent \cup {Len(sent) + 1} /\ Len(sent) + 1 \notin DOMAIN sent
      /\ sent'[Len(sent) + 1] = p
      /\ \A n \in DOMAIN sent : sent'[n] = sent[n] /\ Poc(n)' = Poc(n)
      /\ sent' # <<>> /\ Latest' = p /\ Sequence' = p.seq
  BY <1>1, <1>2, <1>3, SentOneMore
<1>5. Numbers' = IF p.seq = Sequence THEN Numbers \cup {Len(sent) + 1} ELSE {Len(sent) + 1}
  BY <1>2, <1>3, SentKeepsStream
<1>6. Anchor' = IF CountsAsAnchor(p) THEN Len(sent) + 1 ELSE Anchor
  BY <1>1, <1>2, <1>3, AnchorMoves
<1>7. Kept' = p.refs \cup {Len(sent) + 1}
  BY <1>4 DEF Kept
<1>8. QED BY <1>3, <1>4, <1>5, <1>6, <1>7 DEF SentOn

LEMMA CloseItself ==
  ASSUME NEW M \in Nat \ {0, 1}, NEW x \in Int
  PROVE  Close(M, x, x)
<1>1. PICK half \in Nat : half = M \div 2 /\ 2 * half <= M /\ M <= 2 * half + 1
  BY Half
<1>2. half >= 1 /\ x - x = 0
  BY <1>1
<1>3. x - x \in (1 - half)..(half - 1)
  BY <1>2
<1>4. QED BY <1>1, <1>3 DEF Close

LEMMA StartRefs ==
  ASSUME Invariant, Invariant', RefsRight, JoinsAlike, sps # NoSet, NEW s, s = Finished, NEW p, NEW h,
         Opens(p, h), DecodePicture(s, p, h)
  PROVE  RefsRight'
<1>1. Starting(p, h) /\ Begins(s, p, h) /\ TypesRight
  BY DEF Opens, DecodePicture, Invariant
<1>2. PICK pic, m, t : pic \in Picture /\ Begun(s, p, h, pic, m, t) /\ Made(s, h, pic, m, t)
  BY <1>1, PictureBegun
<1>3. SentOn(p) /\ Anchor' = IF CountsAsAnchor(p) THEN Len(sent) + 1 ELSE Anchor
  BY <1>1, Sending
<1>4. /\ Resumed(s) /\ sps.max_lsb \in Nat \ {0, 1} /\ max_pic_order_cnt_lsb = sps.max_lsb
      /\ IsBuffer(s.dpb) /\ (next = "IRAP after a seek" => DOMAIN s.dpb.entries = {})
  BY <1>1, BegunResumes DEF Resumed, Settled
<1>5. /\ p.type \in {"IDR", "BLA", "CRA"} /\ h.type = p.type
      /\ p.tid = 0 /\ p.refs = {} /\ p.use = {} /\ p.seq = Sequence + 1
      /\ (p.joined <=> p.type = "CRA" /\ next = "IRAP after a seek")
      /\ p \in Sent /\ IsHeader(h) /\ h.tid = p.tid
  BY DEF Opens, Starting, HeaderOf
<1>6. Sequence \in Nat /\ Numbers' = {Len(sent) + 1} /\ Anchor' = Len(sent) + 1
  <2>1. Sequence \in Nat
    BY <1>1, SentTypes
  <2>2. p.seq # Sequence
    <3>1. PICK k \in Nat : k = Sequence
      BY <2>1
    <3>2. p.seq = k + 1
      BY <1>5, <3>1
    <3>3. QED BY <3>1, <3>2
  <2>3. CountsAsAnchor(p)
    BY <1>5 DEF CountsAsAnchor, IsIrap
  <2>4. QED BY <1>3, <2>1, <2>2, <2>3 DEF SentOn
<1>7. StartsClean(pic) \/ next = "IRAP after a seek"
  BY <1>1, <1>2 DEF Begun
<1>8. dpb' = t.dpb /\ dropped' = dropped \cup t.cleared /\ prev_tid_0_pic' = LastTid0
      /\ current_pic' = [pic |-> pic, rps |-> m.rps] /\ pic.n = Len(sent) + 1
  BY <1>2 DEF Begun, Keep, Updated
<1>9. PICK r : r = [s EXCEPT !.dpb = m.dpb]
  OBVIOUS
<1>10. Updated(r, t, pic) /\ r.dpb = m.dpb /\ DOMAIN m.dpb.entries = DOMAIN s.dpb.entries
  <2>1. Updated(r, t, pic) /\ Remarked(s.dpb, m.dpb)
    BY <1>2, <1>9 DEF Begun
  <2>2. r.dpb = m.dpb
    BY <1>4, <1>9 DEF Resumed
  <2>3. QED BY <2>1, <2>2 DEF Remarked
<1>11. DOMAIN dpb'.entries = {}
  BY <1>4, <1>7, <1>8, <1>10 DEF Updated
<1>12. current_pic' # NoPicture /\ Cur' = {Len(sent) + 1}
  <2>1. TypesRight'
    BY DEF Invariant
  <2>2. current_pic' # NoPicture
    <3>1. m.rps \in RefPicSet
      BY <1>2 DEF Begun
    <3>2. current_pic' \in [pic : Picture, rps : RefPicSet]
      BY <1>2, <1>8, <3>1
    <3>3. QED BY <3>2, H265Assumption
  <2>3. QED BY <1>8, <2>2 DEF Cur
<1>13. Len(sent) + 1 \notin dropped'
  <2>1. dropped \subseteq DOMAIN sent
    BY <1>1 DEF TypesRight
  <2>2. t.cleared \subseteq DOMAIN s.dpb.entries
    BY <1>10, PlaceSets DEF Updated
  <2>3. DOMAIN s.dpb.entries \subseteq DOMAIN sent
    BY <1>1, <1>4, SentTypes DEF Resumed, Settled
  <2>4. QED BY <1>3, <1>8, <2>1, <2>2, <2>3 DEF SentOn
<1>14. /\ pic.poc = pic.msb + p.poc /\ pic.msb \in Int /\ pic.poc \in Int /\ p.poc \in Int
       /\ \A set \in stream.sets : (stream.seeks \/ set = sps) => Divides(set.max_lsb, pic.msb)
       /\ pic.msb = 0 \/ p.joined
  <2>1. pic = NewPicture(h, LastTid0)
    BY <1>2 DEF Begun
  <2>2. QED BY <1>2, <1>4, <2>1, StartMsb
<1>15. LastTid0' = pic
  <2>1. pic.valid_for_prev_tid0_pic
    BY <1>2, <1>5 DEF Begun, ValidForPrevTid0Pic, IsLeading
  <2>2. QED BY <1>8, <1>12, <2>1 DEF LastTid0
<1>16. sps \in stream.sets
  BY <1>1, SetTypes
<1>17. Goes' /\ Latest' = p /\ \A n \in Numbers' : Poc(n)' = p.poc
  <2>1. Goes' /\ Latest' = p
    BY <1>3 DEF Goes, SentOn
  <2>2. ASSUME NEW n \in Numbers' PROVE Poc(n)' = p.poc
    <3>1. n = Len(sent) + 1
      BY <1>6
    <3>2. sent'[n] = p
      BY <1>3, <3>1 DEF SentOn
    <3>3. QED BY <3>2 DEF Poc
  <2>3. QED BY <2>1, <2>2
<1>18. SeekRight'
  BY <1>3, <1>5, <1>17 DEF RefsRight, SeekRight, SentOn
<1>19. ErrorRight' /\ LatestRight'
  BY <1>3, <1>5, <1>17 DEF ErrorRight, LatestRight, SentOn
<1>20. DroppedRight'
  BY <1>11, <1>12, <1>13 DEF DroppedRight
<1>21. NearRight'
  <2>1. Close(sps'.max_lsb, p.poc, p.poc)
    BY <1>3, <1>4, <1>14, CloseItself DEF SentOn
  <2>2. ASSUME NEW a \in Numbers', NEW b \in Numbers' PROVE Close(sps.max_lsb, Poc(a), Poc(b))'
    <3>1. Poc(a)' = p.poc /\ Poc(b)' = p.poc
      BY <1>17, <2>2
    <3>2. QED BY <2>1, <3>1 DEF Close
  <2>3. QED BY <2>2 DEF NearRight
<1>22. FlagRight'
  BY <1>6 DEF FlagRight
<1>23. MsbRight'
  BY <1>3, <1>14, <1>15, <1>16 DEF MsbRight, SentOn
<1>24. JoinedRight'
  <2>1. Poc(Anchor)' = p.poc
    <3>1. PICK k : k = Len(sent) + 1
      OBVIOUS
    <3>2. sent'[k] = p /\ Anchor' = k
      BY <1>3, <1>6, <3>1 DEF SentOn
    <3>3. QED BY <3>2 DEF Poc
  <2>2. pic.msb = 0 => pic.poc = p.poc
    BY <1>14
  <2>3. QED BY <1>14, <1>15, <1>17, <2>1, <2>2 DEF JoinedRight
<1>25. KeptRight'
  <2>1. References(dpb') = {}
    BY <1>11, PlaceSets
  <2>2. References(dpb)' = {}
    BY <2>1
  <2>3. Kept' = {Len(sent) + 1}
    BY <1>3, <1>5 DEF SentOn
  <2>4. QED BY <1>11, <1>12, <1>13, <1>17, <2>2, <2>3 DEF KeptRight
<1>26. RpsRight'
  <2>1. CountMeant(pic.poc)'
    <3>1. pic.msb = 0 => pic.poc = p.poc
      BY <1>14
    <3>2. ASSUME p.joined, NEW set \in stream.sets PROVE Divides(set.max_lsb, pic.poc - p.poc)
      <4>1. stream.seeks
        BY <1>5, <3>2 DEF RefsRight, SeekRight
      <4>2. pic.poc - p.poc = pic.msb
        BY <1>14
      <4>3. QED BY <1>14, <4>1, <4>2
    <3>3. stream' = stream
      BY <1>3 DEF SentOn
    <3>4. QED BY <1>14, <1>17, <3>1, <3>2, <3>3 DEF CountMeant
  <2>2. SetMeant(m.rps)'
    <3>1. h.s0 \in {<<>>, <<Elsewhere>>} /\ h.s1 = <<>> /\ h.lt = <<>>
      BY DEF Opens
    <3>2. m = DecodeRps(s.dpb, pic, h)
      BY <1>2 DEF Made
    <3>3. /\ RpsPictures(m.rps) = {}
          /\ m.rps.st_curr_before = <<>> /\ m.rps.st_curr_after = <<>> /\ m.rps.lt_curr = <<>>
      <4>1. PICK d : d = s.dpb
        OBVIOUS
      <4>2. IsBuffer(d) /\ (StartsClean(pic) \/ DOMAIN d.entries = {}) /\ m = DecodeRps(d, pic, h)
        BY <1>4, <1>7, <3>2, <4>1
      <4>3. IsHeader(h)
        BY <1>5
      <4>4. QED BY <3>1, <4>2, <4>3, DecodeFindsNothing
    <3>4. QED BY <1>5, <1>17, <3>3 DEF SetMeant
  <2>3. Latest'.use = {}
    BY <1>5, <1>17
  <2>4. CountMeant(current_pic.pic.poc)' /\ SetMeant(current_pic.rps)'
    <3>1. current_pic'.pic.poc = pic.poc /\ current_pic'.rps = m.rps
      BY <1>8
    <3>2. PICK u, v : u = current_pic'.pic.poc /\ v = current_pic'.rps
      OBVIOUS
    <3>3. CountMeant(u)' /\ SetMeant(v)'
      BY <2>1, <2>2, <3>1, <3>2
    <3>4. QED BY <3>2, <3>3 DEF CountMeant, SetMeant
  <2>5. QED BY <2>3, <2>4 DEF RpsRight
<1>27. QED BY <1>18, <1>19, <1>20, <1>21, <1>22, <1>23, <1>24, <1>25, <1>26 DEF RefsRight

-----------------------------------------------------------------------------
(* A sequence goes on.                                                     *)

LEMMA LowBitsDivide ==
  ASSUME NEW M \in Nat \ {0}, NEW x \in Int
  PROVE  Divides(M, x - (x % M)) /\ x - (x % M) = M * (x \div M) /\ x % M \in Nat
<1>1. x % M \in 0..(M - 1) /\ (x \div M) \in Int /\ x = M * (x \div M) + (x % M)
  BY DivMod
<1>2. PICK r, k \in Int : r = x % M /\ k = x \div M
  BY <1>1
<1>3. x - r = M * k /\ M * k \in Int /\ r \in Nat
  BY <1>1, <1>2
<1>4. Divides(M, M * k)
  BY <1>3, DividesMeans
<1>5. QED BY <1>2, <1>3, <1>4

(* Where the decoder is when p goes on with the sequence: its order counts *)
(* are off by off.                                                         *)
GoingOn(s, p, h, off) ==
  /\ Extended(p, h) /\ KeptIn(s) /\ Goes
  /\ off \in Int /\ Divides(sps.max_lsb, off)
  /\ off = 0 \/ p.joined
  /\ p.joined => stream.seeks
  /\ sps \in stream.sets /\ sps.max_lsb \in Nat \ {0, 1} /\ max_pic_order_cnt_lsb = sps.max_lsb
  /\ IsBuffer(s.dpb) /\ DOMAIN s.dpb.entries \subseteq Numbers
  /\ \A n \in DOMAIN s.dpb.entries : PocOf(s.dpb, n) = Poc(n) + off
  /\ Kept \subseteq Numbers /\ Numbers \subseteq Nat \ {0} /\ IsFiniteSet(Numbers)
  /\ \A n \in Numbers : Poc(n) \in Int
  /\ \A m, n \in Numbers : Poc(m) = Poc(n) => m = n
  /\ p \in Sent /\ p.refs \subseteq Kept

LEMMA KeepableIsKept ==
  ASSUME NEW type
  PROVE  Keepable(type) \subseteq Kept
  BY DEF Keepable

LEMMA OffIsMultiple ==
  ASSUME Invariant, RefsRight, Goes, NEW off \in Int, Offset(off), sps.max_lsb \in Nat \ {0, 1}
  PROVE  Divides(sps.max_lsb, off) /\ (off = 0 \/ Latest.joined)
<1>1. /\ LastTid0 # NoPicture /\ LastTid0.poc = Poc(Anchor) + off
      /\ LastTid0.poc = LastTid0.msb + LastTid0.lsb /\ LastTid0.lsb = Poc(Anchor) % sps.max_lsb
  BY DEF Offset, Goes
<1>2. Poc(Anchor) \in Int
  <2>1. TypesRight /\ StreamRight /\ sent # <<>>
    BY DEF Invariant, ModesRight, Goes
  <2>2. QED BY <2>1, AnchorFacts
<1>3. LastTid0 \in Picture
  BY <1>1 DEF Invariant, TypesRight, LastTid0
<1>4. Divides(sps.max_lsb, LastTid0.msb)
  BY <1>1 DEF RefsRight, MsbRight
<1>5. PICK M, a, msb, l : M = sps.max_lsb /\ a = Poc(Anchor) /\ msb = LastTid0.msb /\ l = a % M
  OBVIOUS
<1>6. M \in Nat \ {0} /\ a \in Int /\ msb \in Int /\ l \in Nat
  BY <1>2, <1>3, <1>5, LowBitsDivide DEF Picture
<1>7. Divides(M, a - l)
  BY <1>5, <1>6, LowBitsDivide
<1>8. off = msb - (a - l) /\ a - l \in Int
  BY <1>1, <1>5, <1>6
<1>9. Divides(M, msb - (a - l))
  BY <1>4, <1>5, <1>6, <1>7, <1>8, DividesSum
<1>10. off = 0 \/ Latest.joined
  <2>1. LastTid0.poc = Poc(Anchor) => off = 0
    BY <1>1, <1>2
  <2>2. QED BY <2>1 DEF RefsRight, JoinedRight
<1>11. QED BY <1>5, <1>8, <1>9, <1>10

LEMMA SequenceGoesOn ==
  ASSUME Invariant, RefsRight, NEW s, s = Finished, Finishes(s), NEW p, NEW h, Extended(p, h),
         sps # NoSet, Begins(s, p, h)
  PROVE  \E off : GoingOn(s, p, h, off) /\ Offset(off)
<1>1. TypesRight /\ StreamRight /\ ModesRight /\ Continuing(p, h)
  BY DEF Invariant, Extended
<1>2. Goes /\ sent # <<>>
  <2>1. outcome = "Ok" /\ next = "any"
    BY <1>1 DEF Begins, Decodable, Continuing
  <2>2. QED BY <1>1, <2>1 DEF Goes, ModesRight
<1>3. PICK off \in Int : Offset(off)
  BY DEF Invariant, CountsRight
<1>4. /\ Resumed(s) /\ sps.max_lsb \in Nat \ {0, 1} /\ max_pic_order_cnt_lsb = sps.max_lsb
  BY BegunResumes
<1>5. Divides(sps.max_lsb, off) /\ (off = 0 \/ Latest.joined)
  BY <1>2, <1>3, <1>4, OffIsMultiple
<1>6. p.joined = Latest.joined /\ (Latest.joined => stream.seeks) /\ p \in Sent
  BY <1>1, <1>2 DEF Extended, RefsRight, SeekRight, Continuing
<1>7. KeptIn(s)
  BY <1>2, FinishedKept
<1>8. sps \in stream.sets
  BY <1>1, SetTypes
<1>9. /\ IsBuffer(s.dpb) /\ DOMAIN s.dpb.entries \subseteq Numbers
      /\ \A n \in DOMAIN s.dpb.entries : PocOf(s.dpb, n) = Poc(n) + off
  BY <1>3, <1>4 DEF Resumed, Settled
<1>10. /\ Numbers \subseteq Nat \ {0} /\ IsFiniteSet(Numbers)
       /\ \A n \in Numbers : Poc(n) \in Int
       /\ \A m, n \in Numbers : Poc(m) = Poc(n) => m = n
       /\ Len(sent) \in Numbers
  <2>1. /\ Numbers \subseteq Nat \ {0} /\ IsFiniteSet(Numbers) /\ Numbers \subseteq DOMAIN sent
        /\ \A n \in DOMAIN sent : Poc(n) \in Int
        /\ Len(sent) \in Numbers
    BY <1>1, <1>2, SentTypes
  <2>2. \A m, n \in Numbers : Poc(m) = Poc(n) => m = n
    BY <1>1 DEF StreamRight
  <2>3. QED BY <2>1, <2>2
<1>11. Kept \subseteq Numbers
  BY <1>2, <1>10 DEF RefsRight, LatestRight, Kept
<1>12. p.refs \subseteq Kept
  BY KeepableIsKept DEF Extended
<1>13. QED BY <1>2, <1>3, <1>4, <1>5, <1>6, <1>7, <1>8, <1>9, <1>10, <1>11, <1>12 DEF GoingOn

(* What the header says of a long-term picture, in full.                   *)
InFull(M, off, a, b, cycle) ==
  (b % M) + (a + off) - (cycle * M) - ((a + off) % M) = b + off
LEMMA FullCount ==
  ASSUME NEW M \in Nat \ {0, 1}, NEW off \in Int, Divides(M, off), NEW a \in Int, NEW b \in Int,
         NEW cycle, cycle = (a - (a % M) - b + (b % M)) \div M
  PROVE  InFull(M, off, a, b, cycle)
<1>1. PICK la \in Nat, lb \in Nat, ka \in Int, kb \in Int :
        /\ la = a % M /\ lb = b % M
        /\ a - la = M * ka /\ b - lb = M * kb
  <2>1. (a \div M) \in Int /\ (b \div M) \in Int
    BY DivMod
  <2>2. QED BY <2>1, LowBitsDivide
<1>2. (a + off) % M = la
  <2>1. PICK x \in Int : x = a + off
    OBVIOUS
  <2>2. x - a = off
    BY <2>1
  <2>3. x % M = a % M
    BY <2>2, SameLowBits
  <2>4. QED BY <1>1, <2>1, <2>3
<1>3. PICK k \in Int : k = ka - kb /\ a - la - b + lb = M * k
  BY <1>1
<1>4. cycle = (M * k) \div M
  BY <1>1, <1>3
<1>5. cycle = k
  BY <1>4
<1>6. cycle * M = M * k /\ M * k \in Int
  BY <1>5
<1>7. PICK c \in Int : c = cycle * M
  BY <1>6
<1>8. lb + (a + off) - c - la = b + off
  BY <1>1, <1>3, <1>6, <1>7
<1>9. QED BY <1>1, <1>2, <1>7, <1>8 DEF InFull

(* The searches for what p keeps find it, and nothing for what was dropped.*)
FoundOrLost(x, n) == x = IF n \in dropped THEN Missing ELSE n

RefsAt(d, poc) == {k \in References(d) : PocOf(d, k) = poc}
RefsMasked(d, poc, max_lsb) == {k \in References(d) : PocOf(d, k) % max_lsb = poc}
ShortTermsAt(d, poc) ==
  {k \in DOMAIN d.entries : d.entries[k].reference = "ShortTerm" /\ PocOf(d, k) = poc}
LEMMA SearchesFindThese ==
  ASSUME NEW d, IsBuffer(d)
  PROVE  /\ \A poc : FindRefByPoc(d, poc) = First(RefsAt(d, poc))
         /\ \A poc, max_lsb : FindRefByPocMasked(d, poc, max_lsb) = First(RefsMasked(d, poc, max_lsb))
         /\ \A poc : FindShortTermRefByPoc(d, poc) = First(ShortTermsAt(d, poc))
<1>1. ASSUME NEW poc PROVE FindRefByPoc(d, poc) = First(RefsAt(d, poc))
  <2>1. RefsAt(d, poc) = {n \in DOMAIN d.entries : IsRef(d.entries[n]) /\ d.entries[n].poc = poc}
    BY DEF RefsAt, References, At, PocOf
  <2>2. QED BY <2>1 DEF FindRefByPoc, At
<1>2. ASSUME NEW poc, NEW max_lsb
      PROVE  FindRefByPocMasked(d, poc, max_lsb) = First(RefsMasked(d, poc, max_lsb))
  <2>1. RefsMasked(d, poc, max_lsb)
          = {n \in DOMAIN d.entries : IsRef(d.entries[n]) /\ d.entries[n].poc % max_lsb = poc}
    BY DEF RefsMasked, References, At, PocOf
  <2>2. QED BY <2>1 DEF FindRefByPocMasked, At
<1>3. ASSUME NEW poc PROVE FindShortTermRefByPoc(d, poc) = First(ShortTermsAt(d, poc))
  <2>1. ShortTermsAt(d, poc)
          = {n \in DOMAIN d.entries : d.entries[n].reference = "ShortTerm" /\ d.entries[n].poc = poc}
    BY DEF ShortTermsAt, PocOf
  <2>2. QED BY <2>1 DEF FindShortTermRefByPoc, At
<1>4. QED BY <1>1, <1>2, <1>3

LEMMA OneFound ==
  ASSUME NEW d, IsBuffer(d), NEW n, NEW S \in SUBSET DOMAIN d.entries,
         n \in dropped => S = {}, n \notin dropped => S = {n}
  PROVE  FoundOrLost(First(S), n)
<1>1. CASE n \in dropped
  BY <1>1, FirstFacts DEF FoundOrLost
<1>2. CASE n \notin dropped
  BY <1>2, FirstFacts DEF FoundOrLost
<1>3. QED BY <1>1, <1>2

LEMMA KeptIsThere ==
  ASSUME NEW s, NEW p, NEW h, NEW off, GoingOn(s, p, h, off), NEW n \in p.refs
  PROVE  /\ n \in Kept /\ n \in Numbers /\ n \in Nat \ {0} /\ Poc(n) \in Int /\ p.poc \in Int
         /\ n \in dropped => n \notin DOMAIN s.dpb.entries
         /\ n \notin dropped => n \in References(s.dpb) /\ n \in DOMAIN s.dpb.entries
                                /\ s.dpb.entries[n].reference \in {"ShortTerm", "LongTerm"}
         /\ \A k \in DOMAIN s.dpb.entries : /\ PocOf(s.dpb, k) \in Int /\ Poc(k) \in Int
                                            /\ PocOf(s.dpb, k) = Poc(n) + off <=> k = n
<1>1. n \in Kept /\ n \in Numbers /\ n \in Nat \ {0} /\ Poc(n) \in Int /\ p.poc \in Int
  BY DEF GoingOn, Sent
<1>2. n \in dropped => n \notin DOMAIN s.dpb.entries
  BY DEF GoingOn, KeptIn
<1>3. n \notin dropped => n \in References(s.dpb) /\ n \in DOMAIN s.dpb.entries
                          /\ s.dpb.entries[n].reference \in {"ShortTerm", "LongTerm"}
  <2> SUFFICES ASSUME n \notin dropped
               PROVE  n \in References(s.dpb) /\ n \in DOMAIN s.dpb.entries
                      /\ s.dpb.entries[n].reference \in {"ShortTerm", "LongTerm"}
    OBVIOUS
  <2>1. n \in References(s.dpb)
    BY <1>1 DEF GoingOn, KeptIn
  <2>2. n \in DOMAIN s.dpb.entries /\ s.dpb.entries[n].reference # "None"
    BY <2>1, PlaceSets
  <2>3. s.dpb.entries[n] \in Picture
    BY <2>2 DEF GoingOn, IsBuffer
  <2>4. QED BY <2>1, <2>2, <2>3 DEF Picture
<1>4. ASSUME NEW k \in DOMAIN s.dpb.entries
      PROVE  /\ PocOf(s.dpb, k) \in Int /\ Poc(k) \in Int
             /\ PocOf(s.dpb, k) = Poc(n) + off <=> k = n
  <2>1. k \in Numbers /\ PocOf(s.dpb, k) = Poc(k) + off /\ Poc(k) \in Int /\ off \in Int
    BY <1>4 DEF GoingOn
  <2>2. Poc(k) = Poc(n) => k = n
    BY <1>1, <2>1 DEF GoingOn
  <2>3. QED BY <1>1, <2>1, <2>2
<1>5. QED BY <1>1, <1>2, <1>3, <1>4

LEMMA ShortTermFound ==
  ASSUME NEW s, NEW p, NEW h, NEW off, GoingOn(s, p, h, off),
         NEW d, Remarked(s.dpb, d), NEW Long, Long \cap (p.refs \ p.long_term) = {},
         \A i \in DOMAIN s.dpb.entries :
           d.entries[i].reference = IF i \in Long THEN "LongTerm" ELSE s.dpb.entries[i].reference,
         NEW n \in p.refs \ p.long_term, NEW poc, poc = Poc(n) + off
  PROVE  FoundOrLost(FindShortTermRefByPoc(d, poc), n)
<1>1. PICK S : S = ShortTermsAt(d, poc)
  OBVIOUS
<1>2. IsBuffer(d) /\ DOMAIN d.entries = DOMAIN s.dpb.entries
      /\ \A k \in DOMAIN d.entries : PocOf(d, k) = PocOf(s.dpb, k)
  BY DEF Remarked, PocOf
<1>3. FindShortTermRefByPoc(d, poc) = First(S)
  BY <1>1, <1>2, SearchesFindThese
<1>4. \A k \in S : k = n /\ n \in DOMAIN s.dpb.entries
  BY <1>1, <1>2, KeptIsThere DEF ShortTermsAt
<1>5. n \in dropped => S = {}
  BY <1>4, KeptIsThere
<1>6. n \notin dropped => S = {n}
  <2> SUFFICES ASSUME n \notin dropped PROVE n \in S
    BY <1>4
  <2>1. /\ n \in DOMAIN s.dpb.entries /\ s.dpb.entries[n].reference \in {"ShortTerm", "LongTerm"}
        /\ PocOf(s.dpb, n) = poc /\ n \in Kept
    BY KeptIsThere
  <2>2. s.dpb.entries[n].reference # "LongTerm"
    <3>1. n \notin Latest.long_term
      BY DEF GoingOn, Extended
    <3>2. QED BY <2>1, <3>1 DEF GoingOn, KeptIn
  <2>3. d.entries[n].reference = "ShortTerm"
    BY <2>1, <2>2
  <2>4. QED BY <1>1, <1>2, <2>1, <2>3 DEF ShortTermsAt
<1>7. S \in SUBSET DOMAIN d.entries
  BY <1>1 DEF ShortTermsAt
<1>8. QED BY <1>2, <1>3, <1>5, <1>6, <1>7, OneFound

LEMMA FullFound ==
  ASSUME NEW s, NEW p, NEW h, NEW off, GoingOn(s, p, h, off),
         NEW n \in p.refs, NEW poc, poc = Poc(n) + off
  PROVE  FoundOrLost(FindRefByPoc(s.dpb, poc), n)
<1>1. PICK d : d = s.dpb /\ IsBuffer(d)
  BY DEF GoingOn
<1>2. PICK S : S = RefsAt(d, poc)
  OBVIOUS
<1>3. FindRefByPoc(d, poc) = First(S)
  BY <1>1, <1>2, SearchesFindThese
<1>4. References(d) \subseteq DOMAIN d.entries
  BY PlaceSets
<1>5. \A k \in S : k = n /\ n \in DOMAIN d.entries
  BY <1>1, <1>2, <1>4, KeptIsThere DEF RefsAt
<1>6. n \in dropped => S = {}
  BY <1>1, <1>5, KeptIsThere
<1>7. n \notin dropped => S = {n}
  BY <1>1, <1>2, <1>5, KeptIsThere DEF RefsAt
<1>8. S \in SUBSET DOMAIN d.entries
  BY <1>2, <1>4 DEF RefsAt
<1>9. FoundOrLost(First(S), n)
  BY <1>1, <1>6, <1>7, <1>8, OneFound
<1>10. QED BY <1>1, <1>3, <1>9

LEMMA CloseMeans ==
  ASSUME NEW M \in Nat \ {0, 1}, NEW x \in Int, NEW y \in Int, Close(M, x, y), Divides(M, x - y)
  PROVE  x = y
<1>1. PICK half \in Nat : half = M \div 2 /\ 2 * half <= M
  BY Half
<1>2. x - y \in (1 - half)..(half - 1)
  BY <1>1 DEF Close
<1>3. PICK d \in Int : d = x - y
  OBVIOUS
<1>4. -M < d /\ d < M /\ Divides(M, d)
  BY <1>1, <1>2, <1>3
<1>5. d = 0
  BY <1>4, SmallDivides
<1>6. QED BY <1>3, <1>5

(* No other that could be found has the low bits of a long-term picture of *)
(* which the header does not say more.                                     *)
LEMMA LowBitsSuffice ==
  ASSUME NEW s, NEW p, NEW h, NEW off, GoingOn(s, p, h, off), RefsRight,
         NEW n \in p.long_term, ~Ambiguous(n), NEW k \in References(s.dpb),
         PocOf(s.dpb, k) % sps.max_lsb = Poc(n) % sps.max_lsb
  PROVE  k = n
<1>1. /\ n \in p.refs /\ n \in Numbers /\ n \in Kept /\ ~IsLeading(sent[n].type)
      /\ k \in DOMAIN s.dpb.entries /\ k \in Numbers
  BY PlaceSets DEF GoingOn, Extended
<1>2. PICK M, a, b : M = sps.max_lsb /\ a = Poc(k) /\ b = Poc(n)
  OBVIOUS
<1>3. M \in Nat \ {0, 1} /\ a \in Int /\ b \in Int /\ off \in Int /\ Divides(M, off)
  BY <1>1, <1>2 DEF GoingOn
<1>4. PocOf(s.dpb, k) = a + off
  BY <1>1, <1>2 DEF GoingOn
<1>5. PICK x \in Int : x = a + off
  BY <1>3
<1>6. x % M = b % M
  BY <1>2, <1>4, <1>5
<1>7. Divides(M, x - b)
  BY <1>3, <1>6, SameLowBits
<1>8. PICK y \in Int : y = x - b
  BY <1>3
<1>9. Divides(M, y - off) /\ y - off = a - b
  BY <1>3, <1>5, <1>7, <1>8, DividesSum
<1>10. Divides(M, a - b)
  BY <1>9
<1>11. CASE k \in Kept
  BY <1>2, <1>10, <1>11 DEF Ambiguous, Divides
<1>12. CASE k \notin Kept
  <2>1. AllLead
    BY <1>12 DEF GoingOn, KeptIn
  <2>2. Close(M, a, b)
    BY <1>1, <1>2, <2>1 DEF RefsRight, NearRight, GoingOn
  <2>3. a = b
    BY <1>3, <1>10, <2>2, CloseMeans
  <2>4. QED BY <1>1, <1>2, <2>3 DEF GoingOn
<1>13. QED BY <1>11, <1>12

LEMMA MaskedFound ==
  ASSUME NEW s, NEW p, NEW h, NEW off, GoingOn(s, p, h, off), RefsRight,
         NEW n \in p.long_term, ~Ambiguous(n), NEW poc, poc = Poc(n) % sps.max_lsb
  PROVE  FoundOrLost(FindRefByPocMasked(s.dpb, poc, sps.max_lsb), n)
<1>1. PICK d : d = s.dpb /\ IsBuffer(d)
  BY DEF GoingOn
<1>2. PICK S : S = RefsMasked(d, poc, sps.max_lsb)
  OBVIOUS
<1>3. FindRefByPocMasked(d, poc, sps.max_lsb) = First(S)
  BY <1>1, <1>2, SearchesFindThese
<1>4. References(d) \subseteq DOMAIN d.entries /\ n \in p.refs
  BY PlaceSets DEF GoingOn, Extended
<1>5. \A k \in S : k = n /\ n \in DOMAIN d.entries
  BY <1>1, <1>2, <1>4, LowBitsSuffice DEF RefsMasked
<1>6. n \in dropped => S = {}
  BY <1>1, <1>4, <1>5, KeptIsThere
<1>7. n \notin dropped => S = {n}
  <2> SUFFICES ASSUME n \notin dropped PROVE n \in S
    BY <1>5
  <2>1. n \in References(d) /\ PocOf(d, n) = Poc(n) + off /\ Poc(n) \in Int
    BY <1>1, <1>4, KeptIsThere
  <2>2. PICK M \in Nat \ {0}, x \in Int, y \in Int : M = sps.max_lsb /\ x = Poc(n) + off /\ y = Poc(n)
    BY <2>1 DEF GoingOn
  <2>3. x - y = off /\ Divides(M, off)
    BY <2>1, <2>2 DEF GoingOn
  <2>4. x % M = y % M
    BY <2>2, <2>3, SameLowBits
  <2>5. QED BY <1>2, <2>1, <2>2, <2>4 DEF RefsMasked
<1>8. S \in SUBSET DOMAIN d.entries
  BY <1>2, <1>4 DEF RefsMasked
<1>9. FoundOrLost(First(S), n)
  BY <1>1, <1>6, <1>7, <1>8, OneFound
<1>10. QED BY <1>1, <1>3, <1>9

LEMMA LongTermFound ==
  ASSUME NEW s, NEW p, NEW h, NEW off, GoingOn(s, p, h, off), RefsRight,
         NEW n \in p.long_term, NEW present \in BOOLEAN, present \/ ~Ambiguous(n),
         NEW pic, pic.poc = p.poc + off, NEW l, l = LongTermEntry(p, n, present)
  PROVE  FoundOrLost(FoundFor(s.dpb, pic, l), n)
<1>1. /\ l.poc_lsb = Poc(n) % sps.max_lsb /\ l.delta_poc_msb_present_flag = present
      /\ l.delta_poc_msb_cycle =
           IF present THEN (p.poc - (p.poc % sps.max_lsb) - Poc(n) + (Poc(n) % sps.max_lsb)) \div sps.max_lsb
                      ELSE 0
  BY DEF LongTermEntry
<1>2. max_pic_order_cnt_lsb = sps.max_lsb /\ n \in p.refs
  BY DEF GoingOn, Extended
<1>3. CASE present
  <2>1. PICK M, a, b, c : M = sps.max_lsb /\ a = p.poc /\ b = Poc(n) /\ c = l.delta_poc_msb_cycle
    OBVIOUS
  <2>2. M \in Nat \ {0, 1} /\ a \in Int /\ b \in Int /\ off \in Int /\ Divides(M, off)
    BY <1>2, <2>1, KeptIsThere DEF GoingOn
  <2>3. c = (a - (a % M) - b + (b % M)) \div M
    BY <1>1, <1>3, <2>1
  <2>4. InFull(M, off, a, b, c)
    BY <2>2, <2>3, FullCount
  <2>5. PocLt(pic, l) = Poc(n) + off
    BY <1>1, <1>2, <2>1, <2>4 DEF PocLt, InFull
  <2>6. FoundOrLost(FindRefByPoc(s.dpb, PocLt(pic, l)), n)
    BY <1>2, <2>5, FullFound
  <2>7. FoundFor(s.dpb, pic, l) = FindRefByPoc(s.dpb, PocLt(pic, l))
    BY <1>1, <1>3 DEF FoundFor
  <2>8. QED BY <2>6, <2>7
<1>4. CASE ~present
  <2>1. FoundFor(s.dpb, pic, l) = FindRefByPocMasked(s.dpb, Poc(n) % sps.max_lsb, sps.max_lsb)
    BY <1>1, <1>2, <1>4 DEF FoundFor
  <2>2. FoundOrLost(FindRefByPocMasked(s.dpb, Poc(n) % sps.max_lsb, sps.max_lsb), n)
    BY <1>4, MaskedFound
  <2>3. QED BY <2>1, <2>2
<1>5. QED BY <1>3, <1>4

(* The set that is found is the one that was meant.                        *)
LEMMA ListedIsListing ==
  ASSUME NEW S, IsFiniteSet(S), NEW key, IsKey(S, key), NEW list, Listed(list, S, key)
  PROVE  \E n \in Nat : IsListing(list, n, S)
<1>1. PICK n : n = Cardinality(S)
  OBVIOUS
<1>2. /\ DOMAIN list = 1..n /\ n \in Nat
      /\ \A i \in DOMAIN list : list[i] \in S
      /\ \A i, j \in DOMAIN list : list[i] = list[j] => i = j
      /\ \A x \in S : \E i \in DOMAIN list : list[i] = x
  BY <1>1, ListedFacts
<1>3. list = [i \in 1..n |-> list[i]]
  BY <1>1 DEF Listed
<1>4. IsListing(list, n, S)
  BY <1>2, <1>3 DEF IsListing
<1>5. QED BY <1>2, <1>4

LEMMA RangeWithout ==
  ASSUME NEW S \in SUBSET (Nat \ {0}), NEW k, NEW c, IsListing(c, k, S), NEW lost
  PROVE  /\ k \in Nat /\ Without(lost, c) \in [1..k -> Nat] /\ c \in [1..k -> Nat]
         /\ Range(Without(lost, c)) \ {Missing} = S \ lost
         /\ Range(Without(lost, c)) \subseteq S \cup {Missing}
<1>1. k \in Nat /\ c = [i \in 1..k |-> c[i]] /\ \A i \in 1..k : c[i] \in S
  BY DEF IsListing
<1>2. PICK w : w = Without(lost, c)
  OBVIOUS
<1>3. DOMAIN c = 1..k
  BY <1>1
<1>4. w = [i \in 1..k |-> IF c[i] \in lost THEN Missing ELSE c[i]]
  BY <1>2, <1>3 DEF Without
<1>5. w \in [1..k -> Nat] /\ c \in [1..k -> Nat]
  BY <1>1, <1>4 DEF Missing
<1>6. DOMAIN w = 1..k
  BY <1>4
<1>7. ASSUME NEW x \in Range(w) PROVE x = Missing \/ x \in S \ lost
  <2>1. PICK i \in 1..k : x = w[i]
    BY <1>6, <1>7 DEF Range
  <2>2. QED BY <1>1, <1>4, <2>1
<1>8. ASSUME NEW x \in S \ lost PROVE x \in Range(w) /\ x # Missing
  <2>1. PICK i \in 1..k : c[i] = x
    BY DEF IsListing
  <2>2. w[i] = x
    BY <1>4, <2>1
  <2>3. QED BY <1>6, <2>2 DEF Range, Missing
<1>9. QED BY <1>1, <1>2, <1>5, <1>7, <1>8

Parts(S, use, lost, a, b) ==
  /\ (Range(Without(lost, a)) \cup Range(Without(lost, b))) \ {Missing} = S \ lost
  /\ Range(Without(lost, a)) \subseteq (S \cap use) \cup {Missing}
  /\ \E j \in Nat : a \in [1..j -> Nat] /\ IsListing(a, j, S \cap use)
                    /\ Without(lost, a) \in [1..j -> Nat]
  /\ \E j \in Nat : b \in [1..j -> Nat] /\ Without(lost, b) \in [1..j -> Nat]
LEMMA ChosenWithout ==
  ASSUME NEW S, S \subseteq Nat \ {0}, NEW n, NEW list, IsListing(list, n, S), NEW use, NEW lost
  PROVE  Parts(S, use, lost, ChosenOf(list, use, TRUE), ChosenOf(list, use, FALSE))
<1> DEFINE a == ChosenOf(list, use, TRUE)
           b == ChosenOf(list, use, FALSE)
<1>1. PICK A, B : A = Picked(S, use, TRUE) /\ B = Picked(S, use, FALSE)
  OBVIOUS
<1>2. A = S \cap use /\ B = S \ use /\ A \in SUBSET (Nat \ {0}) /\ B \in SUBSET (Nat \ {0})
  BY <1>1 DEF Picked
<1>3. PICK j \in Nat : IsListing(a, j, A)
  BY <1>1, ChosenFacts
<1>4. PICK k \in Nat : IsListing(b, k, B)
  BY <1>1, ChosenFacts
<1> HIDE DEF a, b
<1>5. /\ Without(lost, a) \in [1..j -> Nat] /\ a \in [1..j -> Nat]
      /\ Range(Without(lost, a)) \ {Missing} = A \ lost
      /\ Range(Without(lost, a)) \subseteq A \cup {Missing}
  BY <1>2, <1>3, RangeWithout
<1>6. /\ Without(lost, b) \in [1..k -> Nat] /\ b \in [1..k -> Nat]
      /\ Range(Without(lost, b)) \ {Missing} = B \ lost
  <2>1. B \in SUBSET (Nat \ {0}) /\ IsListing(b, k, B)
    BY <1>2, <1>4
  <2>2. QED BY <2>1, RangeWithout
<1>7. (Range(Without(lost, a)) \cup Range(Without(lost, b))) \ {Missing} = S \ lost
  BY <1>2, <1>5, <1>6
<1>8. IsListing(a, j, S \cap use)
  BY <1>2, <1>3
<1>9. Range(Without(lost, a)) \subseteq (S \cap use) \cup {Missing}
  BY <1>2, <1>5
<1>10. QED BY <1>3, <1>4, <1>5, <1>6, <1>7, <1>8, <1>9 DEF Parts, a, b

(* A list of short-term pictures of the header.                            *)
ShortFinds(d, pic, l, list, n, use) ==
  /\ HasEntries(l, n)
  /\ \A used \in BOOLEAN :
       FoundShortTerm(d, PocsOf(pic, l, used)) = Without(dropped, ChosenOf(list, use, used))
LongFinds(d, pic, l, list, use) ==
  \A used \in BOOLEAN :
    FoundLongTerm(d, pic, l, used) = Without(dropped, ChosenOf(list, use, used))
LEMMA ShortListFound ==
  ASSUME NEW s, NEW p, NEW h, NEW off, GoingOn(s, p, h, off),
         NEW d, Remarked(s.dpb, d), NEW Long, Long \cap (p.refs \ p.long_term) = {},
         \A i \in DOMAIN s.dpb.entries :
           d.entries[i].reference = IF i \in Long THEN "LongTerm" ELSE s.dpb.entries[i].reference,
         NEW S \in SUBSET (p.refs \ p.long_term), NEW n, NEW list, IsListing(list, n, S),
         NEW l, l = Deltas(p, list), NEW pic, pic.poc = p.poc + off
  PROVE  ShortFinds(d, pic, l, list, n, p.use)
<1>1. DOMAIN list = 1..n /\ n \in Nat /\ \A i \in 1..n : list[i] \in S
  BY DEF IsListing
<1>2. HasEntries(l, n)
  BY <1>1, DeltasNamed
<1>3. l = [i \in 1..n |-> [delta |-> Poc(list[i]) - p.poc, used |-> list[i] \in p.use]]
  BY <1>1 DEF Deltas
<1>4. \A i \in 1..n : l[i].delta = Poc(list[i]) - p.poc /\ l[i].used = (list[i] \in p.use)
  BY <1>3
<1>5. ASSUME NEW i \in 1..n PROVE Finds(d, pic, l[i], list[i], dropped)
  <2>1. PICK x : x = list[i]
    OBVIOUS
  <2>2. x \in p.refs \ p.long_term
    BY <1>1, <2>1
  <2>3. Poc(x) \in Int /\ p.poc \in Int /\ off \in Int
    BY <2>2, KeptIsThere DEF GoingOn
  <2>4. PICK poc : poc = Poc(x) + off
    OBVIOUS
  <2>5. pic.poc + l[i].delta = poc
    BY <1>4, <2>1, <2>3, <2>4
  <2>6. FoundOrLost(FindShortTermRefByPoc(d, poc), x)
    BY <2>2, <2>4, ShortTermFound
  <2>7. QED BY <2>1, <2>5, <2>6 DEF FoundOrLost, Finds
<1>6. IsBuffer(d)
  BY DEF Remarked
<1>7. \A used \in BOOLEAN :
        FoundShortTerm(d, PocsOf(pic, l, used)) = Without(dropped, ChosenOf(list, p.use, used))
  BY <1>1, <1>2, <1>4, <1>5, <1>6, FoundInList
<1>8. QED BY <1>2, <1>7 DEF ShortFinds

(* The list of the long-term pictures.                                     *)
LongEntries(p, list, present) ==
  [i \in DOMAIN list |-> LongTermEntry(p, list[i], present \/ Ambiguous(list[i]))]
LEMMA LongListFound ==
  ASSUME NEW s, NEW p, NEW h, NEW off, GoingOn(s, p, h, off), RefsRight,
         NEW n, NEW list, IsListing(list, n, p.long_term), NEW present \in BOOLEAN,
         NEW l, l = LongEntries(p, list, present),
         NEW pic, pic.poc = p.poc + off
  PROVE  LongFinds(s.dpb, pic, l, list, p.use)
<1>1. DOMAIN list = 1..n /\ n \in Nat /\ \A i \in 1..n : list[i] \in p.long_term
  BY DEF IsListing
<1>2. DOMAIN l = 1..n
        /\ \A i \in 1..n : l[i] = LongTermEntry(p, list[i], present \/ Ambiguous(list[i]))
  BY <1>1 DEF LongEntries
<1>3. \A i \in 1..n : l[i].used = (list[i] \in p.use)
  BY <1>2 DEF LongTermEntry
<1>4. HasEntries(l, n)
  <2>1. ASSUME NEW i \in 1..n PROVE l[i].used \in BOOLEAN
    <3>1. l[i] = LongTermEntry(p, list[i], present \/ Ambiguous(list[i]))
      BY <1>2
    <3>2. \A x, full : LongTermEntry(p, x, full).used \in BOOLEAN
      BY DEF LongTermEntry
    <3>3. QED BY <3>1, <3>2
  <2>2. QED BY <1>1, <1>2, <2>1 DEF HasEntries
<1>5. ASSUME NEW i \in 1..n PROVE FindsLong(s.dpb, pic, l[i], list[i], dropped)
  <2>1. PICK x : x = list[i]
    OBVIOUS
  <2>2. PICK full \in BOOLEAN : full = (present \/ Ambiguous(x))
    BY DEF Ambiguous
  <2>3. PICK e : e = l[i]
    OBVIOUS
  <2>4. x \in p.long_term /\ e = LongTermEntry(p, x, full)
    BY <1>1, <1>2, <2>1, <2>2, <2>3
  <2>5. full \/ ~Ambiguous(x)
    BY <2>2
  <2>6. FoundOrLost(FoundFor(s.dpb, pic, e), x)
    BY <2>4, <2>5, LongTermFound
  <2>7. QED BY <2>1, <2>3, <2>6 DEF FoundOrLost, FindsLong
<1>6. IsBuffer(s.dpb)
  BY DEF GoingOn
<1>7. QED BY <1>1, <1>3, <1>4, <1>5, <1>6, FoundInLongList DEF LongFinds

LEMMA PListable ==
  ASSUME NEW s, NEW p, NEW h, NEW off, GoingOn(s, p, h, off)
  PROVE  /\ CanBeListed(p) /\ p.long_term \subseteq p.refs /\ p.use \subseteq p.refs
         /\ p.refs \in SUBSET (Nat \ {0})
         /\ Befores(p) \cup Afters(p) \cup p.long_term = p.refs
         /\ Befores(p) \in SUBSET (p.refs \ p.long_term) /\ Afters(p) \in SUBSET (p.refs \ p.long_term)
<1>1. /\ p.refs \subseteq Numbers /\ Numbers \subseteq Nat \ {0} /\ IsFiniteSet(Numbers)
      /\ p.long_term \subseteq p.refs /\ p.use \subseteq p.refs
      /\ \A n \in Numbers : Poc(n) \in Int
      /\ \A m, n \in Numbers : Poc(m) = Poc(n) => m = n
      /\ p.poc \in Int
      /\ \A n \in Numbers : Poc(n) # p.poc
  BY DEF GoingOn, Extended, Continuing, GoesOnWith, Sent
<1>2. IsFiniteSet(p.refs)
  BY <1>1, FS_Subset
<1>3. CanBeListed(p)
  BY <1>1, <1>2 DEF CanBeListed
<1>4. ASSUME NEW n \in p.refs PROVE Poc(n) < p.poc \/ Poc(n) > p.poc
  <2>1. Poc(n) \in Int /\ Poc(n) # p.poc
    BY <1>1
  <2>2. QED BY <1>1, <2>1
<1>5. Befores(p) \cup Afters(p) \cup p.long_term = p.refs
  BY <1>1, <1>4 DEF Befores, Afters
<1>6. QED BY <1>1, <1>3, <1>5 DEF Befores, Afters

(* The set of the header as derive_and_mark_rps finds it.                  *)
LEMMA SetFound ==
  ASSUME NEW s, NEW p, NEW h, NEW off, GoingOn(s, p, h, off), RefsRight,
         NEW pic \in Picture, pic.poc = p.poc + off, NEW m, m = DeriveAndMark(s.dpb, pic, h)
  PROVE  /\ m.rps = Meant(p)
         /\ References(m.dpb) = p.refs \ dropped
         /\ \A n \in p.refs \cap DOMAIN m.dpb.entries :
              m.dpb.entries[n].reference = "LongTerm" => n \in p.long_term
<1>1. /\ CanBeListed(p) /\ p.long_term \subseteq p.refs /\ p.use \subseteq p.refs
      /\ p.refs \in SUBSET (Nat \ {0})
      /\ Befores(p) \cup Afters(p) \cup p.long_term = p.refs
      /\ Befores(p) \in SUBSET (p.refs \ p.long_term) /\ Afters(p) \in SUBSET (p.refs \ p.long_term)
  BY PListable
<1>2. PICK present \in BOOLEAN :
        /\ h.s0 = Deltas(p, Before(p)) /\ h.s1 = Deltas(p, After(p))
        /\ h.lt = [i \in DOMAIN LongTerms(p) |->
                     LongTermEntry(p, LongTerms(p)[i], present \/ Ambiguous(LongTerms(p)[i]))]
  BY DEF GoingOn, Extended, HasLists
<1>3. PICK before, nb : nb \in Nat /\ before = Before(p) /\ IsListing(before, nb, Befores(p))
  <2>1. /\ IsFiniteSet(Befores(p)) /\ IsKey(Befores(p), Backwards(Befores(p)))
        /\ Listed(Before(p), Befores(p), Backwards(Befores(p)))
    BY <1>1, BeforeFacts DEF BeforesListed
  <2>2. \E n \in Nat : IsListing(Before(p), n, Befores(p))
    BY <2>1, ListedIsListing
  <2>3. QED BY <2>2
<1>4. PICK after, na : na \in Nat /\ after = After(p) /\ IsListing(after, na, Afters(p))
  <2>1. /\ IsFiniteSet(Afters(p)) /\ IsKey(Afters(p), Forwards(Afters(p)))
        /\ Listed(After(p), Afters(p), Forwards(Afters(p)))
    BY <1>1, AfterFacts DEF AftersListed
  <2>2. \E n \in Nat : IsListing(After(p), n, Afters(p))
    BY <2>1, ListedIsListing
  <2>3. QED BY <2>2
<1>5. PICK longs, nl : nl \in Nat /\ longs = LongTerms(p) /\ IsListing(longs, nl, p.long_term)
  <2>1. IsFiniteSet(p.refs) /\ p.refs \in SUBSET Nat
    BY <1>1 DEF CanBeListed
  <2>2. /\ IsFiniteSet(p.long_term) /\ IsKey(p.long_term, Itself(p.long_term))
        /\ Listed(LongTerms(p), p.long_term, Itself(p.long_term))
    BY <1>1, <2>1, LongTermsFacts
  <2>3. \E n \in Nat : IsListing(LongTerms(p), n, p.long_term)
    BY <2>2, ListedIsListing
  <2>4. QED BY <2>3
<1>6. IsBuffer(s.dpb) /\ pic.poc \in Int
  BY DEF GoingOn, Picture
(* The long-term pictures.                                                 *)
<1>7. PICK lc, lf : lc = FoundLongTerm(s.dpb, pic, h.lt, TRUE) /\ lf = FoundLongTerm(s.dpb, pic, h.lt, FALSE)
  OBVIOUS
<1>8. \A used \in BOOLEAN :
        FoundLongTerm(s.dpb, pic, h.lt, used) = Without(dropped, ChosenOf(longs, p.use, used))
  <2>1. PICK l : l = h.lt
    OBVIOUS
  <2>2. l = LongEntries(p, longs, present)
    BY <1>2, <1>5, <2>1 DEF LongEntries
  <2>3. LongFinds(s.dpb, pic, l, longs, p.use)
    BY <1>5, <2>2, LongListFound
  <2>4. QED BY <2>1, <2>3 DEF LongFinds
<1>9. /\ lc = Without(dropped, ChosenOf(longs, p.use, TRUE))
      /\ lf = Without(dropped, ChosenOf(longs, p.use, FALSE))
  BY <1>7, <1>8
<1>10. (Range(lc) \cup Range(lf)) \ {Missing} = p.long_term \ dropped
  <2>1. p.long_term \subseteq Nat \ {0}
    BY <1>1
  <2>2. Parts(p.long_term, p.use, dropped, ChosenOf(longs, p.use, TRUE), ChosenOf(longs, p.use, FALSE))
    BY <1>5, <2>1, ChosenWithout
  <2>3. QED BY <1>9, <2>2 DEF Parts
<1>11. PICK Long : Long = Range(lc) \cup Range(lf)
  OBVIOUS
<1>12. PICK e : e = MarkAs(s.dpb, Long, "LongTerm")
  OBVIOUS
<1>13. /\ Remarked(s.dpb, e) /\ DOMAIN e.entries = DOMAIN s.dpb.entries /\ IsBuffer(e)
       /\ \A i \in DOMAIN s.dpb.entries :
            e.entries[i].reference = IF i \in Long THEN "LongTerm" ELSE s.dpb.entries[i].reference
  <2>1. "LongTerm" \in Marks
    BY DEF Marks
  <2>2. QED BY <1>6, <1>12, <2>1, MarkAsFacts DEF Remarked
<1>14. Long \cap (p.refs \ p.long_term) = {} /\ Long \cap p.refs = p.long_term \ dropped
  BY <1>1, <1>10, <1>11 DEF Missing
(* The short-term ones.                                                    *)
<1>15. PICK s0, s1 : s0 = h.s0 /\ s1 = h.s1
  OBVIOUS
<1>16. /\ HasEntries(s0, nb)
       /\ \A used \in BOOLEAN :
            FoundShortTerm(e, PocsOf(pic, s0, used)) = Without(dropped, ChosenOf(before, p.use, used))
  <2>1. s0 = Deltas(p, before)
    BY <1>2, <1>3, <1>15
  <2>2. ShortFinds(e, pic, s0, before, nb, p.use)
    BY <1>1, <1>3, <1>13, <1>14, <2>1, ShortListFound
  <2>3. QED BY <2>2 DEF ShortFinds
<1>17. /\ HasEntries(s1, na)
       /\ \A used \in BOOLEAN :
            FoundShortTerm(e, PocsOf(pic, s1, used)) = Without(dropped, ChosenOf(after, p.use, used))
  <2>1. s1 = Deltas(p, after)
    BY <1>2, <1>4, <1>15
  <2>2. ShortFinds(e, pic, s1, after, na, p.use)
    BY <1>1, <1>4, <1>13, <1>14, <2>1, ShortListFound
  <2>3. QED BY <2>2 DEF ShortFinds
<1>18. PICK bt, bf, at, af :
         /\ bt = ChosenOf(before, p.use, TRUE) /\ bf = ChosenOf(before, p.use, FALSE)
         /\ at = ChosenOf(after, p.use, TRUE) /\ af = ChosenOf(after, p.use, FALSE)
  OBVIOUS
<1>19. PICK jb \in Nat, ja \in Nat :
         /\ bf \in [1..jb -> Nat] /\ Without(dropped, bf) \in [1..jb -> Nat]
         /\ af \in [1..ja -> Nat] /\ Without(dropped, af) \in [1..ja -> Nat]
         /\ (Range(Without(dropped, bt)) \cup Range(Without(dropped, bf))) \ {Missing} = Befores(p) \ dropped
         /\ (Range(Without(dropped, at)) \cup Range(Without(dropped, af))) \ {Missing} = Afters(p) \ dropped
  <2>1. Befores(p) \subseteq Nat \ {0} /\ Afters(p) \subseteq Nat \ {0}
    BY <1>1
  <2>2. Parts(Befores(p), p.use, dropped, bt, bf)
    BY <1>3, <1>18, <2>1, ChosenWithout
  <2>3. Parts(Afters(p), p.use, dropped, at, af)
    BY <1>4, <1>18, <2>1, ChosenWithout
  <2>4. QED BY <2>2, <2>3 DEF Parts
<1>20. FoundShortTerm(e, PocsOf(pic, s0, FALSE) \o PocsOf(pic, s1, FALSE))
         = Without(dropped, bf) \o Without(dropped, af)
  <2>1. FoundShortTerm(e, PocsOf(pic, s0, FALSE) \o PocsOf(pic, s1, FALSE))
          = FoundShortTerm(e, PocsOf(pic, s0, FALSE)) \o FoundShortTerm(e, PocsOf(pic, s1, FALSE))
    BY <1>6, <1>13, <1>16, <1>17, FoundInBoth
  <2>2. /\ FoundShortTerm(e, PocsOf(pic, s0, FALSE)) = Without(dropped, bf)
        /\ FoundShortTerm(e, PocsOf(pic, s1, FALSE)) = Without(dropped, af)
    BY <1>16, <1>17, <1>18
  <2>3. QED BY <2>1, <2>2
<1>21. Without(dropped, bf) \o Without(dropped, af) = Without(dropped, bf \o af)
  <2>1. bf \in [1..jb -> Nat] /\ af \in [1..ja -> Nat]
    BY <1>19
  <2>2. QED BY <2>1, WithoutJoined
(* The set.                                                                *)
<1>22. m.rps = [st_curr_before |-> Without(dropped, bt), st_curr_after |-> Without(dropped, at),
                st_foll |-> Without(dropped, bf \o af), lt_curr |-> lc, lt_foll |-> lf]
       /\ m.dpb = MarkAs(e, DOMAIN s.dpb.entries \ RpsPictures(m.rps), "None")
  <2>1. /\ FoundShortTerm(e, PocsOf(pic, h.s0, TRUE)) = Without(dropped, bt)
        /\ FoundShortTerm(e, PocsOf(pic, h.s1, TRUE)) = Without(dropped, at)
        /\ FoundShortTerm(e, PocsOf(pic, h.s0, FALSE) \o PocsOf(pic, h.s1, FALSE))
             = Without(dropped, bf \o af)
    BY <1>15, <1>16, <1>17, <1>18, <1>20, <1>21
  <2>2. e = MarkAs(s.dpb, Range(FoundLongTerm(s.dpb, pic, h.lt, TRUE))
                            \cup Range(FoundLongTerm(s.dpb, pic, h.lt, FALSE)), "LongTerm")
    BY <1>7, <1>11, <1>12
  <2>3. /\ m.rps = [st_curr_before |-> FoundShortTerm(e, PocsOf(pic, h.s0, TRUE)),
                    st_curr_after |-> FoundShortTerm(e, PocsOf(pic, h.s1, TRUE)),
                    st_foll |-> FoundShortTerm(e, PocsOf(pic, h.s0, FALSE) \o PocsOf(pic, h.s1, FALSE)),
                    lt_curr |-> lc, lt_foll |-> lf]
        /\ m.dpb = MarkAs(e, DOMAIN s.dpb.entries \ RpsPictures(m.rps), "None")
    BY <1>7, <2>2 DEF DeriveAndMark
  <2>4. QED BY <2>1, <2>3
<1>23. m.rps = Meant(p)
  <2>1. Meant(p) = [st_curr_before |-> Without(dropped, ChosenOf(Before(p), p.use, TRUE)),
                    st_curr_after |-> Without(dropped, ChosenOf(After(p), p.use, TRUE)),
                    st_foll |-> Without(dropped, ChosenOf(Before(p), p.use, FALSE)
                                                   \o ChosenOf(After(p), p.use, FALSE)),
                    lt_curr |-> Without(dropped, ChosenOf(LongTerms(p), p.use, TRUE)),
                    lt_foll |-> Without(dropped, ChosenOf(LongTerms(p), p.use, FALSE))]
    BY DEF Meant, Found, Without, ChosenOf, Chosen
  <2>2. QED BY <1>3, <1>4, <1>5, <1>9, <1>18, <1>22, <2>1
<1>24. RpsPictures(m.rps) = p.refs \ dropped
  <2>1. Range(Without(dropped, bf) \o Without(dropped, af))
          = Range(Without(dropped, bf)) \cup Range(Without(dropped, af))
    <3>1. PICK x, y : x = Without(dropped, bf) /\ y = Without(dropped, af)
      OBVIOUS
    <3>2. x \in Seq(Nat) /\ y \in Seq(Nat)
      BY <1>19, <3>1, SeqDef
    <3>3. Range(x \o y) = Range(x) \cup Range(y)
      BY <3>2, Joined
    <3>4. QED BY <3>1, <3>3
  <2>2. Range(m.rps.st_foll) = Range(Without(dropped, bf)) \cup Range(Without(dropped, af))
    BY <1>21, <1>22, <2>1
  <2>3. RpsPictures(m.rps)
          = (Range(Without(dropped, bt)) \cup Range(Without(dropped, at))
               \cup (Range(Without(dropped, bf)) \cup Range(Without(dropped, af)))
               \cup Range(lc) \cup Range(lf)) \ {Missing}
    BY <1>22, <2>2 DEF RpsPictures
  <2>4. QED BY <1>1, <1>10, <1>19, <2>3
<1>25. /\ DOMAIN m.dpb.entries = DOMAIN s.dpb.entries
       /\ \A i \in DOMAIN s.dpb.entries :
            m.dpb.entries[i].reference =
              IF i \in p.refs \ dropped THEN e.entries[i].reference ELSE "None"
  <2>1. PICK others : others = DOMAIN s.dpb.entries \ RpsPictures(m.rps)
    OBVIOUS
  <2>2. "None" \in Marks
    BY DEF Marks
  <2>3. PICK d : d = m.dpb
    OBVIOUS
  <2>4. d = MarkAs(e, others, "None")
    BY <1>22, <2>1, <2>3
  <2>5. /\ Remarked(e, d)
        /\ \A i \in DOMAIN e.entries :
             d.entries[i].reference = IF i \in others THEN "None" ELSE e.entries[i].reference
    BY <1>13, <2>2, <2>4, MarkAsFacts
  <2>6. \A i \in DOMAIN s.dpb.entries : i \in others <=> i \notin p.refs \ dropped
    BY <1>24, <2>1
  <2>7. QED BY <1>13, <2>3, <2>5, <2>6 DEF Remarked
<1>26. References(m.dpb) = p.refs \ dropped
  <2>1. ASSUME NEW n \in References(m.dpb) PROVE n \in p.refs \ dropped
    <3>1. n \in DOMAIN m.dpb.entries /\ m.dpb.entries[n].reference # "None"
      BY <2>1, PlaceSets
    <3>2. QED BY <1>25, <3>1
  <2>2. ASSUME NEW n \in p.refs \ dropped PROVE n \in References(m.dpb)
    <3>1. n \in DOMAIN s.dpb.entries /\ s.dpb.entries[n].reference \in {"ShortTerm", "LongTerm"}
      BY <2>2, KeptIsThere
    <3>2. e.entries[n].reference # "None"
      BY <1>13, <3>1
    <3>3. m.dpb.entries[n].reference # "None" /\ n \in DOMAIN m.dpb.entries
      BY <1>25, <2>2, <3>1, <3>2
    <3>4. QED BY <3>3, PlaceSets
  <2>3. QED BY <2>1, <2>2
<1>27. ASSUME NEW n \in p.refs \cap DOMAIN m.dpb.entries, m.dpb.entries[n].reference = "LongTerm"
       PROVE  n \in p.long_term
  <2>1. n \in DOMAIN s.dpb.entries /\ e.entries[n].reference = "LongTerm"
    BY <1>25, <1>27
  <2>2. CASE n \in Long
    BY <1>14, <1>27, <2>2
  <2>3. CASE n \notin Long
    <3>1. s.dpb.entries[n].reference = "LongTerm" /\ n \in Kept
      BY <1>13, <1>27, <2>1, <2>3, KeptIsThere
    <3>2. n \in Latest.long_term
      BY <2>1, <3>1 DEF GoingOn, KeptIn
    <3>3. QED BY <1>27, <3>2 DEF GoingOn, Extended
  <2>4. QED BY <2>2, <2>3
<1>28. QED BY <1>23, <1>26, <1>27

(* Before a picture that goes on, bumping changes no marks.                *)
LEMMA UpdateMarks ==
  ASSUME NEW s, Resumed(s), NEW pic, ~StartsClean(pic), NEW t, t = UpdateDpbBeforeDecoding(s, pic)
  PROVE  /\ References(t.dpb) = References(s.dpb)
         /\ \A i \in DOMAIN t.dpb.entries :
              /\ i \in DOMAIN s.dpb.entries
              /\ t.dpb.entries[i].reference = s.dpb.entries[i].reference
              /\ t.dpb.entries[i].pic_latency_cnt = s.dpb.entries[i].pic_latency_cnt
<1>1. PICK d : d = RemoveUnused(s.dpb)
  OBVIOUS
<1>2. IsBuffer(s.dpb) /\ PocsDiffer(s.dpb)
  BY DEF Resumed, Settled
<1>3. /\ IsBuffer(d)
      /\ DOMAIN d.entries = References(s.dpb) \cup Waiting(s.dpb)
      /\ \A i \in DOMAIN d.entries : d.entries[i] = s.dpb.entries[i]
      /\ References(d) = References(s.dpb)
  BY <1>1, <1>2, RemoveUnusedFacts
<1>4. DOMAIN d.entries \subseteq DOMAIN s.dpb.entries
      /\ \A n \in DOMAIN d.entries : PocOf(d, n) = PocOf(s.dpb, n)
  BY <1>3, PlaceSets DEF PocOf
<1>5. PocsDiffer(d)
  BY <1>2, <1>4 DEF PocsDiffer
<1>6. PICK b : b = BumpAsNeeded(d, sps, "BeforeDecoding")
  OBVIOUS
<1>7. Popped(d, "BeforeDecoding", b)
  BY <1>3, <1>5, <1>6, BumpedAsNeeded
<1>8. t = [s EXCEPT !.dpb = b.dpb, !.out = s.out \o b.out]
  BY <1>1, <1>6 DEF UpdateDpbBeforeDecoding, StartsClean, Bumped
<1>9. t.dpb = b.dpb
  <2>1. PICK e, p, o : s = [dpb |-> e, prev_tid_0_pic |-> p, out |-> o, cleared |-> {}, ok |-> TRUE]
    BY DEF Resumed
  <2>2. PICK o2, f : o2 = s.out \o b.out /\ f = b.dpb
    OBVIOUS
  <2>3. t = [s EXCEPT !.dpb = f, !.out = o2]
    BY <1>8, <2>2
  <2>4. t.dpb = f
    BY <2>1, <2>3
  <2>5. QED BY <2>2, <2>4
<1>10. /\ DOMAIN b.dpb.entries \subseteq DOMAIN d.entries
       /\ \A n \in DOMAIN b.dpb.entries : Same(d.entries[n], b.dpb.entries[n])
       /\ References(d) \subseteq DOMAIN b.dpb.entries
  BY <1>7 DEF Popped
<1>11. \A i \in DOMAIN b.dpb.entries :
         /\ i \in DOMAIN s.dpb.entries
         /\ b.dpb.entries[i].reference = s.dpb.entries[i].reference
         /\ b.dpb.entries[i].pic_latency_cnt = s.dpb.entries[i].pic_latency_cnt
  BY <1>3, <1>4, <1>10 DEF Same
<1>12. References(b.dpb) = References(s.dpb)
  <2>1. \A i \in References(b.dpb) : i \in References(s.dpb)
    BY <1>11, PlaceSets
  <2>2. \A i \in References(s.dpb) : i \in References(b.dpb)
    BY <1>3, <1>10, <1>11, PlaceSets
  <2>3. QED BY <2>1, <2>2
<1>13. QED BY <1>9, <1>11, <1>12

(* What comes of the stream when p goes on with it.                        *)
LEMMA StreamGoesOn ==
  ASSUME TypesRight, StreamRight, RefsRight, NEW s, NEW p, NEW h, NEW off, GoingOn(s, p, h, off),
         SentOn(p), NEW x, x = Len(sent) + 1
  PROVE  /\ Numbers' = Numbers \cup {x} /\ x \notin Numbers /\ \A n \in Numbers : n < x
         /\ Kept' = p.refs \cup {x} /\ Latest' = p /\ sent'[x] = p /\ Poc(x)' = p.poc
         /\ \A n \in Numbers : sent'[n] = sent[n] /\ Poc(n)' = Poc(n)
         /\ Anchor \in Numbers /\ Goes' /\ sps' = sps /\ stream' = stream
         /\ SeekRight' /\ LatestRight' /\ ErrorRight'
<1>1. p.seq = Sequence /\ p.joined = Latest.joined /\ sent # <<>> /\ Goes
  BY DEF GoingOn, Extended, Continuing, GoesOnWith
<1>2. /\ Numbers \subseteq DOMAIN sent /\ DOMAIN sent = 1..Len(sent) /\ Len(sent) \in Nat
  BY SentTypes
<1>3. Numbers' = Numbers \cup {x}
  BY <1>1 DEF SentOn
<1>4. x \notin Numbers /\ \A n \in Numbers : n < x
  BY <1>2
<1>5. /\ Kept' = p.refs \cup {x} /\ Latest' = p /\ sent'[x] = p
      /\ \A n \in Numbers : sent'[n] = sent[n] /\ Poc(n)' = Poc(n)
      /\ sps' = sps /\ stream' = stream /\ Goes' /\ next' = "any" /\ outcome' = "Ok"
  BY <1>2 DEF SentOn, Goes
<1>6. Poc(x)' = p.poc
  BY <1>5 DEF Poc
<1>7. Anchor \in Numbers
  BY <1>1, AnchorFacts
<1>8. SeekRight'
  BY <1>1, <1>5 DEF RefsRight, SeekRight
<1>9. LatestRight'
  <2>1. p.refs \subseteq Numbers /\ p.use \subseteq p.refs
    BY DEF GoingOn, Extended
  <2>2. QED BY <1>3, <1>5, <2>1 DEF LatestRight
<1>10. ErrorRight'
  BY <1>5 DEF ErrorRight
<1>11. QED BY <1>3, <1>4, <1>5, <1>6, <1>7, <1>8, <1>9, <1>10

LEMMA NearbyIsClose ==
  ASSUME NEW M \in Nat \ {0, 1}, NEW x \in Int, NEW a \in Int,
         x \in (a - (M \div 2) + 1)..(a + (M \div 2) - 1)
  PROVE  Close(M, x, a)
<1>1. PICK half \in Nat : half = M \div 2
  BY Half
<1>2. x - a \in (1 - half)..(half - 1)
  BY <1>1
<1>3. QED BY <1>1, <1>2 DEF Close

LEMMA StreamStaysNear ==
  ASSUME TypesRight, StreamRight, RefsRight, NEW s, NEW p, NEW h, NEW off, GoingOn(s, p, h, off),
         SentOn(p)
  PROVE  NearRight'
<1>1. PICK x : x = Len(sent) + 1
  OBVIOUS
<1>2. /\ Numbers' = Numbers \cup {x} /\ x \notin Numbers /\ \A n \in Numbers : n < x
      /\ sent'[x] = p /\ Poc(x)' = p.poc
      /\ \A n \in Numbers : sent'[n] = sent[n] /\ Poc(n)' = Poc(n)
      /\ Anchor \in Numbers /\ sps' = sps
  BY <1>1, StreamGoesOn
<1>3. /\ sps.max_lsb \in Nat \ {0, 1} /\ Goes /\ \A n \in Numbers : Poc(n) \in Int
      /\ Nearby(p.poc, sps.max_lsb) /\ p.poc \in Int
      /\ \A n \in Numbers : n \in Nat
  BY DEF GoingOn, Extended, Continuing, Sent
<1>4. ~IsLeading(sent[Anchor].type)
  <2>1. Anchor \in Anchors
    BY AnchorFacts DEF GoingOn, Extended, Continuing, GoesOnWith
  <2>2. CountsAsAnchor(sent[Anchor])
    BY <2>1 DEF Anchors
  <2>3. QED BY <2>2 DEF CountsAsAnchor, IsIrap, IsLeading
<1>5. SUFFICES ASSUME AllLead', NEW m \in Numbers', NEW n \in Numbers', ~IsLeading(sent'[n].type)
               PROVE  Close(sps'.max_lsb, Poc(m)', Poc(n)')
  BY DEF NearRight
<1>6. \A i, j \in Numbers' : i < j => IsLeading(sent'[j].type)
  BY <1>5 DEF AllLead
<1>7. IsLeading(sent'[x].type)
  BY <1>2, <1>6
<1>8. n \in Numbers /\ ~IsLeading(sent[n].type)
  BY <1>2, <1>5, <1>7
<1>9. \A i, j \in Numbers : i < j => IsLeading(sent[j].type)
  BY <1>2, <1>6
<1>10. CASE m \in Numbers
  <2>1. AllLead
    BY <1>9 DEF AllLead
  <2>2. Close(sps.max_lsb, Poc(m), Poc(n))
    BY <1>3, <1>8, <1>10, <2>1 DEF RefsRight, NearRight
  <2>3. QED BY <1>2, <1>8, <1>10, <2>2
<1>11. CASE m = x
  <2>1. n = Anchor
    <3>1. n \in Nat /\ Anchor \in Nat
      BY <1>2, <1>3, <1>8
    <3>2. ~(n < Anchor) /\ ~(Anchor < n)
      BY <1>2, <1>4, <1>8, <1>9
    <3>3. QED BY <3>1, <3>2
  <2>2. PICK M \in Nat \ {0, 1}, a \in Int, y \in Int : M = sps.max_lsb /\ a = Poc(Anchor) /\ y = p.poc
    BY <1>2, <1>3
  <2>3. Close(M, y, a)
    BY <1>3, <2>2, NearbyIsClose DEF Nearby
  <2>4. Poc(m)' = y /\ Poc(n)' = a
    BY <1>2, <1>8, <1>11, <2>1, <2>2
  <2>5. QED BY <1>2, <2>2, <2>3, <2>4
<1>12. QED BY <1>2, <1>10, <1>11

LEMMA FollowsMeans ==
  ASSUME NEW type, IsLeading(type), Follows(type)
  PROVE  \A n \in Numbers : n > LastIrap => IsLeading(sent[n].type)
<1>1. ~IsIrap(type)
  BY DEF IsIrap, IsLeading
<1>2. QED BY <1>1, Zenon DEF Follows

LEMMA DropRefs ==
  ASSUME Invariant, Invariant', RefsRight, NEW s, s = Finished, Finishes(s), NEW p, NEW h,
         Extended(p, h), sps # NoSet, DropPicture(s, p, h)
  PROVE  RefsRight'
<1>1. /\ TypesRight /\ StreamRight /\ Begins(s, p, h) /\ Continuing(p, h) /\ h.type = p.type
      /\ p.type = "RASL" /\ irap_no_rasl_output_flag
  BY DEF Invariant, DropPicture, Extended, Continuing, HeaderOf, Droppable
<1>2. SentOn(p) /\ Anchor' = IF CountsAsAnchor(p) THEN Len(sent) + 1 ELSE Anchor
  BY <1>1, Sending
<1>3. PICK off : GoingOn(s, p, h, off)
  BY <1>1, SequenceGoesOn
<1>4. PICK x : x = Len(sent) + 1
  OBVIOUS
<1>5. /\ Numbers' = Numbers \cup {x} /\ x \notin Numbers /\ \A n \in Numbers : n < x
      /\ Kept' = p.refs \cup {x} /\ Latest' = p /\ sent'[x] = p /\ Poc(x)' = p.poc
      /\ \A n \in Numbers : sent'[n] = sent[n] /\ Poc(n)' = Poc(n)
      /\ Anchor \in Numbers /\ Goes' /\ sps' = sps /\ stream' = stream
      /\ SeekRight' /\ LatestRight' /\ ErrorRight'
  BY <1>1, <1>2, <1>3, <1>4, StreamGoesOn
<1>6. /\ dpb' = s.dpb /\ prev_tid_0_pic' = LastTid0 /\ current_pic' = NoPicture
      /\ dropped' = dropped \cup {x} /\ irap_no_rasl_output_flag' = irap_no_rasl_output_flag
  <2>1. s.prev_tid_0_pic = LastTid0
    BY DEF Finishes, Resumed, Settled
  <2>2. Len(sent') = x
    BY <1>2, <1>4 DEF SentOn
  <2>3. QED BY <2>1, <2>2 DEF DropPicture, Keep
<1>7. Cur' = {} /\ LastTid0' = LastTid0
  BY <1>6 DEF Cur, LastTid0
<1>8. KeptIn(s) /\ Goes /\ p.refs \subseteq Kept /\ Kept \subseteq Numbers
      /\ DOMAIN s.dpb.entries \subseteq Numbers
      /\ Latest.long_term \cap p.refs \subseteq p.long_term
      /\ Follows(p.type) /\ p.joined = Latest.joined
  BY <1>3 DEF GoingOn, Extended
<1>9. DroppedRight'
  BY <1>5, <1>6, <1>7, <1>8 DEF DroppedRight, KeptIn
<1>10. NearRight'
  BY <1>1, <1>2, <1>3, StreamStaysNear
<1>11. FlagRight'
  <2>1. ~IsIrap(p.type)
    BY <1>1 DEF IsIrap
  <2>2. \A m, n \in Numbers : m < n => ~IsIrap(sent[n].type)
    BY <1>1, <1>8 DEF RefsRight, FlagRight
  <2>3. ASSUME NEW m \in Numbers', NEW n \in Numbers', m < n PROVE ~IsIrap(sent'[n].type)
    <3>1. CASE n = x
      BY <1>5, <2>1, <3>1
    <3>2. CASE n # x
      <4>1. n \in Numbers /\ n < x /\ n \in Nat /\ x \in Nat
        BY <1>4, <1>5, <3>2, <1>1, <2>3, SentTypes
      <4>2. m # x
        BY <2>3, <4>1
      <4>3. QED BY <1>5, <2>2, <2>3, <4>1, <4>2
    <3>3. QED BY <3>1, <3>2
  <2>4. QED BY <2>3 DEF FlagRight
<1>12. MsbRight'
  BY <1>5, <1>7, <1>8 DEF RefsRight, MsbRight
<1>13. JoinedRight'
  <2>1. Anchor' = Anchor
    BY <1>1, <1>2 DEF CountsAsAnchor, IsIrap
  <2>2. Poc(Anchor)' = Poc(Anchor)
    <3>1. PICK a : a = Anchor
      OBVIOUS
    <3>2. Poc(a)' = Poc(a)
      BY <1>5, <3>1
    <3>3. QED BY <2>1, <3>1, <3>2 DEF Poc
  <2>3. QED BY <1>5, <1>7, <1>8, <2>2 DEF RefsRight, JoinedRight
<1>14. AllLead'
  <2>1. IsLeading(p.type)
    BY <1>1 DEF IsLeading
  <2>2. \A n \in Numbers : n > LastIrap => IsLeading(sent[n].type)
    BY <1>8, <2>1, FollowsMeans
  <2>3. LastIrap \in Numbers /\ IsIrap(sent[LastIrap].type)
    BY <1>1, LastIrapFacts DEF Continuing, GoesOnWith
  <2>4. \A m \in Numbers : ~(m < LastIrap)
    BY <1>1, <1>8, <2>3 DEF RefsRight, FlagRight
  <2>5. \A n \in Numbers : n \in Nat
    BY <1>3 DEF GoingOn
  <2>6. ASSUME NEW m \in Numbers', NEW n \in Numbers', m < n PROVE IsLeading(sent'[n].type)
    <3>1. CASE n = x
      BY <1>5, <2>1, <3>1
    <3>2. CASE n # x
      <4>1. n \in Numbers /\ n < x /\ n \in Nat /\ x \in Nat
        BY <1>4, <1>5, <2>5, <3>2, <1>1, <2>6, SentTypes
      <4>a. m # x
        BY <2>6, <4>1
      <4>2. m \in Numbers /\ m \in Nat /\ LastIrap \in Nat
        BY <1>5, <2>3, <2>5, <2>6, <4>a
      <4>3. n > LastIrap
        BY <2>4, <2>6, <4>1, <4>2
      <4>4. QED BY <1>5, <2>2, <4>1, <4>3
    <3>3. QED BY <3>1, <3>2
  <2>7. QED BY <2>6 DEF AllLead
<1>15. KeptRight'
  <2>1. Kept' \ dropped' \subseteq References(dpb)'
    <3>1. Kept' \ dropped' \subseteq Kept \ dropped
      BY <1>5, <1>6, <1>8
    <3>2. References(dpb)' = References(s.dpb)
      BY <1>6
    <3>3. QED BY <1>8, <3>1, <3>2 DEF KeptIn
  <2>2. ASSUME NEW n \in Kept' \cap DOMAIN dpb'.entries, dpb'.entries[n].reference = "LongTerm"
        PROVE  n \in Latest'.long_term
    <3>1. n \in DOMAIN s.dpb.entries /\ s.dpb.entries[n].reference = "LongTerm"
      BY <1>6, <2>2
    <3>2. n \in p.refs /\ n \in Kept
      BY <1>5, <1>8, <2>2, <3>1
    <3>3. n \in Latest.long_term
      BY <1>8, <3>1, <3>2 DEF KeptIn
    <3>4. QED BY <1>5, <1>8, <3>2, <3>3
  <2>3. ASSUME NEW n \in Kept' \cap dropped' PROVE sent'[n].type = "RASL" /\ irap_no_rasl_output_flag'
    <3>1. CASE n = x
      BY <1>1, <1>5, <1>6, <3>1
    <3>2. CASE n # x
      <4>1. n \in Kept \cap dropped /\ n \in Numbers
        BY <1>5, <1>6, <1>8, <2>3, <3>2
      <4>2. QED BY <1>5, <1>6, <1>8, <4>1 DEF KeptIn
    <3>3. QED BY <3>1, <3>2
  <2>4. QED BY <1>6, <1>14, <2>1, <2>2, <2>3 DEF KeptRight
<1>16. RpsRight'
  BY <1>6 DEF RpsRight
<1>17. QED BY <1>5, <1>9, <1>10, <1>11, <1>12, <1>13, <1>15, <1>16 DEF RefsRight

LEMMA ContinueRefs ==
  ASSUME Invariant, Invariant', RefsRight, JoinsAlike, NEW s, s = Finished, Finishes(s), NEW p, NEW h,
         Extended(p, h), sps # NoSet, DecodePicture(s, p, h)
  PROVE  RefsRight'
<1>1. /\ TypesRight /\ StreamRight /\ Begins(s, p, h) /\ Continuing(p, h) /\ h.type = p.type
      /\ h.tid = p.tid /\ h.lsb = p.poc % sps.max_lsb /\ ~Droppable(h)
      /\ p.type \notin {"IDR", "BLA"} /\ p \in Sent /\ p.type \in Types
  BY DEF Invariant, DecodePicture, Extended, Continuing, HeaderOf, Sent
<1>2. SentOn(p) /\ Anchor' = IF CountsAsAnchor(p) THEN Len(sent) + 1 ELSE Anchor
  BY <1>1, Sending
<1>3. PICK off : GoingOn(s, p, h, off) /\ Offset(off)
  BY <1>1, SequenceGoesOn
<1>4. PICK x : x = Len(sent) + 1
  OBVIOUS
<1>5. /\ Numbers' = Numbers \cup {x} /\ x \notin Numbers /\ \A n \in Numbers : n < x
      /\ Kept' = p.refs \cup {x} /\ Latest' = p /\ sent'[x] = p /\ Poc(x)' = p.poc
      /\ \A n \in Numbers : sent'[n] = sent[n] /\ Poc(n)' = Poc(n)
      /\ Anchor \in Numbers /\ Goes' /\ sps' = sps /\ stream' = stream
      /\ SeekRight' /\ LatestRight' /\ ErrorRight'
  BY <1>1, <1>2, <1>3, <1>4, StreamGoesOn
<1>6. PICK pic, m, t : pic \in Picture /\ Begun(s, p, h, pic, m, t) /\ Made(s, h, pic, m, t)
  BY <1>1, PictureBegun
<1>7. /\ off \in Int /\ Divides(sps.max_lsb, off) /\ (off = 0 \/ p.joined) /\ (p.joined => stream.seeks)
      /\ sps \in stream.sets /\ sps.max_lsb \in Nat \ {0, 1} /\ max_pic_order_cnt_lsb = sps.max_lsb
      /\ p.poc \in Int /\ p.joined = Latest.joined
      /\ p.refs \subseteq Kept /\ Kept \subseteq Numbers /\ KeptIn(s) /\ Goes
      /\ DOMAIN s.dpb.entries \subseteq Numbers /\ p.use \subseteq p.refs
  BY <1>3 DEF GoingOn, Extended, Sent
<1>8. /\ pic.poc = p.poc + off /\ ~StartsSequence(h) /\ ~NoRaslOutputFlag(h)
  <2>1. pic = NewPicture(h, LastTid0)
    BY <1>6 DEF Begun
  <2>2. QED BY <1>1, <1>3, <1>7, <2>1, CountGoesOn
<1>9. /\ pic.n = x /\ dpb' = t.dpb /\ prev_tid_0_pic' = LastTid0
      /\ current_pic' = [pic |-> pic, rps |-> m.rps] /\ dropped' = dropped \cup t.cleared
      /\ ~StartsClean(pic) /\ m.rps \in RefPicSet
      /\ irap_no_rasl_output_flag' =
           IF IsIrap(h.type) THEN pic.no_rasl_output_flag ELSE irap_no_rasl_output_flag
      /\ m = DecodeRps(s.dpb, pic, h) /\ pic.type = h.type /\ pic.no_rasl_output_flag = NoRaslOutputFlag(h)
      /\ pic.lsb = h.lsb /\ pic.poc = pic.msb + pic.lsb
      /\ pic.valid_for_prev_tid0_pic = ValidForPrevTid0Pic(h)
  BY <1>1, <1>4, <1>6 DEF Begun, Made, Keep, Updated
<1>10. m = DeriveAndMark(s.dpb, pic, h)
  BY <1>1, <1>9 DEF DecodeRps, StartsClean
<1>11. /\ m.rps = Meant(p)
       /\ References(m.dpb) = p.refs \ dropped
       /\ \A n \in p.refs \cap DOMAIN m.dpb.entries :
            m.dpb.entries[n].reference = "LongTerm" => n \in p.long_term
  BY <1>3, <1>6, <1>8, <1>10, SetFound
(* The buffer.                                                             *)
<1>12. PICK r : r = [s EXCEPT !.dpb = m.dpb]
  OBVIOUS
<1>13. r.dpb = m.dpb /\ Resumed(r) /\ t = UpdateDpbBeforeDecoding(r, pic) /\ Updated(r, t, pic)
       /\ DOMAIN m.dpb.entries = DOMAIN s.dpb.entries
  <2>1. Resumed(r) /\ t = UpdateDpbBeforeDecoding(r, pic) /\ Updated(r, t, pic)
    BY <1>6, <1>12 DEF Begun, Made
  <2>2. r.dpb = m.dpb
    BY <1>12 DEF Finishes, Resumed
  <2>3. QED BY <1>6, <2>1, <2>2 DEF Begun, Remarked
<1>14. /\ References(t.dpb) = p.refs \ dropped
       /\ \A i \in DOMAIN t.dpb.entries : i \in DOMAIN m.dpb.entries
            /\ t.dpb.entries[i].reference = m.dpb.entries[i].reference
  BY <1>9, <1>11, <1>13, UpdateMarks
<1>15. t.cleared = {} /\ dropped' = dropped
  <2>1. sps \in Sets
    BY <1>1, <1>7, SetTypes
  <2>2. t.cleared = {}
    BY <1>9, <1>13, <2>1, UpdateFacts
  <2>3. QED BY <1>9, <2>2
<1>16. current_pic' # NoPicture /\ Cur' = {x}
  <2>1. current_pic' \in [pic : Picture, rps : RefPicSet]
    BY <1>6, <1>9
  <2>2. current_pic' # NoPicture
    BY <2>1, H265Assumption
  <2>3. QED BY <1>9, <2>2 DEF Cur
<1>17. DOMAIN dpb'.entries \subseteq DOMAIN s.dpb.entries /\ References(dpb)' = p.refs \ dropped
       /\ x \notin DOMAIN dpb'.entries
  <2>1. DOMAIN dpb'.entries \subseteq DOMAIN s.dpb.entries
    BY <1>9, <1>13, <1>14
  <2>2. QED BY <1>5, <1>7, <1>9, <1>14, <2>1
<1>18. DroppedRight'
  <2>1. x \notin dropped
    BY <1>1, <1>2, <1>4 DEF TypesRight, SentOn
  <2>2. QED BY <1>7, <1>15, <1>16, <1>17, <2>1 DEF DroppedRight, KeptIn
<1>19. NearRight'
  BY <1>1, <1>2, <1>3, StreamStaysNear
<1>20. FlagRight'
  <2>1. SUFFICES ASSUME irap_no_rasl_output_flag' PROVE FlagRight'
    BY DEF FlagRight
  <2>2. ~IsIrap(p.type) /\ irap_no_rasl_output_flag
    BY <1>1, <1>8, <1>9, <2>1
  <2>3. \A a, b \in Numbers : a < b => ~IsIrap(sent[b].type)
    BY <1>7, <2>2 DEF RefsRight, FlagRight
  <2>4. \A n \in Numbers : n \in Nat
    BY <1>3 DEF GoingOn
  <2>5. x \in Nat
    BY <1>1, <1>4, SentTypes
  <2>6. ASSUME NEW a \in Numbers', NEW b \in Numbers', a < b PROVE ~IsIrap(sent'[b].type)
    <3>1. CASE b = x
      BY <1>5, <2>2, <3>1
    <3>2. CASE b # x
      <4>1. b \in Numbers /\ b < x /\ b \in Nat
        BY <1>5, <2>4, <3>2
      <4>2. a # x
        BY <2>5, <2>6, <4>1
      <4>3. QED BY <1>5, <2>3, <2>6, <4>1, <4>2
    <3>3. QED BY <3>1, <3>2
  <2>7. QED BY <2>6 DEF FlagRight
(* The order counts.                                                       *)
<1>21. Divides(sps.max_lsb, pic.msb)
  <2>1. PICK M, a, l, msb : /\ M \in Nat \ {0, 1} /\ a \in Int /\ M = sps.max_lsb /\ a = p.poc
                                /\ l = a % M /\ msb = pic.msb
    BY <1>7
  <2>2. Divides(M, a - l) /\ l \in Nat
    BY <2>1, LowBitsDivide
  <2>3. msb \in Int
    BY <1>6, <2>1 DEF Picture
  <2>4. pic.lsb = l
    BY <1>1, <1>9, <2>1
  <2>5. msb = (a - l) + off
    BY <1>7, <1>8, <1>9, <2>1, <2>2, <2>3, <2>4
  <2>6. PICK y \in Int : y = a - l
    BY <2>1, <2>2
  <2>7. Divides(M, y + off)
    BY <1>7, <2>1, <2>2, <2>6, DividesSum
  <2>8. QED BY <2>1, <2>5, <2>6, <2>7
<1>22. stream.seeks => \A set \in stream.sets : set.max_lsb = sps.max_lsb
  BY <1>7 DEF JoinsAlike
<1>23. LastTid0' = IF ValidForPrevTid0Pic(h) THEN pic ELSE LastTid0
  <2>1. CASE ValidForPrevTid0Pic(h)
    BY <1>9, <1>16, <2>1 DEF LastTid0
  <2>2. CASE ~ValidForPrevTid0Pic(h)
    BY <1>9, <1>16, <2>2 DEF LastTid0
  <2>3. QED BY <2>1, <2>2
<1>24. ValidForPrevTid0Pic(h) <=> CountsAsAnchor(p)
  BY <1>1 DEF ValidForPrevTid0Pic, CountsAsAnchor, IsIrap, IsLeading, Types
<1>25. MsbRight'
  <2>1. CASE ValidForPrevTid0Pic(h)
    BY <1>5, <1>21, <1>22, <1>23, <2>1 DEF MsbRight
  <2>2. CASE ~ValidForPrevTid0Pic(h)
    BY <1>5, <1>7, <1>23, <2>2 DEF RefsRight, MsbRight
  <2>3. QED BY <2>1, <2>2
<1>26. JoinedRight'
  <2>1. CASE ValidForPrevTid0Pic(h)
    <3>1. Anchor' = x
      BY <1>2, <1>4, <1>24, <2>1
    <3>2. Poc(Anchor)' = p.poc
      BY <1>5, <3>1 DEF Poc
    <3>3. off = 0 => pic.poc = p.poc
      BY <1>7, <1>8
    <3>4. QED BY <1>5, <1>7, <1>23, <2>1, <3>2, <3>3 DEF JoinedRight
  <2>2. CASE ~ValidForPrevTid0Pic(h)
    <3>1. Anchor' = Anchor
      BY <1>2, <1>24, <2>2
    <3>2. Poc(Anchor)' = Poc(Anchor)
      <4>1. PICK a : a = Anchor
        OBVIOUS
      <4>2. Poc(a)' = Poc(a)
        BY <1>5, <4>1
      <4>3. QED BY <3>1, <4>1, <4>2 DEF Poc
    <3>3. QED BY <1>5, <1>7, <1>23, <2>2, <3>2 DEF RefsRight, JoinedRight
  <2>3. QED BY <2>1, <2>2
(* What is kept.                                                           *)
<1>27. ASSUME NEW n \in p.refs \cap dropped
       PROVE  ~IsIrap(p.type) /\ IsLeading(p.type) /\ sent[n].type = "RASL" /\ irap_no_rasl_output_flag
  <2>1. n \in Kept \cap dropped /\ n \in Keepable(p.type)
    BY <1>3, <1>7, <1>27 DEF GoingOn, Extended
  <2>2. sent[n].type = "RASL" /\ irap_no_rasl_output_flag
    BY <1>7, <2>1 DEF KeptIn
  <2>3. IsLeading(sent[n].type)
    BY <2>2 DEF IsLeading
  <2>4. IsLeading(p.type)
    BY <2>1, <2>3 DEF Keepable
  <2>5. QED BY <2>2, <2>4 DEF IsLeading, IsIrap
<1>28. p.use \cap dropped = {}
  <2>1. SUFFICES ASSUME NEW n \in p.use \cap dropped PROVE FALSE
    OBVIOUS
  <2>2. IsLeading(p.type) /\ sent[n].type = "RASL" /\ irap_no_rasl_output_flag
    BY <1>7, <1>27, <2>1
  <2>3. n \in Usable(p.type, p.tid)
    BY <1>3, <2>1 DEF GoingOn, Extended
  <2>4. p.type # "RADL"
    BY <2>2, <2>3 DEF Usable
  <2>5. p.type = "RASL"
    BY <2>2, <2>4 DEF IsLeading
  <2>6. QED BY <1>1, <2>2, <2>5 DEF Droppable
<1>29. KeptRight'
  <2>1. Kept' \ dropped' \subseteq References(dpb)' \cup Cur'
    BY <1>5, <1>15, <1>16, <1>17
  <2>2. References(dpb)' \subseteq Latest'.refs
    BY <1>5, <1>17
  <2>3. ASSUME NEW n \in Kept' \cap DOMAIN dpb'.entries, dpb'.entries[n].reference = "LongTerm"
        PROVE  n \in Latest'.long_term
    <3>1. n \in p.refs /\ n \in DOMAIN m.dpb.entries /\ m.dpb.entries[n].reference = "LongTerm"
      BY <1>5, <1>9, <1>14, <1>17, <2>3
    <3>2. QED BY <1>5, <1>11, <3>1
  <2>4. ASSUME NEW n \in Kept' \cap dropped' PROVE sent'[n].type = "RASL" /\ irap_no_rasl_output_flag'
    <3>1. n # x
      <4>1. x \notin dropped
        BY <1>1, <1>2, <1>4 DEF TypesRight, SentOn
      <4>2. QED BY <1>15, <2>4, <4>1
    <3>2. n \in p.refs \cap dropped /\ n \in Numbers
      BY <1>5, <1>7, <1>15, <2>4, <3>1
    <3>3. ~IsIrap(p.type) /\ sent[n].type = "RASL" /\ irap_no_rasl_output_flag
      BY <1>27, <3>2
    <3>4. QED BY <1>1, <1>5, <1>9, <3>2, <3>3
  <2>5. QED BY <1>16, <2>1, <2>2, <2>3, <2>4 DEF KeptRight
<1>30. RpsRight'
  <2>1. CountMeant(pic.poc)'
    <3>1. off = 0 => pic.poc = p.poc
      BY <1>7, <1>8
    <3>2. ASSUME p.joined, NEW set \in stream.sets PROVE Divides(set.max_lsb, pic.poc - p.poc)
      <4>1. set.max_lsb = sps.max_lsb
        BY <1>7, <1>22, <3>2
      <4>2. pic.poc - p.poc = off
        BY <1>7, <1>8
      <4>3. QED BY <1>7, <4>1, <4>2
    <3>3. QED BY <1>5, <1>7, <3>1, <3>2 DEF CountMeant
  <2>2. Meant(p)' = Meant(p)
    <3>1. CanBeListed(p)
      BY <1>3, PListable
    <3>2. \A n \in p.refs : Poc(n)' = Poc(n)
      BY <1>5, <1>7
    <3>3. Before(p)' = Before(p) /\ After(p)' = After(p)
      BY <3>1, <3>2, ListsStay
    <3>4. QED BY <1>15, <3>3, MeantStays
  <2>3. SetMeant(m.rps)'
    <3>1. PICK q : q = Latest'
      OBVIOUS
    <3>2. q = p /\ m.rps = Meant(q)'
      BY <1>5, <1>11, <2>2, <3>1
    <3>3. QED BY <3>1, <3>2 DEF SetMeant
  <2>4. CountMeant(current_pic.pic.poc)' /\ SetMeant(current_pic.rps)'
    <3>1. current_pic'.pic.poc = pic.poc /\ current_pic'.rps = m.rps
      BY <1>9
    <3>2. PICK u, v : u = current_pic'.pic.poc /\ v = current_pic'.rps
      OBVIOUS
    <3>3. CountMeant(u)' /\ SetMeant(v)'
      BY <2>1, <2>3, <3>1, <3>2
    <3>4. QED BY <3>2, <3>3 DEF CountMeant, SetMeant
  <2>5. Latest'.use \subseteq References(dpb)' /\ Latest'.use \cap dropped' = {}
    BY <1>5, <1>7, <1>15, <1>17, <1>28
  <2>6. QED BY <2>4, <2>5 DEF RpsRight
<1>31. QED BY <1>5, <1>18, <1>19, <1>20, <1>25, <1>26, <1>29, <1>30 DEF RefsRight

-----------------------------------------------------------------------------
(* Every step keeps the references right.                                  *)

LongTermsRight == sent # <<>> => Latest.long_term \subseteq Latest.refs
SpsRight == sent # <<>> => sps # NoSet
RefsFound == SpsRight /\ LongTermsRight /\ (JoinsAlike => RefsRight)

LEMMA SpsStays ==
  ASSUME TypesRight, [Next]_vars, sps # NoSet
  PROVE  sps' # NoSet
<1>1. \A set \in stream.sets : set # NoSet
  BY SetTypes
<1>2. ASSUME NEW s, NEW p, NEW h, Decode(s, p, h) PROVE sps' = sps
  BY <1>2 DEF Decode, Renegotiate, NoOutputBuffer, DropPicture, DecodePicture, Begins, format_vars
<1>3. CASE Next
  BY <1>1, <1>2, <1>3 DEF Next, FirstSps, NewSps, AcceptFormat, EndOfSequence, EndOfBitstream,
                          FinishFails, Flush, format_vars
<1>4. CASE UNCHANGED vars
  BY <1>4 DEF vars, format_vars
<1>5. QED BY <1>3, <1>4

LEMMA SentLast ==
  ASSUME TypesRight, NEW s, NEW p \in Sent, NEW h, Begins(s, p, h)
  PROVE  sent' # <<>> /\ Latest' = p /\ stream' = stream
<1>1. sent \in Seq(Sent) /\ sent' = Append(sent, p) /\ stream' = stream
  BY DEF TypesRight, Begins
<1>2. Len(sent') = Len(sent) + 1 /\ sent'[Len(sent) + 1] = p /\ Len(sent) \in Nat
  BY <1>1, Appended
<1>3. sent' # <<>>
  BY <1>2
<1>4. QED BY <1>1, <1>2, <1>3 DEF Latest

LEMMA StepRefs ==
  ASSUME Invariant, RefsFound, [Next]_vars
  PROVE  RefsFound'
<1>1. Invariant' /\ TypesRight
  BY NextKeeps DEF Invariant
<1>2. sps # NoSet => sps' # NoSet
  BY <1>1, SpsStays
<1>3. CASE Idles
  <2>1. sent' = sent /\ stream' = stream
    BY <1>3 DEF Idles
  <2>2. JoinsAlike => RefsRight'
    BY <1>3, IdlesRefs DEF RefsFound
  <2>3. QED BY <1>2, <2>1, <2>2 DEF RefsFound, JoinsAlike, LongTermsRight, SpsRight, Latest
<1>4. CASE \E s, t : Settles(s, t)
  <2>1. PICK s, t : Settles(s, t)
    BY <1>4
  <2>2. sent' = sent /\ stream' = stream
    BY <2>1 DEF Settles
  <2>3. JoinsAlike => RefsRight'
    BY <2>1, SettlesRefs DEF RefsFound
  <2>4. QED BY <1>2, <2>2, <2>3 DEF RefsFound, JoinsAlike, LongTermsRight, SpsRight, Latest
<1>5. CASE Fails
  <2>1. sent' = sent /\ stream' = stream
    BY <1>5 DEF Fails
  <2>2. JoinsAlike => RefsRight'
    BY <1>5, FailsRefs DEF RefsFound
  <2>3. QED BY <1>2, <2>1, <2>2 DEF RefsFound, JoinsAlike, LongTermsRight, SpsRight, Latest
<1>6. CASE \E s, p, h : Sends(s, p, h)
  <2>1. PICK s, p, h : Sends(s, p, h)
    BY <1>6
  <2>2. /\ s = Finished /\ Comes(p, h) /\ Finishes(s) /\ sps # NoSet
        /\ DropPicture(s, p, h) \/ DecodePicture(s, p, h)
    BY <2>1 DEF Sends, Comes
  <2>3. Begins(s, p, h)
    BY <2>2 DEF DropPicture, DecodePicture
  <2>4. Opens(p, h) \/ Extended(p, h)
    BY <2>2, Coming
  <2>5. p \in Sent
    BY <2>4 DEF Opens, Extended, Starting, Continuing
  <2>6. sent' # <<>> /\ Latest' = p /\ stream' = stream
    BY <1>1, <2>3, <2>5, SentLast
  <2>7. LongTermsRight'
    BY <2>6, <2>4 DEF LongTermsRight, Opens, Extended
  <2>8. ASSUME JoinsAlike PROVE RefsRight'
    <3>1. RefsRight
      BY <2>8 DEF RefsFound
    <3>2. CASE Opens(p, h)
      <4>1. ~Droppable(h)
        BY <3>2 DEF Opens, Droppable
      <4>2. DecodePicture(s, p, h)
        BY <2>2, <4>1 DEF DropPicture
      <4>3. QED BY <1>1, <2>2, <2>8, <3>1, <3>2, <4>2, StartRefs
    <3>3. CASE Extended(p, h) /\ DropPicture(s, p, h)
      BY <1>1, <2>2, <3>1, <3>3, DropRefs
    <3>4. CASE Extended(p, h) /\ DecodePicture(s, p, h)
      BY <1>1, <2>2, <2>8, <3>1, <3>4, ContinueRefs
    <3>5. QED BY <2>2, <2>4, <3>2, <3>3, <3>4
  <2>9. QED BY <1>2, <2>2, <2>6, <2>7, <2>8 DEF RefsFound, JoinsAlike, SpsRight
<1>7. QED BY <1>3, <1>4, <1>5, <1>6, StepKinds

LEMMA InitRefs ==
  ASSUME Init
  PROVE  RefsFound
<1>1. /\ sent = <<>> /\ dropped = {} /\ current_pic = NoPicture /\ next = "IRAP"
      /\ outcome = "Ok"
  BY DEF Init
<1>2. ~Goes /\ current_pic = NoPicture
  BY <1>1 DEF Goes
<1>3. SeekRight /\ ErrorRight /\ LatestRight /\ DroppedRight
  BY <1>1 DEF SeekRight, ErrorRight, LatestRight, DroppedRight
<1>4. LastTid0 = NoPicture
  BY DEF LastTid0, Init
<1>5. MsbRight
  BY <1>4 DEF MsbRight
<1>6. NearRight /\ FlagRight /\ JoinedRight /\ KeptRight /\ RpsRight
  BY <1>2 DEF NearRight, FlagRight, JoinedRight, KeptRight, RpsRight
<1>7. LongTermsRight
  BY <1>1 DEF LongTermsRight
<1>8. QED BY <1>1, <1>3, <1>5, <1>6, <1>7 DEF RefsFound, RefsRight, SpsRight

-----------------------------------------------------------------------------
(* What the lists of a picture hold.                                       *)

LEMMA ListingCounts ==
  ASSUME NEW S, NEW n, NEW list, IsListing(list, n, S)
  PROVE  Cardinality(S) = n
<1>1. n \in Nat /\ list \in [1..n -> S]
  BY DEF IsListing
<1>2. list \in Bijection(1..n, S)
  BY <1>1 DEF IsListing, Bijection, Injection, Surjection, IsInjective
<1>3. ExistsBijection(1..n, S)
  BY <1>2 DEF ExistsBijection
<1>4. QED BY <1>1, <1>3, FS_CountingElements

LEMMA ListingsJoin ==
  ASSUME NEW S, S \subseteq Nat, NEW m, NEW s, IsListing(s, m, S),
         NEW T, T \subseteq Nat, NEW n, NEW t, IsListing(t, n, T), S \cap T = {}
  PROVE  IsListing(s \o t, m + n, S \cup T)
<1>1. m \in Nat /\ n \in Nat /\ s \in [1..m -> Nat] /\ t \in [1..n -> Nat]
  BY DEF IsListing
<1>2. s \in Seq(Nat) /\ t \in Seq(Nat) /\ Len(s) = m /\ Len(t) = n
  BY <1>1, SeqDef, LenProperties
<1>3. PICK u : u = s \o t
  OBVIOUS
<1>4. u \in Seq(Nat) /\ Len(u) = m + n /\ \A k \in 1..(m + n) : u[k] = IF k <= m THEN s[k] ELSE t[k - m]
  BY <1>2, <1>3, Joined
<1>5. u = [i \in 1..(m + n) |-> u[i]]
  BY <1>4, LenProperties, SeqDef
<1>6. \A k \in 1..(m + n) : u[k] \in S \cup T
  BY <1>1, <1>4 DEF IsListing
<1>7. ASSUME NEW i \in 1..(m + n), NEW j \in 1..(m + n), u[i] = u[j] PROVE i = j
  <2>1. CASE i <= m /\ j <= m
    BY <1>1, <1>4, <1>7, <2>1 DEF IsListing
  <2>2. CASE ~(i <= m) /\ ~(j <= m)
    <3>1. i - m \in 1..n /\ j - m \in 1..n /\ t[i - m] = t[j - m]
      BY <1>1, <1>4, <1>7, <2>2
    <3>2. i - m = j - m
      BY <3>1 DEF IsListing
    <3>3. QED BY <1>1, <3>2
  <2>3. CASE (i <= m) # (j <= m)
    BY <1>1, <1>4, <1>7, <2>3 DEF IsListing
  <2>4. QED BY <2>1, <2>2, <2>3
<1>8. ASSUME NEW x \in S \cup T PROVE \E k \in 1..(m + n) : u[k] = x
  <2>1. CASE x \in S
    <3>1. PICK k \in 1..m : s[k] = x
      BY <2>1 DEF IsListing
    <3>2. k \in 1..(m + n) /\ u[k] = x
      BY <1>1, <1>4, <3>1
    <3>3. QED BY <3>2
  <2>2. CASE x \in T
    <3>1. PICK k \in 1..n : t[k] = x
      BY <2>2 DEF IsListing
    <3>2. k + m \in 1..(m + n) /\ (k + m) - m = k /\ ~(k + m <= m)
      BY <1>1, <3>1
    <3>3. u[k + m] = x
      BY <1>4, <3>1, <3>2
    <3>4. QED BY <3>2, <3>3
  <2>3. QED BY <1>8, <2>1, <2>2
<1>9. m + n \in Nat
  BY <1>1
<1>10. IsListing(u, m + n, S \cup T)
  BY <1>5, <1>6, <1>7, <1>8, <1>9 DEF IsListing
<1>11. QED BY <1>3, <1>10

LEMMA SmallRemainder ==
  ASSUME NEW n \in Nat \ {0}, NEW k \in 0..n
  PROVE  k % n = IF k = n THEN 0 ELSE k
<1>1. /\ k % n \in 0..(n - 1) /\ (k \div n) \in Int /\ k = n * (k \div n) + (k % n)
  BY DivMod
<1>2. PICK q \in Int, r \in 0..(n - 1) : q = k \div n /\ r = k % n /\ k = n * q + r
  BY <1>1
<1>3. QED BY <1>2

(* build_ref_pic_lists: the whole list, or one more, holds all of S, and   *)
(* an entry may be any of them.                                            *)
HoldsAll(all, n, S) ==
  /\ \A active \in {n, n + 1} : Range(RefPicList(all, active, <<>>)) = S
  /\ S = {RefPicList(all, 1, <<entry>>)[1] : entry \in 0..(n - 1)}
LEMMA ListHoldsAll ==
  ASSUME NEW S, NEW n, n # 0, NEW all, IsListing(all, n, S)
  PROVE  HoldsAll(all, n, S)
<1>1. n \in Nat \ {0} /\ all \in [1..n -> S] /\ \A x \in S : \E i \in 1..n : all[i] = x
  BY DEF IsListing
<1>2. Len(all) = n
  BY <1>1, SeqDef, LenProperties
<1>3. ASSUME NEW active \in Nat
      PROVE  LET top == Max({active, n}) IN top \in Nat /\ active <= top /\ n <= top
  <2>1. {active, n} \in SUBSET Int /\ IsFiniteSet({active, n}) /\ {active, n} # {}
    <3>1. IsFiniteSet({n}) /\ {active, n} = {n} \cup {active}
      BY FS_Singleton
    <3>2. IsFiniteSet({n} \cup {active})
      BY <3>1, FS_AddElement
    <3>3. QED BY <1>1, <3>1, <3>2
  <2>2. QED BY <1>1, <2>1, Extremes
<1>4. ASSUME NEW active \in {n, n + 1}
      PROVE  Range(RefPicList(all, active, <<>>)) = S
  <2>1. PICK top : top = Max({active, n})
    OBVIOUS
  <2>2. active \in Nat /\ top \in Nat /\ active <= top /\ n <= active /\ active <= n + 1
    BY <1>1, <1>3, <2>1
  <2>3. PICK list : list = RefPicList(all, active, <<>>)
    OBVIOUS
  <2>4. PICK temp : temp = [i \in 1..top |-> all[((i - 1) % n) + 1]]
    OBVIOUS
  <2>5. list = [i \in 1..active |-> temp[i]]
    BY <1>2, <2>1, <2>3, <2>4 DEF RefPicList
  <2>6. \A i \in 1..active : list[i] = temp[i] /\ temp[i] = all[((i - 1) % n) + 1]
    BY <2>2, <2>4, <2>5
  <2>7. \A i \in 1..active : ((i - 1) % n) + 1 = IF i = n + 1 THEN 1 ELSE i
    <3> SUFFICES ASSUME NEW i \in 1..active PROVE ((i - 1) % n) + 1 = IF i = n + 1 THEN 1 ELSE i
      OBVIOUS
    <3>1. PICK k \in 0..n : k = i - 1
      BY <1>1, <2>2
    <3>2. k % n = IF k = n THEN 0 ELSE k
      BY <1>1, SmallRemainder
    <3>3. QED BY <1>1, <2>2, <3>1, <3>2
  <2>8. \A i \in 1..active : list[i] = all[IF i = n + 1 THEN 1 ELSE i]
    BY <2>6, <2>7
  <2>9. DOMAIN list = 1..active
    BY <2>5
  <2>10. ASSUME NEW x \in Range(list) PROVE x \in S
    <3>1. PICK i \in 1..active : x = list[i]
      BY <2>9, <2>10 DEF Range
    <3>2. (IF i = n + 1 THEN 1 ELSE i) \in 1..n
      BY <1>1, <2>2
    <3>3. QED BY <1>1, <2>8, <3>1, <3>2
  <2>11. ASSUME NEW x \in S PROVE x \in Range(list)
    <3>1. PICK i \in 1..n : all[i] = x
      BY <1>1
    <3>2. i \in 1..active /\ i # n + 1
      BY <1>1, <2>2
    <3>3. list[i] = x
      BY <2>8, <3>1, <3>2
    <3>4. QED BY <2>9, <3>2, <3>3 DEF Range
  <2>12. QED BY <2>3, <2>10, <2>11
<1>5. ASSUME NEW entry \in 0..(n - 1)
      PROVE  RefPicList(all, 1, <<entry>>)[1] = all[entry + 1]
  <2>1. PICK top : top = Max({1, n})
    OBVIOUS
  <2>2. top \in Nat /\ n <= top
    BY <1>3, <2>1
  <2>3. PICK temp : temp = [i \in 1..top |-> all[((i - 1) % n) + 1]]
    OBVIOUS
  <2>4. RefPicList(all, 1, <<entry>>) = [i \in 1..1 |-> temp[IF <<entry>> = <<>> THEN i ELSE <<entry>>[i] + 1]]
    BY <1>2, <2>1, <2>3 DEF RefPicList
  <2>5. <<entry>> # <<>> /\ <<entry>>[1] = entry
    OBVIOUS
  <2>6. RefPicList(all, 1, <<entry>>)[1] = temp[entry + 1]
    BY <2>4, <2>5
  <2>7. PICK k \in 1..n : k = entry + 1
    BY <1>1
  <2>8. k \in 1..top /\ (k - 1) = entry
    BY <1>1, <2>2, <2>7
  <2>9. temp[k] = all[(entry % n) + 1]
    BY <2>3, <2>8
  <2>10. entry % n = entry
    <3>1. entry \in 0..n /\ entry # n
      BY <1>1
    <3>2. QED BY <1>1, <3>1, SmallRemainder
  <2>11. QED BY <2>6, <2>7, <2>9, <2>10
<1>6. S = {all[entry + 1] : entry \in 0..(n - 1)}
  <2>1. ASSUME NEW x \in S PROVE \E entry \in 0..(n - 1) : x = all[entry + 1]
    <3>1. PICK i \in 1..n : all[i] = x
      BY <1>1
    <3>2. PICK entry \in 0..(n - 1) : entry = i - 1 /\ entry + 1 = i
      BY <1>1
    <3>3. QED BY <3>1, <3>2
  <2>2. ASSUME NEW entry \in 0..(n - 1) PROVE all[entry + 1] \in S
    <3>1. entry + 1 \in 1..n
      BY <1>1
    <3>2. QED BY <1>1, <3>1
  <2>3. QED BY <2>1, <2>2
<1>7. {RefPicList(all, 1, <<entry>>)[1] : entry \in 0..(n - 1)} = {all[entry + 1] : entry \in 0..(n - 1)}
  BY <1>5
<1>8. QED BY <1>4, <1>6, <1>7 DEF HoldsAll

UsedBefore(p) == Befores(p) \cap p.use
UsedAfter(p) == Afters(p) \cap p.use
UsedLong(p) == p.long_term \cap p.use

(* A list of those that are used, none of which was dropped.               *)
LEMMA UsedListing ==
  ASSUME NEW S, S \subseteq Nat \ {0}, NEW n, NEW list, IsListing(list, n, S),
         NEW use, NEW lost, use \cap lost = {}
  PROVE  \E k \in Nat : IsListing(Without(lost, ChosenOf(list, use, TRUE)), k, S \cap use)
<1>1. PICK c : c = ChosenOf(list, use, TRUE)
  OBVIOUS
<1>2. PICK k \in Nat : IsListing(c, k, Picked(S, use, TRUE))
  BY <1>1, ChosenFacts
<1>3. IsListing(c, k, S \cap use)
  BY <1>2 DEF Picked
<1>4. c = [i \in 1..k |-> c[i]] /\ \A i \in 1..k : c[i] \notin lost
  BY <1>3 DEF IsListing
<1>5. DOMAIN c = 1..k
  BY <1>4
<1>6. Without(lost, c) = [i \in 1..k |-> c[i]]
  BY <1>4, <1>5 DEF Without
<1>7. Without(lost, c) = c
  BY <1>4, <1>6
<1>8. QED BY <1>1, <1>3, <1>7

(* The lists of the set of a picture that was meant.                       *)
LEMMA MeantLists ==
  ASSUME NEW p, CanBeListed(p), p.refs \subseteq Nat \ {0}, p.use \subseteq p.refs,
         \A n \in p.refs : Poc(n) # p.poc, p.use \cap dropped = {},
         NEW rps, rps = Meant(p)
  PROVE  LET total == Cardinality(p.use) IN
         total > 0 =>
           /\ HoldsAll(rps.st_curr_before \o rps.st_curr_after \o rps.lt_curr, total, p.use)
           /\ HoldsAll(rps.st_curr_after \o rps.st_curr_before \o rps.lt_curr, total, p.use)
<1>1. PICK B, A, L : B = UsedBefore(p) /\ A = UsedAfter(p) /\ L = UsedLong(p)
  OBVIOUS
<1>2. /\ IsFiniteSet(p.refs) /\ p.refs \in SUBSET Nat /\ p.long_term \subseteq p.refs /\ p.poc \in Int
      /\ \A n \in p.refs : Poc(n) \in Int
  BY DEF CanBeListed
<1>3. /\ Befores(p) \subseteq Nat \ {0} /\ Afters(p) \subseteq Nat \ {0} /\ p.long_term \subseteq Nat \ {0}
      /\ B \cap A = {} /\ (B \cup A) \cap L = {} /\ (A \cup B) \cap L = {}
  BY <1>1, <1>2 DEF Befores, Afters, UsedBefore, UsedAfter, UsedLong
<1>4. B \cup A \cup L = p.use /\ A \cup B \cup L = p.use
  <2>1. ASSUME NEW n \in p.use PROVE n \in B \cup A \cup L
    <3>1. n \in p.refs /\ Poc(n) \in Int /\ Poc(n) # p.poc
      BY <1>2
    <3>2. Poc(n) < p.poc \/ Poc(n) > p.poc
      BY <1>2, <3>1
    <3>3. QED BY <1>1, <3>1, <3>2 DEF Befores, Afters, UsedBefore, UsedAfter, UsedLong
  <2>2. B \cup A \cup L \subseteq p.use
    BY <1>1 DEF UsedBefore, UsedAfter, UsedLong
  <2>3. QED BY <2>1, <2>2
<1>5. PICK b : b = Without(dropped, ChosenOf(Before(p), p.use, TRUE))
  OBVIOUS
<1>6. PICK a : a = Without(dropped, ChosenOf(After(p), p.use, TRUE))
  OBVIOUS
<1>7. PICK l : l = Without(dropped, ChosenOf(LongTerms(p), p.use, TRUE))
  OBVIOUS
<1>8. \E n \in Nat : IsListing(b, n, B)
  <2>1. PICK key : key = Backwards(Befores(p))
    OBVIOUS
  <2>2. IsFiniteSet(Befores(p)) /\ IsKey(Befores(p), key) /\ Listed(Before(p), Befores(p), key)
    BY <2>1, BeforeFacts DEF BeforesListed
  <2>3. PICK n \in Nat : IsListing(Before(p), n, Befores(p))
    BY <2>2, ListedIsListing
  <2>4. \E k \in Nat : IsListing(b, k, Befores(p) \cap p.use)
    BY <1>3, <1>5, <2>3, UsedListing
  <2>5. QED BY <1>1, <2>4 DEF UsedBefore
<1>9. \E n \in Nat : IsListing(a, n, A)
  <2>1. PICK key : key = Forwards(Afters(p))
    OBVIOUS
  <2>2. IsFiniteSet(Afters(p)) /\ IsKey(Afters(p), key) /\ Listed(After(p), Afters(p), key)
    BY <2>1, AfterFacts DEF AftersListed
  <2>3. PICK n \in Nat : IsListing(After(p), n, Afters(p))
    BY <2>2, ListedIsListing
  <2>4. \E k \in Nat : IsListing(a, k, Afters(p) \cap p.use)
    BY <1>3, <1>6, <2>3, UsedListing
  <2>5. QED BY <1>1, <2>4 DEF UsedAfter
<1>10. \E n \in Nat : IsListing(l, n, L)
  <2>1. PICK n \in Nat : IsListing(LongTerms(p), n, p.long_term)
    <3>1. /\ IsFiniteSet(p.long_term) /\ IsKey(p.long_term, Itself(p.long_term))
          /\ Listed(LongTerms(p), p.long_term, Itself(p.long_term))
      BY <1>2, LongTermsFacts
    <3>2. QED BY <3>1, ListedIsListing
  <2>2. \E k \in Nat : IsListing(l, k, p.long_term \cap p.use)
    BY <1>3, <1>7, <2>1, UsedListing
  <2>3. QED BY <1>1, <2>2 DEF UsedLong
<1>11. PICK nb \in Nat : IsListing(b, nb, B)
  BY <1>8
<1>12. PICK na \in Nat : IsListing(a, na, A)
  BY <1>9
<1>13. PICK nl \in Nat : IsListing(l, nl, L)
  BY <1>10
<1>14. B \subseteq Nat /\ A \subseteq Nat /\ L \subseteq Nat
  BY <1>1, <1>3 DEF UsedBefore, UsedAfter, UsedLong
<1>15. /\ IsListing(b \o a, nb + na, B \cup A) /\ IsListing(a \o b, na + nb, A \cup B)
  BY <1>3, <1>11, <1>12, <1>14, ListingsJoin
<1>16. PICK ba, ab : ba = b \o a /\ ab = a \o b
  OBVIOUS
<1>17. PICK x, y : x = b \o a \o l /\ y = a \o b \o l
  OBVIOUS
<1>18. x = ba \o l /\ y = ab \o l
  BY <1>16, <1>17
<1>19. IsListing(x, (nb + na) + nl, p.use)
  <2>1. IsListing(ba \o l, (nb + na) + nl, (B \cup A) \cup L)
    BY <1>3, <1>13, <1>14, <1>15, <1>16, ListingsJoin
  <2>2. QED BY <1>4, <1>18, <2>1
<1>20. IsListing(y, (na + nb) + nl, p.use)
  <2>1. IsListing(ab \o l, (na + nb) + nl, (A \cup B) \cup L)
    BY <1>3, <1>13, <1>14, <1>15, <1>16, ListingsJoin
  <2>2. QED BY <1>4, <1>18, <2>1
<1>21. PICK total : total = Cardinality(p.use)
  OBVIOUS
<1>22. IsListing(x, total, p.use) /\ IsListing(y, total, p.use)
  BY <1>19, <1>20, <1>21, ListingCounts
<1>23. rps.st_curr_before = b /\ rps.st_curr_after = a /\ rps.lt_curr = l
  BY <1>5, <1>6, <1>7 DEF Meant, Found, Without, ChosenOf, Chosen
<1>24. rps.st_curr_before \o rps.st_curr_after \o rps.lt_curr = x
       /\ rps.st_curr_after \o rps.st_curr_before \o rps.lt_curr = y
  BY <1>17, <1>23
<1>25. total > 0 => HoldsAll(x, total, p.use) /\ HoldsAll(y, total, p.use)
  BY <1>22, ListHoldsAll
<1>26. QED BY <1>21, <1>24, <1>25

LEMMA RefsGiveMeant ==
  ASSUME Invariant, RefsFound
  PROVE  ReferencesAsMeant
<1> SUFFICES ASSUME JoinsAlike, current_pic # NoPicture
             PROVE  LET rps == current_pic.rps IN
                    /\ \/ current_pic.pic.poc = Latest.poc
                       \/ Latest.joined /\ (current_pic.pic.poc - Latest.poc) % sps.max_lsb = 0
                    /\ rps = Meant(Latest) \/ (Latest.refs = {} /\ RpsPictures(rps) = {})
                    /\ Latest.use \subseteq References(dpb)
                    /\ LET total == Cardinality(Latest.use) IN
                       total > 0 =>
                         /\ \A active \in {total, total + 1} :
                              /\ Range(RefPicList0(rps, active, <<>>)) = Latest.use
                              /\ Range(RefPicList1(rps, active, <<>>)) = Latest.use
                         /\ Latest.use = {RefPicList0(rps, 1, <<entry>>)[1] : entry \in 0..(total - 1)}
                         /\ Latest.use = {RefPicList1(rps, 1, <<entry>>)[1] : entry \in 0..(total - 1)}
  BY DEF ReferencesAsMeant
<1>1. /\ TypesRight /\ StreamRight /\ sent # <<>> /\ sps # NoSet
      /\ RpsRight /\ LatestRight /\ Latest.long_term \subseteq Latest.refs
  BY DEF Invariant, PlacesRight, RefsFound, SpsRight, LongTermsRight, RefsRight
<1>2. sps \in stream.sets
  BY <1>1, SetTypes
<1>3. CountMeant(current_pic.pic.poc) /\ SetMeant(current_pic.rps)
      /\ Latest.use \subseteq References(dpb) /\ Latest.use \cap dropped = {}
  BY <1>1 DEF RpsRight
<1>4. \/ current_pic.pic.poc = Latest.poc
      \/ Latest.joined /\ (current_pic.pic.poc - Latest.poc) % sps.max_lsb = 0
  BY <1>2, <1>3 DEF CountMeant, Divides
<1>5. current_pic.rps = Meant(Latest) \/ (Latest.refs = {} /\ RpsPictures(current_pic.rps) = {})
  BY <1>3 DEF SetMeant
<1>6. PICK rps, use, total : rps = current_pic.rps /\ use = Latest.use /\ total = Cardinality(use)
  OBVIOUS
<1>7. PICK p : p = Latest
  OBVIOUS
<1>8. /\ p \in Sent /\ Len(sent) \in DOMAIN sent /\ Len(sent) \in Numbers /\ Len(sent) \in Nat
      /\ \A n \in DOMAIN sent : Poc(n) \in Int
      /\ Numbers \subseteq DOMAIN sent /\ IsFiniteSet(Numbers) /\ Numbers \subseteq Nat \ {0}
  BY <1>1, <1>7, SentTypes
<1>9. p.refs \subseteq Numbers /\ p.use \subseteq p.refs /\ p.long_term \subseteq p.refs
  BY <1>1, <1>7 DEF LatestRight
<1>10. p.refs \subseteq 1..(Len(sent) - 1) /\ p.poc = Poc(Len(sent)) /\ p.poc \in Int
  BY <1>1, <1>7, <1>8 DEF StreamRight, Latest, Poc
<1>11. \A m, n \in Numbers : Poc(m) = Poc(n) => m = n
  BY <1>1 DEF StreamRight
<1>12. \A n \in p.refs : Poc(n) # p.poc
  BY <1>8, <1>9, <1>10, <1>11
<1>13. IsFiniteSet(p.refs)
  BY <1>8, <1>9, FS_Subset
<1>14. CanBeListed(p) /\ p.refs \subseteq Nat \ {0}
  BY <1>8, <1>9, <1>10, <1>11, <1>13 DEF CanBeListed
<1>15. ASSUME total > 0
       PROVE  /\ HoldsAll(rps.st_curr_before \o rps.st_curr_after \o rps.lt_curr, total, use)
              /\ HoldsAll(rps.st_curr_after \o rps.st_curr_before \o rps.lt_curr, total, use)
  <2>1. p.refs # {}
    <3>1. use # {}
      BY <1>6, <1>15, FS_EmptySet
    <3>2. QED BY <1>6, <1>7, <1>9, <3>1
  <2>2. rps = Meant(p)
    BY <1>5, <1>6, <1>7, <2>1
  <2>3. p.use \cap dropped = {} /\ use = p.use
    BY <1>3, <1>6, <1>7
  <2>4. QED BY <1>6, <1>9, <1>12, <1>14, <1>15, <2>2, <2>3, MeantLists
<1>16. total > 0 =>
         /\ \A active \in {total, total + 1} :
              /\ Range(RefPicList0(rps, active, <<>>)) = use
              /\ Range(RefPicList1(rps, active, <<>>)) = use
         /\ use = {RefPicList0(rps, 1, <<entry>>)[1] : entry \in 0..(total - 1)}
         /\ use = {RefPicList1(rps, 1, <<entry>>)[1] : entry \in 0..(total - 1)}
  BY <1>15 DEF HoldsAll, RefPicList0, RefPicList1
<1>17. QED BY <1>3, <1>4, <1>5, <1>6, <1>16

(* A picture is decoded with the references that its encoder meant: they   *)
(* are found by their order counts, are in the buffer, and in the lists.   *)
THEOREM ReferencesFound == Spec => []ReferencesAsMeant
<1>1. Init => Invariant /\ RefsFound
  BY InitInvariant, InitRefs
<1>2. Invariant /\ RefsFound /\ [Next]_vars => Invariant' /\ RefsFound'
  BY NextKeeps, StepRefs
<1>3. Invariant /\ RefsFound => ReferencesAsMeant
  BY RefsGiveMeant
<1>4. QED BY <1>1, <1>2, <1>3, PTL DEF Spec
=============================================================================
