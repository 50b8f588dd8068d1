------------------------- MODULE StatefulEncoderProofs -------------------------
(***************************************************************************)
(* Theorems of StatefulEncoder, for every set of codecs, devices and       *)
(* tunings, any number of buffers and calls: the device may work on        *)
(* between any two steps of a call.                                        *)
(***************************************************************************)
EXTENDS StatefulEncoder, SequenceTheorems, WellFoundedInduction, TLAPS

-----------------------------------------------------------------------------
(* Facts about numbers and sequences, among them induction over the        *)
(* naturals for a set.                                                     *)

LEMMA LeastNatural ==
  ASSUME NEW S \in SUBSET Nat, S # {}
  PROVE  \E n \in S : \A m \in S : n <= m
<1> DEFINE R == OpToRel(<, Nat)
<1>1. IsWellFoundedOn(R, Nat)
  BY NatLessThanWellFounded
<1>2. \A m, n \in Nat : m < n => <<m, n>> \in R
  BY DEF OpToRel
<1> HIDE DEF R
<1>3. \E n \in S : \A m \in S : ~ (<<m, n>> \in R)
  BY <1>1, WFMin
<1>4. PICK n \in S : \A m \in S : ~ (<<m, n>> \in R)
  BY <1>3
<1>5. \A m \in S : m \in Nat /\ n \in Nat /\ ~ (m < n)
  BY <1>2, <1>4
<1>6. \A m \in S : n <= m
  BY <1>5
<1>7. QED BY <1>6

(* A set with 0 that has the successor of each of its naturals has all of  *)
(* them: the form of induction a set can carry.                            *)
LEMMA SetInduction ==
  ASSUME NEW S, 0 \in S, \A n \in Nat : n \in S => n + 1 \in S
  PROVE  \A n \in Nat : n \in S
<1> DEFINE T == Nat \ S
<1> SUFFICES ASSUME T # {} PROVE FALSE
  OBVIOUS
<1>1. PICK n \in T : \A m \in T : n <= m
  BY LeastNatural
<1>2. n \in Nat /\ n # 0 /\ n \notin S
  BY <1>1
<1>3. n - 1 \in Nat /\ (n - 1) + 1 = n
  BY <1>2
<1>4. n - 1 \in S
  BY <1>1, <1>3
<1>5. QED BY <1>2, <1>3, <1>4

-----------------------------------------------------------------------------
(* One element put behind a sequence, or taken from its front.             *)

LEMMA AppendFacts ==
  ASSUME NEW S, NEW s \in Seq(S), NEW x \in S
  PROVE  LET u == Append(s, x) IN
         /\ u \in Seq(S) /\ u # <<>>
         /\ Len(s) \in Nat /\ Len(u) = Len(s) + 1
         /\ DOMAIN s = 1..Len(s) /\ DOMAIN u = 1..Len(u)
         /\ \A i \in 1..Len(s) : u[i] = s[i]
         /\ u[Len(s) + 1] = x
         /\ \A i \in 1..Len(u) : \/ i \in 1..Len(s) /\ u[i] = s[i]
                                 \/ i = Len(s) + 1 /\ u[i] = x
<1> DEFINE u == Append(s, x)
<1>1. /\ u \in Seq(S) /\ Len(u) = Len(s) + 1
      /\ \A i \in 1..Len(s) : u[i] = s[i]
      /\ u[Len(s) + 1] = x
  BY AppendProperties
<1>2. Len(s) \in Nat /\ DOMAIN s = 1..Len(s) /\ DOMAIN u = 1..Len(u)
  BY <1>1, LenProperties
<1> HIDE DEF u
<1>3. u # <<>>
  BY <1>1, <1>2, EmptySeq
<1>4. \A i \in 1..Len(u) : i \in 1..Len(s) \/ i = Len(s) + 1
  BY <1>1, <1>2
<1>5. QED BY <1>1, <1>2, <1>3, <1>4 DEF u

LEMMA TailFacts ==
  ASSUME NEW S, NEW s \in Seq(S), s # <<>>
  PROVE  /\ Head(s) \in S /\ Head(s) = s[1] /\ Tail(s) \in Seq(S)
         /\ Len(s) \in Nat \ {0} /\ Len(Tail(s)) = Len(s) - 1
         /\ DOMAIN s = 1..Len(s) /\ DOMAIN Tail(s) = 1..(Len(s) - 1)
         /\ \A i \in 1..(Len(s) - 1) : Tail(s)[i] = s[i + 1] /\ i + 1 \in 1..Len(s)
<1>1. /\ Head(s) \in S /\ Tail(s) \in Seq(S)
      /\ Len(Tail(s)) = Len(s) - 1
      /\ \A i \in 1..Len(Tail(s)) : Tail(s)[i] = s[i + 1]
  BY HeadTailProperties
<1>2. Len(s) \in Nat \ {0} /\ Head(s) = s[1]
  BY EmptySeq
<1>3. DOMAIN s = 1..Len(s) /\ DOMAIN Tail(s) = 1..(Len(s) - 1)
  BY <1>1, LenProperties
<1>4. \A i \in 1..(Len(s) - 1) : i + 1 \in 1..Len(s)
  BY <1>2
<1>5. QED BY <1>1, <1>2, <1>3, <1>4

LEMMA HeadThenTail ==
  ASSUME NEW S, NEW s \in Seq(S), s # <<>>
  PROVE  <<Head(s)>> \in Seq(S) /\ Tail(s) \in Seq(S) /\ s = <<Head(s)>> \o Tail(s)
<1> DEFINE h == <<Head(s)>>
           u == h \o Tail(s)
<1>1. /\ Head(s) \in S /\ Head(s) = s[1] /\ Tail(s) \in Seq(S)
      /\ Len(s) \in Nat \ {0} /\ Len(Tail(s)) = Len(s) - 1
      /\ \A i \in 1..(Len(s) - 1) : Tail(s)[i] = s[i + 1]
  BY TailFacts
<1>2. h \in Seq(S) /\ Len(h) = 1 /\ h[1] = s[1]
  BY <1>1
<1>3. /\ u \in Seq(S) /\ Len(u) = Len(h) + Len(Tail(s))
      /\ \A i \in 1..(Len(h) + Len(Tail(s))) :
           u[i] = IF i <= Len(h) THEN h[i] ELSE Tail(s)[i - Len(h)]
  BY <1>1, <1>2, ConcatProperties
<1> HIDE DEF u
<1>4. Len(u) = Len(s) /\ \A i \in 1..Len(s) : u[i] = s[i]
  BY <1>1, <1>2, <1>3
<1>5. s = u
  BY <1>3, <1>4, SeqEqual
<1>6. QED BY <1>1, <1>2, <1>5 DEF u

(* The first element of a sequence goes behind the one before it.          *)
LEMMA MoveOver ==
  ASSUME NEW S, NEW s \in Seq(S), NEW t \in Seq(S), t # <<>>
  PROVE  /\ Append(s, Head(t)) \in Seq(S) /\ Tail(t) \in Seq(S)
         /\ Append(s, Head(t)) \o Tail(t) = s \o t
<1> DEFINE h == <<Head(t)>>
<1>1. h \in Seq(S) /\ Tail(t) \in Seq(S) /\ t = h \o Tail(t) /\ Head(t) \in S
  BY HeadThenTail, HeadTailProperties
<1>2. Append(s, Head(t)) = s \o h
  BY <1>1, AppendIsConcat
<1> HIDE DEF h
<1>3. (s \o h) \o Tail(t) = s \o (h \o Tail(t))
  BY <1>1, ConcatAssociative, SMTT(30)
<1>4. s \o h \in Seq(S)
  BY <1>1, ConcatProperties
<1>5. QED BY <1>1, <1>2, <1>3, <1>4

LEMMA AppendBehind ==
  ASSUME NEW S, NEW s \in Seq(S), NEW t \in Seq(S), NEW x \in S
  PROVE  s \o t \in Seq(S) /\ s \o Append(t, x) = Append(s \o t, x)
<1>1. <<x>> \in Seq(S) /\ s \o t \in Seq(S)
  BY ConcatProperties
<1>2. Append(t, x) = t \o <<x>> /\ Append(s \o t, x) = (s \o t) \o <<x>>
  BY <1>1, AppendIsConcat
<1>3. (s \o t) \o <<x>> = s \o (t \o <<x>>)
  BY <1>1, ConcatAssociative
<1>4. QED BY <1>1, <1>2, <1>3

LEMMA TailInFront ==
  ASSUME NEW S, NEW s \in Seq(S), NEW t \in Seq(S), s # <<>>
  PROVE  /\ s \o t # <<>> /\ Head(s \o t) = Head(s)
         /\ Tail(s \o t) = Tail(s) \o t
<1> DEFINE u == s \o t
           v == Tail(s) \o t
<1>1. /\ Head(s) = s[1] /\ Tail(s) \in Seq(S)
      /\ Len(s) \in Nat \ {0} /\ Len(Tail(s)) = Len(s) - 1
      /\ \A i \in 1..(Len(s) - 1) : Tail(s)[i] = s[i + 1]
  BY TailFacts
<1>2. /\ u \in Seq(S) /\ Len(u) = Len(s) + Len(t)
      /\ \A i \in 1..(Len(s) + Len(t)) : u[i] = IF i <= Len(s) THEN s[i] ELSE t[i - Len(s)]
  BY ConcatProperties
<1>3. /\ v \in Seq(S) /\ Len(v) = Len(Tail(s)) + Len(t)
      /\ \A i \in 1..(Len(Tail(s)) + Len(t)) :
           v[i] = IF i <= Len(Tail(s)) THEN Tail(s)[i] ELSE t[i - Len(Tail(s))]
  BY <1>1, ConcatProperties
<1>4. Len(t) \in Nat
  BY LenProperties
<1> HIDE DEF u, v
<1>5. u # <<>>
  BY <1>1, <1>2, <1>4, EmptySeq
<1>6. /\ Head(u) = u[1] /\ Tail(u) \in Seq(S) /\ Len(Tail(u)) = Len(u) - 1
      /\ \A i \in 1..(Len(u) - 1) : Tail(u)[i] = u[i + 1]
  BY <1>2, <1>5, TailFacts
<1>7. Len(v) = Len(Tail(u)) /\ Len(v) \in Nat
  BY <1>1, <1>2, <1>3, <1>4, <1>6
<1>8. \A i \in 1..Len(v) : v[i] = Tail(u)[i]
  <2> SUFFICES ASSUME NEW i \in 1..Len(v) PROVE v[i] = Tail(u)[i]
    OBVIOUS
  <2>1. i \in 1..(Len(u) - 1) /\ i + 1 \in 1..(Len(s) + Len(t)) /\ Tail(u)[i] = u[i + 1]
    BY <1>1, <1>2, <1>3, <1>4, <1>6, <1>7
  <2>2. CASE i <= Len(Tail(s))
    <3>1. i \in 1..(Len(s) - 1) /\ i + 1 <= Len(s)
      BY <1>1, <2>1, <2>2
    <3>2. v[i] = s[i + 1] /\ u[i + 1] = s[i + 1]
      BY <1>1, <1>2, <1>3, <1>7, <2>1, <2>2, <3>1
    <3>3. QED BY <2>1, <3>2
  <2>3. CASE ~ (i <= Len(Tail(s)))
    <3>1. ~ (i + 1 <= Len(s)) /\ (i + 1) - Len(s) = i - Len(Tail(s))
      BY <1>1, <1>7, <2>1, <2>3
    <3>2. v[i] = t[i - Len(Tail(s))] /\ u[i + 1] = t[(i + 1) - Len(s)]
      BY <1>2, <1>3, <1>7, <2>1, <2>3, <3>1
    <3>3. QED BY <2>1, <3>1, <3>2
  <2>4. QED BY <2>2, <2>3
<1>9. v = Tail(u)
  BY <1>3, <1>6, <1>7, <1>8, SeqEqual
<1>10. u[1] = s[1]
  BY <1>1, <1>2, <1>4
<1>11. QED BY <1>1, <1>5, <1>6, <1>9, <1>10 DEF u, v

(* The first element of the second part of a sequence is taken out of it.  *)
LEMMA WithoutOne ==
  ASSUME NEW S, NEW s \in Seq(S), NEW t \in Seq(S), t # <<>>
  PROVE  LET u == s \o t IN
         /\ Len(s) \in 0..Len(u) /\ Len(s) + 1 \in 0..Len(u)
         /\ s \o Tail(t) = SubSeq(u, 1, Len(s)) \o SubSeq(u, (Len(s) + 1) + 1, Len(u))
<1> DEFINE u == s \o t
           m == Len(s) + 2
           front == SubSeq(u, 1, Len(s))
           back == SubSeq(u, m, Len(u))
<1>1. /\ u \in Seq(S) /\ Len(u) = Len(s) + Len(t)
      /\ \A i \in 1..(Len(s) + Len(t)) : u[i] = IF i <= Len(s) THEN s[i] ELSE t[i - Len(s)]
  BY ConcatProperties
<1>2. /\ Tail(t) \in Seq(S) /\ Len(t) \in Nat \ {0} /\ Len(Tail(t)) = Len(t) - 1
      /\ \A i \in 1..(Len(t) - 1) : Tail(t)[i] = t[i + 1]
  BY TailFacts
<1>3. Len(s) \in Nat /\ \A i \in 1..Len(u) : u[i] \in S
  BY <1>1, LenProperties
<1> HIDE DEF u
<1>4. Len(u) \in Nat /\ Len(s) + 1 <= Len(u) /\ m \in Nat /\ m <= Len(u) + 1
  BY <1>1, <1>2, <1>3
<1> HIDE DEF m
<1>5. front = s
  <2>1. \A i \in 1..Len(s) : i \in 1..Len(u)
    BY <1>3, <1>4
  <2>2. \A i \in 1..Len(s) : u[i] \in S
    BY <1>3, <2>1
  <2>3. /\ front \in Seq(S)
        /\ Len(front) = IF 1 <= Len(s) THEN Len(s) - 1 + 1 ELSE 0
        /\ \A i \in 1..(Len(s) - 1 + 1) : front[i] = u[1 + i - 1]
    BY <1>3, <2>2, SubSeqProperties
  <2> HIDE DEF front
  <2>4. Len(front) = Len(s)
    BY <1>3, <2>3
  <2>5. \A i \in 1..Len(s) : front[i] = u[i]
    BY <1>3, <2>3
  <2>6. \A i \in 1..Len(s) : u[i] = s[i]
    BY <1>1, <1>3, <1>4
  <2>7. QED BY <2>3, <2>4, <2>5, <2>6, SeqEqual
<1>6. back = Tail(t)
  <2>1. \A i \in m..Len(u) : i \in 1..Len(u)
    BY <1>3, <1>4 DEF m
  <2>2. \A i \in m..Len(u) : u[i] \in S
    BY <1>3, <2>1
  <2>3. /\ back \in Seq(S)
        /\ Len(back) = IF m <= Len(u) THEN Len(u) - m + 1 ELSE 0
        /\ \A i \in 1..(Len(u) - m + 1) : back[i] = u[m + i - 1]
    BY <1>4, <2>2, SubSeqProperties
  <2> HIDE DEF back
  <2>4. Len(u) - m + 1 = Len(t) - 1
    BY <1>1, <1>2, <1>3 DEF m
  <2>5. Len(back) = Len(Tail(t))
    BY <1>2, <1>4, <2>3, <2>4
  <2>6. \A i \in 1..Len(Tail(t)) : back[i] = Tail(t)[i]
    <3> SUFFICES ASSUME NEW i \in 1..Len(Tail(t)) PROVE back[i] = Tail(t)[i]
      OBVIOUS
    <3>1. i \in 1..(Len(t) - 1) /\ i \in 1..(Len(u) - m + 1)
      BY <1>2, <2>4
    <3>2. back[i] = u[m + i - 1]
      BY <2>3, <3>1
    <3>3. /\ m + i - 1 \in 1..(Len(s) + Len(t)) /\ ~ (m + i - 1 <= Len(s))
          /\ (m + i - 1) - Len(s) = i + 1
      BY <1>2, <1>3, <3>1 DEF m
    <3>4. u[m + i - 1] = t[i + 1]
      BY <1>1, <3>3
    <3>5. Tail(t)[i] = t[i + 1]
      BY <1>2, <3>1
    <3>6. QED BY <3>2, <3>4, <3>5
  <2>7. QED BY <1>2, <2>3, <2>5, <2>6, SeqEqual
<1>7. (Len(s) + 1) + 1 = m
  BY <1>3 DEF m
<1>8. s \o Tail(t) = front \o SubSeq(u, (Len(s) + 1) + 1, Len(u))
  <2> HIDE DEF front
  <2>1. QED BY <1>5, <1>6, <1>7
<1>9. Len(s) \in 0..Len(u) /\ Len(s) + 1 \in 0..Len(u)
  BY <1>3, <1>4
<1>10. QED BY <1>8, <1>9 DEF u

LEMMA IsAppended ==
  ASSUME NEW S, NEW s \in Seq(S), NEW u \in Seq(S), NEW x \in S, Len(u) = Len(s) + 1,
         \A i \in 1..Len(s) : u[i] = s[i],
         u[Len(s) + 1] = x
  PROVE  u = Append(s, x)
<1> DEFINE v == Append(s, x)
<1>1. /\ v \in Seq(S) /\ Len(v) = Len(s) + 1
      /\ \A i \in 1..Len(v) : \/ i \in 1..Len(s) /\ v[i] = s[i]
                              \/ i = Len(s) + 1 /\ v[i] = x
  BY AppendFacts
<1> HIDE DEF v
<1>2. \A i \in 1..Len(u) : u[i] = v[i]
  BY <1>1
<1>3. u = v
  BY <1>1, <1>2, SeqEqual
<1>4. QED BY <1>3 DEF v

LEMMA IsTail ==
  ASSUME NEW S, NEW s \in Seq(S), s # <<>>, NEW u \in Seq(S), Len(u) = Len(s) - 1,
         \A i \in 1..Len(u) : u[i] = s[i + 1]
  PROVE  u = Tail(s)
<1>1. /\ Tail(s) \in Seq(S) /\ Len(Tail(s)) = Len(s) - 1
      /\ \A i \in 1..(Len(s) - 1) : Tail(s)[i] = s[i + 1]
  BY TailFacts
<1>2. QED BY <1>1, SeqEqual

(* A sequence of unknown elements.                                         *)
IsSeq(s) == s \in Seq({s[i] : i \in DOMAIN s})

LEMMA SeqIsSeq ==
  ASSUME NEW S, NEW s \in Seq(S)
  PROVE  IsSeq(s)
<1>1. Len(s) \in Nat /\ DOMAIN s = 1..Len(s) /\ s \in [1..Len(s) -> S]
  BY LenProperties
<1>2. s \in [1..Len(s) -> {s[i] : i \in DOMAIN s}]
  BY <1>1
<1>3. QED BY <1>1, <1>2, SeqDef DEF IsSeq

LEMMA NothingIsSeq == IsSeq(<<>>) /\ Len(<<>>) = 0 /\ DOMAIN <<>> = {}
<1>1. <<>> \in Seq({}) /\ Len(<<>>) = 0
  BY EmptySeq
<1>2. DOMAIN <<>> = 1..0
  BY <1>1, LenProperties
<1>3. IsSeq(<<>>)
  BY <1>1, SeqIsSeq
<1>4. QED BY <1>1, <1>2, <1>3

LEMMA IsSeqAppend ==
  ASSUME NEW s, NEW x, IsSeq(s)
  PROVE  LET u == Append(s, x) IN
         /\ IsSeq(u) /\ u # <<>>
         /\ Len(s) \in Nat /\ Len(u) = Len(s) + 1
         /\ DOMAIN s = 1..Len(s) /\ DOMAIN u = 1..Len(u)
         /\ \A i \in 1..Len(s) : u[i] = s[i]
         /\ u[Len(s) + 1] = x
         /\ \A i \in 1..Len(u) : \/ i \in 1..Len(s) /\ u[i] = s[i]
                                 \/ i = Len(s) + 1 /\ u[i] = x
<1> DEFINE S == {s[i] : i \in DOMAIN s} \cup {x}
<1>1. s \in Seq(S) /\ x \in S
  <2>1. s \in Seq({s[i] : i \in DOMAIN s})
    BY DEF IsSeq
  <2>2. Len(s) \in Nat /\ s \in [1..Len(s) -> {s[i] : i \in DOMAIN s}]
    BY <2>1, LenProperties
  <2>3. s \in [1..Len(s) -> S]
    BY <2>2
  <2>4. QED BY <2>2, <2>3, SeqDef
<1> HIDE DEF S
<1>2. Append(s, x) \in Seq(S)
  BY <1>1, AppendFacts
<1>3. IsSeq(Append(s, x))
  BY <1>2, SeqIsSeq
<1>4. QED BY <1>1, <1>3, AppendFacts

LEMMA IsSeqTail ==
  ASSUME NEW s, IsSeq(s), s # <<>>
  PROVE  /\ Head(s) = s[1] /\ IsSeq(Tail(s))
         /\ Len(s) \in Nat \ {0} /\ Len(Tail(s)) = Len(s) - 1
         /\ DOMAIN s = 1..Len(s) /\ DOMAIN Tail(s) = 1..(Len(s) - 1)
         /\ \A i \in 1..(Len(s) - 1) : Tail(s)[i] = s[i + 1] /\ i + 1 \in 1..Len(s)
<1> DEFINE S == {s[i] : i \in DOMAIN s}
<1>1. s \in Seq(S)
  BY DEF IsSeq
<1> HIDE DEF S
<1>2. Tail(s) \in Seq(S)
  BY <1>1, TailFacts
<1>3. IsSeq(Tail(s))
  BY <1>2, SeqIsSeq
<1>4. QED BY <1>1, <1>3, TailFacts

LEMMA IsSeqLen ==
  ASSUME NEW s, IsSeq(s)
  PROVE  Len(s) \in Nat /\ DOMAIN s = 1..Len(s) /\ (s = <<>> <=> Len(s) = 0)
<1> DEFINE S == {s[i] : i \in DOMAIN s}
<1>1. s \in Seq(S)
  BY DEF IsSeq
<1> HIDE DEF S
<1>2. QED BY <1>1, LenProperties, EmptySeq

LEMMA IsSeqIn ==
  ASSUME NEW s, IsSeq(s), NEW T
  PROVE  s \in Seq({s[i] : i \in DOMAIN s} \cup T)
<1> DEFINE S == {s[i] : i \in DOMAIN s}
<1>1. s \in Seq(S)
  BY DEF IsSeq
<1> HIDE DEF S
<1>2. S \subseteq S \cup T
  OBVIOUS
<1>3. s \in Seq(S \cup T)
  BY <1>1, <1>2, SeqMonotonic
<1>4. QED BY <1>3 DEF S

LEMMA IsSeqConcat ==
  ASSUME NEW s, NEW t, IsSeq(s), IsSeq(t)
  PROVE  LET u == s \o t IN
         /\ IsSeq(u) /\ Len(s) \in Nat /\ Len(t) \in Nat /\ Len(u) = Len(s) + Len(t)
         /\ DOMAIN u = 1..Len(u)
         /\ \A i \in 1..Len(s) : i \in 1..Len(u) /\ u[i] = s[i]
         /\ \A i \in 1..Len(t) : Len(s) + i \in 1..Len(u) /\ u[Len(s) + i] = t[i]
         /\ \A i \in 1..Len(u) : \/ i \in 1..Len(s) /\ u[i] = s[i]
                                 \/ i - Len(s) \in 1..Len(t) /\ u[i] = t[i - Len(s)]
<1> DEFINE S == {s[i] : i \in DOMAIN s} \cup {t[i] : i \in DOMAIN t}
           u == s \o t
<1>1. s \in Seq(S)
  BY IsSeqIn
<1>2. t \in Seq(S)
  <2>1. t \in Seq({t[i] : i \in DOMAIN t} \cup {s[i] : i \in DOMAIN s})
    BY IsSeqIn
  <2>2. QED BY <2>1
<1> HIDE DEF S
<1>3. /\ u \in Seq(S) /\ Len(u) = Len(s) + Len(t)
      /\ \A i \in 1..(Len(s) + Len(t)) : u[i] = IF i <= Len(s) THEN s[i] ELSE t[i - Len(s)]
  BY <1>1, <1>2, ConcatProperties
<1>4. Len(s) \in Nat /\ Len(t) \in Nat /\ DOMAIN u = 1..Len(u)
  BY <1>1, <1>2, <1>3, LenProperties
<1> HIDE DEF u
<1>5. IsSeq(u)
  BY <1>3, SeqIsSeq
<1>6. \A i \in 1..Len(s) : i \in 1..Len(u) /\ u[i] = s[i]
  BY <1>3, <1>4
<1>7. \A i \in 1..Len(t) : Len(s) + i \in 1..Len(u) /\ u[Len(s) + i] = t[i]
  <2> SUFFICES ASSUME NEW i \in 1..Len(t)
               PROVE  Len(s) + i \in 1..Len(u) /\ u[Len(s) + i] = t[i]
    OBVIOUS
  <2>1. /\ Len(s) + i \in 1..(Len(s) + Len(t)) /\ ~ (Len(s) + i <= Len(s))
        /\ (Len(s) + i) - Len(s) = i
    BY <1>4
  <2>2. QED BY <1>3, <2>1
<1>8. \A i \in 1..Len(u) : \/ i \in 1..Len(s) /\ u[i] = s[i]
                           \/ i - Len(s) \in 1..Len(t) /\ u[i] = t[i - Len(s)]
  BY <1>3, <1>4
<1>9. QED BY <1>3, <1>4, <1>5, <1>6, <1>7, <1>8 DEF u

-----------------------------------------------------------------------------
(* The frames in the encoder, from the one coded first to the one given    *)
(* last, by number; those before NumHeld + 1 are with the backend.         *)
Filled == NotStale(capture_done)
Encoding == CodedIds(Filled) \o Ids(output_queue) \o RequestIds(queue)
NumHeld == NumCoded(Filled) + Len(output_queue)

Rising(s) == \A i, k \in 1..Len(s) : i < k => s[i] < s[k]

Draining == {"await", "handle", "collect", "last", "start"}

GoodRequest(r) == r.request_id \in Nat /\ r.meta.timestamp = r.request_id
GoodFrame(f) == f.id \in Nat /\ f.timestamp = f.id
GoodBuffer(b) == b.empty \in BOOLEAN /\ (~b.empty => GoodFrame(b.frame))
Own(o) == o.bitstream \in Nat /\ o.request_id = o.bitstream /\ o.meta.timestamp = o.bitstream

(* ------------------------------ invariants ----------------------------- *)

(* What the place in a call says of the rest.                              *)
Control ==
  /\ pc \in {"idle", "process", "submit", "consume", "pop", "drain", "sync", "over"} \cup Draining
  /\ call \in {"none", "encode", "poll", "drain"}
  /\ pc \in {"idle", "over"} <=> call = "none"
  /\ pc = "pop" => call = "poll"
  /\ pc \in {"drain", "sync"} \cup Draining => call = "drain"
  /\ pc = "consume" => queue # <<>>
  /\ pc \in Draining => queue = <<>>
  /\ pc \notin Draining => drained = <<>> /\ (pc # "over" => stopped = "no")
  /\ pc \in {"await", "handle", "collect"} => DOMAIN currently_processed # {}
  /\ pc \in {"last", "start"} => DOMAIN currently_processed = {}
  /\ stopped \in {"no", "draining", "last"}
  /\ stopped = "last" => output_queue = <<>>

(* The buffers, and the metadata on either side of the device: an id is    *)
(* the timestamp the device copies.                                        *)
Requests == IsSeq(queue) /\ \A i \in 1..Len(queue) : GoodRequest(queue[i])
Frames == IsSeq(output_queue) /\ \A i \in 1..Len(output_queue) : GoodFrame(output_queue[i])
Buffers ==
  /\ IsSeq(capture_done)
  /\ \A i \in 1..Len(capture_done) :
       /\ GoodBuffer(capture_done[i])
       /\ capture_done[i].empty => i = 1 \/ (i = Len(capture_done) /\ stopped = "last")
Entries ==
  \A t \in DOMAIN currently_processed :
    /\ currently_processed[t].request_id = t
    /\ currently_processed[t].meta.timestamp = t
Outputs ==
  /\ IsSeq(coded_queue) /\ \A i \in 1..Len(coded_queue) : Own(coded_queue[i])
  /\ IsSeq(drained) /\ \A i \in 1..Len(drained) : Own(drained[i])

(* Frames are given in the order of their numbers, and the backend knows   *)
(* exactly those the device has or has coded.                              *)
Order ==
  /\ request_counter \in 0..MaxFrames
  /\ Encoding \in Seq(1..request_counter)
  /\ Rising(Encoding)
Held == DOMAIN currently_processed = {Encoding[i] - 1 : i \in 1..NumHeld}
Counted ==
  pc # "over" =>
    processing = DOMAIN currently_processed \cup {drained[i].request_id : i \in 1..Len(drained)}

IInv ==
  Control /\ Requests /\ Frames /\ Buffers /\ Entries /\ Outputs /\ Order /\ Held /\ Counted

(* When all frames are out of the backend, the empty buffer of a drain     *)
(* before is gone, too.                                                    *)
Fresh ==
  pc \in {"last", "start"} =>
    \A i \in 1..Len(capture_done) :
      capture_done[i].empty => i = Len(capture_done) /\ stopped = "last"

-----------------------------------------------------------------------------
(* The numbers of frames, requests, buffers and outputs.                   *)

LEMMA IdsFacts ==
  ASSUME NEW s, IsSeq(s), \A i \in 1..Len(s) : GoodFrame(s[i])
  PROVE  /\ Ids(s) \in Seq(Nat) /\ Len(Ids(s)) = Len(s) /\ Len(s) \in Nat
         /\ \A i \in 1..Len(s) : Ids(s)[i] = s[i].id + 1
<1>1. DOMAIN s = 1..Len(s) /\ Len(s) \in Nat
  BY IsSeqLen
<1>2. \A i \in 1..Len(s) : s[i].id + 1 \in Nat
  BY DEF GoodFrame
<1>3. Ids(s) \in [1..Len(s) -> Nat] /\ \A i \in 1..Len(s) : Ids(s)[i] = s[i].id + 1
  BY <1>1, <1>2 DEF Ids
<1>4. Ids(s) \in Seq(Nat)
  BY <1>1, <1>3, SeqDef
<1>5. QED BY <1>1, <1>3, <1>4, LenProperties

LEMMA RequestIdsFacts ==
  ASSUME NEW s, IsSeq(s), \A i \in 1..Len(s) : GoodRequest(s[i])
  PROVE  /\ RequestIds(s) \in Seq(Nat) /\ Len(RequestIds(s)) = Len(s) /\ Len(s) \in Nat
         /\ \A i \in 1..Len(s) : RequestIds(s)[i] = s[i].request_id + 1
<1>1. DOMAIN s = 1..Len(s) /\ Len(s) \in Nat
  BY IsSeqLen
<1>2. \A i \in 1..Len(s) : s[i].request_id + 1 \in Nat
  BY DEF GoodRequest
<1>3. /\ RequestIds(s) \in [1..Len(s) -> Nat]
      /\ \A i \in 1..Len(s) : RequestIds(s)[i] = s[i].request_id + 1
  BY <1>1, <1>2 DEF RequestIds
<1>4. RequestIds(s) \in Seq(Nat)
  BY <1>1, <1>3, SeqDef
<1>5. QED BY <1>1, <1>3, <1>4, LenProperties

LEMMA BitstreamsFacts ==
  ASSUME NEW s, IsSeq(s), \A i \in 1..Len(s) : Own(s[i])
  PROVE  /\ Bitstreams(s) \in Seq(Nat) /\ Len(Bitstreams(s)) = Len(s) /\ Len(s) \in Nat
         /\ \A i \in 1..Len(s) : Bitstreams(s)[i] = s[i].bitstream + 1
<1>1. DOMAIN s = 1..Len(s) /\ Len(s) \in Nat
  BY IsSeqLen
<1>2. \A i \in 1..Len(s) : s[i].bitstream + 1 \in Nat
  BY DEF Own
<1>3. /\ Bitstreams(s) \in [1..Len(s) -> Nat]
      /\ \A i \in 1..Len(s) : Bitstreams(s)[i] = s[i].bitstream + 1
  BY <1>1, <1>2 DEF Bitstreams
<1>4. Bitstreams(s) \in Seq(Nat)
  BY <1>1, <1>3, SeqDef
<1>5. QED BY <1>1, <1>3, <1>4, LenProperties

(* Filled buffers, of which at most the last one has no frame.             *)
EmptyAtEnd(s) == \A i \in 1..Len(s) : GoodBuffer(s[i]) /\ (s[i].empty => i = Len(s))

LEMMA NotTheLast ==
  ASSUME NEW n \in Nat
  PROVE  /\ \A k \in 1..(n - 1) : k # n
         /\ \A k \in 1..n : k # n => k \in 1..(n - 1)
OBVIOUS

LEMMA CodedFacts ==
  ASSUME NEW s, IsSeq(s), EmptyAtEnd(s)
  PROVE  /\ Len(s) \in Nat /\ NumCoded(s) \in Nat /\ NumCoded(s) <= Len(s)
         /\ Len(s) <= NumCoded(s) + 1
         /\ CodedIds(s) \in Seq(Nat) /\ Len(CodedIds(s)) = NumCoded(s)
         /\ \A i \in 1..NumCoded(s) : /\ i \in 1..Len(s) /\ ~s[i].empty
                                      /\ CodedIds(s)[i] = s[i].frame.id + 1
         /\ \A i \in 1..Len(s) : ~s[i].empty => i \in 1..NumCoded(s)
<1>1. /\ DOMAIN s = 1..Len(s) /\ Len(s) \in Nat
      /\ s = <<>> <=> Len(s) = 0
  BY IsSeqLen
<1>2. /\ NumCoded(s) \in Nat /\ NumCoded(s) <= Len(s) /\ Len(s) <= NumCoded(s) + 1
  BY <1>1 DEF NumCoded
<1>3. \A i \in 1..NumCoded(s) : i \in 1..Len(s) /\ ~s[i].empty
  <2> SUFFICES ASSUME NEW i \in 1..NumCoded(s) PROVE i \in 1..Len(s) /\ ~s[i].empty
    OBVIOUS
  <2>1. i \in 1..Len(s) /\ s # <<>>
    BY <1>1, <1>2
  <2>2. CASE s[Len(s)].empty
    <3>1. NumCoded(s) = Len(s) - 1
      BY <2>1, <2>2 DEF NumCoded
    <3>2. \A k \in 1..(Len(s) - 1) : k # Len(s)
      BY <1>1, NotTheLast
    <3>3. i # Len(s)
      BY <3>1, <3>2
    <3>4. QED BY <2>1, <3>3 DEF EmptyAtEnd
  <2>3. CASE ~s[Len(s)].empty
    BY <2>1, <2>3 DEF EmptyAtEnd
  <2>4. QED BY <2>2, <2>3
<1>4. \A i \in 1..Len(s) : ~s[i].empty => i \in 1..NumCoded(s)
  <2> SUFFICES ASSUME NEW i \in 1..Len(s), ~s[i].empty PROVE i \in 1..NumCoded(s)
    OBVIOUS
  <2>1. CASE s[Len(s)].empty
    <3>1. i # Len(s)
      BY <2>1
    <3>2. s # <<>>
      <4>1. Len(s) # 0
        BY <1>1
      <4>2. QED BY <1>1, <4>1
    <3>3. NumCoded(s) = Len(s) - 1
      BY <2>1, <3>2 DEF NumCoded
    <3>4. \A k \in 1..Len(s) : k # Len(s) => k \in 1..(Len(s) - 1)
      BY <1>1, NotTheLast
    <3>5. QED BY <3>1, <3>3, <3>4
  <2>2. CASE ~s[Len(s)].empty
    <3>1. NumCoded(s) = Len(s)
      BY <2>2 DEF NumCoded
    <3>2. QED BY <3>1
  <2>3. QED BY <2>1, <2>2
<1>5. \A i \in 1..NumCoded(s) : s[i].frame.id + 1 \in Nat
  BY <1>3 DEF EmptyAtEnd, GoodBuffer, GoodFrame
<1>6. /\ CodedIds(s) \in [1..NumCoded(s) -> Nat]
      /\ \A i \in 1..NumCoded(s) : CodedIds(s)[i] = s[i].frame.id + 1
  BY <1>5 DEF CodedIds
<1>7. CodedIds(s) \in Seq(Nat)
  BY <1>2, <1>6, SeqDef
<1>8. QED BY <1>1, <1>2, <1>3, <1>4, <1>6, <1>7, LenProperties

LEMMA RisingTail ==
  ASSUME NEW s \in Seq(Nat), s # <<>>, Rising(s)
  PROVE  Rising(Tail(s))
<1>1. /\ Len(s) \in Nat /\ Len(Tail(s)) = Len(s) - 1
      /\ \A i \in 1..(Len(s) - 1) : Tail(s)[i] = s[i + 1] /\ i + 1 \in 1..Len(s)
  BY TailFacts
<1> SUFFICES ASSUME NEW i \in 1..Len(Tail(s)), NEW k \in 1..Len(Tail(s)), i < k
             PROVE  Tail(s)[i] < Tail(s)[k]
  BY DEF Rising
<1>2. i \in 1..(Len(s) - 1) /\ k \in 1..(Len(s) - 1) /\ i + 1 < k + 1
  BY <1>1
<1>3. s[i + 1] < s[k + 1]
  BY <1>1, <1>2 DEF Rising
<1>4. QED BY <1>1, <1>2, <1>3

LEMMA RisingAppend ==
  ASSUME NEW s \in Seq(Nat), NEW x \in Nat, Rising(s), \A i \in 1..Len(s) : s[i] < x
  PROVE  Rising(Append(s, x))
<1> DEFINE u == Append(s, x)
<1>1. /\ Len(u) = Len(s) + 1 /\ Len(s) \in Nat
      /\ \A i \in 1..Len(u) : \/ i \in 1..Len(s) /\ u[i] = s[i]
                              \/ i = Len(s) + 1 /\ u[i] = x
  BY AppendFacts
<1> HIDE DEF u
<1>2. Rising(u)
  <2> SUFFICES ASSUME NEW i \in 1..Len(u), NEW k \in 1..Len(u), i < k PROVE u[i] < u[k]
    BY DEF Rising
  <2>1. i \in 1..Len(s) /\ u[i] = s[i]
    BY <1>1
  <2>2. CASE k \in 1..Len(s) /\ u[k] = s[k]
    BY <2>1, <2>2 DEF Rising
  <2>3. CASE u[k] = x
    BY <2>1, <2>3
  <2>4. QED BY <1>1, <2>2, <2>3
<1>3. QED BY <1>2 DEF u

(* A sequence without its element behind the first k.                      *)
LEMMA RisingWithout ==
  ASSUME NEW s \in Seq(Nat), NEW u \in Seq(Nat), Rising(s), NEW k \in Nat,
         Len(s) = Len(u) + 1,
         \A i \in 1..Len(u) : u[i] = IF i <= k THEN s[i] ELSE s[i + 1]
  PROVE  Rising(u)
<1> SUFFICES ASSUME NEW i \in 1..Len(u), NEW j \in 1..Len(u), i < j PROVE u[i] < u[j]
  BY DEF Rising
<1>1. Len(u) \in Nat /\ Len(s) \in Nat
  BY LenProperties
<1>2. /\ i \in 1..Len(s) /\ j \in 1..Len(s) /\ i + 1 \in 1..Len(s) /\ j + 1 \in 1..Len(s)
      /\ i < j + 1 /\ i + 1 < j + 1
  BY <1>1
<1>3. s[i] < s[j] /\ s[i] < s[j + 1] /\ s[i + 1] < s[j + 1]
  BY <1>2 DEF Rising
<1>4. j <= k => i <= k
  OBVIOUS
<1>5. QED BY <1>3, <1>4

-----------------------------------------------------------------------------
(* How they change with a sequence.                                        *)

LEMMA IdsAppend ==
  ASSUME NEW s, IsSeq(s), \A i \in 1..Len(s) : GoodFrame(s[i]), NEW x, GoodFrame(x)
  PROVE  /\ IsSeq(Append(s, x)) /\ Len(Append(s, x)) = Len(s) + 1
         /\ \A i \in 1..Len(Append(s, x)) : GoodFrame(Append(s, x)[i])
         /\ Ids(Append(s, x)) = Append(Ids(s), x.id + 1)
<1> DEFINE u == Append(s, x)
<1>1. /\ IsSeq(u) /\ Len(s) \in Nat /\ Len(u) = Len(s) + 1
      /\ \A i \in 1..Len(s) : u[i] = s[i]
      /\ u[Len(s) + 1] = x
      /\ \A i \in 1..Len(u) : \/ i \in 1..Len(s) /\ u[i] = s[i]
                              \/ i = Len(s) + 1 /\ u[i] = x
  BY IsSeqAppend
<1> HIDE DEF u
<1>2. \A i \in 1..Len(u) : GoodFrame(u[i])
  BY <1>1
<1>3. /\ Ids(s) \in Seq(Nat) /\ Len(Ids(s)) = Len(s)
      /\ \A i \in 1..Len(s) : Ids(s)[i] = s[i].id + 1
  BY IdsFacts
<1>4. /\ Ids(u) \in Seq(Nat) /\ Len(Ids(u)) = Len(u)
      /\ \A i \in 1..Len(u) : Ids(u)[i] = u[i].id + 1
  BY <1>1, <1>2, IdsFacts
<1>5. x.id + 1 \in Nat
  BY DEF GoodFrame
<1>6. \A i \in 1..Len(s) : i \in 1..Len(u)
  BY <1>1
<1>7. \A i \in 1..Len(s) : Ids(u)[i] = Ids(s)[i]
  BY <1>1, <1>3, <1>4, <1>6
<1>8. Len(s) + 1 \in 1..Len(u)
  BY <1>1
<1>9. Ids(u)[Len(s) + 1] = x.id + 1
  BY <1>1, <1>4, <1>8
<1>10. Ids(u) = Append(Ids(s), x.id + 1)
  BY <1>1, <1>3, <1>4, <1>5, <1>7, <1>9, IsAppended
<1>11. QED BY <1>1, <1>2, <1>10 DEF u

LEMMA IdsTail ==
  ASSUME NEW s, IsSeq(s), \A i \in 1..Len(s) : GoodFrame(s[i]), s # <<>>
  PROVE  /\ GoodFrame(Head(s)) /\ IsSeq(Tail(s)) /\ Len(Tail(s)) = Len(s) - 1
         /\ \A i \in 1..Len(Tail(s)) : GoodFrame(Tail(s)[i])
         /\ Ids(s) # <<>> /\ Head(Ids(s)) = Head(s).id + 1
         /\ Ids(Tail(s)) = Tail(Ids(s))
<1> DEFINE u == Tail(s)
<1>1. /\ Head(s) = s[1] /\ IsSeq(u)
      /\ Len(s) \in Nat \ {0} /\ Len(u) = Len(s) - 1
      /\ \A i \in 1..(Len(s) - 1) : u[i] = s[i + 1] /\ i + 1 \in 1..Len(s)
  BY IsSeqTail
<1> HIDE DEF u
<1>2. \A i \in 1..Len(u) : GoodFrame(u[i]) /\ u[i] = s[i + 1] /\ i + 1 \in 1..Len(s)
  BY <1>1
<1>3. /\ Ids(s) \in Seq(Nat) /\ Len(Ids(s)) = Len(s)
      /\ \A i \in 1..Len(s) : Ids(s)[i] = s[i].id + 1
  BY IdsFacts
<1>4. /\ Ids(u) \in Seq(Nat) /\ Len(Ids(u)) = Len(u)
      /\ \A i \in 1..Len(u) : Ids(u)[i] = u[i].id + 1
  BY <1>1, <1>2, IdsFacts
<1>5. Ids(s) # <<>> /\ 1 \in 1..Len(s)
  BY <1>1, <1>3, EmptySeq
<1>6. Head(Ids(s)) = Ids(s)[1]
  BY <1>3, <1>5, TailFacts
<1>7. Ids(u) = Tail(Ids(s))
  <2>1. \A i \in 1..Len(u) : Ids(u)[i] = Ids(s)[i + 1]
    BY <1>2, <1>3, <1>4
  <2>2. Len(Ids(u)) = Len(Ids(s)) - 1
    BY <1>1, <1>3, <1>4
  <2>3. QED BY <1>3, <1>4, <1>5, <2>1, <2>2, IsTail
<1>8. GoodFrame(Head(s)) /\ Head(Ids(s)) = Head(s).id + 1
  BY <1>1, <1>3, <1>5, <1>6
<1>9. QED BY <1>1, <1>2, <1>5, <1>7, <1>8 DEF u

LEMMA RequestIdsAppend ==
  ASSUME NEW s, IsSeq(s), \A i \in 1..Len(s) : GoodRequest(s[i]), NEW x, GoodRequest(x)
  PROVE  /\ IsSeq(Append(s, x)) /\ Len(Append(s, x)) = Len(s) + 1
         /\ \A i \in 1..Len(Append(s, x)) : GoodRequest(Append(s, x)[i])
         /\ RequestIds(Append(s, x)) = Append(RequestIds(s), x.request_id + 1)
<1> DEFINE u == Append(s, x)
<1>1. /\ IsSeq(u) /\ Len(s) \in Nat /\ Len(u) = Len(s) + 1
      /\ \A i \in 1..Len(s) : u[i] = s[i]
      /\ u[Len(s) + 1] = x
      /\ \A i \in 1..Len(u) : \/ i \in 1..Len(s) /\ u[i] = s[i]
                              \/ i = Len(s) + 1 /\ u[i] = x
  BY IsSeqAppend
<1> HIDE DEF u
<1>2. \A i \in 1..Len(u) : GoodRequest(u[i])
  BY <1>1
<1>3. /\ RequestIds(s) \in Seq(Nat) /\ Len(RequestIds(s)) = Len(s)
      /\ \A i \in 1..Len(s) : RequestIds(s)[i] = s[i].request_id + 1
  BY RequestIdsFacts
<1>4. /\ RequestIds(u) \in Seq(Nat) /\ Len(RequestIds(u)) = Len(u)
      /\ \A i \in 1..Len(u) : RequestIds(u)[i] = u[i].request_id + 1
  BY <1>1, <1>2, RequestIdsFacts
<1>5. x.request_id + 1 \in Nat
  BY DEF GoodRequest
<1>6. \A i \in 1..Len(s) : i \in 1..Len(u)
  BY <1>1
<1>7. \A i \in 1..Len(s) : RequestIds(u)[i] = RequestIds(s)[i]
  BY <1>1, <1>3, <1>4, <1>6
<1>8. Len(s) + 1 \in 1..Len(u)
  BY <1>1
<1>9. RequestIds(u)[Len(s) + 1] = x.request_id + 1
  BY <1>1, <1>4, <1>8
<1>10. RequestIds(u) = Append(RequestIds(s), x.request_id + 1)
  BY <1>1, <1>3, <1>4, <1>5, <1>7, <1>9, IsAppended
<1>11. QED BY <1>1, <1>2, <1>10 DEF u

LEMMA RequestIdsTail ==
  ASSUME NEW s, IsSeq(s), \A i \in 1..Len(s) : GoodRequest(s[i]), s # <<>>
  PROVE  /\ GoodRequest(Head(s)) /\ IsSeq(Tail(s)) /\ Len(Tail(s)) = Len(s) - 1
         /\ \A i \in 1..Len(Tail(s)) : GoodRequest(Tail(s)[i])
         /\ RequestIds(s) # <<>> /\ Head(RequestIds(s)) = Head(s).request_id + 1
         /\ RequestIds(Tail(s)) = Tail(RequestIds(s))
<1> DEFINE u == Tail(s)
<1>1. /\ Head(s) = s[1] /\ IsSeq(u)
      /\ Len(s) \in Nat \ {0} /\ Len(u) = Len(s) - 1
      /\ \A i \in 1..(Len(s) - 1) : u[i] = s[i + 1] /\ i + 1 \in 1..Len(s)
  BY IsSeqTail
<1> HIDE DEF u
<1>2. \A i \in 1..Len(u) : GoodRequest(u[i]) /\ u[i] = s[i + 1] /\ i + 1 \in 1..Len(s)
  BY <1>1
<1>3. /\ RequestIds(s) \in Seq(Nat) /\ Len(RequestIds(s)) = Len(s)
      /\ \A i \in 1..Len(s) : RequestIds(s)[i] = s[i].request_id + 1
  BY RequestIdsFacts
<1>4. /\ RequestIds(u) \in Seq(Nat) /\ Len(RequestIds(u)) = Len(u)
      /\ \A i \in 1..Len(u) : RequestIds(u)[i] = u[i].request_id + 1
  BY <1>1, <1>2, RequestIdsFacts
<1>5. RequestIds(s) # <<>> /\ 1 \in 1..Len(s)
  BY <1>1, <1>3, EmptySeq
<1>6. Head(RequestIds(s)) = RequestIds(s)[1]
  BY <1>3, <1>5, TailFacts
<1>7. RequestIds(u) = Tail(RequestIds(s))
  <2>1. \A i \in 1..Len(u) : RequestIds(u)[i] = RequestIds(s)[i + 1]
    BY <1>2, <1>3, <1>4
  <2>2. Len(RequestIds(u)) = Len(RequestIds(s)) - 1
    BY <1>1, <1>3, <1>4
  <2>3. QED BY <1>3, <1>4, <1>5, <2>1, <2>2, IsTail
<1>8. GoodRequest(Head(s)) /\ Head(RequestIds(s)) = Head(s).request_id + 1
  BY <1>1, <1>3, <1>5, <1>6
<1>9. QED BY <1>1, <1>2, <1>5, <1>7, <1>8 DEF u

LEMMA BitstreamsAppend ==
  ASSUME NEW s, IsSeq(s), \A i \in 1..Len(s) : Own(s[i]), NEW x, Own(x)
  PROVE  /\ IsSeq(Append(s, x)) /\ Len(Append(s, x)) = Len(s) + 1
         /\ \A i \in 1..Len(Append(s, x)) : Own(Append(s, x)[i])
         /\ Bitstreams(Append(s, x)) = Append(Bitstreams(s), x.bitstream + 1)
<1> DEFINE u == Append(s, x)
<1>1. /\ IsSeq(u) /\ Len(s) \in Nat /\ Len(u) = Len(s) + 1
      /\ \A i \in 1..Len(s) : u[i] = s[i]
      /\ u[Len(s) + 1] = x
      /\ \A i \in 1..Len(u) : \/ i \in 1..Len(s) /\ u[i] = s[i]
                              \/ i = Len(s) + 1 /\ u[i] = x
  BY IsSeqAppend
<1> HIDE DEF u
<1>2. \A i \in 1..Len(u) : Own(u[i])
  BY <1>1
<1>3. /\ Bitstreams(s) \in Seq(Nat) /\ Len(Bitstreams(s)) = Len(s)
      /\ \A i \in 1..Len(s) : Bitstreams(s)[i] = s[i].bitstream + 1
  BY BitstreamsFacts
<1>4. /\ Bitstreams(u) \in Seq(Nat) /\ Len(Bitstreams(u)) = Len(u)
      /\ \A i \in 1..Len(u) : Bitstreams(u)[i] = u[i].bitstream + 1
  BY <1>1, <1>2, BitstreamsFacts
<1>5. x.bitstream + 1 \in Nat
  BY DEF Own
<1>6. \A i \in 1..Len(s) : i \in 1..Len(u)
  BY <1>1
<1>7. \A i \in 1..Len(s) : Bitstreams(u)[i] = Bitstreams(s)[i]
  BY <1>1, <1>3, <1>4, <1>6
<1>8. Len(s) + 1 \in 1..Len(u)
  BY <1>1
<1>9. Bitstreams(u)[Len(s) + 1] = x.bitstream + 1
  BY <1>1, <1>4, <1>8
<1>10. Bitstreams(u) = Append(Bitstreams(s), x.bitstream + 1)
  BY <1>1, <1>3, <1>4, <1>5, <1>7, <1>9, IsAppended
<1>11. QED BY <1>1, <1>2, <1>10 DEF u

LEMMA BitstreamsTail ==
  ASSUME NEW s, IsSeq(s), \A i \in 1..Len(s) : Own(s[i]), s # <<>>
  PROVE  /\ Own(Head(s)) /\ IsSeq(Tail(s)) /\ Len(Tail(s)) = Len(s) - 1
         /\ \A i \in 1..Len(Tail(s)) : Own(Tail(s)[i])
         /\ Bitstreams(s) # <<>> /\ Head(Bitstreams(s)) = Head(s).bitstream + 1
         /\ Bitstreams(Tail(s)) = Tail(Bitstreams(s))
<1> DEFINE u == Tail(s)
<1>1. /\ Head(s) = s[1] /\ IsSeq(u)
      /\ Len(s) \in Nat \ {0} /\ Len(u) = Len(s) - 1
      /\ \A i \in 1..(Len(s) - 1) : u[i] = s[i + 1] /\ i + 1 \in 1..Len(s)
  BY IsSeqTail
<1> HIDE DEF u
<1>2. \A i \in 1..Len(u) : Own(u[i]) /\ u[i] = s[i + 1] /\ i + 1 \in 1..Len(s)
  BY <1>1
<1>3. /\ Bitstreams(s) \in Seq(Nat) /\ Len(Bitstreams(s)) = Len(s)
      /\ \A i \in 1..Len(s) : Bitstreams(s)[i] = s[i].bitstream + 1
  BY BitstreamsFacts
<1>4. /\ Bitstreams(u) \in Seq(Nat) /\ Len(Bitstreams(u)) = Len(u)
      /\ \A i \in 1..Len(u) : Bitstreams(u)[i] = u[i].bitstream + 1
  BY <1>1, <1>2, BitstreamsFacts
<1>5. Bitstreams(s) # <<>> /\ 1 \in 1..Len(s)
  BY <1>1, <1>3, EmptySeq
<1>6. Head(Bitstreams(s)) = Bitstreams(s)[1]
  BY <1>3, <1>5, TailFacts
<1>7. Bitstreams(u) = Tail(Bitstreams(s))
  <2>1. \A i \in 1..Len(u) : Bitstreams(u)[i] = Bitstreams(s)[i + 1]
    BY <1>2, <1>3, <1>4
  <2>2. Len(Bitstreams(u)) = Len(Bitstreams(s)) - 1
    BY <1>1, <1>3, <1>4
  <2>3. QED BY <1>3, <1>4, <1>5, <2>1, <2>2, IsTail
<1>8. Own(Head(s)) /\ Head(Bitstreams(s)) = Head(s).bitstream + 1
  BY <1>1, <1>3, <1>5, <1>6
<1>9. QED BY <1>1, <1>2, <1>5, <1>7, <1>8 DEF u

LEMMA CodedAppend ==
  ASSUME NEW s, IsSeq(s), \A i \in 1..Len(s) : GoodBuffer(s[i]) /\ ~s[i].empty,
         NEW b, GoodBuffer(b)
  PROVE  /\ IsSeq(Append(s, b)) /\ Len(Append(s, b)) = Len(s) + 1
         /\ EmptyAtEnd(Append(s, b))
         /\ b.empty => /\ CodedIds(Append(s, b)) = CodedIds(s)
                       /\ NumCoded(Append(s, b)) = NumCoded(s)
         /\ ~b.empty => /\ CodedIds(Append(s, b)) = Append(CodedIds(s), b.frame.id + 1)
                        /\ NumCoded(Append(s, b)) = NumCoded(s) + 1
                        /\ \A i \in 1..Len(Append(s, b)) : ~Append(s, b)[i].empty
<1> DEFINE u == Append(s, b)
<1>1. /\ IsSeq(u) /\ Len(s) \in Nat /\ Len(u) = Len(s) + 1 /\ u # <<>>
      /\ \A i \in 1..Len(s) : u[i] = s[i]
      /\ u[Len(s) + 1] = b
      /\ \A i \in 1..Len(u) : \/ i \in 1..Len(s) /\ u[i] = s[i]
                              \/ i = Len(s) + 1 /\ u[i] = b
  BY IsSeqAppend
<1> HIDE DEF u
<1>2. EmptyAtEnd(u)
  BY <1>1 DEF EmptyAtEnd
<1>3. EmptyAtEnd(s)
  BY DEF EmptyAtEnd
<1>4. /\ CodedIds(s) \in Seq(Nat) /\ Len(CodedIds(s)) = NumCoded(s) /\ NumCoded(s) \in Nat
      /\ NumCoded(s) <= Len(s)
      /\ \A i \in 1..NumCoded(s) : CodedIds(s)[i] = s[i].frame.id + 1
  BY <1>3, CodedFacts
<1>5. /\ CodedIds(u) \in Seq(Nat) /\ Len(CodedIds(u)) = NumCoded(u) /\ NumCoded(u) \in Nat
      /\ \A i \in 1..NumCoded(u) : CodedIds(u)[i] = u[i].frame.id + 1
  BY <1>1, <1>2, CodedFacts
<1>6. NumCoded(s) = Len(s)
  <2>1. CASE s = <<>>
    BY <2>1 DEF NumCoded
  <2>2. CASE s # <<>>
    <3>1. Len(s) \in 1..Len(s)
      BY <1>1, <2>2, IsSeqLen
    <3>2. ~s[Len(s)].empty
      BY <3>1
    <3>3. QED BY <3>2 DEF NumCoded
  <2>3. QED BY <2>1, <2>2
<1>7. u[Len(u)] = b
  BY <1>1
<1>8. \A i \in 1..NumCoded(s) : i \in 1..Len(s) /\ i \in 1..Len(u) /\ u[i].frame.id = s[i].frame.id
  BY <1>1, <1>6
<1>9. CASE b.empty
  <2>1. NumCoded(u) = Len(u) - 1
    BY <1>1, <1>7, <1>9 DEF NumCoded
  <2>2. NumCoded(u) = NumCoded(s)
    BY <1>1, <1>6, <2>1
  <2>3. \A i \in 1..NumCoded(s) : CodedIds(u)[i] = CodedIds(s)[i]
    BY <1>4, <1>5, <1>8, <2>2
  <2>4. CodedIds(u) = CodedIds(s)
    BY <1>4, <1>5, <2>2, <2>3, SeqEqual
  <2>5. QED BY <1>1, <1>2, <1>9, <2>2, <2>4 DEF u
<1>10. CASE ~b.empty
  <2>1. NumCoded(u) = Len(u)
    BY <1>1, <1>7, <1>10 DEF NumCoded
  <2>2. NumCoded(u) = NumCoded(s) + 1
    BY <1>1, <1>6, <2>1
  <2>3. \A i \in 1..NumCoded(s) : i \in 1..NumCoded(u)
    BY <1>4, <2>2
  <2>4. \A i \in 1..NumCoded(s) : CodedIds(u)[i] = CodedIds(s)[i]
    BY <1>4, <1>5, <1>8, <2>3
  <2>5. b.frame.id + 1 \in Nat
    BY <1>10 DEF GoodBuffer, GoodFrame
  <2>6. NumCoded(s) + 1 \in 1..NumCoded(u) /\ NumCoded(s) + 1 = Len(s) + 1
    BY <1>4, <1>6, <2>2
  <2>7. CodedIds(u)[NumCoded(s) + 1] = b.frame.id + 1
    BY <1>1, <1>5, <2>6
  <2>8. CodedIds(u) = Append(CodedIds(s), b.frame.id + 1)
    BY <1>4, <1>5, <2>2, <2>4, <2>5, <2>7, IsAppended
  <2>9. \A i \in 1..Len(u) : ~u[i].empty
    BY <1>1, <1>10
  <2>10. QED BY <1>1, <1>2, <1>10, <2>2, <2>8, <2>9 DEF u
<1>11. QED BY <1>9, <1>10

LEMMA CodedTail ==
  ASSUME NEW s, IsSeq(s), EmptyAtEnd(s), s # <<>>
  PROVE  /\ GoodBuffer(Head(s)) /\ IsSeq(Tail(s)) /\ EmptyAtEnd(Tail(s))
         /\ Len(Tail(s)) = Len(s) - 1
         /\ \A i \in 1..Len(Tail(s)) : Tail(s)[i] = s[i + 1] /\ i + 1 \in 1..Len(s)
         /\ Head(s).empty => /\ CodedIds(Tail(s)) = CodedIds(s)
                             /\ NumCoded(s) = 0 /\ NumCoded(Tail(s)) = 0
                             /\ Tail(s) = <<>>
         /\ ~Head(s).empty => /\ CodedIds(s) # <<>>
                              /\ Head(CodedIds(s)) = Head(s).frame.id + 1
                              /\ CodedIds(Tail(s)) = Tail(CodedIds(s))
                              /\ NumCoded(s) \in Nat \ {0} /\ NumCoded(Tail(s)) = NumCoded(s) - 1
<1> DEFINE u == Tail(s)
<1>1. /\ Head(s) = s[1] /\ IsSeq(u)
      /\ Len(s) \in Nat \ {0} /\ Len(u) = Len(s) - 1
      /\ \A i \in 1..(Len(s) - 1) : u[i] = s[i + 1] /\ i + 1 \in 1..Len(s)
  BY IsSeqTail
<1> HIDE DEF u
<1>2. \A i \in 1..Len(u) : u[i] = s[i + 1] /\ i + 1 \in 1..Len(s) /\ (i + 1 = Len(s) => i = Len(u))
  BY <1>1
<1>3. EmptyAtEnd(u)
  BY <1>2 DEF EmptyAtEnd
<1>4. /\ CodedIds(s) \in Seq(Nat) /\ Len(CodedIds(s)) = NumCoded(s)
      /\ NumCoded(s) \in Nat /\ NumCoded(s) <= Len(s)
      /\ \A i \in 1..NumCoded(s) : CodedIds(s)[i] = s[i].frame.id + 1
      /\ \A i \in 1..NumCoded(s) : ~s[i].empty
      /\ \A i \in 1..Len(s) : ~s[i].empty => i \in 1..NumCoded(s)
  BY CodedFacts
<1>5. /\ CodedIds(u) \in Seq(Nat) /\ Len(CodedIds(u)) = NumCoded(u)
      /\ NumCoded(u) \in Nat /\ NumCoded(u) <= Len(u)
      /\ \A i \in 1..NumCoded(u) : CodedIds(u)[i] = u[i].frame.id + 1
      /\ u = <<>> <=> Len(u) = 0
  BY <1>1, <1>3, CodedFacts, IsSeqLen
<1>6. 1 \in 1..Len(s) /\ GoodBuffer(s[1])
  BY <1>1 DEF EmptyAtEnd
<1>7. CASE s[1].empty
  <2>1. Len(s) = 1
    BY <1>6, <1>7 DEF EmptyAtEnd
  <2>2. Len(u) = 0 /\ NumCoded(u) = 0
    BY <1>1, <1>5, <2>1
  <2>3. u = <<>>
    BY <1>5, <2>2
  <2>4. 1 \notin 1..NumCoded(s)
    BY <1>4, <1>7
  <2>5. NumCoded(s) = 0
    BY <1>4, <2>4
  <2>6. CodedIds(u) = CodedIds(s)
    BY <1>4, <1>5, <2>2, <2>5, SeqEqual
  <2>7. QED BY <1>1, <1>2, <1>3, <1>6, <1>7, <2>2, <2>3, <2>5, <2>6 DEF u
<1>8. CASE ~s[1].empty
  <2>1. 1 \in 1..NumCoded(s)
    BY <1>4, <1>6, <1>8
  <2>2. NumCoded(s) \in Nat \ {0}
    BY <1>4, <2>1
  <2>3. CodedIds(s) # <<>>
    BY <1>4, <2>2, EmptySeq
  <2>4. Head(CodedIds(s)) = CodedIds(s)[1]
    BY <1>4, <2>3, TailFacts
  <2>5. CodedIds(s)[1] = s[1].frame.id + 1
    BY <1>4, <2>1
  <2>6. NumCoded(u) = NumCoded(s) - 1
    <3>1. CASE u = <<>>
      <4>1. Len(s) = 1
        BY <1>1, <1>5, <3>1
      <4>2. QED BY <1>4, <1>5, <2>2, <3>1, <4>1, <1>1
    <3>2. CASE u # <<>>
      <4>1. Len(u) \in 1..Len(u) /\ u[Len(u)] = s[Len(s)]
        <5>1. Len(u) \in 1..Len(u)
          BY <1>1, <1>5, <3>2
        <5>2. u[Len(u)] = s[Len(u) + 1] /\ Len(u) + 1 = Len(s)
          BY <1>1, <5>1
        <5>3. QED BY <5>1, <5>2
      <4>2. CASE s[Len(s)].empty
        <5>1. NumCoded(s) = Len(s) - 1 /\ NumCoded(u) = Len(u) - 1
          BY <3>2, <4>1, <4>2 DEF NumCoded
        <5>2. QED BY <1>1, <5>1
      <4>3. CASE ~s[Len(s)].empty
        <5>1. NumCoded(s) = Len(s) /\ NumCoded(u) = Len(u)
          BY <3>2, <4>1, <4>3 DEF NumCoded
        <5>2. QED BY <1>1, <5>1
      <4>4. QED BY <4>2, <4>3
    <3>3. QED BY <3>1, <3>2
  <2>7. \A i \in 1..NumCoded(u) : i \in 1..Len(u) /\ i + 1 \in 1..NumCoded(s)
    BY <1>1, <1>4, <1>5, <2>2, <2>6
  <2>8. \A i \in 1..NumCoded(u) : CodedIds(u)[i] = CodedIds(s)[i + 1]
    <3> SUFFICES ASSUME NEW i \in 1..NumCoded(u) PROVE CodedIds(u)[i] = CodedIds(s)[i + 1]
      OBVIOUS
    <3>1. CodedIds(u)[i] = u[i].frame.id + 1 /\ u[i] = s[i + 1]
      BY <1>2, <1>5, <2>7
    <3>2. CodedIds(s)[i + 1] = s[i + 1].frame.id + 1
      BY <1>4, <2>7
    <3>3. QED BY <3>1, <3>2
  <2>9. CodedIds(u) = Tail(CodedIds(s))
    BY <1>4, <1>5, <2>3, <2>6, <2>8, IsTail
  <2>10. QED BY <1>1, <1>2, <1>3, <1>6, <1>8, <2>2, <2>3, <2>4, <2>5, <2>6, <2>9 DEF u
<1>9. QED BY <1>7, <1>8

(* An empty buffer in front, too: it counts for nothing.                   *)
Gaps(s) == \A i \in 1..Len(s) : GoodBuffer(s[i]) /\ (s[i].empty => i = 1 \/ i = Len(s))

LEMMA NotStaleFacts ==
  ASSUME NEW s, IsSeq(s), Gaps(s)
  PROVE  /\ IsSeq(NotStale(s)) /\ EmptyAtEnd(NotStale(s))
         /\ s = <<>> => NotStale(s) = s
         /\ s # <<>> /\ Head(s).empty => NotStale(s) = Tail(s)
         /\ s # <<>> => /\ GoodBuffer(Head(s)) /\ IsSeq(Tail(s)) /\ EmptyAtEnd(Tail(s))
                        /\ Gaps(Tail(s)) /\ Len(Tail(s)) = Len(s) - 1
                        /\ \A i \in 1..Len(Tail(s)) : Tail(s)[i] = s[i + 1] /\ i + 1 \in 1..Len(s)
         /\ s # <<>> /\ ~Head(s).empty => NotStale(s) = s /\ EmptyAtEnd(s)
<1>1. CASE s = <<>>
  <2>1. NotStale(s) = s
    BY <1>1 DEF NotStale
  <2>2. Len(s) = 0
    BY <1>1, NothingIsSeq
  <2>3. EmptyAtEnd(s)
    BY <2>2 DEF EmptyAtEnd
  <2>4. QED BY <1>1, <2>1, <2>3
<1>2. CASE s # <<>>
  <2> DEFINE u == Tail(s)
  <2>1. /\ Head(s) = s[1] /\ IsSeq(u)
        /\ Len(s) \in Nat \ {0} /\ Len(u) = Len(s) - 1
        /\ \A i \in 1..(Len(s) - 1) : u[i] = s[i + 1] /\ i + 1 \in 1..Len(s)
    BY <1>2, IsSeqTail
  <2>2. NotStale(s) = IF Head(s).empty THEN u ELSE s
    BY <1>2 DEF NotStale
  <2> HIDE DEF u
  <2>3. \A i \in 1..Len(u) :
          /\ u[i] = s[i + 1] /\ i + 1 \in 1..Len(s) /\ i + 1 # 1
          /\ i + 1 = Len(s) => i = Len(u)
    BY <2>1
  <2>4. EmptyAtEnd(u)
    <3>1. \A k \in 1..Len(s) : GoodBuffer(s[k]) /\ (s[k].empty => k = 1 \/ k = Len(s))
      BY DEF Gaps
    <3>2. ASSUME NEW i \in 1..Len(u) PROVE GoodBuffer(u[i]) /\ (u[i].empty => i = Len(u))
      <4>1. PICK k : k = i + 1
        OBVIOUS
      <4>2. /\ k \in 1..Len(s) /\ u[i] = s[k] /\ k # 1
            /\ k = Len(s) => i = Len(u)
        BY <2>3, <3>2, <4>1
      <4>3. GoodBuffer(s[k]) /\ (s[k].empty => k = 1 \/ k = Len(s))
        BY <3>1, <4>2
      <4>4. QED BY <4>2, <4>3
    <3>3. QED BY <3>2 DEF EmptyAtEnd
  <2>5. GoodBuffer(Head(s))
    BY <2>1 DEF Gaps
  <2>6. ASSUME ~Head(s).empty PROVE EmptyAtEnd(s)
    BY <2>1, <2>6 DEF EmptyAtEnd, Gaps
  <2>7. Gaps(u)
    BY <2>4 DEF EmptyAtEnd, Gaps
  <2>8. QED BY <1>2, <2>1, <2>2, <2>3, <2>4, <2>5, <2>6, <2>7 DEF u
<1>3. QED BY <1>1, <1>2

LEMMA StaleOnly ==
  ASSUME NEW s, IsSeq(s), EmptyAtEnd(s)
  PROVE  CodedIds(NotStale(s)) = CodedIds(s) /\ NumCoded(NotStale(s)) = NumCoded(s)
<1>1. CASE s = <<>> \/ ~Head(s).empty
  BY <1>1 DEF NotStale
<1>2. CASE s # <<>> /\ Head(s).empty
  <2>1. NotStale(s) = Tail(s)
    BY <1>2 DEF NotStale
  <2>2. /\ CodedIds(Tail(s)) = CodedIds(s)
        /\ NumCoded(s) = 0 /\ NumCoded(Tail(s)) = 0
    BY <1>2, CodedTail
  <2>3. QED BY <2>1, <2>2
<1>3. QED BY <1>1, <1>2

LEMMA NotStaleTail ==
  ASSUME NEW s, IsSeq(s), Gaps(s), s # <<>>
  PROVE  /\ Head(s).empty => /\ CodedIds(NotStale(Tail(s))) = CodedIds(NotStale(s))
                             /\ NumCoded(NotStale(Tail(s))) = NumCoded(NotStale(s))
         /\ ~Head(s).empty =>
              /\ CodedIds(NotStale(s)) # <<>>
              /\ Head(CodedIds(NotStale(s))) = Head(s).frame.id + 1
              /\ CodedIds(NotStale(Tail(s))) = Tail(CodedIds(NotStale(s)))
              /\ NumCoded(NotStale(s)) \in Nat \ {0}
              /\ NumCoded(NotStale(Tail(s))) = NumCoded(NotStale(s)) - 1
<1>1. /\ IsSeq(Tail(s)) /\ EmptyAtEnd(Tail(s))
      /\ Head(s).empty => NotStale(s) = Tail(s)
      /\ ~Head(s).empty => NotStale(s) = s /\ EmptyAtEnd(s)
  BY NotStaleFacts
<1>2. /\ CodedIds(NotStale(Tail(s))) = CodedIds(Tail(s))
      /\ NumCoded(NotStale(Tail(s))) = NumCoded(Tail(s))
  BY <1>1, StaleOnly
<1>3. CASE Head(s).empty
  BY <1>1, <1>2, <1>3
<1>4. CASE ~Head(s).empty
  <2>1. /\ CodedIds(s) # <<>>
        /\ Head(CodedIds(s)) = Head(s).frame.id + 1
        /\ CodedIds(Tail(s)) = Tail(CodedIds(s))
        /\ NumCoded(s) \in Nat \ {0} /\ NumCoded(Tail(s)) = NumCoded(s) - 1
    BY <1>1, <1>4, CodedTail
  <2>2. QED BY <1>1, <1>2, <1>4, <2>1
<1>5. QED BY <1>3, <1>4

LEMMA TailOfAppend ==
  ASSUME NEW s, IsSeq(s), s # <<>>, NEW b
  PROVE  Tail(Append(s, b)) = Append(Tail(s), b) /\ Head(Append(s, b)) = Head(s)
<1> DEFINE S == {s[i] : i \in DOMAIN s} \cup {b}
<1>1. s \in Seq(S) /\ b \in S
  BY IsSeqIn
<1> HIDE DEF S
<1>2. Append(s, b) = s \o <<b>> /\ <<b>> \in Seq(S)
  BY <1>1, AppendIsConcat
<1>3. Tail(s) \in Seq(S)
  BY <1>1, TailFacts
<1>4. Append(Tail(s), b) = Tail(s) \o <<b>>
  BY <1>1, <1>3, AppendIsConcat
<1>5. Head(s \o <<b>>) = Head(s) /\ Tail(s \o <<b>>) = Tail(s) \o <<b>>
  BY <1>1, <1>2, TailInFront
<1>6. QED BY <1>2, <1>4, <1>5

LEMMA NotStaleAppend ==
  ASSUME NEW s, IsSeq(s), \A i \in 1..Len(s) : GoodBuffer(s[i]) /\ (s[i].empty => i = 1),
         NEW b, GoodBuffer(b)
  PROVE  /\ IsSeq(Append(s, b)) /\ Len(Append(s, b)) = Len(s) + 1
         /\ \A i \in 1..Len(Append(s, b)) :
              /\ GoodBuffer(Append(s, b)[i])
              /\ Append(s, b)[i].empty => i = 1 \/ (i = Len(Append(s, b)) /\ b.empty)
         /\ b.empty => /\ CodedIds(NotStale(Append(s, b))) = CodedIds(NotStale(s))
                       /\ NumCoded(NotStale(Append(s, b))) = NumCoded(NotStale(s))
         /\ ~b.empty =>
              /\ CodedIds(NotStale(Append(s, b))) = Append(CodedIds(NotStale(s)), b.frame.id + 1)
              /\ NumCoded(NotStale(Append(s, b))) = NumCoded(NotStale(s)) + 1
<1> DEFINE u == Append(s, b)
<1>1. /\ IsSeq(u) /\ Len(s) \in Nat /\ Len(u) = Len(s) + 1 /\ u # <<>>
      /\ \A i \in 1..Len(u) : \/ i \in 1..Len(s) /\ u[i] = s[i]
                              \/ i = Len(s) + 1 /\ u[i] = b
  BY IsSeqAppend
<1> HIDE DEF u
<1>2. \A i \in 1..Len(u) : GoodBuffer(u[i]) /\ (u[i].empty => i = 1 \/ (i = Len(u) /\ b.empty))
  BY <1>1
<1>3. CASE s = <<>> \/ ~Head(s).empty
  <2>1. \A i \in 1..Len(s) : GoodBuffer(s[i]) /\ ~s[i].empty
    <3>1. CASE s = <<>>
      <4>1. Len(s) = 0
        BY <3>1, NothingIsSeq
      <4>2. QED BY <4>1
    <3>2. CASE s # <<>>
      <4>1. Head(s) = s[1]
        BY <3>2, IsSeqTail
      <4>2. QED BY <1>3, <3>2, <4>1
    <3>3. QED BY <3>1, <3>2
  <2>2. NotStale(s) = s
    BY <1>3 DEF NotStale
  <2>3. /\ EmptyAtEnd(u)
        /\ b.empty => CodedIds(u) = CodedIds(s) /\ NumCoded(u) = NumCoded(s)
        /\ ~b.empty => /\ CodedIds(u) = Append(CodedIds(s), b.frame.id + 1)
                       /\ NumCoded(u) = NumCoded(s) + 1
    BY <2>1, CodedAppend DEF u
  <2>4. CodedIds(NotStale(u)) = CodedIds(u) /\ NumCoded(NotStale(u)) = NumCoded(u)
    BY <1>1, <2>3, StaleOnly
  <2>5. QED BY <1>1, <1>2, <2>2, <2>3, <2>4 DEF u
<1>4. CASE s # <<>> /\ Head(s).empty
  <2> DEFINE r == Tail(s)
  <2>1. u # <<>> /\ Tail(u) = Append(r, b) /\ Head(u) = Head(s)
    BY <1>1, <1>4, TailOfAppend DEF u
  <2>2. NotStale(s) = r /\ NotStale(u) = Append(r, b)
    BY <1>4, <2>1 DEF NotStale
  <2>3. IsSeq(r) /\ \A i \in 1..Len(r) : r[i] = s[i + 1] /\ i + 1 \in 1..Len(s) /\ i + 1 # 1
    BY <1>4, IsSeqTail
  <2> HIDE DEF r
  <2>4. \A i \in 1..Len(r) : GoodBuffer(r[i]) /\ ~r[i].empty
    BY <2>3
  <2>5. /\ b.empty => /\ CodedIds(Append(r, b)) = CodedIds(r)
                      /\ NumCoded(Append(r, b)) = NumCoded(r)
        /\ ~b.empty => /\ CodedIds(Append(r, b)) = Append(CodedIds(r), b.frame.id + 1)
                       /\ NumCoded(Append(r, b)) = NumCoded(r) + 1
    BY <2>3, <2>4, CodedAppend
  <2>6. QED BY <1>1, <1>2, <2>2, <2>5 DEF u
<1>5. QED BY <1>3, <1>4

-----------------------------------------------------------------------------
(* The frames in the encoder.                                              *)

LEMMA PartsFacts ==
  ASSUME NEW c, IsSeq(c), EmptyAtEnd(c),
         NEW o, IsSeq(o), \A i \in 1..Len(o) : GoodFrame(o[i]),
         NEW q, IsSeq(q), \A i \in 1..Len(q) : GoodRequest(q[i])
  PROVE  LET P == CodedIds(c) \o Ids(o)
             E == P \o RequestIds(q)
         IN  /\ CodedIds(c) \in Seq(Nat) /\ Ids(o) \in Seq(Nat) /\ RequestIds(q) \in Seq(Nat)
             /\ P \in Seq(Nat) /\ E \in Seq(Nat)
             /\ NumCoded(c) \in Nat /\ Len(o) \in Nat /\ Len(q) \in Nat
             /\ Len(P) = NumCoded(c) + Len(o)
             /\ Len(E) = NumCoded(c) + Len(o) + Len(q)
             /\ \A i \in 1..(NumCoded(c) + Len(o)) : i \in 1..Len(E) /\ E[i] = P[i]
             /\ q # <<>> => /\ NumCoded(c) + Len(o) + 1 \in 1..Len(E)
                            /\ E[NumCoded(c) + Len(o) + 1] = Head(q).request_id + 1
<1> DEFINE P == CodedIds(c) \o Ids(o)
           E == P \o RequestIds(q)
           R == RequestIds(q)
<1>1. /\ CodedIds(c) \in Seq(Nat) /\ Len(CodedIds(c)) = NumCoded(c) /\ NumCoded(c) \in Nat
      /\ Ids(o) \in Seq(Nat) /\ Len(Ids(o)) = Len(o) /\ Len(o) \in Nat
      /\ R \in Seq(Nat) /\ Len(R) = Len(q) /\ Len(q) \in Nat
  BY CodedFacts, IdsFacts, RequestIdsFacts
<1> HIDE DEF R
<1>2. P \in Seq(Nat) /\ Len(P) = NumCoded(c) + Len(o)
  <2>1. CodedIds(c) \in Seq(Nat) /\ Ids(o) \in Seq(Nat)
    BY <1>1
  <2>2. P \in Seq(Nat) /\ Len(P) = Len(CodedIds(c)) + Len(Ids(o))
    BY <2>1, ConcatProperties
  <2>3. QED BY <1>1, <2>2
<1> HIDE DEF P
<1>3. /\ E \in Seq(Nat) /\ Len(E) = Len(P) + Len(R)
      /\ \A i \in 1..(Len(P) + Len(R)) : E[i] = IF i <= Len(P) THEN P[i] ELSE R[i - Len(P)]
  <2>1. P \in Seq(Nat) /\ R \in Seq(Nat)
    BY <1>1, <1>2
  <2>2. E = P \o R
    BY DEF R
  <2>3. QED BY <2>1, <2>2, ConcatProperties
<1> HIDE DEF E
<1>4. \A i \in 1..Len(P) : i \in 1..Len(E) /\ E[i] = P[i]
  BY <1>1, <1>2, <1>3, SMTT(30)
<1>5. ASSUME q # <<>> PROVE Len(P) + 1 \in 1..Len(E) /\ E[Len(P) + 1] = Head(q).request_id + 1
  <2>1. R # <<>> /\ Head(R) = Head(q).request_id + 1
    BY <1>5, RequestIdsTail DEF R
  <2>2. Head(R) = R[1] /\ Len(R) \in Nat \ {0}
    BY <1>1, <2>1, TailFacts
  <2>3. Len(P) + 1 \in 1..Len(E) /\ ~ (Len(P) + 1 <= Len(P)) /\ (Len(P) + 1) - Len(P) = 1
    <3>1. Len(P) \in Nat /\ Len(R) \in Nat \ {0} /\ Len(E) = Len(P) + Len(R)
      BY <1>1, <1>2, <1>3, <2>2
    <3>2. QED BY ONLY <3>1
  <2>4. E[Len(P) + 1] = R[(Len(P) + 1) - Len(P)]
    BY <1>3, <2>3
  <2>5. QED BY <2>1, <2>2, <2>3, <2>4
<1>6. Len(E) = NumCoded(c) + Len(o) + Len(q)
  BY <1>1, <1>2, <1>3
<1>7. QED BY <1>1, <1>2, <1>3, <1>4, <1>5, <1>6 DEF E, P, R

Data == Requests /\ Frames /\ Buffers /\ Entries /\ Outputs

LEMMA EncodingFacts ==
  ASSUME Requests, Frames, Buffers
  PROVE  /\ EmptyAtEnd(Filled) /\ IsSeq(Filled) /\ Gaps(capture_done)
         /\ CodedIds(Filled) \in Seq(Nat) /\ Ids(output_queue) \in Seq(Nat)
         /\ RequestIds(queue) \in Seq(Nat)
         /\ CodedIds(Filled) \o Ids(output_queue) \in Seq(Nat)
         /\ Encoding \in Seq(Nat) /\ NumHeld \in Nat
         /\ NumCoded(Filled) \in Nat /\ Len(output_queue) \in Nat /\ Len(queue) \in Nat
         /\ Len(CodedIds(Filled) \o Ids(output_queue)) = NumHeld
         /\ Len(Encoding) = NumHeld + Len(queue)
         /\ \A i \in 1..NumHeld : i \in 1..Len(Encoding)
         /\ queue # <<>> => /\ NumHeld + 1 \in 1..Len(Encoding)
                            /\ Encoding[NumHeld + 1] = Head(queue).request_id + 1
<1>0. IsSeq(capture_done) /\ Gaps(capture_done)
  BY DEF Buffers, Gaps
<1>1. EmptyAtEnd(Filled) /\ IsSeq(Filled)
  BY <1>0, NotStaleFacts DEF Filled
<1>2. /\ IsSeq(output_queue) /\ IsSeq(queue)
      /\ \A i \in 1..Len(output_queue) : GoodFrame(output_queue[i])
      /\ \A i \in 1..Len(queue) : GoodRequest(queue[i])
  BY DEF Frames, Requests
<1> DEFINE P == CodedIds(Filled) \o Ids(output_queue)
<1>3. /\ CodedIds(Filled) \in Seq(Nat) /\ Ids(output_queue) \in Seq(Nat)
      /\ RequestIds(queue) \in Seq(Nat)
      /\ P \in Seq(Nat) /\ Encoding \in Seq(Nat)
      /\ NumCoded(Filled) \in Nat /\ Len(output_queue) \in Nat /\ Len(queue) \in Nat
      /\ Len(P) = NumHeld
      /\ Len(Encoding) = NumHeld + Len(queue)
      /\ \A i \in 1..NumHeld : i \in 1..Len(Encoding)
      /\ queue # <<>> => /\ NumHeld + 1 \in 1..Len(Encoding)
                         /\ Encoding[NumHeld + 1] = Head(queue).request_id + 1
  BY <1>1, <1>2, PartsFacts, SMTT(30) DEF Encoding, NumHeld
<1>4. NumHeld \in Nat
  BY <1>3, SMTT(30) DEF NumHeld
<1>5. QED BY <1>0, <1>1, <1>3, <1>4

(* Nothing but the place in a call, and what no invariant looks at.        *)
Quiet ==
  UNCHANGED <<queue, output_queue, capture_done, currently_processed, coded_queue, drained,
              processing, request_counter>>

LEMMA QuietKeeps ==
  ASSUME IInv, Quiet, stopped' = stopped \/ stopped = "no", pc # "over" \/ pc' = "over"
  PROVE  /\ Data' /\ Order' /\ Held' /\ Counted'
         /\ Encoding' = Encoding /\ NumHeld' = NumHeld
<1>1. Requests' /\ Frames' /\ Entries' /\ Outputs'
  BY DEF IInv, Quiet, Requests, Frames, Entries, Outputs
<1>2. Buffers'
  BY DEF IInv, Quiet, Buffers
<1>3. Encoding' = Encoding /\ NumHeld' = NumHeld
  BY DEF Quiet, Encoding, NumHeld, Filled
<1>4. Order' /\ Held' /\ Counted'
  BY <1>3 DEF IInv, Quiet, Order, Held, Counted
<1>5. QED BY <1>1, <1>2, <1>3, <1>4 DEF Data

LEMMA EncodeKeeps ==
  ASSUME IInv, NEW force \in BOOLEAN, CallEncode(force)
  PROVE  /\ Data' /\ Order' /\ Held' /\ Counted'
         /\ Encoding' = Append(Encoding, request_counter')
<1> DEFINE r == [request_id |-> request_counter, tunings |-> tunings,
                 meta |-> [timestamp |-> request_counter, force_keyframe |-> force]]
<1>1. /\ queue' = Append(queue, r) /\ request_counter' = request_counter + 1
      /\ request_counter < MaxFrames /\ pc = "idle"
      /\ UNCHANGED <<capture_done, output_queue, currently_processed, stopped, coded_queue,
                     drained, processing>>
  BY DEF CallEncode, backend_vars, output_vars, capture_vars
<1>2. request_counter \in Nat /\ MaxFrames \in Nat /\ request_counter' \in 0..MaxFrames
  BY <1>1, StatefulEncoderAssumption DEF IInv, Order
<1>3. GoodRequest(r)
  BY <1>2 DEF GoodRequest
<1>4. r.request_id + 1 = request_counter'
  BY <1>1
<1> HIDE DEF r
<1>5. /\ Requests' /\ RequestIds(queue') = Append(RequestIds(queue), request_counter')
  <2>1. IsSeq(queue) /\ \A i \in 1..Len(queue) : GoodRequest(queue[i])
    BY DEF IInv, Requests
  <2>2. QED BY <1>1, <1>3, <1>4, <2>1, RequestIdsAppend DEF Requests
<1>6. Frames' /\ Buffers' /\ Entries' /\ Outputs'
  BY <1>1 DEF IInv, Frames, Buffers, Entries, Outputs
<1>7. /\ CodedIds(Filled) \o Ids(output_queue) \in Seq(Nat) /\ RequestIds(queue) \in Seq(Nat)
      /\ Encoding \in Seq(Nat) /\ Len(Encoding) \in Nat
      /\ \A i \in 1..NumHeld : i \in 1..Len(Encoding)
  BY EncodingFacts, LenProperties DEF IInv
<1>8. Encoding' = Append(Encoding, request_counter')
  BY <1>1, <1>2, <1>5, <1>7, AppendBehind, SMTT(30) DEF Encoding, Filled
<1>9. NumHeld' = NumHeld
  BY <1>1 DEF NumHeld, Filled
<1>10. Encoding \in Seq(1..request_counter) /\ Rising(Encoding)
  BY DEF IInv, Order
<1>11. \A i \in 1..Len(Encoding) : Encoding[i] \in 1..request_counter
  BY <1>10, LenProperties
<1>12. \A i \in 1..Len(Encoding) : Encoding[i] < request_counter'
  BY <1>1, <1>2, <1>11
<1>13. Rising(Encoding')
  BY <1>2, <1>7, <1>8, <1>10, <1>12, RisingAppend
<1>14. Encoding' \in Seq(1..request_counter')
  <2>1. 1..request_counter \subseteq 1..request_counter' /\ request_counter' \in 1..request_counter'
    BY <1>1, <1>2
  <2>2. Encoding \in Seq(1..request_counter')
    BY <1>10, <2>1, SeqMonotonic
  <2>3. QED BY <1>8, <2>1, <2>2, AppendProperties
<1>15. Order'
  BY <1>2, <1>13, <1>14 DEF Order
<1>16. Held'
  <2>1. \A i \in 1..Len(Encoding) : Encoding'[i] = Encoding[i]
    BY <1>2, <1>7, <1>8, AppendProperties
  <2>2. \A i \in 1..NumHeld : Encoding'[i] = Encoding[i]
    BY <1>7, <2>1
  <2>3. QED BY <1>1, <1>9, <2>2 DEF IInv, Held
<1>17. Counted'
  BY <1>1 DEF IInv, Counted
<1>18. QED BY <1>5, <1>6, <1>8, <1>15, <1>16, <1>17 DEF Data

LEMMA DeviceKeeps ==
  ASSUME IInv, Device, Stay, UNCHANGED encoder_vars
  PROVE  IInv' /\ Encoding' = Encoding
<1>1. /\ UNCHANGED <<queue, currently_processed, coded_queue, drained, processing,
                     request_counter, pc, call>>
      /\ capture_done' # <<>> => output_queue # <<>> \/ stopped = "draining" \/ capture_done # <<>>
  BY DEF Device, DeviceCodes, DeviceEnds, Stay, encoder_vars
<1>2. /\ IsSeq(capture_done) /\ IsSeq(output_queue) /\ IsSeq(queue)
      /\ \A i \in 1..Len(output_queue) : GoodFrame(output_queue[i])
      /\ \A i \in 1..Len(capture_done) : GoodBuffer(capture_done[i])
      /\ \A i \in 1..Len(capture_done) : capture_done[i].empty => i = 1 \/ stopped = "last"
  BY DEF IInv, Buffers, Frames, Requests
<1>3. Requests' /\ Entries' /\ Outputs'
  BY <1>1 DEF IInv, Requests, Entries, Outputs
<1>4. /\ CodedIds(Filled) \in Seq(Nat) /\ Ids(output_queue) \in Seq(Nat)
      /\ NumCoded(Filled) \in Nat /\ Len(output_queue) \in Nat
  BY EncodingFacts DEF IInv
<1>5. CASE DeviceCodes
  <2>1. PICK last \in BOOLEAN :
          /\ output_queue # <<>> /\ output_queue' = Tail(output_queue)
          /\ capture_done' = Append(capture_done, Coded(Head(output_queue), last))
          /\ stopped' = IF last THEN "last" ELSE stopped
          /\ last => stopped = "draining" /\ Len(output_queue) = 1
    BY <1>5 DEF DeviceCodes
  <2> DEFINE b == Coded(Head(output_queue), last)
  <2>2. stopped # "last"
    BY <2>1 DEF IInv, Control
  <2>3. \A i \in 1..Len(capture_done) :
          GoodBuffer(capture_done[i]) /\ (capture_done[i].empty => i = 1)
    BY <1>2, <2>2
  <2>4. /\ GoodFrame(Head(output_queue)) /\ IsSeq(output_queue')
        /\ Len(output_queue') = Len(output_queue) - 1
        /\ \A i \in 1..Len(output_queue') : GoodFrame(output_queue'[i])
        /\ Ids(output_queue) # <<>> /\ Head(Ids(output_queue)) = Head(output_queue).id + 1
        /\ Ids(output_queue') = Tail(Ids(output_queue))
    BY <1>2, <2>1, IdsTail
  <2>5. ~b.empty /\ GoodBuffer(b) /\ b.frame = Head(output_queue)
    BY <2>4 DEF GoodBuffer, Coded
  <2> HIDE DEF b
  <2>6. /\ IsSeq(capture_done')
        /\ CodedIds(Filled') = Append(CodedIds(Filled), Head(output_queue).id + 1)
        /\ NumCoded(Filled') = NumCoded(Filled) + 1
        /\ \A i \in 1..Len(capture_done') :
             GoodBuffer(capture_done'[i]) /\ (capture_done'[i].empty => i = 1)
    <3> DEFINE u == Append(capture_done, b)
    <3>1. /\ IsSeq(u) /\ \A i \in 1..Len(u) : GoodBuffer(u[i]) /\ (u[i].empty => i = 1)
          /\ CodedIds(NotStale(u)) = Append(CodedIds(NotStale(capture_done)), b.frame.id + 1)
          /\ NumCoded(NotStale(u)) = NumCoded(NotStale(capture_done)) + 1
      BY <1>2, <2>3, <2>5, NotStaleAppend
    <3>2. u = capture_done'
      BY <2>1 DEF b
    <3> HIDE DEF u
    <3>3. QED BY <2>5, <3>1, <3>2 DEF Filled
  <2>7. Encoding' = Encoding
    <3>1. Append(CodedIds(Filled), Head(Ids(output_queue))) \o Tail(Ids(output_queue))
            = CodedIds(Filled) \o Ids(output_queue)
      BY <1>4, <2>4, MoveOver
    <3>2. CodedIds(Filled') \o Ids(output_queue') = CodedIds(Filled) \o Ids(output_queue)
      BY <2>4, <2>6, <3>1
    <3>3. QED BY <1>1, <3>2 DEF Encoding
  <2>8. NumHeld' = NumHeld
    BY <1>4, <2>4, <2>6 DEF NumHeld
  <2>9. Frames' /\ Buffers'
    BY <2>4, <2>6 DEF Frames, Buffers
  <2>10. Order' /\ Held' /\ Counted'
    BY <1>1, <2>7, <2>8 DEF IInv, Order, Held, Counted
  <2>11. last => output_queue' = <<>>
    <3>1. Len(output_queue) = 1 => Len(output_queue') = 0
      BY <1>4, <2>4
    <3>2. QED BY <2>1, <2>4, <3>1, IsSeqLen
  <2>12. Control'
    <3>1. pc \in Draining \cup {"over"} \/ ~last
      BY <2>1 DEF IInv, Control
    <3>2. stopped' \in {"no", "draining", "last"} /\ (stopped' = "last" => output_queue' = <<>>)
      BY <2>1, <2>2, <2>11 DEF IInv, Control
    <3>3. pc \notin Draining \cup {"over"} => stopped' = stopped
      BY <2>1, <3>1
    <3>4. QED BY <1>1, <3>2, <3>3 DEF IInv, Control
  <2>13. QED BY <1>3, <2>7, <2>9, <2>10, <2>12 DEF IInv
<1>6. CASE DeviceEnds
  <2>1. /\ stopped = "draining" /\ stopped' = "last" /\ output_queue = <<>>
        /\ output_queue' = output_queue /\ capture_done' = Append(capture_done, EmptyLast)
    BY <1>6 DEF DeviceEnds, output_vars
  <2>2. \A i \in 1..Len(capture_done) :
          GoodBuffer(capture_done[i]) /\ (capture_done[i].empty => i = 1)
    BY <1>2, <2>1
  <2>3. EmptyLast.empty /\ GoodBuffer(EmptyLast)
    BY DEF EmptyLast, GoodBuffer
  <2>4. /\ IsSeq(capture_done')
        /\ \A i \in 1..Len(capture_done') :
             /\ GoodBuffer(capture_done'[i])
             /\ capture_done'[i].empty => i = 1 \/ i = Len(capture_done')
        /\ CodedIds(Filled') = CodedIds(Filled) /\ NumCoded(Filled') = NumCoded(Filled)
    <3> DEFINE u == Append(capture_done, EmptyLast)
    <3>1. /\ IsSeq(u)
          /\ \A i \in 1..Len(u) : GoodBuffer(u[i]) /\ (u[i].empty => i = 1 \/ i = Len(u))
          /\ CodedIds(NotStale(u)) = CodedIds(NotStale(capture_done))
          /\ NumCoded(NotStale(u)) = NumCoded(NotStale(capture_done))
      BY <1>2, <2>2, <2>3, NotStaleAppend
    <3>2. u = capture_done'
      BY <2>1
    <3> HIDE DEF u
    <3>3. QED BY <3>1, <3>2 DEF Filled
  <2>5. Encoding' = Encoding /\ NumHeld' = NumHeld
    BY <1>1, <2>1, <2>4 DEF Encoding, NumHeld
  <2>6. Frames' /\ Buffers'
    BY <2>1, <2>4 DEF IInv, Frames, Buffers
  <2>7. Order' /\ Held' /\ Counted'
    BY <1>1, <2>5 DEF IInv, Order, Held, Counted
  <2>8. pc \in Draining \cup {"over"}
    BY <2>1 DEF IInv, Control
  <2>9. Control'
    BY <1>1, <2>1, <2>8 DEF IInv, Control
  <2>10. QED BY <1>3, <2>5, <2>6, <2>7, <2>9 DEF IInv
<1>7. QED BY <1>5, <1>6 DEF Device

(* A coded frame is one the backend knows: the first it has.               *)
LEMMA DequeueKeeps ==
  ASSUME IInv, DequeueCapture, UNCHANGED <<queue, output_queue, request_counter>>
  PROVE  /\ Requests' /\ Frames' /\ Entries' /\ Order' /\ Held'
         /\ stopped' = stopped => Buffers'
         /\ Outcome \in {"none", "output"}
         /\ Outcome = "none" => /\ Encoding' = Encoding
                                /\ currently_processed' = currently_processed
         /\ Outcome = "output" => /\ Encoding # <<>> /\ Encoding' = Tail(Encoding)
                                  /\ Own(Output) /\ Output.bitstream + 1 = Head(Encoding)
                                  /\ Output.request_id \in DOMAIN currently_processed
                                  /\ DOMAIN currently_processed' =
                                       DOMAIN currently_processed \ {Output.request_id}
<1>1. /\ Gaps(capture_done) /\ IsSeq(capture_done)
      /\ \A i \in 1..Len(capture_done) : capture_done[i].empty => i = 1 \/ stopped = "last"
  BY EncodingFacts DEF IInv, Buffers
<1>2. Requests' /\ Frames'
  BY DEF IInv, Requests, Frames
<1>3. /\ CodedIds(Filled) \in Seq(Nat) /\ Ids(output_queue) \in Seq(Nat)
      /\ RequestIds(queue) \in Seq(Nat)
      /\ CodedIds(Filled) \o Ids(output_queue) \in Seq(Nat)
      /\ Encoding \in Seq(Nat) /\ NumHeld \in Nat
      /\ NumCoded(Filled) \in Nat /\ Len(output_queue) \in Nat
      /\ \A i \in 1..NumHeld : i \in 1..Len(Encoding)
  BY EncodingFacts DEF IInv
<1>4. CASE ~CaptureReady
  <2>1. /\ capture_done = <<>> /\ Outcome = "none"
        /\ UNCHANGED <<capture_done, currently_processed>>
    BY <1>4 DEF DequeueCapture, CaptureReady, Outcome, capture_vars
  <2>2. Encoding' = Encoding /\ NumHeld' = NumHeld
    BY <2>1 DEF Encoding, NumHeld, Filled
  <2>3. Entries' /\ Order' /\ Held'
    BY <2>1, <2>2 DEF IInv, Entries, Order, Held
  <2>4. stopped' = stopped => Buffers'
    BY <2>1 DEF IInv, Buffers
  <2>5. QED BY <1>2, <2>1, <2>2, <2>3, <2>4
<1>5. ASSUME CaptureReady
      PROVE  /\ capture_done # <<>> /\ capture_done' = Tail(capture_done)
             /\ GoodBuffer(Head(capture_done))
             /\ stopped' = stopped => Buffers'
  <2>1. capture_done # <<>> /\ capture_done' = Tail(capture_done)
    BY <1>5 DEF CaptureReady, DequeueCapture
  <2>2. /\ GoodBuffer(Head(capture_done)) /\ IsSeq(capture_done') /\ EmptyAtEnd(capture_done')
        /\ \A i \in 1..Len(capture_done') : /\ capture_done'[i] = capture_done[i + 1]
                                            /\ i + 1 \in 1..Len(capture_done)
    BY <1>1, <2>1, NotStaleFacts
  <2>3. \A i \in 1..Len(capture_done') : capture_done'[i].empty => stopped = "last"
    <3>1. IsSeq(capture_done')
      BY <2>2
    <3>2. \A i \in 1..Len(capture_done') : i + 1 # 1
      BY <3>1, IsSeqLen
    <3>3. QED BY <1>1, <2>2, <3>2
  <2>4. stopped' = stopped => Buffers'
    BY <2>2, <2>3 DEF Buffers, EmptyAtEnd
  <2>5. QED BY <2>1, <2>2, <2>4
<1>6. CASE CaptureReady /\ Head(capture_done).empty
  <2>1. /\ capture_done # <<>> /\ capture_done' = Tail(capture_done)
        /\ stopped' = stopped => Buffers'
    BY <1>5, <1>6
  <2>2. CodedIds(Filled') = CodedIds(Filled) /\ NumCoded(Filled') = NumCoded(Filled)
    BY <1>1, <1>6, <2>1, NotStaleTail DEF Filled
  <2>3. Outcome = "none"
    BY <1>6 DEF Outcome
  <2>4. UNCHANGED currently_processed
    BY <2>3 DEF DequeueCapture
  <2>5. Encoding' = Encoding /\ NumHeld' = NumHeld
    BY <2>2 DEF Encoding, NumHeld
  <2>6. Entries' /\ Order' /\ Held'
    BY <2>4, <2>5 DEF IInv, Entries, Order, Held
  <2>7. QED BY <1>2, <2>1, <2>2, <2>3, <2>4, <2>5, <2>6
<1>7. CASE CaptureReady /\ ~Head(capture_done).empty
  <2>1. /\ capture_done # <<>> /\ capture_done' = Tail(capture_done)
        /\ GoodBuffer(Head(capture_done))
        /\ stopped' = stopped => Buffers'
    BY <1>5, <1>7
  <2> DEFINE frame == Head(capture_done).frame
  <2>2. /\ CodedIds(Filled) # <<>> /\ Head(CodedIds(Filled)) = frame.id + 1
        /\ CodedIds(Filled') = Tail(CodedIds(Filled))
        /\ NumCoded(Filled) \in Nat \ {0}
        /\ NumCoded(Filled') = NumCoded(Filled) - 1
    BY <1>1, <1>7, <2>1, NotStaleTail DEF Filled
  <2>3. frame.id \in Nat /\ frame.timestamp = frame.id
    BY <1>7, <2>1 DEF GoodBuffer, GoodFrame
  <2>4. /\ Encoding # <<>> /\ Head(Encoding) = frame.id + 1
        /\ Encoding' = Tail(Encoding)
    <3> DEFINE P == CodedIds(Filled) \o Ids(output_queue)
    <3>1. /\ P # <<>> /\ Head(P) = frame.id + 1
          /\ Tail(P) = Tail(CodedIds(Filled)) \o Ids(output_queue)
      BY <1>3, <2>2, TailInFront
    <3>2. P \in Seq(Nat)
      BY <1>3
    <3>3. Encoding = P \o RequestIds(queue)
      BY DEF Encoding
    <3>4. Encoding' = (CodedIds(Filled') \o Ids(output_queue)) \o RequestIds(queue)
      BY DEF Encoding
    <3> HIDE DEF P
    <3>5. Encoding' = Tail(P) \o RequestIds(queue)
      BY <2>2, <3>1, <3>4
    <3>6. /\ P \o RequestIds(queue) # <<>> /\ Head(P \o RequestIds(queue)) = Head(P)
          /\ Tail(P \o RequestIds(queue)) = Tail(P) \o RequestIds(queue)
      BY <1>3, <3>1, <3>2, TailInFront, SMTT(30)
    <3>7. QED BY <3>1, <3>3, <3>5, <3>6
  <2>5. NumHeld' = NumHeld - 1 /\ NumHeld \in Nat \ {0}
    <3> DEFINE n == Len(output_queue)
    <3>1. NumHeld = NumCoded(Filled) + n /\ n \in Nat
      BY <1>3 DEF NumHeld
    <3>2. NumHeld' = NumCoded(Filled') + n
      BY DEF NumHeld
    <3> HIDE DEF n
    <3>3. QED BY <2>2, <3>1, <3>2
  <2>6. /\ Encoding[1] = Head(Encoding) /\ Tail(Encoding) \in Seq(Nat)
        /\ Len(Tail(Encoding)) = Len(Encoding) - 1 /\ Len(Encoding) \in Nat \ {0}
        /\ \A i \in 1..(Len(Encoding) - 1) : /\ Tail(Encoding)[i] = Encoding[i + 1]
                                             /\ i + 1 \in 1..Len(Encoding)
    BY <1>3, <2>4, TailFacts
  <2>7. 1 \in 1..NumHeld /\ 1 \in 1..Len(Encoding) /\ Encoding[1] = frame.id + 1
    BY <1>3, <2>4, <2>5, <2>6
  <2>8. frame.id \in DOMAIN currently_processed
    <3>1. frame.id = Encoding[1] - 1
      BY <2>3, <2>7
    <3>2. QED BY <2>7, <3>1 DEF IInv, Held
  <2>9. Copied(frame.timestamp) = frame.id
    <3>1. Encoding[1] \in 1..request_counter /\ request_counter \in 0..MaxFrames
      BY <2>7, LenProperties DEF IInv, Order
    <3>2. frame.id < TimestampLimit
      BY <2>3, <2>7, <3>1, StatefulEncoderAssumption
    <3>3. QED BY <2>3, <3>2 DEF Copied
  <2>10. Outcome = "output"
    BY <1>7, <2>8, <2>9 DEF Outcome
  <2>11. /\ Output.bitstream = frame.id
         /\ Output.request_id = currently_processed[frame.id].request_id
         /\ Output.meta = currently_processed[frame.id].meta
    BY <2>9 DEF Output
  <2>12. Own(Output) /\ Output.request_id = frame.id
    BY <2>3, <2>8, <2>11 DEF IInv, Entries, Own
  <2>13. currently_processed' =
           [t \in DOMAIN currently_processed \ {frame.id} |-> currently_processed[t]]
    BY <2>9, <2>10 DEF DequeueCapture
  <2>14. Entries' /\ DOMAIN currently_processed' = DOMAIN currently_processed \ {frame.id}
    BY <2>13 DEF IInv, Entries
  <2>15. Rising(Encoding) /\ Encoding \in Seq(1..request_counter)
    BY DEF IInv, Order
  <2>16. Order'
    <3>1. Rising(Encoding')
      BY <1>3, <2>4, <2>15, RisingTail
    <3>2. Encoding' \in Seq(1..request_counter)
      BY <2>4, <2>15, TailFacts
    <3>3. QED BY <3>1, <3>2 DEF IInv, Order
  <2>17. Held'
    <3>1. \A i \in 1..NumHeld' : /\ Encoding'[i] = Encoding[i + 1]
                                 /\ i + 1 \in 1..NumHeld /\ i + 1 \in 1..Len(Encoding)
                                 /\ 1 < i + 1
      BY <1>3, <2>4, <2>5, <2>6
    <3>2. \A i \in 1..NumHeld : i = 1 \/ (i - 1 \in 1..NumHeld' /\ Encoding[i] = Encoding'[i - 1])
      <4> SUFFICES ASSUME NEW i \in 1..NumHeld, i # 1
                   PROVE  i - 1 \in 1..NumHeld' /\ Encoding[i] = Encoding'[i - 1]
        OBVIOUS
      <4>1. i - 1 \in 1..NumHeld' /\ (i - 1) + 1 = i
        BY <2>5
      <4>2. QED BY <3>1, <4>1
    <3>3. \A i \in 1..NumHeld' : Encoding'[i] - 1 # frame.id
      <4> SUFFICES ASSUME NEW i \in 1..NumHeld' PROVE Encoding'[i] - 1 # frame.id
        OBVIOUS
      <4>1. Encoding[1] < Encoding[i + 1]
        BY <2>7, <2>15, <3>1 DEF Rising
      <4>2. Encoding[i + 1] \in Nat
        BY <1>3, <3>1, LenProperties
      <4>3. QED BY <2>3, <2>7, <3>1, <4>1, <4>2
    <3>4. frame.id = Encoding[1] - 1
      BY <2>3, <2>7
    <3>5. DOMAIN currently_processed = {Encoding[i] - 1 : i \in 1..NumHeld}
      BY DEF IInv, Held
    <3>6. DOMAIN currently_processed \ {frame.id} \subseteq {Encoding'[i] - 1 : i \in 1..NumHeld'}
      BY <3>2, <3>4, <3>5
    <3>7. {Encoding'[i] - 1 : i \in 1..NumHeld'} \subseteq DOMAIN currently_processed \ {frame.id}
      <4> SUFFICES ASSUME NEW i \in 1..NumHeld'
                   PROVE  Encoding'[i] - 1 \in DOMAIN currently_processed \ {frame.id}
        OBVIOUS
      <4>1. Encoding'[i] = Encoding[i + 1] /\ i + 1 \in 1..NumHeld
        BY <3>1
      <4>2. Encoding'[i] - 1 \in DOMAIN currently_processed
        BY <3>5, <4>1
      <4>3. QED BY <3>3, <4>2
    <3>8. QED BY <2>14, <3>6, <3>7 DEF Held
  <2>18. Output.bitstream + 1 = Head(Encoding) /\ Outcome # "none"
    BY <2>4, <2>10, <2>11
  <2>19. QED BY <1>2, <2>1, <2>4, <2>8, <2>10, <2>12, <2>14, <2>16, <2>17, <2>18
<1>8. QED BY <1>4, <1>6, <1>7

(* A request goes to the device, or is gone.                               *)
LEMMA ConsumeKeeps ==
  ASSUME IInv, pc # "over", queue # <<>>, HandleRequest(Head(queue)), queue' = Tail(queue),
         processing' = IF Accepts(Head(queue)) THEN processing \cup {Head(queue).request_id}
                                               ELSE processing,
         UNCHANGED <<capture_done, coded_queue, drained, request_counter, stopped>>
  PROVE  /\ Data' /\ Order' /\ Held' /\ Counted'
         /\ Accepts(Head(queue)) => Encoding' = Encoding
         /\ ~Accepts(Head(queue)) =>
              /\ output_queue' = output_queue /\ capture_done' = capture_done
              /\ RequestIds(queue) # <<>> /\ RequestIds(queue') = Tail(RequestIds(queue))
<1> DEFINE r == Head(queue)
           f == [id |-> r.request_id, timestamp |-> r.meta.timestamp,
                 tunings |-> r.tunings, controls |-> controls']
           A == CodedIds(Filled)
           B == Ids(output_queue)
           C == RequestIds(queue)
<1>1. /\ IsSeq(output_queue) /\ \A i \in 1..Len(output_queue) : GoodFrame(output_queue[i])
      /\ IsSeq(queue) /\ \A i \in 1..Len(queue) : GoodRequest(queue[i])
  BY DEF IInv, Frames, Requests
<1>2. /\ GoodRequest(r) /\ IsSeq(queue') /\ Len(queue') = Len(queue) - 1
      /\ \A i \in 1..Len(queue') : GoodRequest(queue'[i])
      /\ C # <<>> /\ Head(C) = r.request_id + 1
      /\ RequestIds(queue') = Tail(C)
  BY <1>1, RequestIdsTail
<1>3. Requests' /\ Outputs'
  BY <1>2 DEF IInv, Requests, Outputs
<1>4. Buffers' /\ Filled' = Filled
  BY DEF IInv, Buffers, Filled
<1>5. /\ A \in Seq(Nat) /\ B \in Seq(Nat) /\ C \in Seq(Nat) /\ A \o B \in Seq(Nat)
      /\ Encoding \in Seq(Nat) /\ NumHeld \in Nat
      /\ NumCoded(Filled) \in Nat /\ Len(output_queue) \in Nat /\ Len(queue) \in Nat
      /\ Len(A \o B) = NumHeld /\ Len(Encoding) = NumHeld + Len(queue)
      /\ NumHeld + 1 \in 1..Len(Encoding) /\ Encoding[NumHeld + 1] = r.request_id + 1
      /\ Encoding = (A \o B) \o C
  BY EncodingFacts DEF IInv, Encoding
<1>6. r.request_id \in Nat /\ r.meta.timestamp = r.request_id
  BY <1>2 DEF GoodRequest
<1>7. CASE Accepts(r)
  <2>1. /\ output_queue' = Append(output_queue, f)
        /\ currently_processed' = With(currently_processed,
             [t \in {r.meta.timestamp} |-> [request_id |-> r.request_id, meta |-> r.meta]])
    BY <1>7 DEF HandleRequest
  <2>2. GoodFrame(f) /\ f.id = r.request_id
    BY <1>6 DEF GoodFrame
  <2> HIDE DEF f
  <2>3. /\ IsSeq(output_queue') /\ Len(output_queue') = Len(output_queue) + 1
        /\ \A i \in 1..Len(output_queue') : GoodFrame(output_queue'[i])
        /\ Ids(output_queue') = Append(B, r.request_id + 1)
    BY <1>1, <2>1, <2>2, IdsAppend
  <2>4. Frames'
    BY <2>3 DEF Frames
  <2>5. Encoding' = Encoding
    <3> DEFINE n == r.request_id + 1
               P == A \o B
    <3>1. n \in Nat /\ Head(C) = n
      BY <1>2, <1>6
    <3>2. Encoding' = (A \o Append(B, n)) \o Tail(C)
      BY <1>2, <1>4, <2>3 DEF Encoding
    <3>3. A \in Seq(Nat) /\ B \in Seq(Nat) /\ C \in Seq(Nat) /\ C # <<>>
      BY <1>2, <1>5
    <3> HIDE DEF n, A, B, C
    <3>4. A \o Append(B, n) = Append(A \o B, n)
      BY <3>1, <3>3, AppendBehind, SMTT(30)
    <3>5. P \in Seq(Nat) /\ Encoding = P \o C
      BY <1>5
    <3>6. Encoding' = Append(P, Head(C)) \o Tail(C)
      BY <3>1, <3>2, <3>4
    <3> HIDE DEF P
    <3>7. Append(P, Head(C)) \o Tail(C) = P \o C
      BY <3>5, <3>3, MoveOver
    <3>8. QED BY <3>5, <3>6, <3>7
  <2>6. NumHeld' = NumHeld + 1
    BY <1>5, <2>3, <1>4, SMTT(30) DEF NumHeld
  <2>7. /\ DOMAIN currently_processed' = {r.request_id} \cup DOMAIN currently_processed
        /\ currently_processed'[r.request_id] = [request_id |-> r.request_id, meta |-> r.meta]
        /\ \A t \in DOMAIN currently_processed :
             t # r.request_id => currently_processed'[t] = currently_processed[t]
    BY <1>6, <2>1 DEF With
  <2>8. Entries'
    BY <1>6, <2>7 DEF IInv, Entries
  <2>9. Held'
    <3>1. 1..NumHeld' = 1..NumHeld \cup {NumHeld + 1}
      BY <1>5, <2>6, SMTT(30)
    <3>2. Encoding[NumHeld + 1] - 1 = r.request_id
      BY <1>5, <1>6
    <3>3. DOMAIN currently_processed = {Encoding[i] - 1 : i \in 1..NumHeld}
      BY DEF IInv, Held
    <3>4. {Encoding[i] - 1 : i \in 1..NumHeld'} = {r.request_id} \cup DOMAIN currently_processed
      BY <3>1, <3>2, <3>3
    <3>5. QED BY <2>5, <2>7, <3>4 DEF Held
  <2>10. Order'
    BY <2>5 DEF IInv, Order
  <2>11. Counted'
    BY <1>7, <2>7 DEF IInv, Counted
  <2>12. QED BY <1>3, <1>4, <1>7, <2>4, <2>5, <2>8, <2>9, <2>10, <2>11 DEF Data
<1>8. CASE ~Accepts(r)
  <2>1. UNCHANGED <<output_queue, currently_processed, processing>>
    BY <1>8 DEF HandleRequest
  <2>2. Frames' /\ Entries' /\ Counted'
    BY <2>1 DEF IInv, Frames, Entries, Counted
  <2> DEFINE P == A \o B
             E == P \o Tail(C)
  <2>3. Encoding' = E /\ NumHeld' = NumHeld
    BY <1>2, <1>4, <2>1 DEF Encoding, NumHeld
  <2>4. P \in Seq(Nat) /\ Len(P) = NumHeld /\ Encoding = P \o C
    BY <1>5
  <2> HIDE DEF P, A, B, C
  <2>5. /\ Tail(C) \in Seq(Nat) /\ Len(Tail(C)) = Len(C) - 1 /\ Len(C) \in Nat \ {0}
        /\ \A i \in 1..(Len(C) - 1) : Tail(C)[i] = C[i + 1]
    BY <1>2, <1>5, TailFacts
  <2>6. /\ Len(Encoding) = NumHeld + Len(C)
        /\ \A i \in 1..(NumHeld + Len(C)) :
             Encoding[i] = IF i <= NumHeld THEN P[i] ELSE C[i - NumHeld]
    <3>1. C \in Seq(Nat)
      BY <1>5
    <3> DEFINE W == P \o C
    <3>2. /\ Len(W) = Len(P) + Len(C)
          /\ \A i \in 1..(Len(P) + Len(C)) : W[i] = IF i <= Len(P) THEN P[i] ELSE C[i - Len(P)]
      BY <2>4, <3>1, ConcatProperties
    <3>3. W = Encoding
      BY <2>4
    <3> HIDE DEF W
    <3>4. QED BY <2>4, <3>2, <3>3
  <2>7. /\ E \in Seq(Nat) /\ Len(E) = NumHeld + Len(Tail(C))
        /\ \A i \in 1..(NumHeld + Len(Tail(C))) :
             E[i] = IF i <= NumHeld THEN P[i] ELSE Tail(C)[i - NumHeld]
    BY <2>4, <2>5, ConcatProperties
  <2> HIDE DEF E
  <2>8. /\ Len(Encoding) = Len(E) + 1 /\ Len(E) \in Nat
        /\ \A i \in 1..Len(E) : E[i] = IF i <= NumHeld THEN Encoding[i] ELSE Encoding[i + 1]
    <3>1. Len(Encoding) = Len(E) + 1 /\ Len(E) \in Nat
      BY <1>5, <2>5, <2>6, <2>7
    <3>2. ASSUME NEW i \in 1..Len(E)
          PROVE  E[i] = IF i <= NumHeld THEN Encoding[i] ELSE Encoding[i + 1]
      <4>1. CASE i <= NumHeld
        <5>1. i \in 1..(NumHeld + Len(C)) /\ i \in 1..(NumHeld + Len(Tail(C)))
          BY <1>5, <2>5, <2>6, <2>7, <4>1
        <5>2. QED BY <2>6, <2>7, <4>1, <5>1
      <4>2. CASE ~ (i <= NumHeld)
        <5>1. /\ i + 1 \in 1..(NumHeld + Len(C)) /\ i \in 1..(NumHeld + Len(Tail(C)))
              /\ ~ (i + 1 <= NumHeld) /\ i - NumHeld \in 1..(Len(C) - 1)
              /\ (i + 1) - NumHeld = (i - NumHeld) + 1
          BY <1>5, <2>5, <2>6, <2>7, <4>2
        <5>2. E[i] = Tail(C)[i - NumHeld]
          BY <2>7, <4>2, <5>1
        <5>3. Encoding[i + 1] = C[(i + 1) - NumHeld]
          BY <2>6, <5>1
        <5>4. E[i] = Encoding[i + 1]
          BY <2>5, <5>1, <5>2, <5>3
        <5>5. QED BY <4>2, <5>4
      <4>3. QED BY <4>1, <4>2
    <3>3. QED BY <3>1, <3>2
  <2>9. Rising(Encoding) /\ Encoding \in Seq(1..request_counter)
    BY DEF IInv, Order
  <2>10. Rising(E)
    BY <1>5, <2>7, <2>8, <2>9, RisingWithout
  <2>11. E \in Seq(1..request_counter)
    <3>1. \A i \in 1..Len(Encoding) : Encoding[i] \in 1..request_counter
      BY <2>9, LenProperties
    <3>2. \A i \in 1..Len(E) : i \in 1..Len(Encoding) /\ i + 1 \in 1..Len(Encoding)
      BY <2>8
    <3>3. \A i \in 1..Len(E) : E[i] \in 1..request_counter
      BY <2>8, <3>1, <3>2
    <3>4. E \in [1..Len(E) -> Nat]
      BY <2>7, LenProperties
    <3>5. E \in [1..Len(E) -> 1..request_counter]
      BY <3>3, <3>4
    <3>6. QED BY <2>8, <3>5, SeqDef
  <2>12. Order'
    BY <2>3, <2>10, <2>11 DEF IInv, Order
  <2>13. Held'
    <3>1. \A i \in 1..NumHeld : i \in 1..Len(E) /\ i <= NumHeld
      BY <1>5, <2>5, <2>7
    <3>2. \A i \in 1..NumHeld : E[i] = Encoding[i]
      BY <2>8, <3>1
    <3>3. QED BY <2>1, <2>3, <3>2 DEF IInv, Held
  <2>14. QED BY <1>2, <1>3, <1>4, <1>8, <2>1, <2>2, <2>12, <2>13 DEF Data, C
<1>9. QED BY <1>7, <1>8

LEMMA PopKeeps ==
  ASSUME IInv, Pop
  PROVE  Data' /\ Order' /\ Held' /\ Counted' /\ Encoding' = Encoding
<1>1. /\ coded_queue' = (IF coded_queue = <<>> THEN <<>> ELSE Tail(coded_queue))
      /\ UNCHANGED <<queue, output_queue, capture_done, currently_processed, drained,
                     processing, request_counter, stopped>>
      /\ pc = "pop"
  BY DEF Pop, backend_vars, output_vars, capture_vars
<1>2. IsSeq(coded_queue) /\ \A i \in 1..Len(coded_queue) : Own(coded_queue[i])
  BY DEF IInv, Outputs
<1>3. IsSeq(coded_queue') /\ \A i \in 1..Len(coded_queue') : Own(coded_queue'[i])
  <2>1. CASE coded_queue = <<>>
    BY <1>1, <1>2, <2>1
  <2>2. CASE coded_queue # <<>>
    BY <1>1, <1>2, <2>2, BitstreamsTail
  <2>3. QED BY <2>1, <2>2
<1>4. Outputs'
  BY <1>1, <1>3 DEF IInv, Outputs
<1>5. Requests' /\ Frames' /\ Buffers' /\ Entries'
  BY <1>1 DEF IInv, Requests, Frames, Buffers, Entries
<1>6. Encoding' = Encoding /\ NumHeld' = NumHeld
  BY <1>1 DEF Encoding, NumHeld, Filled
<1>7. Order' /\ Held' /\ Counted'
  BY <1>1, <1>6 DEF IInv, Order, Held, Counted
<1>8. QED BY <1>4, <1>5, <1>6, <1>7 DEF Data

(* One output more, at the end of a sequence of outputs.                   *)
LEMMA OneMore ==
  ASSUME NEW s, IsSeq(s), \A i \in 1..Len(s) : Own(s[i]), NEW x, Own(x)
  PROVE  /\ IsSeq(s \o <<x>>) /\ s \o <<x>> = Append(s, x)
         /\ \A i \in 1..Len(s \o <<x>>) : Own((s \o <<x>>)[i])
         /\ {Append(s, x)[i].request_id : i \in 1..Len(Append(s, x))}
              = {s[i].request_id : i \in 1..Len(s)} \cup {x.request_id}
<1>1. s \o <<x>> = Append(s, x)
  <2> DEFINE S == {s[i] : i \in DOMAIN s} \cup {x}
  <2>1. s \in Seq(S) /\ x \in S
    BY IsSeqIn
  <2> HIDE DEF S
  <2>2. QED BY <2>1, AppendIsConcat
<1>2. /\ IsSeq(Append(s, x))
      /\ \A i \in 1..Len(Append(s, x)) : Own(Append(s, x)[i])
  BY BitstreamsAppend
<1>3. /\ Len(s) \in Nat /\ Len(Append(s, x)) = Len(s) + 1
      /\ \A i \in 1..Len(s) : Append(s, x)[i] = s[i]
      /\ Append(s, x)[Len(s) + 1] = x
  BY IsSeqAppend
<1>4. 1..Len(Append(s, x)) = 1..Len(s) \cup {Len(s) + 1}
  BY <1>3
<1>5. {Append(s, x)[i].request_id : i \in 1..Len(Append(s, x))}
        = {s[i].request_id : i \in 1..Len(s)} \cup {x.request_id}
  BY <1>3, <1>4
<1>6. QED BY <1>1, <1>2, <1>5

-----------------------------------------------------------------------------
(* The invariant.                                                          *)

LEMMA InitInvariant == Init => IInv
<1> SUFFICES ASSUME Init PROVE IInv
  OBVIOUS
<1>1. /\ queue = <<>> /\ output_queue = <<>> /\ capture_done = <<>>
      /\ coded_queue = <<>> /\ drained = <<>> /\ processing = {}
      /\ DOMAIN currently_processed = {} /\ stopped = "no"
      /\ pc = "idle" /\ call = "none" /\ request_counter = 0
  BY DEF Init, Create
<1>2. Control
  BY <1>1 DEF Control, Draining
<1>3. IsSeq(<<>>) /\ Len(<<>>) = 0 /\ 1..0 = {}
  BY NothingIsSeq
<1>4. Requests /\ Frames /\ Buffers /\ Entries /\ Outputs
  BY <1>1, <1>3 DEF Requests, Frames, Buffers, Entries, Outputs
<1>5. /\ Encoding \in Seq(Nat) /\ NumHeld \in Nat /\ Len(output_queue) \in Nat
      /\ NumCoded(Filled) \in Nat
      /\ Len(Encoding) = NumHeld + Len(queue)
  BY <1>4, EncodingFacts
<1>6. NumCoded(Filled) = 0
  BY <1>1, <1>3 DEF NumCoded, NotStale, Filled
<1>7. NumHeld = 0 /\ Len(Encoding) = 0
  <2>1. Len(queue) = 0 /\ Len(output_queue) = 0
    BY <1>1, <1>3
  <2>2. NumHeld = 0
    BY <1>6, <2>1 DEF NumHeld
  <2>3. QED BY <1>5, <2>1, <2>2
<1>8. Encoding = <<>>
  BY <1>5, <1>7, EmptySeq
<1>9. Order
  <2>1. Rising(Encoding)
    BY <1>3, <1>7 DEF Rising
  <2>2. 0 \in 0..MaxFrames
    BY StatefulEncoderAssumption
  <2>3. Encoding \in Seq(1..request_counter)
    BY <1>8, EmptySeq
  <2>4. QED BY <1>1, <2>1, <2>2, <2>3 DEF Order
<1>10. Held
  BY <1>1, <1>3, <1>7 DEF Held
<1>11. Counted
  BY <1>1, <1>3 DEF Counted
<1>12. QED BY <1>2, <1>4, <1>9, <1>10, <1>11 DEF IInv

LEMMA PollBackendFacts ==
  ASSUME IInv, PollBackend
  PROVE  /\ IInv'
         /\ \/ Encoding' = Encoding /\ UNCHANGED <<coded_queue, drained, call, failed>>
            \/ /\ Encoding # <<>> /\ Encoding' = Tail(Encoding)
               /\ Own(Output) /\ Output.bitstream + 1 = Head(Encoding)
               /\ coded_queue' = Append(coded_queue, Output)
               /\ drained = <<>> /\ UNCHANGED <<drained, call, failed>>
<1>1. pc = "process" /\ drained = <<>> /\ stopped = "no" /\ call # "none"
  BY DEF PollBackend, IInv, Control, Draining
<1>2. CASE processing = {}
  <2>1. /\ Quiet /\ stopped' = stopped /\ UNCHANGED <<call, failed>> /\ pc' = "submit"
        /\ pc # "over"
    BY <1>2 DEF PollBackend, Goto, Quiet, encoder_vars, backend_vars, output_vars, capture_vars
  <2>2. Data' /\ Order' /\ Held' /\ Counted' /\ Encoding' = Encoding
    BY <2>1, QuietKeeps
  <2>3. Control'
    BY <1>1, <2>1 DEF IInv, Control, Quiet, Draining
  <2>4. QED BY <2>1, <2>2, <2>3 DEF IInv, Data, Quiet
<1>3. CASE processing # {}
  <2>1. /\ DequeueCapture
        /\ UNCHANGED <<queue, request_counter, drained, output_queue, stopped>>
    BY <1>3 DEF PollBackend, output_vars
  <2>2. /\ Requests' /\ Frames' /\ Entries' /\ Order' /\ Held' /\ Buffers'
        /\ Outcome \in {"none", "output"}
    BY <2>1, DequeueKeeps
  <2>3. CASE Outcome = "none"
    <3>1. /\ pc' = "submit" /\ UNCHANGED <<call, failed, processing, coded_queue>>
          /\ Encoding' = Encoding /\ currently_processed' = currently_processed
      BY <1>3, <2>1, <2>3, DequeueKeeps DEF PollBackend, Goto
    <3>2. Outputs' /\ Counted'
      BY <1>1, <2>1, <3>1 DEF IInv, Outputs, Counted
    <3>3. Control'
      BY <1>1, <2>1, <3>1 DEF IInv, Control, Draining
    <3>4. QED BY <2>1, <2>2, <3>1, <3>2, <3>3 DEF IInv
  <2>4. CASE Outcome = "output"
    <3>1. HandleOutputs(<<Output>>) /\ Stay
      BY <1>3, <2>4 DEF PollBackend
    <3>2. /\ Encoding # <<>> /\ Encoding' = Tail(Encoding)
          /\ Own(Output) /\ Output.bitstream + 1 = Head(Encoding)
          /\ DOMAIN currently_processed' = DOMAIN currently_processed \ {Output.request_id}
      BY <2>1, <2>4, DequeueKeeps
    <3>3. {output.request_id : output \in Range(<<Output>>)} = {Output.request_id}
      BY DEF Range
    <3>4. processing' = processing \ {Output.request_id} /\ coded_queue' = coded_queue \o <<Output>>
      BY <3>1, <3>3 DEF HandleOutputs
    <3>5. IsSeq(coded_queue) /\ \A i \in 1..Len(coded_queue) : Own(coded_queue[i])
      BY DEF IInv, Outputs
    <3>6. /\ IsSeq(coded_queue') /\ coded_queue' = Append(coded_queue, Output)
          /\ \A i \in 1..Len(coded_queue') : Own(coded_queue'[i])
      BY <3>2, <3>4, <3>5, OneMore
    <3>7. Outputs'
      BY <2>1, <3>6 DEF IInv, Outputs
    <3>8. Counted'
      <4>1. {drained[i].request_id : i \in 1..Len(drained)} = {}
        BY <1>1, NothingIsSeq
      <4>2. processing = DOMAIN currently_processed
        BY <1>1, <4>1 DEF IInv, Counted
      <4>3. processing' = DOMAIN currently_processed'
        BY <3>2, <3>4, <4>2
      <4>4. QED BY <2>1, <4>1, <4>3 DEF Counted
    <3>9. Control'
      BY <1>1, <2>1, <3>1 DEF IInv, Control, Draining, Stay
    <3>10. QED BY <1>1, <2>1, <2>2, <3>1, <3>2, <3>6, <3>7, <3>8, <3>9 DEF IInv, Stay
  <2>5. QED BY <2>2, <2>3, <2>4
<1>4. QED BY <1>2, <1>3

(* Where process goes on, or returns.                                      *)
LEMMA ProcessedFacts ==
  ASSUME Control, pc \in {"submit", "consume"}, Processed, queue' = queue, stopped' = stopped,
         drained' = drained, output_queue' = output_queue
  PROVE  /\ Control' /\ failed' = failed
         /\ call' = call \/ (call = "encode" /\ call' = "none")
<1>1. stopped = "no" /\ drained = <<>> /\ call \in {"encode", "poll", "drain"}
  BY DEF Control, Draining
<1>2. CASE call = "encode"
  <2>1. pc' = "idle" /\ call' = "none" /\ failed' = failed
    BY <1>2 DEF Processed, Return
  <2>2. QED BY <1>1, <1>2, <2>1 DEF Control, Draining
<1>3. CASE call = "poll"
  <2>1. pc' = "pop" /\ call' = "poll" /\ failed' = failed
    BY <1>3 DEF Processed, Goto
  <2>2. QED BY <1>1, <1>3, <2>1 DEF Control, Draining
<1>4. CASE call = "drain"
  <2>1. pc' \in {"drain", "sync"} /\ call' = "drain" /\ failed' = failed
    BY <1>4 DEF Processed, Goto
  <2>2. QED BY <1>1, <1>4, <2>1 DEF Control, Draining
<1>5. QED BY <1>1, <1>2, <1>3, <1>4

LEMMA SubmitFacts ==
  ASSUME IInv, Submit
  PROVE  /\ IInv' /\ Encoding' = Encoding
         /\ UNCHANGED <<coded_queue, drained, failed, request_counter>>
         /\ call' = call \/ (call = "encode" /\ call' = "none")
<1>1. /\ pc = "submit" /\ UNCHANGED <<stopped, queue, drained, coded_queue, output_queue, request_counter>>
      /\ Quiet
  BY DEF Submit, Quiet, encoder_vars, output_vars, capture_vars, QueueCapture
<1>2. Data' /\ Order' /\ Held' /\ Counted' /\ Encoding' = Encoding
  BY <1>1, QuietKeeps
<1>3. CASE queue = <<>>
  <2>1. Processed
    BY <1>3 DEF Submit
  <2>2. /\ Control' /\ failed' = failed
        /\ call' = call \/ (call = "encode" /\ call' = "none")
    BY <1>1, <2>1, ProcessedFacts DEF IInv
  <2>3. QED BY <1>1, <1>2, <2>2 DEF IInv, Data
<1>4. CASE queue # <<>>
  <2>1. pc' = "consume" /\ UNCHANGED <<call, failed>>
    BY <1>4 DEF Submit, Goto
  <2>2. Control'
    BY <1>1, <1>4, <2>1 DEF IInv, Control, Draining
  <2>3. QED BY <1>1, <1>2, <2>1, <2>2 DEF IInv, Data
<1>5. QED BY <1>3, <1>4

LEMMA ConsumeFacts ==
  ASSUME IInv, ConsumeRequest
  PROVE  /\ IInv'
         /\ UNCHANGED <<coded_queue, drained, request_counter>>
         /\ \/ /\ Encoding' = Encoding /\ UNCHANGED failed
               /\ call' = call \/ (call = "encode" /\ call' = "none")
            \/ /\ failed' = TRUE /\ call' = "none"
               /\ capture_done' = capture_done /\ output_queue' = output_queue
               /\ RequestIds(queue) # <<>> /\ RequestIds(queue') = Tail(RequestIds(queue))
<1>1. /\ pc = "consume" /\ queue # <<>> /\ stopped = "no" /\ drained = <<>>
      /\ UNCHANGED <<stopped, drained, coded_queue, capture_done, request_counter>>
  BY DEF ConsumeRequest, capture_vars, IInv, Control, Draining
<1>2. CASE NumOutput = Len(output_queue)
  <2>1. Processed /\ UNCHANGED <<queue, processing, output_queue, currently_processed>>
    BY <1>2 DEF ConsumeRequest
  <2>2. Quiet
    BY <1>1, <2>1 DEF Quiet
  <2>3. Data' /\ Order' /\ Held' /\ Counted' /\ Encoding' = Encoding
    BY <1>1, <2>2, QuietKeeps
  <2>4. /\ Control' /\ failed' = failed
        /\ call' = call \/ (call = "encode" /\ call' = "none")
    BY <1>1, <2>1, ProcessedFacts DEF IInv
  <2>5. QED BY <1>1, <2>3, <2>4 DEF IInv, Data
<1>3. CASE NumOutput # Len(output_queue)
  <2>1. /\ HandleRequest(Head(queue)) /\ queue' = Tail(queue)
        /\ IF Accepts(Head(queue))
             THEN /\ processing' = processing \cup {Head(queue).request_id}
                  /\ Goto("submit")
             ELSE UNCHANGED processing /\ Fails
    BY <1>3 DEF ConsumeRequest
  <2>2. processing' = IF Accepts(Head(queue)) THEN processing \cup {Head(queue).request_id}
                                              ELSE processing
    BY <2>1
  <2>3. /\ Data' /\ Order' /\ Held' /\ Counted'
        /\ Accepts(Head(queue)) => Encoding' = Encoding
        /\ ~Accepts(Head(queue)) =>
             /\ output_queue' = output_queue /\ capture_done' = capture_done
             /\ RequestIds(queue) # <<>> /\ RequestIds(queue') = Tail(RequestIds(queue))
    BY <1>1, <2>1, <2>2, ConsumeKeeps
  <2>4. CASE Accepts(Head(queue))
    <3>1. pc' = "submit" /\ UNCHANGED <<call, failed>>
      BY <2>1, <2>4 DEF Goto
    <3>2. Control'
      BY <1>1, <3>1 DEF IInv, Control, Draining
    <3>3. QED BY <1>1, <2>3, <2>4, <3>1, <3>2 DEF IInv, Data
  <2>5. CASE ~Accepts(Head(queue))
    <3>1. pc' = "idle" /\ call' = "none" /\ failed' = TRUE
      BY <2>1, <2>5 DEF Fails
    <3>2. Control'
      BY <1>1, <3>1 DEF IInv, Control, Draining
    <3>3. QED BY <1>1, <2>3, <2>5, <3>1, <3>2 DEF IInv, Data
  <2>6. QED BY <2>4, <2>5
<1>4. QED BY <1>2, <1>3

LEMMA CollectFacts ==
  ASSUME IInv, Collect
  PROVE  /\ IInv' /\ UNCHANGED <<coded_queue, request_counter, call, failed>>
         /\ \/ Encoding' = Encoding /\ UNCHANGED drained
            \/ /\ Encoding # <<>> /\ Encoding' = Tail(Encoding)
               /\ Own(Output) /\ Output.bitstream + 1 = Head(Encoding)
               /\ drained' = Append(drained, Output)
<1>1. /\ pc = "collect" /\ call = "drain" /\ queue = <<>>
      /\ DequeueCapture
      /\ UNCHANGED <<queue, request_counter, coded_queue, processing, output_queue, stopped>>
  BY DEF Collect, output_vars, IInv, Control, Draining
<1>2. /\ Requests' /\ Frames' /\ Entries' /\ Order' /\ Held' /\ Buffers'
      /\ Outcome \in {"none", "output"}
  BY <1>1, DequeueKeeps
<1>3. /\ drained' = IF Outcome = "output" THEN Append(drained, Output) ELSE drained
      /\ pc' = IF DOMAIN currently_processed' = {} THEN "last" ELSE "await"
      /\ UNCHANGED <<call, failed>>
  BY <1>2 DEF Collect, Goto
<1>4. Control'
  BY <1>1, <1>3 DEF IInv, Control, Draining
<1>5. CASE Outcome = "none"
  <2>1. drained' = drained /\ Encoding' = Encoding /\ currently_processed' = currently_processed
    BY <1>1, <1>3, <1>5, DequeueKeeps
  <2>2. Outputs' /\ Counted'
    BY <1>1, <2>1 DEF IInv, Outputs, Counted
  <2>3. QED BY <1>1, <1>2, <1>3, <1>4, <2>1, <2>2 DEF IInv
<1>6. CASE Outcome = "output"
  <2>1. /\ Encoding # <<>> /\ Encoding' = Tail(Encoding)
        /\ Own(Output) /\ Output.bitstream + 1 = Head(Encoding)
        /\ Output.request_id \in DOMAIN currently_processed
        /\ DOMAIN currently_processed' = DOMAIN currently_processed \ {Output.request_id}
    BY <1>1, <1>6, DequeueKeeps
  <2>2. drained' = Append(drained, Output)
    BY <1>3, <1>6
  <2>3. IsSeq(drained) /\ \A i \in 1..Len(drained) : Own(drained[i])
    BY DEF IInv, Outputs
  <2>4. /\ IsSeq(drained') /\ \A i \in 1..Len(drained') : Own(drained'[i])
        /\ {drained'[i].request_id : i \in 1..Len(drained')}
             = {drained[i].request_id : i \in 1..Len(drained)} \cup {Output.request_id}
    <3>1. Own(Output)
      BY <2>1
    <3>2. /\ IsSeq(Append(drained, Output))
          /\ \A i \in 1..Len(Append(drained, Output)) : Own(Append(drained, Output)[i])
          /\ {Append(drained, Output)[i].request_id : i \in 1..Len(Append(drained, Output))}
               = {drained[i].request_id : i \in 1..Len(drained)} \cup {Output.request_id}
      <4> DEFINE u == drained \o <<Output>>
      <4>1. /\ IsSeq(u) /\ u = Append(drained, Output)
            /\ \A i \in 1..Len(u) : Own(u[i])
            /\ {Append(drained, Output)[i].request_id : i \in 1..Len(Append(drained, Output))}
                 = {drained[i].request_id : i \in 1..Len(drained)} \cup {Output.request_id}
        BY <2>3, <3>1, OneMore
      <4> HIDE DEF u
      <4>2. QED BY <4>1
    <3>3. QED BY <2>2, <3>2
  <2>5. Outputs'
    BY <1>1, <2>4 DEF IInv, Outputs
  <2>6. Counted'
    BY <1>1, <2>1, <2>4 DEF IInv, Counted
  <2>7. QED BY <1>1, <1>2, <1>3, <1>4, <2>1, <2>2, <2>5, <2>6 DEF IInv
<1>7. QED BY <1>2, <1>5, <1>6

LEMMA NoneLeft ==
  ASSUME IInv, DOMAIN currently_processed = {}
  PROVE  NumHeld = 0 /\ output_queue = <<>>
<1>1. NumHeld \in Nat /\ NumCoded(Filled) \in Nat /\ Len(output_queue) \in Nat
  BY EncodingFacts DEF IInv
<1>2. 1 \notin 1..NumHeld
  <2>1. {Encoding[i] - 1 : i \in 1..NumHeld} = {}
    BY DEF IInv, Held
  <2>2. QED BY <2>1
<1>3. NumHeld = 0
  BY <1>1, <1>2
<1>4. Len(output_queue) = 0
  BY <1>1, <1>3 DEF NumHeld
<1>5. QED BY <1>3, <1>4, IsSeqLen DEF IInv, Frames

LEMMA DequeueLastFacts ==
  ASSUME IInv, DequeueLast
  PROVE  /\ IInv' /\ Encoding' = Encoding
         /\ UNCHANGED <<coded_queue, drained, request_counter, call, failed>>
<1>1. /\ pc = "last" /\ call = "drain" /\ queue = <<>> /\ DOMAIN currently_processed = {}
      /\ DequeueCapture
      /\ UNCHANGED <<queue, request_counter, coded_queue, processing, output_queue, stopped>>
  BY DEF DequeueLast, output_vars, IInv, Control, Draining
<1>2. /\ Requests' /\ Frames' /\ Entries' /\ Order' /\ Held' /\ Buffers'
      /\ Outcome \in {"none", "output"}
      /\ Outcome = "output" => Output.request_id \in DOMAIN currently_processed
      /\ Outcome = "none" => Encoding' = Encoding /\ currently_processed' = currently_processed
  BY <1>1, DequeueKeeps
<1>3. Outcome = "none"
  BY <1>1, <1>2
<1>4. pc' = "start" /\ UNCHANGED <<drained, call, failed>>
  BY <1>3 DEF DequeueLast, Goto
<1>5. Control'
  BY <1>1, <1>2, <1>3, <1>4 DEF IInv, Control, Draining
<1>6. Outputs' /\ Counted'
  BY <1>1, <1>2, <1>3, <1>4 DEF IInv, Outputs, Counted
<1>7. QED BY <1>1, <1>2, <1>3, <1>4, <1>5, <1>6 DEF IInv

LEMMA DrainEndsFacts ==
  ASSUME IInv, Fresh, DrainEnds
  PROVE  /\ IInv' /\ UNCHANGED <<request_counter, failed>> /\ Encoding = <<>>
         /\ call = "drain" /\ call' = "none"
         /\ Encoding' = Encoding
         /\ coded_queue' = coded_queue \o drained /\ drained' = <<>>
<1>1. /\ pc = "start" /\ call = "drain" /\ queue = <<>> /\ DOMAIN currently_processed = {}
      /\ drained' = <<>>
      /\ UNCHANGED <<queue, request_counter, output_queue, capture_done, currently_processed>>
  BY DEF DrainEnds, output_vars, capture_vars, IInv, Control, Draining
<1>2. NumHeld = 0 /\ output_queue = <<>>
  BY <1>1, NoneLeft
<1>3. /\ coded_queue' = coded_queue \o drained /\ stopped' = "no"
      /\ pc' = "idle" /\ call' = "none" /\ failed' = failed
      /\ processing' = processing \ {output.request_id : output \in Range(drained)}
  BY DEF DrainEnds, HandleOutputs, EncoderStart, Return
<1>4. Encoding' = Encoding /\ NumHeld' = NumHeld
  BY <1>1 DEF Encoding, NumHeld, Filled
<1>5. Requests' /\ Frames' /\ Entries' /\ Order' /\ Held'
  BY <1>1, <1>4 DEF IInv, Requests, Frames, Entries, Order, Held
<1>6. Control'
  BY <1>1, <1>3 DEF Control, Draining
<1>7. Buffers'
  <2>1. /\ IsSeq(capture_done)
        /\ \A i \in 1..Len(capture_done) :
             GoodBuffer(capture_done[i]) /\ (capture_done[i].empty => i = Len(capture_done))
    BY <1>1 DEF IInv, Buffers, Fresh
  <2>2. EmptyAtEnd(capture_done)
    BY <2>1 DEF EmptyAtEnd
  <2>3. NumCoded(Filled) = NumCoded(capture_done)
    BY <2>1, <2>2, StaleOnly DEF Filled
  <2>4. Len(capture_done) \in Nat /\ NumCoded(capture_done) \in Nat
        /\ Len(capture_done) <= NumCoded(capture_done) + 1
    BY <2>1, <2>2, CodedFacts
  <2>5. Len(output_queue) = 0
    BY <1>2, NothingIsSeq
  <2>6. NumCoded(capture_done) = 0
    BY <1>2, <2>3, <2>4, <2>5 DEF NumHeld
  <2>7. \A i \in 1..Len(capture_done) : i = 1
    BY <2>4, <2>6
  <2>8. QED BY <1>1, <2>1, <2>7 DEF Buffers
<1>8. /\ IsSeq(coded_queue) /\ \A i \in 1..Len(coded_queue) : Own(coded_queue[i])
      /\ IsSeq(drained) /\ \A i \in 1..Len(drained) : Own(drained[i])
  BY DEF IInv, Outputs
<1>9. IsSeq(coded_queue') /\ \A i \in 1..Len(coded_queue') : Own(coded_queue'[i])
  BY <1>3, <1>8, IsSeqConcat
<1>10. Outputs'
  BY <1>1, <1>9, NothingIsSeq DEF Outputs
<1>11. Counted'
  <2>1. processing = {drained[i].request_id : i \in 1..Len(drained)}
    BY <1>1 DEF IInv, Counted
  <2>2. DOMAIN drained = 1..Len(drained)
    BY <1>8, IsSeqLen
  <2>3. {output.request_id : output \in Range(drained)}
          = {drained[i].request_id : i \in 1..Len(drained)}
    BY <2>2 DEF Range
  <2>4. processing' = {} /\ DOMAIN currently_processed' = {}
    BY <1>1, <1>3, <2>1, <2>3
  <2>5. {drained'[i].request_id : i \in 1..Len(drained')} = {}
    BY <1>1, NothingIsSeq
  <2>6. QED BY <2>4, <2>5 DEF Counted
<1>12. Encoding = <<>>
  <2>1. Encoding \in Seq(Nat) /\ Len(Encoding) = NumHeld + Len(queue)
    BY EncodingFacts DEF IInv
  <2>2. Len(queue) = 0
    BY <1>1, NothingIsSeq
  <2>3. QED BY <1>2, <2>1, <2>2, EmptySeq
<1>13. QED BY <1>1, <1>3, <1>4, <1>5, <1>6, <1>7, <1>10, <1>11, <1>12 DEF IInv

LEMMA ErrorsFacts ==
  ASSUME IInv, Errors
  PROVE  /\ IInv' /\ Encoding' = Encoding
         /\ call = "drain" /\ call' = "none" /\ failed' = TRUE
         /\ coded_queue' = coded_queue /\ drained' = <<>> /\ request_counter' = request_counter
<1>1. CASE StopFails \/ SyncFails
  <2>1. /\ Quiet /\ stopped' = stopped /\ pc \in {"drain", "sync"} /\ pc' = "idle"
        /\ call = "drain" /\ call' = "none" /\ failed' = TRUE /\ drained = <<>>
        /\ stopped = "no"
        /\ UNCHANGED <<coded_queue, drained, request_counter, queue, output_queue>>
    BY <1>1 DEF StopFails, SyncFails, Fails, Quiet, encoder_vars, backend_vars, output_vars,
         capture_vars, IInv, Control, Draining
  <2>2. Data' /\ Order' /\ Held' /\ Counted' /\ Encoding' = Encoding
    BY <2>1, QuietKeeps
  <2>3. Control'
    BY <2>1 DEF IInv, Control, Draining
  <2>4. QED BY <2>1, <2>2, <2>3 DEF IInv, Data
<1>2. CASE DrainFails
  <2>1. /\ pc \in {"await", "start"} /\ pc' = "over" /\ call' = "none" /\ failed' = TRUE
        /\ call = "drain" /\ drained' = <<>>
        /\ UNCHANGED <<queue, output_queue, capture_done, currently_processed, coded_queue,
                       processing, request_counter, stopped>>
    BY <1>2 DEF DrainFails, GivesUp, backend_vars, output_vars, capture_vars, IInv, Control,
         Draining
  <2>2. Encoding' = Encoding /\ NumHeld' = NumHeld
    BY <2>1 DEF Encoding, NumHeld, Filled
  <2>3. Requests' /\ Frames' /\ Buffers' /\ Entries' /\ Order' /\ Held'
    BY <2>1, <2>2 DEF IInv, Requests, Frames, Buffers, Entries, Order, Held
  <2>4. Outputs'
    BY <2>1, NothingIsSeq DEF IInv, Outputs
  <2>5. Counted'
    BY <2>1 DEF Counted
  <2>6. Control'
    BY <2>1 DEF IInv, Control, Draining
  <2>7. QED BY <2>1, <2>2, <2>3, <2>4, <2>5, <2>6 DEF IInv
<1>3. QED BY <1>1, <1>2 DEF Errors

(* The steps that move no frame.                                           *)
Turns ==
  \/ \E t \in TuningSets : CallTune(t)
  \/ CallPoll \/ CallDrain \/ Drain \/ Sync \/ PollDevice \/ HandleBuffers

LEMMA TurnFacts ==
  ASSUME IInv, Turns
  PROVE  /\ IInv' /\ Encoding' = Encoding
         /\ UNCHANGED <<coded_queue, drained, failed, request_counter>>
         /\ \/ call = "none" /\ call' \in {"none", "poll", "drain"}
            \/ call' = call
            \/ call = "drain" /\ call' = "none" /\ Encoding = <<>>
<1>1. Quiet /\ UNCHANGED <<coded_queue, drained, failed, request_counter, queue, output_queue,
                           currently_processed>>
  BY DEF Turns, CallTune, CallPoll, CallDrain, Drain, Sync, PollDevice, HandleBuffers, Stay, Goto,
         Return, Quiet, encoder_vars, backend_vars, output_vars, capture_vars, QueueCapture
<1>0. pc # "over"
  BY DEF Turns, CallTune, CallPoll, CallDrain, Drain, Sync, PollDevice, HandleBuffers
<1>2. stopped' = stopped \/ stopped = "no"
  <2>1. CASE Drain
    BY <2>1 DEF Drain, IInv, Control, Draining
  <2>2. CASE ~Drain
    BY <2>2 DEF Turns, CallTune, CallPoll, CallDrain, Sync, PollDevice, HandleBuffers, backend_vars
  <2>3. QED BY <2>1, <2>2
<1>3. Data' /\ Order' /\ Held' /\ Counted' /\ Encoding' = Encoding
  BY <1>0, <1>1, <1>2, QuietKeeps
<1>4. CASE \/ \E t \in TuningSets : CallTune(t)
           \/ CallPoll
           \/ CallDrain
  <2>1. /\ pc = "idle" /\ call = "none" /\ stopped' = stopped
        /\ \/ pc' = pc /\ call' = call
           \/ pc' \in {"process", "pop"} /\ call' = "poll"
           \/ pc' = "drain" /\ call' = "drain"
    BY <1>4 DEF CallTune, CallPoll, CallDrain, Stay, backend_vars, IInv, Control
  <2>2. Control'
    BY <1>1, <2>1 DEF IInv, Control, Draining
  <2>3. QED BY <1>1, <1>3, <2>1, <2>2 DEF IInv, Data
<1>5. CASE Drain
  <2>1. pc = "drain" /\ call = "drain" /\ stopped = "no" /\ drained = <<>>
    BY <1>5 DEF Drain, IInv, Control, Draining
  <2>2. CASE queue # <<>>
    <3>1. pc' = "process" /\ UNCHANGED <<call, stopped>>
      BY <1>5, <2>2 DEF Drain, Goto
    <3>2. Control'
      BY <1>1, <2>1, <3>1 DEF IInv, Control, Draining
    <3>3. QED BY <1>1, <1>3, <3>1, <3>2 DEF IInv, Data
  <2>3. CASE queue = <<>> /\ DOMAIN currently_processed = {}
    <3>1. pc' = "idle" /\ call' = "none" /\ stopped' = stopped
      BY <1>5, <2>3 DEF Drain, Return
    <3>2. Control'
      BY <1>1, <2>1, <3>1 DEF IInv, Control, Draining
    <3>3. Encoding = <<>>
      <4>1. NumHeld = 0
        BY <2>3, NoneLeft
      <4>2. Encoding \in Seq(Nat) /\ Len(Encoding) = NumHeld + Len(queue)
        BY EncodingFacts DEF IInv
      <4>3. Len(queue) = 0
        BY <2>3, NothingIsSeq
      <4>4. QED BY <4>1, <4>2, <4>3, EmptySeq
    <3>4. QED BY <1>1, <1>3, <2>1, <3>1, <3>2, <3>3 DEF IInv, Data
  <2>4. CASE queue = <<>> /\ DOMAIN currently_processed # {}
    <3>1. pc' = "await" /\ call' = call /\ stopped' = "draining"
      BY <1>5, <2>4 DEF Drain, Goto, EncoderStop
    <3>2. Control'
      BY <1>1, <2>1, <2>4, <3>1 DEF IInv, Control, Draining
    <3>3. QED BY <1>1, <1>3, <3>1, <3>2 DEF IInv, Data
  <2>5. QED BY <2>2, <2>3, <2>4
<1>6. CASE Sync \/ PollDevice \/ HandleBuffers
  <2>1. /\ UNCHANGED <<call, stopped>> /\ call = "drain"
        /\ \/ pc = "sync" /\ pc' = "drain"
           \/ pc = "await" /\ pc' = "handle"
           \/ pc = "handle" /\ pc' = "collect"
    BY <1>6 DEF Sync, PollDevice, HandleBuffers, Goto, backend_vars, IInv, Control, Draining
  <2>2. Control'
    BY <1>1, <2>1 DEF IInv, Control, Draining
  <2>3. QED BY <1>1, <1>3, <2>1, <2>2 DEF IInv, Data
<1>7. QED BY <1>4, <1>5, <1>6 DEF Turns

LEMMA CallsFacts ==
  ASSUME IInv, \/ \E force \in BOOLEAN : CallEncode(force)
               \/ Pop
               \/ UNCHANGED vars
  PROVE  IInv'
<1>1. CASE \E force \in BOOLEAN : CallEncode(force)
  <2>1. PICK force \in BOOLEAN : CallEncode(force)
    BY <1>1
  <2>2. Data' /\ Order' /\ Held' /\ Counted'
    BY <2>1, EncodeKeeps
  <2>3. /\ pc = "idle" /\ pc' = "process" /\ call' = "encode"
        /\ UNCHANGED <<stopped, drained, output_queue, currently_processed>>
    BY <2>1 DEF CallEncode, backend_vars, output_vars
  <2>4. Control'
    BY <2>3 DEF IInv, Control, Draining
  <2>5. QED BY <2>2, <2>4 DEF IInv, Data
<1>2. CASE Pop
  <2>1. Data' /\ Order' /\ Held' /\ Counted'
    BY <1>2, PopKeeps
  <2>2. /\ pc = "pop" /\ pc' = "idle" /\ call' = "none"
        /\ UNCHANGED <<stopped, drained, output_queue, currently_processed>>
    BY <1>2 DEF Pop, Return, backend_vars, output_vars
  <2>3. Control'
    BY <2>2 DEF IInv, Control, Draining
  <2>4. QED BY <2>1, <2>3 DEF IInv, Data
<1>3. CASE UNCHANGED vars
  <2>1. Quiet /\ UNCHANGED <<stopped, pc, call, output_queue, queue, drained, currently_processed>>
    BY <1>3 DEF vars, encoder_vars, backend_vars, output_vars, capture_vars, Quiet
  <2>2. Data' /\ Order' /\ Held' /\ Counted'
    BY <2>1, QuietKeeps
  <2>3. Control'
    BY <2>1 DEF IInv, Control
  <2>4. QED BY <2>2, <2>3 DEF IInv, Data
<1>4. QED BY <1>1, <1>2, <1>3

(* No empty buffer is left in front when the last frame is out: it came    *)
(* before that frame.                                                      *)
LEMMA FreshKept ==
  ASSUME IInv, Fresh, [Next]_vars
  PROVE  Fresh'
<1> DEFINE End(s) == \A i \in 1..Len(s) : s[i].empty => i = Len(s) /\ stopped = "last"
<1>1. ASSUME capture_done # <<>>, capture_done' = Tail(capture_done), stopped' = stopped,
             ~Head(capture_done).empty \/ End(capture_done)
      PROVE  Fresh'
  <2> DEFINE u == Tail(capture_done)
  <2>1. /\ Head(capture_done) = capture_done[1]
        /\ Len(capture_done) \in Nat \ {0} /\ Len(u) = Len(capture_done) - 1
        /\ \A i \in 1..(Len(capture_done) - 1) :
             u[i] = capture_done[i + 1] /\ i + 1 \in 1..Len(capture_done)
    BY <1>1, IsSeqTail DEF IInv, Buffers
  <2> HIDE DEF u
  <2>2. ASSUME NEW i \in 1..Len(u), u[i].empty PROVE i = Len(u) /\ stopped = "last"
    <3>1. PICK k \in 1..Len(capture_done) : k = i + 1 /\ u[i] = capture_done[k] /\ k # 1
      BY <2>1
    <3>2. k = Len(capture_done) /\ stopped = "last"
      <4>1. CASE End(capture_done)
        BY <2>2, <3>1, <4>1
      <4>2. CASE ~Head(capture_done).empty
        BY <2>2, <3>1 DEF IInv, Buffers
      <4>3. QED BY <1>1, <4>1, <4>2
    <3>3. QED BY <2>1, <3>1, <3>2
  <2>3. capture_done' = u
    BY <1>1 DEF u
  <2>4. QED BY <1>1, <2>2, <2>3 DEF Fresh
<1>2. ASSUME UNCHANGED <<capture_done, stopped>>, pc' \in {"last", "start"} => pc \in {"last", "start"}
      PROVE  Fresh'
  BY <1>2 DEF Fresh
<1>3. CASE Collect
  <2>1. /\ DequeueCapture /\ stopped' = stopped /\ pc = "collect"
        /\ UNCHANGED <<queue, output_queue, request_counter>>
        /\ DOMAIN currently_processed # {}
    BY <1>3 DEF Collect, output_vars, IInv, Control
  <2>2. Outcome \in {"none", "output"}
    BY <2>1, DequeueKeeps
  <2>3. CASE Outcome = "none"
    <3>1. currently_processed' = currently_processed
      BY <2>1, <2>3, DequeueKeeps
    <3>2. pc' = "await"
      BY <1>3, <2>1, <2>3, <3>1 DEF Collect, Goto
    <3>3. QED BY <3>2 DEF Fresh
  <2>4. CASE Outcome = "output"
    <3>1. CaptureReady /\ ~Head(capture_done).empty
      BY <2>4 DEF Outcome
    <3>2. capture_done # <<>> /\ capture_done' = Tail(capture_done)
      BY <2>1, <3>1 DEF CaptureReady, DequeueCapture
    <3>3. QED BY <1>1, <2>1, <3>1, <3>2
  <2>5. QED BY <2>2, <2>3, <2>4
<1>4. CASE DequeueLast
  <2>1. DequeueCapture /\ stopped' = stopped /\ pc = "last"
    BY <1>4 DEF DequeueLast
  <2>2. CASE CaptureReady
    <3>1. capture_done # <<>> /\ capture_done' = Tail(capture_done)
      BY <2>1, <2>2 DEF CaptureReady, DequeueCapture
    <3>2. End(capture_done)
      BY <2>1 DEF Fresh
    <3>3. QED BY <1>1, <2>1, <3>1, <3>2
  <2>3. CASE ~CaptureReady
    <3>1. capture_done' = capture_done
      BY <2>1, <2>3 DEF DequeueCapture, capture_vars
    <3>2. QED BY <1>2, <2>1, <3>1
  <2>4. QED BY <2>2, <2>3
<1>5. CASE DeviceRuns
  <2>1. pc' = pc
    BY <1>5 DEF DeviceRuns, Stay
  <2>2. CASE pc \notin {"last", "start"}
    BY <2>1, <2>2 DEF Fresh
  <2>3. CASE pc \in {"last", "start"}
    <3>1. output_queue = <<>>
      BY <2>3, NoneLeft DEF IInv, Control
    <3>2. /\ stopped = "draining" /\ stopped' = "last"
          /\ capture_done' = Append(capture_done, EmptyLast)
      BY <1>5, <3>1 DEF DeviceRuns, Device, DeviceCodes, DeviceEnds
    <3> DEFINE u == Append(capture_done, EmptyLast)
    <3>3. \A i \in 1..Len(capture_done) : ~capture_done[i].empty
      BY <2>3, <3>2 DEF Fresh
    <3>4. /\ Len(u) = Len(capture_done) + 1
          /\ \A i \in 1..Len(u) : \/ i \in 1..Len(capture_done) /\ u[i] = capture_done[i]
                                  \/ i = Len(capture_done) + 1 /\ u[i] = EmptyLast
      BY IsSeqAppend DEF IInv, Buffers
    <3> HIDE DEF u
    <3>5. \A i \in 1..Len(u) : u[i].empty => i = Len(u)
      BY <3>3, <3>4
    <3>6. capture_done' = u
      BY <3>2 DEF u
    <3>7. QED BY <3>2, <3>5, <3>6 DEF Fresh
  <2>4. QED BY <2>2, <2>3
<1>6. CASE ~Collect /\ ~DequeueLast /\ ~DeviceRuns /\ ~UNCHANGED vars
  <2> DEFINE Other == pc' \notin {"last", "start"}
  <2>3. Calls => Other
    BY DEF Calls, CallTune, CallEncode, CallPoll, CallDrain, Stay
  <2>4. Pop \/ Drain \/ Sync \/ PollDevice \/ HandleBuffers \/ DrainEnds => Other
    BY DEF Pop, Drain, Sync, PollDevice, HandleBuffers, DrainEnds, Goto, Return
  <2>7. PollBackend => Other
    <3>1. Outcome \in {"output", "none", "failed"}
      BY DEF Outcome
    <3>2. QED BY <3>1 DEF PollBackend, Stay, Goto, Fails
  <2>5. Submit \/ ConsumeRequest => Other
    <3>1. pc \in {"submit", "consume"} => call \in {"encode", "poll", "drain"}
      BY DEF IInv, Control
    <3>2. pc \in {"submit", "consume"} /\ Processed => Other
      BY <3>1 DEF Processed, Goto, Return
    <3>3. QED BY <3>2 DEF Submit, ConsumeRequest, Goto, Fails
  <2>6. Errors => Other
    BY DEF Errors, StopFails, SyncFails, DrainFails, Fails, GivesUp
  <2>1. Other
    BY <1>6, <2>3, <2>4, <2>5, <2>6, <2>7 DEF Next, Runs
  <2>2. QED BY <2>1 DEF Fresh
<1>7. CASE UNCHANGED vars
  BY <1>2, <1>7 DEF vars, backend_vars, capture_vars
<1>8. QED BY <1>3, <1>4, <1>5, <1>6, <1>7

LEMMA StepInvariant == IInv /\ Fresh /\ [Next]_vars => IInv' /\ Fresh'
<1> SUFFICES ASSUME IInv, Fresh, [Next]_vars PROVE IInv'
  BY FreshKept
<1>1. \/ \E force \in BOOLEAN : CallEncode(force)
      \/ Pop
      \/ UNCHANGED vars
      \/ Turns \/ PollBackend \/ Submit \/ ConsumeRequest \/ Collect \/ DequeueLast \/ DrainEnds
      \/ Errors \/ DeviceRuns
  BY DEF Next, Calls, Runs, Turns
<1>2. CASE DeviceRuns
  BY <1>2, DeviceKeeps DEF DeviceRuns
<1>3. QED BY <1>1, <1>2, CallsFacts, TurnFacts, PollBackendFacts, SubmitFacts, ConsumeFacts,
             CollectFacts, DequeueLastFacts, DrainEndsFacts, ErrorsFacts

LEMMA Invariant == Spec => [](IInv /\ Fresh)
<1>1. Init => IInv /\ Fresh
  <2>1. Init => Fresh
    BY DEF Init, Fresh
  <2>2. QED BY <2>1, InitInvariant
<1>2. IInv /\ Fresh /\ [Next]_vars => IInv' /\ Fresh'
  BY StepInvariant
<1>3. QED BY <1>1, <1>2, PTL DEF Spec

-----------------------------------------------------------------------------
(* What comes out of the encoder.                                          *)

LEMMA CodedOutFacts ==
  ASSUME NEW s, IsSeq(s), \A i \in 1..Len(s) : Own(s[i]),
         NEW t, IsSeq(t), \A i \in 1..Len(t) : Own(t[i])
  PROVE  /\ IsSeq(s \o t) /\ \A i \in 1..Len(s \o t) : Own((s \o t)[i])
         /\ s \o <<>> = s
<1> DEFINE u == s \o t
<1>1. /\ IsSeq(u)
      /\ \A i \in 1..Len(u) : \/ i \in 1..Len(s) /\ u[i] = s[i]
                              \/ i - Len(s) \in 1..Len(t) /\ u[i] = t[i - Len(s)]
  BY IsSeqConcat
<1> HIDE DEF u
<1>2. \A i \in 1..Len(u) : Own(u[i])
  BY <1>1
<1>3. s \o <<>> = s
  <2> DEFINE S == {s[i] : i \in DOMAIN s}
  <2>1. s \in Seq(S)
    BY DEF IsSeq
  <2> HIDE DEF S
  <2>2. QED BY <2>1, ConcatEmptySeq
<1>4. QED BY <1>1, <1>2, <1>3 DEF u

LEMMA OneMoreBehind ==
  ASSUME NEW s, IsSeq(s), NEW t, IsSeq(t), NEW x
  PROVE  s \o Append(t, x) = Append(s \o t, x)
<1> DEFINE S == {s[i] : i \in DOMAIN s}
           T == {t[i] : i \in DOMAIN t}
           A == S \cup T \cup {x}
<1>1. s \in Seq(S \cup (T \cup {x}))
  BY IsSeqIn
<1>2. t \in Seq(T \cup (S \cup {x}))
  BY IsSeqIn
<1>3. S \cup (T \cup {x}) = A /\ T \cup (S \cup {x}) = A /\ x \in A
  OBVIOUS
<1> HIDE DEF A, S, T
<1>4. s \in Seq(A) /\ t \in Seq(A)
  BY <1>1, <1>2, <1>3
<1>5. QED BY <1>3, <1>4, AppendBehind

(* Every coded frame comes with the metadata of its own frame, and the     *)
(* encoder counts as being processed the frames its backend has and those  *)
(* drain has collected (OwnMetadata).                                      *)
THEOREM OutputsAreOwn == Spec => []OwnMetadata
<1>1. IInv => OwnMetadata
  <2> SUFFICES ASSUME IInv PROVE OwnMetadata
    OBVIOUS
  <2> DEFINE u == coded_queue \o drained
  <2>1. /\ IsSeq(coded_queue) /\ \A i \in 1..Len(coded_queue) : Own(coded_queue[i])
        /\ IsSeq(drained) /\ \A i \in 1..Len(drained) : Own(drained[i])
    BY DEF IInv, Outputs
  <2>2. IsSeq(u) /\ \A i \in 1..Len(u) : Own(u[i])
    BY <2>1, CodedOutFacts
  <2>3. DOMAIN drained = 1..Len(drained)
    BY <2>1, IsSeqLen
  <2> HIDE DEF u
  <2>4. DOMAIN u = 1..Len(u)
    BY <2>2, IsSeqLen
  <2>5. \A output \in Range(u) : /\ output.request_id = output.bitstream
                                 /\ output.meta.timestamp = output.bitstream
    BY <2>2, <2>4 DEF Range, Own
  <2>6. {entry.request_id : entry \in Range(currently_processed)} = DOMAIN currently_processed
    BY DEF Range, IInv, Entries
  <2>7. {output.request_id : output \in Range(drained)}
          = {drained[i].request_id : i \in 1..Len(drained)}
    BY <2>3 DEF Range
  <2>8. pc # "over" =>
          processing = DOMAIN currently_processed
                         \cup {drained[i].request_id : i \in 1..Len(drained)}
    BY DEF IInv, Counted
  <2>9. QED BY <2>5, <2>6, <2>7, <2>8 DEF OwnMetadata, u
<1>2. QED BY Invariant, <1>1, PTL

-----------------------------------------------------------------------------
(* The encoder keeps its service.  A frame goes from encoding to coded     *)
(* when the backend takes it from its CAPTURE buffer; a call that fails    *)
(* loses the request it was handling, the first that waits.                *)
CodedOut == Bitstreams(coded_queue \o drained)

LEMMA StutterStep ==
  ASSUME Encoding' = Encoding,
         UNCHANGED <<request_counter, coded_queue, drained, failed>>,
         call' = call \/ (call \in {"none", "encode"} /\ call' \in {"none", "poll"})
  PROVE  UNCHANGED Service!vars
<1>1. (call' = "drain") = (call = "drain")
  OBVIOUS
<1>2. QED BY <1>1 DEF Service!vars, Encoding, Filled

LEMMA CodedStep ==
  ASSUME Encoding # <<>>, Encoding' = Tail(Encoding), CodedOut' = Append(CodedOut, Head(Encoding)),
         UNCHANGED <<request_counter, call, failed>>
  PROVE  Service!FrameCoded
BY DEF Service!FrameCoded, Encoding, Filled, CodedOut

LEMMA EncodeStep ==
  ASSUME IInv, NEW force \in BOOLEAN, CallEncode(force)
  PROVE  Service!Encode
<1>1. Encoding' = Append(Encoding, request_counter')
  BY EncodeKeeps
<1>2. /\ call = "none" /\ call' = "encode" /\ request_counter' = request_counter + 1
      /\ UNCHANGED <<coded_queue, drained, failed>>
  BY DEF CallEncode, IInv, Control
<1>3. QED BY <1>1, <1>2 DEF Service!Encode, Encoding, Filled

LEMMA PopStep ==
  ASSUME IInv, Pop
  PROVE  Service!Poll \/ UNCHANGED Service!vars
<1>1. Encoding' = Encoding
  BY PopKeeps
<1>2. /\ call = "poll" /\ call' = "none" /\ drained = <<>>
      /\ coded_queue' = (IF coded_queue = <<>> THEN <<>> ELSE Tail(coded_queue))
      /\ UNCHANGED <<request_counter, drained, failed>>
  BY DEF Pop, Return, IInv, Control, Draining
<1>3. CASE coded_queue = <<>>
  <2>1. coded_queue' = coded_queue
    BY <1>2, <1>3
  <2>2. (call' = "drain") = (call = "drain")
    BY <1>2
  <2>3. QED BY <1>1, <1>2, <2>1, <2>2 DEF Service!vars, Encoding, Filled
<1>4. CASE coded_queue # <<>>
  <2>1. IsSeq(coded_queue) /\ \A i \in 1..Len(coded_queue) : Own(coded_queue[i])
    BY DEF IInv, Outputs
  <2>2. /\ IsSeq(Tail(coded_queue))
        /\ \A i \in 1..Len(Tail(coded_queue)) : Own(Tail(coded_queue)[i])
        /\ Bitstreams(coded_queue) # <<>>
        /\ Bitstreams(Tail(coded_queue)) = Tail(Bitstreams(coded_queue))
    BY <1>4, <2>1, BitstreamsTail
  <2>3. coded_queue \o drained = coded_queue
    BY <1>2, <2>1, CodedOutFacts
  <2>4. coded_queue' \o drained' = Tail(coded_queue)
    BY <1>2, <1>4, <2>2, CodedOutFacts
  <2>5. CodedOut # <<>> /\ CodedOut' = Tail(CodedOut)
    BY <2>2, <2>3, <2>4 DEF CodedOut
  <2>6. call # "drain" /\ call' # "drain" /\ UNCHANGED <<request_counter, failed>>
    BY <1>2
  <2>7. QED BY <1>1, <2>5, <2>6 DEF Service!Poll, Encoding, Filled, CodedOut
<1>5. QED BY <1>3, <1>4

(* The frame that is coded is put behind the coded ones.                   *)
LEMMA OutputBehind ==
  ASSUME IInv, Own(Output),
         \/ drained = <<>> /\ drained' = drained /\ coded_queue' = Append(coded_queue, Output)
         \/ drained' = Append(drained, Output) /\ coded_queue' = coded_queue
  PROVE  CodedOut' = Append(CodedOut, Output.bitstream + 1)
<1> DEFINE u == coded_queue \o drained
<1>1. /\ IsSeq(coded_queue) /\ \A i \in 1..Len(coded_queue) : Own(coded_queue[i])
      /\ IsSeq(drained) /\ \A i \in 1..Len(drained) : Own(drained[i])
  BY DEF IInv, Outputs
<1>2. IsSeq(u) /\ \A i \in 1..Len(u) : Own(u[i])
  BY <1>1, CodedOutFacts
<1>3. coded_queue' \o drained' = Append(u, Output)
  <2>1. CASE drained = <<>> /\ drained' = drained /\ coded_queue' = Append(coded_queue, Output)
    <3>1. u = coded_queue
      BY <1>1, <2>1, CodedOutFacts
    <3>2. /\ IsSeq(Append(coded_queue, Output))
          /\ \A i \in 1..Len(Append(coded_queue, Output)) : Own(Append(coded_queue, Output)[i])
      BY <1>1, BitstreamsAppend
    <3>3. Append(coded_queue, Output) \o <<>> = Append(coded_queue, Output)
      BY <1>1, <3>2, CodedOutFacts
    <3> HIDE DEF u
    <3>4. QED BY <2>1, <3>1, <3>3
  <2>2. CASE drained' = Append(drained, Output) /\ coded_queue' = coded_queue
    BY <1>1, <2>2, OneMoreBehind
  <2>3. QED BY <2>1, <2>2
<1> HIDE DEF u
<1>4. Bitstreams(Append(u, Output)) = Append(Bitstreams(u), Output.bitstream + 1)
  BY <1>2, BitstreamsAppend
<1>5. QED BY <1>3, <1>4 DEF CodedOut, u

LEMMA PollBackendStep ==
  ASSUME IInv, PollBackend
  PROVE  Service!FrameCoded \/ UNCHANGED Service!vars
<1>1. request_counter' = request_counter
  BY DEF PollBackend, encoder_vars
<1>2. \/ Encoding' = Encoding /\ UNCHANGED <<coded_queue, drained, call, failed>>
      \/ /\ Encoding # <<>> /\ Encoding' = Tail(Encoding)
         /\ Own(Output) /\ Output.bitstream + 1 = Head(Encoding)
         /\ coded_queue' = Append(coded_queue, Output)
         /\ drained = <<>> /\ UNCHANGED <<drained, call, failed>>
  BY PollBackendFacts
<1>3. CASE Encoding' = Encoding /\ UNCHANGED <<coded_queue, drained, call, failed>>
  BY <1>1, <1>3, StutterStep
<1>4. CASE /\ Encoding # <<>> /\ Encoding' = Tail(Encoding)
           /\ Own(Output) /\ Output.bitstream + 1 = Head(Encoding)
           /\ coded_queue' = Append(coded_queue, Output)
           /\ drained = <<>> /\ UNCHANGED <<drained, call, failed>>
  <2>1. CodedOut' = Append(CodedOut, Output.bitstream + 1)
    BY <1>4, OutputBehind
  <2>2. QED BY <1>1, <1>4, <2>1, CodedStep
<1>5. QED BY <1>2, <1>3, <1>4

LEMMA CollectStep ==
  ASSUME IInv, Collect
  PROVE  Service!FrameCoded \/ UNCHANGED Service!vars
<1>1. /\ UNCHANGED <<coded_queue, request_counter, call, failed>>
      /\ \/ Encoding' = Encoding /\ UNCHANGED drained
         \/ /\ Encoding # <<>> /\ Encoding' = Tail(Encoding)
            /\ Own(Output) /\ Output.bitstream + 1 = Head(Encoding)
            /\ drained' = Append(drained, Output)
  BY CollectFacts
<1>2. CASE Encoding' = Encoding /\ UNCHANGED drained
  BY <1>1, <1>2, StutterStep
<1>3. CASE /\ Encoding # <<>> /\ Encoding' = Tail(Encoding)
           /\ Own(Output) /\ Output.bitstream + 1 = Head(Encoding)
           /\ drained' = Append(drained, Output)
  <2>1. CodedOut' = Append(CodedOut, Output.bitstream + 1)
    BY <1>1, <1>3, OutputBehind
  <2>2. QED BY <1>1, <1>3, <2>1, CodedStep
<1>4. QED BY <1>1, <1>2, <1>3

LEMMA ConsumeStep ==
  ASSUME IInv, ConsumeRequest
  PROVE  Service!Fail \/ UNCHANGED Service!vars
<1>1. /\ UNCHANGED <<coded_queue, drained, request_counter>>
      /\ \/ /\ Encoding' = Encoding /\ UNCHANGED failed
            /\ call' = call \/ (call = "encode" /\ call' = "none")
         \/ /\ failed' = TRUE /\ call' = "none"
            /\ capture_done' = capture_done /\ output_queue' = output_queue
            /\ RequestIds(queue) # <<>> /\ RequestIds(queue') = Tail(RequestIds(queue))
  BY ConsumeFacts
<1>2. CASE /\ Encoding' = Encoding /\ UNCHANGED failed
           /\ call' = call \/ (call = "encode" /\ call' = "none")
  BY <1>1, <1>2, StutterStep
<1>3. CASE /\ failed' = TRUE /\ call' = "none"
           /\ capture_done' = capture_done /\ output_queue' = output_queue
           /\ RequestIds(queue) # <<>> /\ RequestIds(queue') = Tail(RequestIds(queue))
  <2> DEFINE D == CodedIds(Filled) \o Ids(output_queue)
             C == RequestIds(queue)
             i == Len(D)
             j == Len(D) + 1
  <2>1. D \in Seq(Nat) /\ C \in Seq(Nat) /\ C # <<>>
    BY <1>3, EncodingFacts DEF IInv
  <2>2. Encoding = D \o C /\ Encoding' = D \o Tail(C)
    BY <1>3 DEF Encoding, Filled
  <2> HIDE DEF D, C
  <2>3. Len(D) \in Nat
    BY <2>1, LenProperties
  <2>4. /\ i \in 0..Len(Encoding) /\ j \in 0..Len(Encoding)
        /\ Encoding' = SubSeq(Encoding, 1, i) \o SubSeq(Encoding, j + 1, Len(Encoding))
    BY <2>1, <2>2, WithoutOne
  <2>5. i <= j
    BY <2>3
  <2> HIDE DEF i, j
  <2>6. \E k, l \in 0..Len(Encoding) :
          /\ k <= l
          /\ Encoding' = SubSeq(Encoding, 1, k) \o SubSeq(Encoding, l + 1, Len(Encoding))
    BY <2>4, <2>5
  <2>7. call' # "drain"
    BY <1>3
  <2>8. QED BY <1>1, <1>3, <2>6, <2>7 DEF Service!Fail, Encoding, Filled
<1>4. QED BY <1>1, <1>2, <1>3

LEMMA DrainEndsStep ==
  ASSUME IInv, Fresh, DrainEnds
  PROVE  Service!EndDrain
<1>1. /\ UNCHANGED <<request_counter, failed>> /\ Encoding = <<>>
      /\ call = "drain" /\ call' = "none"
      /\ Encoding' = Encoding
      /\ coded_queue' = coded_queue \o drained /\ drained' = <<>>
  BY DrainEndsFacts
<1>2. coded_queue' \o drained' = coded_queue \o drained
  <2> DEFINE u == coded_queue \o drained
  <2>1. IsSeq(u) /\ \A i \in 1..Len(u) : Own(u[i])
    BY CodedOutFacts DEF IInv, Outputs
  <2> HIDE DEF u
  <2>2. u \o <<>> = u
    BY <2>1, CodedOutFacts
  <2>3. QED BY <1>1, <2>2 DEF u
<1>3. CodedOut' = CodedOut
  BY <1>2 DEF CodedOut
<1>4. QED BY <1>1, <1>3 DEF Service!EndDrain, Encoding, Filled, CodedOut

(* An error loses what drain has collected, the latest coded frames.       *)
LEMMA ErrorsStep ==
  ASSUME IInv, Errors
  PROVE  Service!DrainFails
<1>1. /\ Encoding' = Encoding
      /\ call = "drain" /\ call' = "none" /\ failed' = TRUE
      /\ coded_queue' = coded_queue /\ drained' = <<>> /\ request_counter' = request_counter
  BY ErrorsFacts
<1>2. /\ IsSeq(coded_queue) /\ \A i \in 1..Len(coded_queue) : Own(coded_queue[i])
      /\ IsSeq(drained) /\ \A i \in 1..Len(drained) : Own(drained[i])
  BY DEF IInv, Outputs
<1> DEFINE c == coded_queue
           u == coded_queue \o drained
<1>3. coded_queue' \o drained' = c
  BY <1>1, <1>2, CodedOutFacts
<1>4. CodedOut' = Bitstreams(c) /\ CodedOut = Bitstreams(u)
  BY <1>3 DEF CodedOut
<1>5. IsSeq(u) /\ \A i \in 1..Len(u) : Own(u[i])
  BY <1>2, CodedOutFacts
<1>6. /\ Len(c) \in Nat /\ Len(drained) \in Nat /\ Len(u) = Len(c) + Len(drained)
      /\ \A i \in 1..Len(c) : i \in 1..Len(u) /\ u[i] = c[i]
  BY <1>2, IsSeqConcat
<1> HIDE DEF c, u
<1>7. /\ Bitstreams(u) \in Seq(Nat) /\ Len(Bitstreams(u)) = Len(u)
      /\ \A i \in 1..Len(u) : Bitstreams(u)[i] = u[i].bitstream + 1
      /\ Bitstreams(c) \in Seq(Nat) /\ Len(Bitstreams(c)) = Len(c)
      /\ \A i \in 1..Len(c) : Bitstreams(c)[i] = c[i].bitstream + 1
  BY <1>2, <1>5, BitstreamsFacts DEF c
<1> DEFINE v == SubSeq(Bitstreams(u), 1, Len(c))
<1>8. v \in Seq(Nat) /\ Len(v) = Len(c) /\ \A i \in 1..Len(c) : v[i] = Bitstreams(u)[i]
  <2>1. 1 \in Int /\ Len(c) \in Int /\ \A i \in 1..Len(c) : i \in 1..Len(Bitstreams(u))
    BY <1>6, <1>7
  <2>2. QED BY <1>6, <1>7, <2>1, SubSeqProperties
<1> HIDE DEF v
<1>9. Bitstreams(c) = v
  <2>1. \A i \in 1..Len(c) : Bitstreams(c)[i] = v[i]
    BY <1>6, <1>7, <1>8
  <2>2. QED BY <1>7, <1>8, <2>1, SeqEqual
<1>10. Len(c) \in 0..Len(Bitstreams(u))
  BY <1>6, <1>7
<1>11. \E n \in 0..Len(CodedOut) : CodedOut' = SubSeq(CodedOut, 1, n)
  BY <1>4, <1>9, <1>10 DEF v
<1>12. QED BY <1>1, <1>11 DEF Service!DrainFails, Encoding, Filled, CodedOut

LEMMA TurnStep ==
  ASSUME IInv, Turns
  PROVE  Service!StartDrain \/ Service!EndDrain \/ UNCHANGED Service!vars
<1>1. /\ Encoding' = Encoding
      /\ UNCHANGED <<coded_queue, drained, failed, request_counter>>
      /\ \/ call = "none" /\ call' \in {"none", "poll", "drain"}
         \/ call' = call
         \/ call = "drain" /\ call' = "none" /\ Encoding = <<>>
  BY TurnFacts
<1>2. CASE call = "none" /\ call' = "drain"
  BY <1>1, <1>2 DEF Service!StartDrain, Encoding, Filled
<1>3. CASE call = "drain" /\ call' = "none" /\ Encoding = <<>>
  BY <1>1, <1>3 DEF Service!EndDrain, Encoding, Filled
<1>4. CASE call' = call \/ (call = "none" /\ call' \in {"none", "poll"})
  BY <1>1, <1>4, StutterStep
<1>5. QED BY <1>1, <1>2, <1>3, <1>4

LEMMA ServiceStep == IInv /\ Fresh /\ [Next]_vars => [Service!Next]_(Service!vars)
<1> SUFFICES ASSUME IInv, Fresh, [Next]_vars PROVE Service!Next \/ UNCHANGED Service!vars
  OBVIOUS
<1>1. \/ \E force \in BOOLEAN : CallEncode(force)
      \/ Pop
      \/ UNCHANGED vars
      \/ Turns \/ PollBackend \/ Submit \/ ConsumeRequest \/ Collect \/ DequeueLast \/ DrainEnds
      \/ Errors \/ DeviceRuns
  BY DEF Next, Calls, Runs, Turns
<1>2. CASE DeviceRuns
  <2>1. Encoding' = Encoding
    BY <1>2, DeviceKeeps DEF DeviceRuns
  <2>2. UNCHANGED <<request_counter, coded_queue, drained, failed, call>>
    BY <1>2 DEF DeviceRuns, encoder_vars, Stay
  <2>3. QED BY <2>1, <2>2, StutterStep
<1>3. CASE UNCHANGED vars
  <2>1. UNCHANGED <<queue, output_queue, capture_done, request_counter, coded_queue, drained,
                    failed, call>>
    BY <1>3 DEF vars, encoder_vars, backend_vars, output_vars, capture_vars
  <2>2. QED BY <2>1, StutterStep DEF Encoding, Filled
<1>4. CASE Submit
  <2>1. /\ Encoding' = Encoding
        /\ UNCHANGED <<coded_queue, drained, failed, request_counter>>
        /\ call' = call \/ (call = "encode" /\ call' = "none")
    BY <1>4, SubmitFacts
  <2>2. QED BY <2>1, StutterStep
<1>5. CASE DequeueLast
  <2>1. Encoding' = Encoding /\ UNCHANGED <<coded_queue, drained, request_counter, call, failed>>
    BY <1>5, DequeueLastFacts
  <2>2. QED BY <2>1, StutterStep
<1>6. QED BY <1>1, <1>2, <1>3, <1>4, <1>5, EncodeStep, PopStep, TurnStep, PollBackendStep,
             ConsumeStep, CollectStep, DrainEndsStep, ErrorsStep DEF Service!Next

(* Whatever the device does between the steps of a call, and whichever of  *)
(* its requests fail, the encoder gives back the frames coded, once and in *)
(* their order, and drain leaves none behind (ServiceSpec).                *)
THEOREM KeepsService == Spec => ServiceSpec
<1>1. Init => Service!Init
  <2> SUFFICES ASSUME Init PROVE Service!Init
    OBVIOUS
  <2>1. IInv
    BY InitInvariant
  <2>2. /\ capture_done = <<>> /\ output_queue = <<>> /\ queue = <<>>
        /\ coded_queue = <<>> /\ drained = <<>>
        /\ request_counter = 0 /\ call = "none" /\ failed = FALSE
    BY DEF Init, Create
  <2>3. Encoding = <<>>
    <3>1. Encoding \in Seq(1..0)
      BY <2>1, <2>2 DEF IInv, Order
    <3>2. Len(Encoding) = 0
      <4>1. Len(Encoding) \in Nat /\ \A i \in 1..Len(Encoding) : Encoding[i] \in 1..0
        BY <3>1, LenProperties
      <4>2. Len(Encoding) > 0 => 1 \in 1..Len(Encoding)
        BY <4>1
      <4>3. 1..0 = {}
        OBVIOUS
      <4>4. QED BY <4>1, <4>2, <4>3
    <3>3. QED BY <3>1, <3>2, EmptySeq
  <2>4. CodedOut = <<>>
    <3> DEFINE u == coded_queue \o drained
    <3>1. IsSeq(u) /\ \A i \in 1..Len(u) : Own(u[i])
      BY <2>1, CodedOutFacts DEF IInv, Outputs
    <3>2. u = <<>>
      BY <2>1, <2>2, CodedOutFacts DEF IInv, Outputs
    <3> HIDE DEF u
    <3>3. Bitstreams(u) \in Seq(Nat) /\ Len(Bitstreams(u)) = 0
      BY <3>1, <3>2, BitstreamsFacts, NothingIsSeq
    <3>4. Bitstreams(u) = <<>>
      BY <3>3, EmptySeq
    <3>5. QED BY <3>4 DEF CodedOut, u
  <2>5. QED BY <2>2, <2>3, <2>4 DEF Service!Init, Encoding, Filled, CodedOut
<1>2. IInv /\ Fresh /\ [Next]_vars => [Service!Next]_(Service!vars)
  BY ServiceStep
<1>3. QED BY Invariant, <1>1, <1>2, PTL DEF Spec, ServiceSpec, Service!Spec

-----------------------------------------------------------------------------
(* The controls of the device.                                             *)

(* The controls after a sequence of writes are the last of a chain, one    *)
(* for each prefix.                                                        *)
Chain(dev, c, writes, m, g) ==
  g = [n \in 0..m |-> IF n = 0 THEN c ELSE Write(dev, g[n - 1], writes[n])]

LEMMA ChainExists ==
  ASSUME NEW dev, NEW c, NEW writes
  PROVE  \A m \in Nat : \E g : Chain(dev, c, writes, m, g)
<1> DEFINE S == {m \in Nat : \E g : Chain(dev, c, writes, m, g)}
<1>1. 0 \in S
  <2> DEFINE g == [n \in 0..0 |-> c]
  <2>1. Chain(dev, c, writes, 0, g)
    BY DEF Chain
  <2>2. QED BY <2>1
<1>2. \A m \in Nat : m \in S => m + 1 \in S
  <2> SUFFICES ASSUME NEW m \in Nat, NEW g, Chain(dev, c, writes, m, g)
               PROVE  \E h : Chain(dev, c, writes, m + 1, h)
    OBVIOUS
  <2> DEFINE h == [n \in 0..(m + 1) |-> IF n <= m THEN g[n] ELSE Write(dev, g[m], writes[m + 1])]
  <2>1. \A n \in 0..m : g[n] = IF n = 0 THEN c ELSE Write(dev, g[n - 1], writes[n])
    BY DEF Chain
  <2>2. \A n \in 0..(m + 1) : h[n] = IF n = 0 THEN c ELSE Write(dev, h[n - 1], writes[n])
    <3> SUFFICES ASSUME NEW n \in 0..(m + 1)
                 PROVE  h[n] = IF n = 0 THEN c ELSE Write(dev, h[n - 1], writes[n])
      OBVIOUS
    <3>1. CASE n = 0
      BY <2>1, <3>1
    <3>2. CASE n # 0 /\ n <= m
      <4>1. h[n] = g[n] /\ h[n - 1] = g[n - 1] /\ n \in 0..m
        BY <3>2
      <4>2. QED BY <2>1, <3>2, <4>1
    <3>3. CASE n = m + 1
      <4>1. h[n] = Write(dev, g[m], writes[m + 1]) /\ h[n - 1] = g[m] /\ n # 0
        BY <3>3
      <4>2. QED BY <3>3, <4>1
    <3>4. QED BY <3>1, <3>2, <3>3
  <2>3. h = [n \in 0..(m + 1) |-> h[n]]
    OBVIOUS
  <2> HIDE DEF h
  <2>4. h = [n \in 0..(m + 1) |-> IF n = 0 THEN c ELSE Write(dev, h[n - 1], writes[n])]
    BY <2>2, <2>3
  <2>5. Chain(dev, c, writes, m + 1, h)
    BY <2>4 DEF Chain
  <2>6. QED BY <2>5
<1> HIDE DEF S
<1>3. \A m \in Nat : m \in S
  BY <1>1, <1>2, SetInduction
<1>4. QED BY <1>3 DEF S

(* Writes of which none is refused all take effect.                        *)
Fine(dev, writes) == \A i \in 1..Len(writes) : ~Rejects(dev, writes[i])

LEMMA ApplyChain ==
  ASSUME NEW dev, NEW c, NEW writes, Len(writes) \in Nat
  PROVE  /\ Apply(dev, c, writes).ok <=> Fine(dev, writes)
         /\ Fine(dev, writes) =>
              \E g : /\ Chain(dev, c, writes, Len(writes), g)
                    /\ Apply(dev, c, writes).controls = g[Len(writes)]
<1> DEFINE done[n \in 0..Len(writes)] ==
        IF n = 0 THEN c ELSE Write(dev, done[n - 1], writes[n])
      refused == {i \in 1..Len(writes) : Rejects(dev, writes[i])}
<1>1. \E g : Chain(dev, c, writes, Len(writes), g)
  BY ChainExists
<1>2. Chain(dev, c, writes, Len(writes), done)
  BY <1>1 DEF Chain
<1>3. /\ Apply(dev, c, writes).ok = (refused = {})
      /\ Apply(dev, c, writes).controls = done[IF refused = {} THEN Len(writes) ELSE Min(refused) - 1]
  <2> DEFINE left == done[IF refused = {} THEN Len(writes) ELSE Min(refused) - 1]
             well == refused = {}
  <2>1. Apply(dev, c, writes) = [controls |-> left, ok |-> well]
    BY DEF Apply
  <2> HIDE DEF left, well
  <2>2. Apply(dev, c, writes).controls = left /\ Apply(dev, c, writes).ok = well
    BY <2>1
  <2>3. QED BY <2>2 DEF left, well
<1> HIDE DEF done
<1>4. refused = {} <=> Fine(dev, writes)
  BY DEF Fine
<1> HIDE DEF refused
<1>5. QED BY <1>2, <1>3, <1>4

(* What a write leaves.                                                    *)
Wrote(dev, f, write, h) ==
  /\ DOMAIN f \subseteq DOMAIN h
  /\ \A x \in DOMAIN f : x \notin DOMAIN write.values => h[x] = f[x]
  /\ Has(dev, write) =>
       /\ DOMAIN h = DOMAIN f \cup DOMAIN write.values
       /\ \A x \in DOMAIN write.values : h[x] = write.values[x]
  /\ ~Has(dev, write) => h = f

LEMMA WriteFacts ==
  ASSUME NEW dev, NEW f, NEW write
  PROVE  Wrote(dev, f, write, Write(dev, f, write))
BY DEF Write, With, Wrote

(* A chain, step by step.                                                  *)
LEMMA ChainSteps ==
  ASSUME NEW dev, NEW c, NEW writes, NEW m \in Nat, NEW g, Chain(dev, c, writes, m, g)
  PROVE  /\ g[0] = c
         /\ \A n \in 1..m : g[n] = Write(dev, g[n - 1], writes[n])
<1>1. g[0] = c
  BY DEF Chain
<1>2. \A n \in 0..m : n # 0 => g[n] = Write(dev, g[n - 1], writes[n])
  BY DEF Chain
<1>3. \A n \in 1..m : n \in 0..m /\ n # 0
  OBVIOUS
<1>4. QED BY <1>1, <1>2, <1>3

(* What a chain has set stays, until it is set again.                      *)
Unset(writes, x, n, m) == \A i \in (n + 1)..m : x \notin DOMAIN writes[i].values

LEMMA Stays ==
  ASSUME NEW dev, NEW c, NEW writes, NEW m \in Nat, NEW g, Chain(dev, c, writes, m, g),
         NEW n \in 0..m, NEW x \in DOMAIN g[n]
  PROVE  /\ x \in DOMAIN g[m]
         /\ Unset(writes, x, n, m) => g[m][x] = g[n][x]
<1> DEFINE P(k) == /\ x \in DOMAIN g[k]
                   /\ Unset(writes, x, n, k) => g[k][x] = g[n][x]
           S == {k \in Nat : n + k <= m => P(n + k)}
<1>1. 0 \in S
  BY n + 0 = n
<1>2. \A k \in Nat : k \in S => k + 1 \in S
  <2> SUFFICES ASSUME NEW k \in Nat, n + k <= m => P(n + k), n + (k + 1) <= m
               PROVE  P(n + (k + 1))
    OBVIOUS
  <2> DEFINE j == n + (k + 1)
             w == writes[j]
             f == g[j - 1]
  <2>1. /\ j - 1 = n + k /\ j \in 1..m /\ n + k <= m
        /\ \A i \in (n + 1)..(n + k) : i \in (n + 1)..j
        /\ j \in (n + 1)..j
    OBVIOUS
  <2> HIDE DEF j
  <2>2. g[j] = Write(dev, f, w)
    BY <2>1, ChainSteps
  <2>3. P(j - 1)
    BY <2>1
  <2> HIDE DEF w, f
  <2>4. /\ DOMAIN f \subseteq DOMAIN g[j]
        /\ \A y \in DOMAIN f : y \notin DOMAIN w.values => g[j][y] = f[y]
    <3>1. Wrote(dev, f, w, g[j])
      BY <2>2, WriteFacts
    <3>2. QED BY <3>1 DEF Wrote
  <2>5. Unset(writes, x, n, j) => Unset(writes, x, n, j - 1) /\ x \notin DOMAIN w.values
    BY <2>1 DEF w, Unset
  <2>6. x \in DOMAIN f /\ (Unset(writes, x, n, j - 1) => f[x] = g[n][x])
    BY <2>3 DEF f
  <2>7. P(j)
    BY <2>4, <2>5, <2>6
  <2>8. QED BY <2>7 DEF j
<1> HIDE DEF S, P
<1>3. \A k \in Nat : k \in S
  BY <1>1, <1>2, SetInduction
<1>4. m - n \in Nat /\ n + (m - n) <= m /\ n + (m - n) = m
  OBVIOUS
<1>5. P(m)
  BY <1>3, <1>4 DEF S
<1>6. QED BY <1>5 DEF P

IsFunction(f) == f = [x \in DOMAIN f |-> f[x]]

LEMMA FunctionWritten ==
  ASSUME NEW dev, NEW f, IsFunction(f), NEW write
  PROVE  IsFunction(Write(dev, f, write))
<1>1. CASE Has(dev, write)
  BY <1>1 DEF Write, With, IsFunction
<1>2. CASE ~Has(dev, write)
  BY <1>2 DEF Write
<1>3. QED BY <1>1, <1>2

LEMMA FunctionsOnly ==
  ASSUME NEW dev, NEW c, NEW writes, NEW m \in Nat, NEW g, Chain(dev, c, writes, m, g),
         IsFunction(c)
  PROVE  IsFunction(g[m])
<1> DEFINE S == {k \in Nat : k <= m => IsFunction(g[k])}
<1>1. 0 \in S
  BY ChainSteps
<1>2. \A k \in Nat : k \in S => k + 1 \in S
  <2> SUFFICES ASSUME NEW k \in Nat, k <= m => IsFunction(g[k]), k + 1 <= m
               PROVE  IsFunction(g[k + 1])
    OBVIOUS
  <2>1. k + 1 \in 1..m /\ (k + 1) - 1 = k /\ k <= m
    OBVIOUS
  <2>2. g[k + 1] = Write(dev, g[k], writes[k + 1])
    BY <2>1, ChainSteps
  <2>3. IsFunction(g[k])
    BY <2>1
  <2>4. QED BY <2>2, <2>3, FunctionWritten
<1> HIDE DEF S
<1>3. \A k \in Nat : k \in S
  BY <1>1, <1>2, SetInduction
<1>4. QED BY <1>3 DEF S

(* Writes that have gone well change nothing when they are made again: all *)
(* of them, or a stretch whose controls are not set behind it.             *)
LEMMA Repeated ==
  ASSUME NEW dev, NEW c, IsFunction(c), NEW all, NEW part,
         NEW a \in Nat, NEW m \in Nat, NEW n \in Nat,
         Len(all) = n, Len(part) = m, a + m <= n,
         \A i \in 1..m : part[i] = all[a + i],
         \A i \in 1..m, k \in (a + m + 1)..n :
           DOMAIN all[k].values \cap DOMAIN part[i].values = {},
         Apply(dev, c, all).ok
  PROVE  LET d == Apply(dev, c, all).controls IN
         IsFunction(d) /\ Apply(dev, d, part).controls = d
<1>1. Fine(dev, all)
  BY ApplyChain
<1>2. PICK g : Chain(dev, c, all, n, g) /\ Apply(dev, c, all).controls = g[n]
  BY <1>1, ApplyChain
<1> DEFINE d == g[n]
           Later(x) == Unset(all, x, a + m, n)
<1>3. /\ IsFunction(d)
      /\ \A i \in 0..n : \A x \in DOMAIN g[i] :
           x \in DOMAIN d /\ (Unset(all, x, i, n) => d[x] = g[i][x])
  <2>1. IsFunction(g[n])
    BY <1>2, FunctionsOnly
  <2>2. \A i \in 0..n : \A x \in DOMAIN g[i] :
          /\ x \in DOMAIN g[n]
          /\ Unset(all, x, i, n) => g[n][x] = g[i][x]
    BY <1>2, Stays
  <2>3. QED BY <2>1, <2>2
<1>4. \A i \in 1..m : a + i \in 1..n
  OBVIOUS
<1>5. Fine(dev, part)
  BY <1>1, <1>4 DEF Fine
<1>6. PICK h : Chain(dev, d, part, m, h) /\ Apply(dev, d, part).controls = h[m]
  <2> HIDE DEF d
  <2>1. QED BY <1>5, ApplyChain
<1> DEFINE Same(k, x) ==
             \/ h[k][x] = d[x]
             \/ /\ x \in DOMAIN g[a + k]
                /\ h[k][x] = g[a + k][x]
                /\ Later(x)
           P(k) == /\ IsFunction(h[k]) /\ DOMAIN h[k] = DOMAIN d
                   /\ \A x \in DOMAIN d : Same(k, x)
           S == {k \in Nat : k <= m => P(k)}
<1>7. P(0)
  <2> HIDE DEF d
  <2>1. h[0] = d
    BY <1>6, ChainSteps
  <2>2. QED BY <1>3, <2>1
<1>8. \A k \in Nat : k \in S => k + 1 \in S
  <2> SUFFICES ASSUME NEW k \in Nat, k <= m => P(k), k + 1 <= m
               PROVE  P(k + 1)
    OBVIOUS
  <2> DEFINE w == part[k + 1]
             e == g[a + k]
             e2 == g[a + (k + 1)]
             f == h[k]
             f2 == h[k + 1]
  <2>1. /\ k + 1 \in 1..m /\ (k + 1) - 1 = k /\ k <= m
        /\ a + (k + 1) \in 1..n /\ (a + (k + 1)) - 1 = a + k /\ a + (k + 1) \in 0..n
    BY ONLY k \in Nat, m \in Nat, n \in Nat, a \in Nat, k + 1 <= m, a + m <= n
  <2>2. f2 = Write(dev, f, w)
    BY <1>6, <2>1, ChainSteps, SMTT(30)
  <2>3. e2 = Write(dev, e, w)
    <3>1. w = all[a + (k + 1)]
      BY <2>1
    <3> HIDE DEF w
    <3>2. QED BY <1>2, <2>1, <3>1, ChainSteps
  <2>4. \A x \in DOMAIN w.values : Later(x)
    BY <2>1 DEF Unset
  <2>5. \A x \in DOMAIN e2 : x \in DOMAIN d
    BY <1>3, <2>1
  <2>6. P(k)
    BY <2>1
  <2>7. /\ IsFunction(f) /\ DOMAIN f = DOMAIN d
        /\ \A x \in DOMAIN d : f[x] = d[x] \/ (x \in DOMAIN e /\ f[x] = e[x] /\ Later(x))
    BY <2>6
  <2> HIDE DEF w, e, e2, f, f2, d, Later
  <2>8. Wrote(dev, f, w, f2) /\ Wrote(dev, e, w, e2)
    BY <2>2, <2>3, WriteFacts
  <2>9. CASE ~Has(dev, w)
    <3>1. f2 = f /\ e2 = e
      BY <2>9, <2>8 DEF Wrote
    <3>2. /\ IsFunction(f2) /\ DOMAIN f2 = DOMAIN d
          /\ \A x \in DOMAIN d : f2[x] = d[x] \/ (x \in DOMAIN e2 /\ f2[x] = e2[x] /\ Later(x))
      BY <2>7, <3>1
    <3>3. QED BY <3>2 DEF e2, f2
  <2>10. CASE Has(dev, w)
    <3>1. /\ DOMAIN f2 = DOMAIN f \cup DOMAIN w.values
          /\ DOMAIN e2 = DOMAIN e \cup DOMAIN w.values
          /\ \A x \in DOMAIN w.values : f2[x] = w.values[x] /\ e2[x] = w.values[x]
          /\ \A x \in DOMAIN f : x \notin DOMAIN w.values => f2[x] = f[x]
          /\ \A x \in DOMAIN e : x \notin DOMAIN w.values => e2[x] = e[x]
      BY <2>10, <2>8 DEF Wrote
    <3>2. IsFunction(f2)
      BY <2>2, <2>7, FunctionWritten
    <3>3. DOMAIN f2 = DOMAIN d
      BY <2>5, <2>7, <3>1
    <3>4. \A x \in DOMAIN d : f2[x] = d[x] \/ (x \in DOMAIN e2 /\ f2[x] = e2[x] /\ Later(x))
      BY <2>4, <2>7, <3>1
    <3>5. QED BY <3>2, <3>3, <3>4 DEF e2, f2
  <2>11. QED BY <2>9, <2>10
<1>9. P(m)
  <2> HIDE DEF P
  <2>1. 0 \in S
    BY <1>7
  <2> HIDE DEF S
  <2>2. \A k \in Nat : k \in S
    BY <1>8, <2>1, SetInduction
  <2>3. QED BY <2>2 DEF S
<1>10. \A x \in DOMAIN d : h[m][x] = d[x]
  <2> SUFFICES ASSUME NEW x \in DOMAIN d PROVE h[m][x] = d[x]
    OBVIOUS
  <2>1. Same(m, x)
    BY <1>9
  <2>2. CASE x \in DOMAIN g[a + m] /\ h[m][x] = g[a + m][x] /\ Later(x)
    <3>1. a + m \in 0..n
      OBVIOUS
    <3>2. d[x] = g[a + m][x]
      BY <1>3, <2>2, <3>1
    <3>3. QED BY <2>2, <3>2
  <2>3. QED BY <2>1, <2>2
<1>11. h[m] = d
  <2> HIDE DEF d
  <2>1. QED BY <1>3, <1>9, <1>10 DEF IsFunction
<1>12. QED BY <1>2, <1>3, <1>6, <1>11

(* ----------------------- tunings and their writes ---------------------- *)
HasMode(t) == t.rate_control.mode \in RateModes

(* What sets the tunings leaves the header mode alone, which new sets.     *)
NoHeader(writes) ==
  IsSeq(writes) /\ \A i \in 1..Len(writes) : "header mode" \notin DOMAIN writes[i].values

LEMMA BothNoHeader ==
  ASSUME NEW s, NEW t, NoHeader(s), NoHeader(t)
  PROVE  NoHeader(s \o t)
<1> DEFINE u == s \o t
<1>1. /\ IsSeq(u)
      /\ \A i \in 1..Len(u) : \/ i \in 1..Len(s) /\ u[i] = s[i]
                              \/ i - Len(s) \in 1..Len(t) /\ u[i] = t[i - Len(s)]
  BY IsSeqConcat DEF NoHeader
<1> HIDE DEF u
<1>2. \A i \in 1..Len(u) : "header mode" \notin DOMAIN u[i].values
  BY <1>1 DEF NoHeader
<1>3. QED BY <1>1, <1>2 DEF NoHeader, u

LEMMA PairIsSeq ==
  ASSUME NEW x, NEW y
  PROVE  /\ IsSeq(<<x, y>>) /\ Len(<<x, y>>) = 2
         /\ <<x, y>>[1] = x /\ <<x, y>>[2] = y
<1>1. <<x, y>> \in Seq({x, y})
  OBVIOUS
<1>2. IsSeq(<<x, y>>)
  BY <1>1, SeqIsSeq
<1>3. QED BY <1>2

LEMMA OneIsSeq ==
  ASSUME NEW x
  PROVE  IsSeq(<<x>>) /\ Len(<<x>>) = 1 /\ <<x>>[1] = x
<1>1. <<x>> \in Seq({x}) /\ Len(<<x>>) = 1
  OBVIOUS
<1>2. IsSeq(<<x>>)
  BY <1>1, SeqIsSeq
<1>3. QED BY <1>1, <1>2

LEMMA TwoControls ==
  ASSUME NEW name1, NEW value1, NEW name2, NEW value2,
         name1 # "header mode", name2 # "header mode"
  PROVE  NoHeader(<<ApplyCtrl(name1, value1), ApplyCtrl(name2, value2)>>)
<1> DEFINE x == ApplyCtrl(name1, value1)
           y == ApplyCtrl(name2, value2)
           s == <<x, y>>
<1>1. "header mode" \notin DOMAIN x.values /\ "header mode" \notin DOMAIN y.values
  <2>1. x.values = [n \in {name1} |-> value1] /\ y.values = [n \in {name2} |-> value2]
    BY DEF ApplyCtrl
  <2>2. DOMAIN x.values = {name1} /\ DOMAIN y.values = {name2}
    BY <2>1
  <2> HIDE DEF x, y
  <2>3. QED BY <2>2
<1> HIDE DEF x, y
<1>2. IsSeq(s) /\ Len(s) = 2 /\ s[1] = x /\ s[2] = y
  BY PairIsSeq
<1> HIDE DEF s
<1>3. \A i \in 1..2 : i = 1 \/ i = 2
  BY ONLY 2 \in Nat
<1>4. NoHeader(s)
  BY <1>1, <1>2, <1>3 DEF NoHeader
<1>5. QED BY <1>4 DEF s, x, y

LEMMA RateWritesFacts ==
  ASSUME NEW rc, rc.mode \in RateModes
  PROVE  NoHeader(RateWrites(rc))
<1>1. CASE rc.mode = "ConstantBitrate"
  <2>1. RateWrites(rc) = <<ApplyCtrl("bitrate mode", VideoBitrateMode(rc)),
                           ApplyCtrl("bitrate", CtrlI32(rc.target))>>
    BY <1>1 DEF RateWrites
  <2>2. QED BY <2>1, TwoControls
<1>2. CASE rc.mode = "ConstantQuality"
  <2>1. RateWrites(rc) = <<ApplyCtrl("bitrate mode", VideoBitrateMode(rc)),
                           ApplyCtrl("constant quality", CtrlI32(rc.qp))>>
    BY <1>2 DEF RateWrites
  <2>2. QED BY <2>1, TwoControls
<1>3. CASE rc.mode = "VariableBitrate"
  <2> DEFINE v == [n \in {"bitrate mode", "bitrate", "peak bitrate"} |->
                     CASE n = "bitrate mode" -> VideoBitrateMode(rc)
                       [] n = "bitrate"      -> CtrlI32(rc.avg_bitrate)
                       [] n = "peak bitrate" -> CtrlI32(rc.max_bitrate)]
             x == RequireCtrls(v)
  <2>1. RateWrites(rc) = <<x>>
    BY <1>3 DEF RateWrites
  <2>2. DOMAIN v = {"bitrate mode", "bitrate", "peak bitrate"}
    OBVIOUS
  <2> HIDE DEF v
  <2>3. x.values = v
    BY DEF RequireCtrls
  <2> HIDE DEF x
  <2>4. "header mode" \notin DOMAIN x.values
    <3>1. "header mode" \notin DOMAIN v
      BY <2>2
    <3>2. QED BY <2>3, <3>1
  <2>5. IsSeq(<<x>>) /\ Len(<<x>>) = 1 /\ <<x>>[1] = x
    BY OneIsSeq
  <2> DEFINE s == <<x>>
  <2>6. IsSeq(s) /\ Len(s) = 1 /\ \A i \in 1..1 : s[i] = x
    BY <2>5
  <2> HIDE DEF s
  <2>7. NoHeader(s)
    BY <2>4, <2>6 DEF NoHeader
  <2>8. QED BY <2>1, <2>7 DEF s
<1>4. QED BY <1>1, <1>2, <1>3 DEF RateModes

LEMMA WritesFacts ==
  ASSUME NEW cd, NEW t, HasMode(t)
  PROVE  NoHeader(Writes(cd, t))
<1>1. NoHeader(ApplyParm(t.framerate))
  <2>1. "output framerate" # "header mode" /\ "capture framerate" # "header mode"
    OBVIOUS
  <2> DEFINE k == 1000
  <2>2. ApplyParm(t.framerate) = <<ApplyCtrl("output framerate", t.framerate),
                                   ApplyCtrl("capture framerate", k)>>
    BY DEF ApplyParm
  <2> HIDE DEF k
  <2>3. QED BY <2>1, <2>2, TwoControls
<1>2. NoHeader(RateWrites(t.rate_control))
  BY RateWritesFacts DEF HasMode
<1>3. NoHeader(TuningWrites(cd, t))
  BY TwoControls DEF TuningWrites
<1>4. NoHeader(ApplyParm(t.framerate) \o RateWrites(t.rate_control))
  BY <1>1, <1>2, BothNoHeader
<1>5. QED BY <1>3, <1>4, BothNoHeader DEF Writes

LEMMA NewWritesFacts ==
  ASSUME NEW cd, NEW limit
  PROVE  IsSeq(NewWrites(cd, limit))
<1>1. \A s, t : IsSeq(s) /\ IsSeq(t) => IsSeq(s \o t)
  BY IsSeqConcat
<1>2. \A x : IsSeq(<<x>>)
  BY OneIsSeq
<1>3. IsSeq(<<>>)
  BY NothingIsSeq
<1>4. QED BY <1>1, <1>2, <1>3 DEF NewWrites

(* ----------------------- the tunings on the device --------------------- *)
(* A set of controls that no change to the tunings would change.           *)
Settled(dev, cd, c, t) == c = Apply(dev, c, Writes(cd, t)).controls

LEMMA TunedSettles ==
  ASSUME NEW dev, NEW cd, NEW c, IsFunction(c), NEW t, HasMode(t), Apply(dev, c, Writes(cd, t)).ok
  PROVE  LET d == Apply(dev, c, Writes(cd, t)).controls IN
         IsFunction(d) /\ Settled(dev, cd, d, t)
<1> DEFINE w == Writes(cd, t)
           m == Len(w)
           zero == 0
<1>1. m \in Nat
  BY WritesFacts, IsSeqLen DEF NoHeader
<1> HIDE DEF w
<1>2. Len(w) = m /\ 0 + m <= m /\ \A i \in 1..m : w[i] = w[0 + i]
  BY <1>1
<1>3. \A i \in 1..m, k \in (0 + m + 1)..m : DOMAIN w[k].values \cap DOMAIN w[i].values = {}
  BY <1>1
<1> HIDE DEF m
<1>4. Apply(dev, c, w).ok
  BY DEF w
<1>5. LET d == Apply(dev, c, w).controls IN IsFunction(d) /\ Apply(dev, d, w).controls = d
  BY <1>1, <1>2, <1>3, <1>4, Repeated
<1>6. QED BY <1>5 DEF Settled, w

LEMMA CreatedSettles ==
  ASSUME NEW dev, NEW cd, NEW limit, NEW t, HasMode(t), Created(dev, cd, limit, t).ok
  PROVE  LET d == Created(dev, cd, limit, t).controls IN
         IsFunction(d) /\ Settled(dev, cd, d, t)
<1> DEFINE c == [n \in {} |-> 0]
           v == NewWrites(cd, limit)
           w == Writes(cd, t)
           x == ApplyCtrl("header mode", 1)
           vw == v \o w
           all == vw \o <<x>>
           a == Len(v)
           m == Len(w)
<1>1. NoHeader(w)
  BY WritesFacts
<1>2. IsSeq(v) /\ IsSeq(w) /\ IsSeq(<<x>>) /\ Len(<<x>>) = 1 /\ <<x>>[1] = x
  BY <1>1, NewWritesFacts, OneIsSeq DEF NoHeader
<1> DEFINE h == <<x>>
<1>3. IsSeq(h) /\ Len(h) = 1 /\ h[1] = x
  BY <1>2
<1>4. DOMAIN x.values = {"header mode"}
  <2>1. x.values = [n \in {"header mode"} |-> 1]
    BY DEF ApplyCtrl
  <2>2. QED BY <2>1
<1>5. Created(dev, cd, limit, t) = Apply(dev, c, all)
  BY DEF Created
<1> HIDE DEF v, w, x, h
<1>6. /\ IsSeq(vw) /\ a \in Nat /\ m \in Nat /\ Len(vw) = a + m
      /\ \A i \in 1..m : a + i \in 1..Len(vw) /\ vw[a + i] = w[i]
  BY <1>2, IsSeqConcat
<1> HIDE DEF vw
<1> DEFINE u == vw \o h
<1>7. /\ Len(u) = (a + m) + 1
      /\ \A i \in 1..Len(vw) : u[i] = vw[i]
      /\ u[(a + m) + 1] = x
  <2>1. /\ Len(vw) \in Nat /\ Len(u) = Len(vw) + Len(h)
        /\ \A i \in 1..Len(vw) : i \in 1..Len(u) /\ u[i] = vw[i]
        /\ \A i \in 1..Len(h) : Len(vw) + i \in 1..Len(u) /\ u[Len(vw) + i] = h[i]
    <3>1. IsSeq(vw) /\ IsSeq(h)
      BY <1>3, <1>6
    <3>2. QED BY ONLY <3>1, IsSeqConcat
  <2> HIDE DEF u
  <2>2. 1 \in 1..Len(h)
    BY <1>3
  <2>3. QED BY <1>3, <1>6, <2>1, <2>2
<1>8. all = u
  BY DEF h
<1> HIDE DEF all, u, a, m
<1> DEFINE n == a + m + 1
<1>9. n \in Nat /\ Len(u) = n /\ a + m <= n
  BY <1>6, <1>7
<1>10. \A i \in 1..m : w[i] = u[a + i]
  BY <1>6, <1>7
<1>11. \A i \in 1..m, k \in (a + m + 1)..n : DOMAIN u[k].values \cap DOMAIN w[i].values = {}
  <2>1. \A k \in (a + m + 1)..n : k = (a + m) + 1
    BY <1>6
  <2>2. \A i \in 1..m : "header mode" \notin DOMAIN w[i].values
    BY <1>1 DEF NoHeader, m
  <2>3. QED BY <1>4, <1>7, <2>1, <2>2
<1>12. IsFunction(c)
  BY DEF IsFunction
<1>13. Apply(dev, c, u).ok
  BY <1>5, <1>8
<1> HIDE DEF n, c
<1>14. LET d == Apply(dev, c, u).controls IN IsFunction(d) /\ Apply(dev, d, w).controls = d
  <2>1. Len(w) = m
    BY DEF m
  <2>2. QED BY <1>6, <1>9, <1>10, <1>11, <1>12, <1>13, <2>1, Repeated, ZenonT(60)
<1>15. QED BY <1>5, <1>8, <1>14 DEF Settled, w

Modes == /\ HasMode(tunings) /\ HasMode(current_tunings)
         /\ \A i \in 1..Len(queue) : HasMode(queue[i].tunings)
Steady ==
  ~mixed =>
    /\ IsFunction(controls)
    /\ Settled(device, codec, controls, current_tunings)
    /\ \A i \in 1..Len(output_queue) :
         Settled(device, codec, output_queue[i].controls, output_queue[i].tunings)

LEMMA InitSteady ==
  ASSUME Init
  PROVE  Modes /\ Steady
<1>1. /\ tunings = Initial /\ current_tunings = Initial /\ queue = <<>> /\ output_queue = <<>>
      /\ Created(device, codec, Limit, Initial).ok
      /\ controls = Created(device, codec, Limit, Initial).controls
  BY DEF Init, Create
<1>2. HasMode(Initial)
  BY StatefulEncoderAssumption DEF HasMode
<1>3. IsFunction(controls) /\ Settled(device, codec, controls, Initial)
  BY <1>1, <1>2, CreatedSettles
<1>4. Len(queue) = 0 /\ Len(output_queue) = 0
  BY <1>1, NothingIsSeq
<1>5. 1..0 = {}
  BY ONLY 0 \in Nat
<1>6. Modes
  BY <1>1, <1>2, <1>4, <1>5 DEF Modes
<1>7. Steady
  BY <1>1, <1>3, <1>4, <1>5 DEF Steady
<1>8. QED BY <1>6, <1>7

(* A step that changes no control.                                         *)
LEMMA SteadyKept ==
  ASSUME Frames, Steady, UNCHANGED <<codec, device, controls, current_tunings, mixed>>,
         \/ output_queue' = output_queue
         \/ output_queue # <<>> /\ output_queue' = Tail(output_queue)
  PROVE  Steady'
<1>1. CASE output_queue' = output_queue
  BY <1>1 DEF Steady
<1>2. CASE output_queue # <<>> /\ output_queue' = Tail(output_queue)
  <2> DEFINE q == Tail(output_queue)
  <2>1. /\ Len(q) = Len(output_queue) - 1
        /\ \A i \in 1..(Len(output_queue) - 1) : /\ q[i] = output_queue[i + 1]
                                                 /\ i + 1 \in 1..Len(output_queue)
    BY <1>2, IsSeqTail DEF Frames
  <2> HIDE DEF q
  <2>2. output_queue' = q
    BY <1>2 DEF q
  <2>3. \A i \in 1..Len(q) : \E k \in 1..Len(output_queue) : q[i] = output_queue[k]
    BY <2>1
  <2>4. QED BY <2>2, <2>3 DEF Steady
<1>3. QED BY <1>1, <1>2

LEMMA ModesKept ==
  ASSUME Requests, Modes, current_tunings' = current_tunings \/ HasMode(current_tunings'),
         tunings' = tunings \/ HasMode(tunings'),
         \/ queue' = queue
         \/ queue # <<>> /\ queue' = Tail(queue)
         \/ \E x : HasMode(x.tunings) /\ queue' = Append(queue, x)
  PROVE  Modes'
<1>1. HasMode(tunings') /\ HasMode(current_tunings')
  BY DEF Modes, HasMode
<1>2. \A i \in 1..Len(queue') : HasMode(queue'[i].tunings)
  <2>1. CASE queue' = queue
    BY <2>1 DEF Modes
  <2>2. CASE queue # <<>> /\ queue' = Tail(queue)
    <3> DEFINE q == Tail(queue)
    <3>1. /\ Len(q) = Len(queue) - 1
          /\ \A i \in 1..(Len(queue) - 1) : q[i] = queue[i + 1] /\ i + 1 \in 1..Len(queue)
      BY <2>2, IsSeqTail DEF Requests
    <3> HIDE DEF q
    <3>2. queue' = q
      BY <2>2 DEF q
    <3>3. \A i \in 1..Len(q) : \E k \in 1..Len(queue) : q[i] = queue[k]
      BY <3>1
    <3>4. QED BY <3>2, <3>3 DEF Modes
  <2>3. CASE \E x : HasMode(x.tunings) /\ queue' = Append(queue, x)
    <3>1. PICK x : HasMode(x.tunings) /\ queue' = Append(queue, x)
      BY <2>3
    <3> DEFINE q == Append(queue, x)
    <3>2. \A i \in 1..Len(q) : \/ i \in 1..Len(queue) /\ q[i] = queue[i]
                               \/ i = Len(queue) + 1 /\ q[i] = x
      BY IsSeqAppend DEF Requests
    <3> HIDE DEF q
    <3>3. queue' = q
      BY <3>1 DEF q
    <3>4. QED BY <3>1, <3>2, <3>3 DEF Modes
  <2>4. QED BY <2>1, <2>2, <2>3
<1>3. QED BY <1>1, <1>2 DEF Modes

(* A request given to the device: its tunings are there already, or are    *)
(* written now.                                                            *)
LEMMA HandledSteady ==
  ASSUME Frames, Steady, NEW r, HasMode(r.tunings), HandleRequest(r), UNCHANGED <<codec, device>>
  PROVE  Steady' /\ (current_tunings' = current_tunings \/ HasMode(current_tunings'))
<1> DEFINE t == r.tunings
           x == Tuned(t)
           f == [id |-> r.request_id, timestamp |-> r.meta.timestamp,
                 tunings |-> t, controls |-> controls']
<1>1. /\ controls' = x.controls
      /\ current_tunings' = IF x.ok THEN t ELSE current_tunings
      /\ mixed' = (mixed \/ ~x.ok)
      /\ output_queue' = output_queue \/ output_queue' = Append(output_queue, f)
  BY DEF HandleRequest, ApplyTunings
<1>2. Accepts(r) => x.ok
  BY DEF Accepts
<1>3. f.controls = controls' /\ f.tunings = t
  OBVIOUS
<1>4. x = IF t = current_tunings
            THEN [controls |-> controls, ok |-> TRUE]
            ELSE Apply(device, controls, Writes(codec, t))
  BY DEF Tuned
<1> HIDE DEF x, f
<1>5. CASE mixed'
  BY <1>1, <1>5 DEF Steady
<1>6. CASE ~mixed'
  <2>1. ~mixed /\ x.ok /\ current_tunings' = t
    BY <1>1, <1>6
  <2>2. /\ IsFunction(controls)
        /\ Settled(device, codec, controls, current_tunings)
        /\ \A i \in 1..Len(output_queue) :
             Settled(device, codec, output_queue[i].controls, output_queue[i].tunings)
    BY <2>1 DEF Steady
  <2>3. IsFunction(x.controls) /\ Settled(device, codec, x.controls, t)
    <3>1. CASE t = current_tunings
      <4>1. x.controls = controls
        BY <1>4, <3>1
      <4>2. QED BY <2>2, <3>1, <4>1
    <3>2. CASE t # current_tunings
      <4>1. x = Apply(device, controls, Writes(codec, t))
        BY <1>4, <3>2
      <4>2. QED BY <2>1, <2>2, <4>1, TunedSettles
    <3>3. QED BY <3>1, <3>2
  <2>4. \A i \in 1..Len(output_queue') :
          Settled(device, codec, output_queue'[i].controls, output_queue'[i].tunings)
    <3>1. CASE output_queue' = output_queue
      BY <2>2, <3>1
    <3>2. CASE output_queue' = Append(output_queue, f)
      <4> DEFINE q == Append(output_queue, f)
      <4>1. \A i \in 1..Len(q) : \/ i \in 1..Len(output_queue) /\ q[i] = output_queue[i]
                                 \/ i = Len(output_queue) + 1 /\ q[i] = f
        BY IsSeqAppend DEF Frames
      <4>2. output_queue' = q
        BY <3>2
      <4> HIDE DEF q
      <4>3. Settled(device, codec, f.controls, f.tunings)
        BY <1>1, <1>3, <2>3
      <4>4. QED BY <2>2, <4>1, <4>2, <4>3
    <3>3. QED BY <1>1, <3>1, <3>2
  <2>5. QED BY <1>1, <2>1, <2>3, <2>4 DEF Steady
<1>7. QED BY <1>1, <1>5, <1>6

LEMMA StepSteady == IInv /\ Modes /\ Steady /\ [Next]_vars => Modes' /\ Steady'
<1> SUFFICES ASSUME IInv, Modes, Steady, [Next]_vars PROVE Modes' /\ Steady'
  OBVIOUS
<1>1. Frames /\ Requests
  BY DEF IInv
<1>2. CASE ConsumeRequest
  <2>1. UNCHANGED <<codec, device, tunings>> /\ queue # <<>>
    BY <1>2 DEF ConsumeRequest, IInv, Control
  <2>2. CASE NumOutput = Len(output_queue)
    <3>1. UNCHANGED <<queue, controls, current_tunings, mixed, output_queue>>
      BY <1>2, <2>2 DEF ConsumeRequest, control_vars
    <3>2. QED BY <1>1, <2>1, <3>1, SteadyKept, ModesKept
  <2>3. CASE NumOutput # Len(output_queue)
    <3>1. HandleRequest(Head(queue)) /\ queue' = Tail(queue)
      BY <1>2, <2>3 DEF ConsumeRequest
    <3>2. HasMode(Head(queue).tunings)
      <4>1. Head(queue) = queue[1] /\ 1 \in 1..Len(queue)
        BY <1>1, <2>1, IsSeqTail DEF Requests
      <4>2. QED BY <4>1 DEF Modes
    <3>3. Steady' /\ (current_tunings' = current_tunings \/ HasMode(current_tunings'))
      BY <1>1, <2>1, <3>1, <3>2, HandledSteady
    <3>4. QED BY <1>1, <2>1, <3>1, <3>3, ModesKept
  <2>4. QED BY <2>2, <2>3
<1>3. CASE ~ConsumeRequest
  <2>1. UNCHANGED <<codec, device, controls, current_tunings, mixed>>
    BY <1>3 DEF Next, Calls, Runs, DeviceRuns, CallTune, CallEncode, CallPoll, CallDrain, PollBackend,
         Submit, Pop, Drain, Sync, PollDevice, HandleBuffers, Collect, DequeueLast, DrainEnds,
         Errors, StopFails, SyncFails, DrainFails, Device,
         DeviceCodes, DeviceEnds, encoder_vars, backend_vars, control_vars, vars
  <2>2. \/ output_queue' = output_queue
        \/ output_queue # <<>> /\ output_queue' = Tail(output_queue)
    BY <1>3 DEF Next, Calls, Runs, DeviceRuns, CallTune, CallEncode, CallPoll, CallDrain, PollBackend,
         Submit, Pop, Drain, Sync, PollDevice, HandleBuffers, Collect, DequeueLast, DrainEnds,
         Errors, StopFails, SyncFails, DrainFails, Device,
         DeviceCodes, DeviceEnds, encoder_vars, backend_vars, output_vars, vars
  <2>3. Steady'
    BY <1>1, <2>1, <2>2, SteadyKept
  <2>4. /\ tunings' = tunings \/ HasMode(tunings')
        /\ \/ queue' = queue
           \/ \E x : HasMode(x.tunings) /\ queue' = Append(queue, x)
    <3>1. CASE \E t \in TuningSets : CallTune(t)
      <4>1. PICK t \in TuningSets : tunings' = t /\ queue' = queue
        BY <3>1 DEF CallTune
      <4>2. HasMode(tunings')
        BY <4>1, StatefulEncoderAssumption DEF HasMode
      <4>3. QED BY <4>1, <4>2
    <3>2. CASE \E force \in BOOLEAN : CallEncode(force)
      <4>1. PICK force \in BOOLEAN : CallEncode(force)
        BY <3>2
      <4> DEFINE x == [request_id |-> request_counter, tunings |-> tunings,
                       meta |-> [timestamp |-> request_counter, force_keyframe |-> force]]
      <4>2. queue' = Append(queue, x) /\ tunings' = tunings
        BY <4>1 DEF CallEncode
      <4>3. x.tunings = tunings
        OBVIOUS
      <4> HIDE DEF x
      <4>4. HasMode(x.tunings)
        BY <4>3 DEF Modes
      <4>5. QED BY <4>2, <4>4
    <3>3. CASE ~(\E t \in TuningSets : CallTune(t)) /\ ~(\E force \in BOOLEAN : CallEncode(force))
      <4>1. UNCHANGED <<queue, tunings>>
        BY <1>3, <3>3 DEF Next, Calls, Runs, DeviceRuns, CallPoll, CallDrain, PollBackend,
             Submit, Pop, Drain, Sync, PollDevice, HandleBuffers, Collect, DequeueLast, DrainEnds,
         Errors, StopFails, SyncFails, DrainFails,
             encoder_vars, vars
      <4>2. QED BY <4>1
    <3>4. QED BY <3>1, <3>2, <3>3
  <2>5. QED BY <1>1, <2>1, <2>3, <2>4, ModesKept
<1>4. QED BY <1>2, <1>3

(* The device has what the tunings of a frame ask for when it gets the     *)
(* frame, as long as no change of tunings has failed (TunedForFrame).      *)
THEOREM FramesAreTuned == Spec => []TunedForFrame
<1>1. Init => Modes /\ Steady
  BY InitSteady
<1>2. IInv /\ Modes /\ Steady /\ [Next]_vars => Modes' /\ Steady'
  BY StepSteady
<1>3. IInv /\ Steady => TunedForFrame
  <2> SUFFICES ASSUME IInv, Steady, ~mixed, NEW frame \in Range(output_queue)
               PROVE  Settled(device, codec, frame.controls, frame.tunings)
    BY DEF TunedForFrame, Settled
  <2>1. DOMAIN output_queue = 1..Len(output_queue)
    BY IsSeqLen DEF IInv, Frames
  <2>2. PICK i \in 1..Len(output_queue) : frame = output_queue[i]
    BY <2>1 DEF Range
  <2>3. QED BY <2>2 DEF Steady
<1>4. QED BY Invariant, <1>1, <1>2, <1>3, PTL DEF Spec
=============================================================================
