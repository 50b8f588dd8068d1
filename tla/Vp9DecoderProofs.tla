--------------------------- MODULE Vp9DecoderProofs ---------------------------
(***************************************************************************)
(* Theorems of Vp9Decoder, for every set of formats, every set of          *)
(* superframes, every pool size and every kind of client.  What a          *)
(* superframe does is the last of a chain of results, one for each of its  *)
(* frames; so is the search for its largest frame.                         *)
(***************************************************************************)
EXTENDS Vp9Decoder, SequenceTheorems, FiniteSetTheorems, WellFoundedInduction, TLAPS

USE FormatAssumption

-----------------------------------------------------------------------------
(* A set with 0 that has the successor of each of its naturals has all of  *)
(* them: the form of induction a set can carry.                            *)
LEMMA SetInduction ==
  ASSUME NEW S, 0 \in S, \A n \in Nat : n \in S => n + 1 \in S
  PROVE  \A n \in Nat : n \in S
<1> DEFINE R == OpToRel(<, Nat)
           T == Nat \ S
<1> SUFFICES ASSUME T # {} PROVE FALSE
  OBVIOUS
<1>1. IsWellFoundedOn(R, Nat)
  BY NatLessThanWellFounded
<1>2. \A m, n \in Nat : m < n => <<m, n>> \in R
  BY DEF OpToRel
<1>3. T \in SUBSET Nat /\ T # {}
  OBVIOUS
<1> HIDE DEF R
<1>4. PICK n \in T : \A m \in T : ~ (<<m, n>> \in R)
  <2> HIDE DEF T
  <2>1. QED BY <1>1, <1>3, WFMin
<1>5. n \in Nat /\ n # 0 /\ n \notin S
  BY <1>4
<1>6. n - 1 \in Nat /\ (n - 1) + 1 = n /\ n - 1 < n
  BY <1>5
<1>7. n - 1 \in S
  BY <1>2, <1>4, <1>5, <1>6
<1>8. QED BY <1>5, <1>6, <1>7

LEMMA StateTypes ==
  /\ State("AwaitingStreamInfo") \in DecodingStates
  /\ State("Decoding") \in DecodingStates
  /\ State("Reset") \in DecodingStates
  /\ State("FlushingForDRC") \in DecodingStates
  /\ \A f \in Formats : AwaitingFormat(f) \in DecodingStates
  /\ \A s \in DecodingStates :
       s.name = "AwaitingFormat" => s.format \in Formats /\ s = AwaitingFormat(s.format)
  /\ \A n \in {"AwaitingStreamInfo", "Decoding", "Reset", "FlushingForDRC"} :
       State(n).name = n
  /\ \A f : AwaitingFormat(f).name = "AwaitingFormat" /\ AwaitingFormat(f).format = f
<1> USE DEF State, AwaitingFormat
<1>1. /\ State("AwaitingStreamInfo") \in DecodingStates
      /\ State("Decoding") \in DecodingStates
      /\ State("Reset") \in DecodingStates
      /\ State("FlushingForDRC") \in DecodingStates
  BY DEF DecodingStates
<1>2. \A f \in Formats : AwaitingFormat(f) \in DecodingStates
  BY DEF DecodingStates
<1>3. \A s \in DecodingStates :
        s.name = "AwaitingFormat" => s.format \in Formats /\ s = AwaitingFormat(s.format)
  BY DEF DecodingStates
<1>4. /\ \A n \in {"AwaitingStreamInfo", "Decoding", "Reset", "FlushingForDRC"} :
            State(n).name = n
      /\ \A f : AwaitingFormat(f).name = "AwaitingFormat" /\ AwaitingFormat(f).format = f
  OBVIOUS
<1>5. QED BY <1>1, <1>2, <1>3, <1>4

LEMMA ChunkTypes ==
  ASSUME NEW c \in Chunks
  PROVE  /\ c \in Seq(ShownFrame \cup CodedFrame) /\ Len(c) \in Nat \ {0} /\ DOMAIN c = 1..Len(c)
         /\ \A i \in 1..Len(c) :
              /\ c[i].show_existing_frame \in BOOLEAN
              /\ c[i].format \in Formats \cup {NoFormat}
              /\ c[i].show_existing_frame => c[i].slot \in Slots /\ c[i].format = NoFormat
              /\ ~c[i].show_existing_frame =>
                   c[i].key_frame \in BOOLEAN /\ c[i].show_frame \in BOOLEAN /\ c[i].refresh \subseteq Slots
         /\ c # NoChunk
<1>1. c \in Seq(ShownFrame \cup CodedFrame) /\ c # <<>>
  BY Vp9Assumption
<1>2. Len(c) \in Nat /\ Len(c) # 0 /\ DOMAIN c = 1..Len(c)
  BY <1>1, EmptySeq, LenProperties
<1>3. \A i \in 1..Len(c) : c[i] \in ShownFrame \cup CodedFrame
  BY <1>1, <1>2, ElementOfSeq
<1>4. QED BY <1>1, <1>2, <1>3, ClientAssumption DEF ShownFrame, CodedFrame

-----------------------------------------------------------------------------
(* The largest frame of a superframe.                                      *)

LargestSoFar(c, n, g) ==
  g = [i \in 1..n |-> IF i > 1 /\ Beats(g[i - 1].format, c[i].format) THEN g[i - 1] ELSE c[i]]

LEMMA LargestChain ==
  ASSUME NEW c
  PROVE  \A n \in Nat : \E g : LargestSoFar(c, n, g)
<1> DEFINE S == {n \in Nat : \E g : LargestSoFar(c, n, g)}
<1>1. 0 \in S
  <2> DEFINE g == [i \in 1..0 |-> c[i]]
  <2>1. LargestSoFar(c, 0, g)
    BY DEF LargestSoFar
  <2>2. QED BY <2>1
<1>2. \A n \in Nat : n \in S => n + 1 \in S
  <2> SUFFICES ASSUME NEW n \in Nat, NEW g, LargestSoFar(c, n, g)
               PROVE  \E h : LargestSoFar(c, n + 1, h)
    OBVIOUS
  <2> DEFINE next == IF n + 1 > 1 /\ Beats(g[n].format, c[n + 1].format) THEN g[n] ELSE c[n + 1]
             h == [i \in 1..(n + 1) |-> IF i <= n THEN g[i] ELSE next]
  <2>1. \A i \in 1..n : g[i] = IF i > 1 /\ Beats(g[i - 1].format, c[i].format) THEN g[i - 1] ELSE c[i]
    BY DEF LargestSoFar
  <2>2. \A i \in 1..(n + 1) :
          h[i] = IF i > 1 /\ Beats(h[i - 1].format, c[i].format) THEN h[i - 1] ELSE c[i]
    <3> SUFFICES ASSUME NEW i \in 1..(n + 1)
                 PROVE  h[i] = IF i > 1 /\ Beats(h[i - 1].format, c[i].format) THEN h[i - 1] ELSE c[i]
      OBVIOUS
    <3>1. CASE i <= n
      <4>1. i \in 1..n /\ h[i] = g[i] /\ (i > 1 => h[i - 1] = g[i - 1])
        BY <3>1
      <4>2. QED BY <2>1, <4>1
    <3>2. CASE i = n + 1
      <4>1. h[i] = next /\ (i > 1 => h[i - 1] = g[n])
        BY <3>2
      <4>2. QED BY <3>2, <4>1
    <3>3. QED BY <3>1, <3>2
  <2>3. h = [i \in 1..(n + 1) |-> h[i]]
    OBVIOUS
  <2> HIDE DEF h
  <2>4. h = [i \in 1..(n + 1) |-> IF i > 1 /\ Beats(h[i - 1].format, c[i].format) THEN h[i - 1] ELSE c[i]]
    BY <2>2, <2>3
  <2>5. LargestSoFar(c, n + 1, h)
    BY <2>4 DEF LargestSoFar
  <2>6. QED BY <2>5
<1> HIDE DEF S
<1>3. \A n \in Nat : n \in S
  BY <1>1, <1>2, SetInduction
<1>4. QED BY <1>3 DEF S

(* The layers of a superframe are sizes of which one contains the other.   *)
Comparable(c) ==
  \A i, j \in 1..Len(c) : CanContain(c[i].format, c[j].format) \/ CanContain(c[j].format, c[i].format)

LEMMA ContainFacts ==
  /\ \A f \in Formats \cup {NoFormat} : CanContain(f, f) /\ CanContain(f, NoFormat)
  /\ \A f \in Formats \cup {NoFormat} : CanContain(NoFormat, f) => f = NoFormat
  /\ \A f, g, h \in Formats \cup {NoFormat} :
       CanContain(f, g) /\ CanContain(g, h) => CanContain(f, h)
<1>1. \A f \in Formats \cup {NoFormat} : CanContain(NoFormat, f) => f = NoFormat
  BY Vp9Assumption DEF CanContain
<1>2. \A f \in Formats \cup {NoFormat} : CanContain(f, f) /\ CanContain(f, NoFormat)
  BY Vp9Assumption DEF CanContain
<1>3. \A f, g, h \in Formats \cup {NoFormat} :
        CanContain(f, g) /\ CanContain(g, h) => CanContain(f, h)
  BY <1>1, Vp9Assumption DEF CanContain
<1>4. QED BY <1>1, <1>2, <1>3

(* It is of a frame's format, has a size if any frame has one, and         *)
(* contains every frame if one of each two contains the other.             *)
LEMMA LargestFacts ==
  ASSUME NEW c \in Chunks
  PROVE  /\ ChunkFormat(c) \in Formats \cup {NoFormat}
         /\ ChunkFormat(c) = NoFormat => \A i \in 1..Len(c) : c[i].format = NoFormat
         /\ \E i \in 1..Len(c) : ChunkFormat(c) = c[i].format
         /\ Comparable(c) => \A i \in 1..Len(c) : CanContain(ChunkFormat(c), c[i].format)
<1> DEFINE largest[i \in 1..Len(c)] ==
             IF i > 1 /\ Beats(largest[i - 1].format, c[i].format) THEN largest[i - 1] ELSE c[i]
<1>1. Len(c) \in Nat \ {0} /\ \A i \in 1..Len(c) : c[i].format \in Formats \cup {NoFormat}
  BY ChunkTypes
<1>2. \E g : LargestSoFar(c, Len(c), g)
  BY <1>1, LargestChain
<1>3. LargestSoFar(c, Len(c), largest)
  BY <1>2 DEF LargestSoFar
<1>4. ChunkFormat(c) = largest[Len(c)].format
  BY DEF ChunkFormat, LargestFormat, Largest
<1> HIDE DEF largest
<1>5. \A i \in 1..Len(c) :
        largest[i] = IF i > 1 /\ Beats(largest[i - 1].format, c[i].format) THEN largest[i - 1] ELSE c[i]
  BY <1>3 DEF LargestSoFar
<1> DEFINE Right(n) ==
             /\ \E i \in 1..n : largest[n] = c[i]
             /\ largest[n].format = NoFormat => \A i \in 1..n : c[i].format = NoFormat
             /\ Comparable(c) => \A i \in 1..n : CanContain(largest[n].format, c[i].format)
           S == {n \in Nat : n \in 1..Len(c) => Right(n)}
<1>6. 0 \in S
  OBVIOUS
<1>7. \A n \in Nat : n \in S => n + 1 \in S
  <2> SUFFICES ASSUME NEW n \in Nat, n \in S, n + 1 \in 1..Len(c)
               PROVE  Right(n + 1)
    OBVIOUS
  <2>a. (n + 1) - 1 = n /\ (n # 0 => n + 1 > 1)
    OBVIOUS
  <2>1. CASE n = 0
    <3>1. largest[1] = c[1] /\ 1 \in 1..Len(c)
      BY <1>1, <1>5
    <3>2. CanContain(c[1].format, c[1].format)
      BY <1>1, <3>1, ContainFacts
    <3>3. QED BY <2>1, <3>1, <3>2
  <2>2. CASE n # 0
    <3>1. n \in 1..Len(c) /\ Right(n)
      BY <1>1, <2>2
    <3>2. PICK k \in 1..n : largest[n] = c[k]
      BY <3>1
    <3>3. k \in 1..Len(c) /\ c[k].format \in Formats \cup {NoFormat} /\ c[n + 1].format \in Formats \cup {NoFormat}
      BY <1>1, <3>1, <3>2
    <3>4. \A i \in 1..(n + 1) : i \in 1..n \/ i = n + 1
      OBVIOUS
    <3>5. \A i \in 1..n : i \in 1..(n + 1) /\ c[i].format \in Formats \cup {NoFormat}
      BY <1>1, <3>1
    <3>6. CASE Beats(c[k].format, c[n + 1].format)
      <4>1. largest[n + 1] = c[k]
        BY <1>5, <2>2, <2>a, <3>2, <3>6
      <4>2. CanContain(c[k].format, c[n + 1].format) /\ ~CanContain(c[n + 1].format, c[k].format)
        BY <3>6 DEF Beats
      <4>3. c[k].format = NoFormat => c[n + 1].format = NoFormat
        BY <3>3, <4>2, ContainFacts
      <4>4. QED BY <3>1, <3>2, <3>4, <3>5, <4>1, <4>2, <4>3
    <3>7. CASE ~Beats(c[k].format, c[n + 1].format)
      <4>1. largest[n + 1] = c[n + 1]
        BY <1>5, <2>a, <3>2, <3>7
      <4>2. c[n + 1].format = NoFormat => c[k].format = NoFormat
        BY <3>3, <3>7, ContainFacts DEF Beats
      <4>3. Comparable(c) => CanContain(c[n + 1].format, c[k].format)
        BY <3>3, <3>7 DEF Beats, Comparable
      <4>4. Comparable(c) => \A i \in 1..n : CanContain(c[n + 1].format, c[i].format)
        BY <3>1, <3>2, <3>3, <3>5, <4>3, ContainFacts
      <4>5. CanContain(c[n + 1].format, c[n + 1].format)
        BY <3>3, ContainFacts
      <4>6. QED BY <3>1, <3>2, <3>4, <4>1, <4>2, <4>4, <4>5
    <3>8. QED BY <3>6, <3>7
  <2>3. QED BY <2>1, <2>2
<1>8. \A n \in Nat : n \in S
  <2> HIDE DEF S
  <2>1. QED BY <1>6, <1>7, SetInduction
<1>9. Right(Len(c))
  BY <1>1, <1>8
<1>10. QED BY <1>1, <1>4, <1>9
-----------------------------------------------------------------------------
(* What the frames of a superframe do, one after another.                  *)

Untouched == [references |-> reference_frames, output |-> <<>>, made |-> 0, ok |-> TRUE]

HandledSoFar(frames, n, g) ==
  g = [i \in 0..n |-> IF i = 0 THEN Untouched ELSE HandleFrame(g[i - 1], frames[i])]

LEMMA HandledChain ==
  ASSUME NEW frames
  PROVE  \A n \in Nat : \E g : HandledSoFar(frames, n, g)
<1> DEFINE S == {n \in Nat : \E g : HandledSoFar(frames, n, g)}
<1>1. 0 \in S
  <2> DEFINE g == [i \in 0..0 |-> Untouched]
  <2>1. HandledSoFar(frames, 0, g)
    BY DEF HandledSoFar
  <2>2. QED BY <2>1
<1>2. \A n \in Nat : n \in S => n + 1 \in S
  <2> SUFFICES ASSUME NEW n \in Nat, NEW g, HandledSoFar(frames, n, g)
               PROVE  \E h : HandledSoFar(frames, n + 1, h)
    OBVIOUS
  <2> DEFINE h == [i \in 0..(n + 1) |-> IF i <= n THEN g[i] ELSE HandleFrame(g[n], frames[n + 1])]
  <2>1. \A i \in 0..n : g[i] = IF i = 0 THEN Untouched ELSE HandleFrame(g[i - 1], frames[i])
    BY DEF HandledSoFar
  <2>2. \A i \in 0..(n + 1) : h[i] = IF i = 0 THEN Untouched ELSE HandleFrame(h[i - 1], frames[i])
    <3> SUFFICES ASSUME NEW i \in 0..(n + 1)
                 PROVE  h[i] = IF i = 0 THEN Untouched ELSE HandleFrame(h[i - 1], frames[i])
      OBVIOUS
    <3>1. CASE i = 0
      BY <2>1, <3>1
    <3>2. CASE i # 0 /\ i <= n
      <4>1. h[i] = g[i] /\ h[i - 1] = g[i - 1] /\ i \in 0..n
        BY <3>2
      <4>2. QED BY <2>1, <3>2, <4>1
    <3>3. CASE i = n + 1
      <4>1. h[i] = HandleFrame(g[n], frames[n + 1]) /\ h[i - 1] = g[n] /\ i # 0
        BY <3>3
      <4>2. QED BY <3>3, <4>1
    <3>4. QED BY <3>1, <3>2, <3>3
  <2>3. h = [i \in 0..(n + 1) |-> h[i]]
    OBVIOUS
  <2> HIDE DEF h
  <2>4. h = [i \in 0..(n + 1) |-> IF i = 0 THEN Untouched ELSE HandleFrame(h[i - 1], frames[i])]
    BY <2>2, <2>3
  <2>5. HandledSoFar(frames, n + 1, h)
    BY <2>4 DEF HandledSoFar
  <2>6. QED BY <2>5
<1> HIDE DEF S
<1>3. \A n \in Nat : n \in S
  BY <1>1, <1>2, SetInduction
<1>4. QED BY <1>3 DEF S

(* A result whose references and output are handles of the set T.          *)
Results(T) ==
  [references : [Slots -> T \cup {NoHandle}], output : Seq(T), made : Nat, ok : BOOLEAN]

(* The handles made of these frames are in T.                              *)
Makes(frames, T) ==
  \A i \in 1..Len(frames) : ~frames[i].show_existing_frame =>
    \A m \in Nat : [id |-> num_handles + m + 1, format |-> frames[i].format] \in T

IsFrame(f) ==
  /\ f.show_existing_frame \in BOOLEAN
  /\ f.show_existing_frame => f.slot \in Slots
  /\ ~f.show_existing_frame => f.show_frame \in BOOLEAN /\ f.refresh \subseteq Slots

LEMMA HandleFrameFacts ==
  ASSUME NEW T, NoHandle \notin T, NEW r \in Results(T), NEW f, IsFrame(f),
         ~f.show_existing_frame =>
           \A m \in Nat : [id |-> num_handles + m + 1, format |-> f.format] \in T
  PROVE  LET s == HandleFrame(r, f) IN
         /\ s \in Results(T)
         /\ ~f.show_existing_frame /\ f.refresh = Slots /\ r.ok => s.references \in [Slots -> T]
         /\ r.references \in [Slots -> T] => s.references \in [Slots -> T]
         /\ f.show_existing_frame => s.references = r.references
<1> DEFINE s == HandleFrame(r, f)
           h == [id |-> num_handles + r.made + 1, format |-> f.format]
           known == r.references[f.slot]
           kept == [i \in Slots |-> IF i \in f.refresh THEN h ELSE r.references[i]]
           shown == IF f.show_frame THEN Append(r.output, h) ELSE r.output
<1>1. /\ r.references \in [Slots -> T \cup {NoHandle}] /\ r.output \in Seq(T) /\ r.made \in Nat /\ r.ok \in BOOLEAN
      /\ r = [references |-> r.references, output |-> r.output, made |-> r.made, ok |-> r.ok]
  BY DEF Results
<1>2. CASE ~r.ok
  <2>1. s = r
    BY <1>2 DEF HandleFrame
  <2>2. QED BY <1>2, <2>1
<1>3. CASE r.ok /\ f.show_existing_frame /\ known = NoHandle
  <2>1. s = [r EXCEPT !.ok = FALSE]
    BY <1>3 DEF HandleFrame
  <2> HIDE DEF s
  <2>2. s = [references |-> r.references, output |-> r.output, made |-> r.made, ok |-> FALSE]
    BY <1>1, <2>1
  <2>3. QED BY <1>1, <1>3, <2>2 DEF Results, s
<1>4. CASE r.ok /\ f.show_existing_frame /\ known # NoHandle
  <2>1. s = [r EXCEPT !.output = Append(r.output, known)]
    BY <1>1, <1>4 DEF HandleFrame
  <2>2. known \in T
    BY <1>1, <1>4 DEF IsFrame
  <2>3. Append(r.output, known) \in Seq(T)
    BY ONLY <1>1, <2>2, AppendProperties
  <2> HIDE DEF s, known
  <2>4. s = [references |-> r.references, output |-> Append(r.output, known), made |-> r.made, ok |-> r.ok]
    BY <1>1, <2>1
  <2>5. QED BY <1>1, <1>4, <2>3, <2>4 DEF Results, s
<1>5. CASE r.ok /\ ~f.show_existing_frame
  <2>1. s = [r EXCEPT !.references = kept, !.output = shown, !.made = r.made + 1]
    BY <1>1, <1>5 DEF HandleFrame
  <2>2. h \in T
    BY <1>1, <1>5
  <2> HIDE DEF h
  <2>3. shown \in Seq(T)
    BY <1>1, <2>2, AppendProperties
  <2>4. kept \in [Slots -> T \cup {NoHandle}]
    BY <1>1, <2>2
  <2>5. f.refresh = Slots \/ r.references \in [Slots -> T] => kept \in [Slots -> T]
    BY <1>1, <2>2
  <2> HIDE DEF s, kept, shown
  <2>6. s = [references |-> kept, output |-> shown, made |-> r.made + 1, ok |-> r.ok]
    BY <1>1, <2>1
  <2>7. s \in Results(T) /\ s.references = kept
    BY <1>1, <2>3, <2>4, <2>6 DEF Results
  <2>8. QED BY <1>5, <2>5, <2>7 DEF s
<1>6. QED BY <1>1, <1>2, <1>3, <1>4, <1>5 DEF IsFrame

(* The frames of a superframe leave handles of T, in the slots and in what *)
(* is output, if they make such; and with a key frame in front none of the *)
(* slots is left empty, nor where none was before.                         *)
LEMMA HandleFramesFacts ==
  ASSUME NEW T, NoHandle \notin T, NEW frames, Len(frames) \in Nat,
         \A i \in 1..Len(frames) : IsFrame(frames[i]),
         Makes(frames, T), reference_frames \in [Slots -> T \cup {NoHandle}]
  PROVE  LET r == HandleFrames(frames) IN
         /\ r \in Results(T)
         /\ (Len(frames) > 0 /\ ~frames[1].show_existing_frame /\ frames[1].refresh = Slots)
              \/ reference_frames \in [Slots -> T]
            => r.references \in [Slots -> T]
<1> DEFINE after[i \in 0..Len(frames)] ==
             IF i = 0
               THEN [references |-> reference_frames, output |-> <<>>, made |-> 0, ok |-> TRUE]
               ELSE HandleFrame(after[i - 1], frames[i])
           Whole(r) == r.references \in [Slots -> T]
           Fills == ~frames[1].show_existing_frame /\ frames[1].refresh = Slots
           Right(n) ==
             /\ after[n] \in Results(T)
             /\ n = 0 => after[n] = Untouched
             /\ Whole(Untouched) => Whole(after[n])
             /\ n > 0 /\ Fills => Whole(after[n])
           S == {n \in Nat : n \in 0..Len(frames) => Right(n)}
<1>1. \E g : HandledSoFar(frames, Len(frames), g)
  BY HandledChain
<1>2. HandledSoFar(frames, Len(frames), after)
  BY <1>1 DEF HandledSoFar, Untouched
<1>3. HandleFrames(frames) = after[Len(frames)]
  BY DEF HandleFrames
<1> HIDE DEF after
<1>4. \A i \in 0..Len(frames) : after[i] = IF i = 0 THEN Untouched ELSE HandleFrame(after[i - 1], frames[i])
  BY <1>2 DEF HandledSoFar
<1>5. Untouched \in Results(T) /\ Untouched.ok /\ Untouched.references = reference_frames
  BY EmptySeq DEF Untouched, Results
<1>6. 0 \in S
  BY <1>4, <1>5
<1>7. \A n \in Nat : n \in S => n + 1 \in S
  <2> SUFFICES ASSUME NEW n \in Nat, n \in S, n + 1 \in 0..Len(frames)
               PROVE  Right(n + 1)
    OBVIOUS
  <2>1. /\ n \in 0..Len(frames) /\ n + 1 \in 1..Len(frames) /\ (n + 1) - 1 = n /\ n + 1 # 0
        /\ n # 0 => n > 0
    OBVIOUS
  <2>2. Right(n)
    BY <2>1
  <2>3. after[n + 1] = HandleFrame(after[n], frames[n + 1])
    BY <1>4, <2>1
  <2>4. IsFrame(frames[n + 1])
    BY <2>1
  <2>5. ~frames[n + 1].show_existing_frame =>
          \A m \in Nat : [id |-> num_handles + m + 1, format |-> frames[n + 1].format] \in T
    BY <2>1 DEF Makes
  <2>6. /\ after[n + 1] \in Results(T)
        /\ ~frames[n + 1].show_existing_frame /\ frames[n + 1].refresh = Slots /\ after[n].ok =>
             Whole(after[n + 1])
        /\ Whole(after[n]) => Whole(after[n + 1])
    BY <2>2, <2>3, <2>4, <2>5, HandleFrameFacts
  <2> HIDE DEF Whole
  <2>7. CASE n = 0
    BY <1>5, <2>1, <2>2, <2>6, <2>7
  <2>8. CASE n # 0
    BY <2>1, <2>2, <2>6, <2>8
  <2>9. QED BY <2>7, <2>8
<1>8. \A n \in Nat : n \in S
  <2> HIDE DEF S
  <2>1. QED BY <1>6, <1>7, SetInduction
<1>9. Right(Len(frames))
  BY <1>8
<1>10. QED BY <1>3, <1>5, <1>9
-----------------------------------------------------------------------------
(* The format of the stream, and of what is submitted.                     *)

(* All frames that are coded have a size, or none has.                     *)
Sized(c) == \A i \in 1..Len(c) : c[i].show_existing_frame \/ c[i].format \in Formats
Unsized(c) == \A i \in 1..Len(c) : c[i].format = NoFormat

(* A chunk has sizes once the stream has, and until then the client has    *)
(* not accepted a format.                                                  *)
Streams ==
  /\ outcome = "Ok" => chunk = NoChunk
  /\ outcome \in Refusals =>
       chunk \in Chunks /\ (Sized(chunk) \/ (Unsized(chunk) /\ stream_format = NoFormat))
  /\ stream_format = NoFormat => accepted_format = NoFormat /\ ~InState("AwaitingFormat")
  /\ pool_start <= num_handles

LEMMA PictureFacts ==
  ASSUME NEW c \in Chunks, NEW i \in 1..Len(c)
  PROVE  /\ IsFiniteSet(Pictures(c, i)) /\ Cardinality(Pictures(c, i)) \in Nat
         /\ \A k \in 1..i : ~c[k].show_existing_frame => Cardinality(Pictures(c, i)) # 0
         /\ (\A k \in 1..i : ~c[k].show_existing_frame) => Cardinality(Pictures(c, i)) = i
<1>1. i \in Nat /\ i >= 1
  BY ChunkTypes
<1>2. IsFiniteSet(1..i) /\ Cardinality(1..i) = i
  BY <1>1, FS_Interval
<1>3. Pictures(c, i) \in SUBSET (1..i)
  BY DEF Pictures
<1>4. IsFiniteSet(Pictures(c, i))
  BY <1>2, <1>3, FS_Subset
<1>5. Cardinality(Pictures(c, i)) \in Nat
  BY <1>4, FS_CardinalityType
<1>6. Cardinality(Pictures(c, i)) = 0 <=> Pictures(c, i) = {}
  BY <1>4, FS_EmptySet
<1>7. (\A k \in 1..i : ~c[k].show_existing_frame) => Pictures(c, i) = 1..i
  BY DEF Pictures
<1>8. \A k \in 1..i : ~c[k].show_existing_frame => k \in Pictures(c, i)
  BY DEF Pictures
<1>9. QED BY <1>2, <1>4, <1>5, <1>6, <1>7, <1>8

LEMMA SubmittedFacts ==
  ASSUME NEW c \in Chunks, Submits(c), Streams, stream_format \in Formats \cup {NoFormat}
  PROVE  /\ Sized(c) \/ (Unsized(c) /\ stream_format = NoFormat /\ stream_format' = NoFormat)
         /\ stream_format' \in Formats \cup {NoFormat}
         /\ stream_format' = NoFormat => stream_format = NoFormat /\ ChunkFormat(c) = NoFormat
         /\ outcome # "Error" /\ c # NoChunk
<1>1. /\ ChunkFormat(c) \in Formats \cup {NoFormat}
      /\ \E i \in 1..Len(c) : ChunkFormat(c) = c[i].format
  BY LargestFacts
<1>2. /\ Len(c) \in Nat \ {0} /\ DOMAIN c = 1..Len(c) /\ c # NoChunk
      /\ \A i \in 1..Len(c) : c[i].show_existing_frame \in BOOLEAN /\ c[i].format \in Formats \cup {NoFormat}
      /\ \A i \in 1..Len(c) : c[i].show_existing_frame => c[i].format = NoFormat
  BY ChunkTypes
<1>3. /\ MayDecode(c) /\ (c # chunk => Follows(c))
      /\ stream_format' = IF ChunkFormat(c) = NoFormat THEN stream_format ELSE ChunkFormat(c)
  BY DEF Submits
<1>4. outcome # "Error" /\ (outcome = "Ok" \/ outcome \in Refusals)
  BY <1>3 DEF MayDecode, Refusals
<1>5. Sized(c) \/ (Unsized(c) /\ stream_format = NoFormat)
  <2>1. CASE c = chunk
    BY <1>2, <1>4, <2>1 DEF Streams
  <2>2. CASE c # chunk /\ StartsWithKey(c)
    <3>1. 1 \in DOMAIN c /\ ~c[1].show_existing_frame /\ c[1].key_frame
      BY <1>2, <2>2 DEF StartsWithKey
    <3>2. \A k \in 1..Len(c) : c[k].show_existing_frame \/ c[k].format \in Formats
      BY <3>1, Vp9Assumption
    <3>3. QED BY <3>2 DEF Sized
  <2>3. CASE c # chunk /\ ~StartsWithKey(c)
    <3>1. \A i \in 1..Len(c) :
            c[i].show_existing_frame \/ (c[i].format = NoFormat <=> stream_format = NoFormat)
      BY <1>2, <1>3, <2>3 DEF Follows
    <3>2. CASE stream_format = NoFormat
      BY <1>2, <3>1, <3>2 DEF Unsized
    <3>3. CASE stream_format # NoFormat
      BY <1>2, <3>1, <3>3 DEF Sized
    <3>4. QED BY <3>2, <3>3
  <2>4. QED BY <2>1, <2>2, <2>3
<1>6. Unsized(c) => ChunkFormat(c) = NoFormat
  BY <1>1 DEF Unsized
<1>7. QED BY <1>1, <1>2, <1>3, <1>4, <1>5, <1>6

(* The frames of the client's pool that fit in its buffers: what a chunk   *)
(* that is ready to be decoded makes of its pictures.                      *)
FitFrames == {h \in Handle : h.id > pool_start /\ CanContain(accepted_format, h.format)}

LEMMA ReadyFacts ==
  ASSUME NEW c \in Chunks, Streams, stream_format \in Formats \cup {NoFormat},
         accepted_format \in Formats \cup {NoFormat}, num_handles \in Nat, pool_start \in Nat,
         ReadyToDecode(c), CanAlloc(AllPictures(c), ReferenceSet),
         NEW k \in 1..Len(c), ~c[k].show_existing_frame
  PROVE  /\ accepted_format \in Formats /\ ChunkFormat(c) = accepted_format /\ Sized(c)
         /\ Makes(c, Handle)
         /\ Comparable(c) => Makes(c, FitFrames)
<1>1. Submits(c) /\ ~Renegotiates(c)
  BY DEF ReadyToDecode
<1>2. Len(c) \in Nat \ {0} /\ \A i \in 1..Len(c) : c[i].format \in Formats \cup {NoFormat}
  BY ChunkTypes
<1>3. AllPictures(c) \in Nat \ {0}
  <2>1. Len(c) \in 1..Len(c)
    BY <1>2
  <2>2. QED BY <2>1, PictureFacts DEF AllPictures
<1>4. accepted_format # NoFormat
  BY <1>3 DEF CanAlloc, FreeFrames
<1>5. stream_format # NoFormat
  BY <1>4 DEF Streams
<1>6. Sized(c)
  BY <1>1, <1>5, SubmittedFacts
<1>7. c[k].format \in Formats
  BY <1>6 DEF Sized
<1>8. ChunkFormat(c) # NoFormat
  BY <1>7, LargestFacts
<1>9. ChunkFormat(c) = accepted_format
  BY <1>1, <1>8 DEF Renegotiates
<1>10. \A i \in 1..Len(c) : ~c[i].show_existing_frame =>
         \A m \in Nat : [id |-> num_handles + m + 1, format |-> c[i].format] \in Handle
  <2> SUFFICES ASSUME NEW i \in 1..Len(c), ~c[i].show_existing_frame, NEW m \in Nat
               PROVE  [id |-> num_handles + m + 1, format |-> c[i].format] \in Handle
    OBVIOUS
  <2>1. num_handles + m + 1 \in Nat /\ c[i].format \in Formats
    BY <1>6 DEF Sized
  <2>2. QED BY <2>1 DEF Handle
<1>11. Comparable(c) => \A i \in 1..Len(c) : CanContain(accepted_format, c[i].format)
  BY <1>9, LargestFacts
<1>12. Comparable(c) => Makes(c, FitFrames)
  <2>1. \A m \in Nat : num_handles + m + 1 > pool_start
    BY DEF Streams
  <2>2. QED BY <2>1, <1>10, <1>11 DEF Makes, FitFrames
<1>13. QED BY <1>4, <1>6, <1>9, <1>10, <1>12 DEF Makes
(* The frames of a chunk up to the n-th, all of them or those before a     *)
(* picture that fails.                                                     *)
LEMMA PrefixFacts ==
  ASSUME NEW c \in Chunks, Streams, stream_format \in Formats \cup {NoFormat},
         accepted_format \in Formats \cup {NoFormat}, num_handles \in Nat, pool_start \in Nat,
         ReadyToDecode(c), NEW n \in 0..Len(c), n = 0 \/ CanAlloc(AllPictures(c), ReferenceSet),
         NEW T, NoHandle \notin T, T = Handle \/ (Comparable(c) /\ T = FitFrames),
         reference_frames \in [Slots -> T \cup {NoHandle}]
  PROVE  /\ Len(SubSeq(c, 1, n)) = n
         /\ Makes(SubSeq(c, 1, n), T)
         /\ HandleFrames(SubSeq(c, 1, n)) \in Results(T)
<1> DEFINE f == SubSeq(c, 1, n)
<1>1. /\ c \in Seq(ShownFrame \cup CodedFrame) /\ Len(c) \in Nat \ {0}
      /\ \A i \in 1..Len(c) :
              /\ c[i].show_existing_frame \in BOOLEAN
              /\ c[i].show_existing_frame => c[i].slot \in Slots
              /\ ~c[i].show_existing_frame => c[i].show_frame \in BOOLEAN /\ c[i].refresh \subseteq Slots
  BY ChunkTypes
<1>2. /\ Len(f) = n
      /\ \A i \in 1..n : i \in 1..Len(c) /\ f[i] = c[i]
  <2>1. n \in Nat
    OBVIOUS
  <2>2. CASE n = 0
    BY <1>1, <2>2
  <2>3. CASE n # 0
    BY <1>1, <2>1, <2>3
  <2>4. QED BY <2>2, <2>3
<1> HIDE DEF f
<1>3. Makes(f, T)
  <2> SUFFICES ASSUME NEW i \in 1..Len(f), ~f[i].show_existing_frame
               PROVE  \A m \in Nat : [id |-> num_handles + m + 1, format |-> f[i].format] \in T
    BY DEF Makes
  <2>1. i \in 1..Len(c) /\ f[i] = c[i] /\ n # 0 /\ ~c[i].show_existing_frame
    BY <1>2
  <2>2. Makes(c, T)
    BY <2>1, ReadyFacts
  <2>3. QED BY <2>1, <2>2 DEF Makes
<1>4. \A i \in 1..Len(f) : IsFrame(f[i])
  BY <1>1, <1>2 DEF IsFrame
<1>5. HandleFrames(f) \in Results(T)
  <2>1. Len(f) \in Nat
    BY <1>2
  <2>2. QED BY <1>3, <1>4, <2>1, HandleFramesFacts
<1>6. QED BY <1>2, <1>3, <1>5 DEF f

LEMMA DecodedFacts ==
  ASSUME NEW c \in Chunks, Streams, stream_format \in Formats \cup {NoFormat},
         accepted_format \in Formats \cup {NoFormat}, num_handles \in Nat, pool_start \in Nat, Decoded(c),
         NEW T, NoHandle \notin T, T = Handle \/ (Comparable(c) /\ T = FitFrames),
         reference_frames \in [Slots -> T \cup {NoHandle}]
  PROVE  /\ HandleFrames(c) \in Results(T)
         /\ reference_frames \in [Slots -> T] \/ StartsWithKey(c) =>
              reference_frames' \in [Slots -> T]
<1>1. /\ c \in Seq(ShownFrame \cup CodedFrame) /\ Len(c) \in Nat \ {0} /\ DOMAIN c = 1..Len(c)
      /\ \A i \in 1..Len(c) :
              /\ c[i].show_existing_frame \in BOOLEAN
              /\ c[i].show_existing_frame => c[i].slot \in Slots
              /\ ~c[i].show_existing_frame => c[i].show_frame \in BOOLEAN /\ c[i].refresh \subseteq Slots
  BY ChunkTypes
<1>2. SubSeq(c, 1, Len(c)) = c
  BY <1>1, SubSeqFull
<1>3. /\ ReadyToDecode(c) /\ CanAlloc(AllPictures(c), ReferenceSet)
      /\ reference_frames' = HandleFrames(c).references
  BY DEF Decoded
<1>4. Makes(c, T) /\ HandleFrames(c) \in Results(T)
  <2>1. Len(c) \in 0..Len(c)
    BY <1>1
  <2>2. Makes(SubSeq(c, 1, Len(c)), T) /\ HandleFrames(SubSeq(c, 1, Len(c))) \in Results(T)
    BY <1>3, <2>1, PrefixFacts
  <2>3. QED BY <1>2, <2>2
<1>5. \A i \in 1..Len(c) : IsFrame(c[i])
  BY <1>1 DEF IsFrame
<1>6. StartsWithKey(c) => ~c[1].show_existing_frame /\ c[1].refresh = Slots /\ Len(c) > 0
  BY <1>1, Vp9Assumption DEF StartsWithKey
<1>7. StartsWithKey(c) \/ reference_frames \in [Slots -> T] => HandleFrames(c).references \in [Slots -> T]
  BY <1>1, <1>4, <1>5, <1>6, HandleFramesFacts
<1>8. QED BY <1>3, <1>4, <1>7

LEMMA FailedFacts ==
  ASSUME NEW c \in Chunks, Streams, stream_format \in Formats \cup {NoFormat},
         accepted_format \in Formats \cup {NoFormat}, num_handles \in Nat, pool_start \in Nat, PictureFails(c),
         NEW T, NoHandle \notin T, T = Handle \/ (Comparable(c) /\ T = FitFrames),
         reference_frames \in [Slots -> T \cup {NoHandle}]
  PROVE  /\ ReadyToDecode(c) /\ Failed /\ UNCHANGED requested
         /\ \E r \in Results(T) : reference_frames' = r.references /\ PushReady(r.output)
<1>1. Len(c) \in Nat \ {0} /\ DOMAIN c = 1..Len(c)
  BY ChunkTypes
<1>2. PICK k \in DOMAIN c :
        LET r == HandleFrames(SubSeq(c, 1, k - 1)) IN
        /\ ReadyToDecode(c)
        /\ ~c[k].show_existing_frame
        /\ k = 1 \/ CanAlloc(AllPictures(c), ReferenceSet)
        /\ r.ok
        /\ reference_frames' = r.references
        /\ PushReady(r.output)
        /\ Failed
        /\ UNCHANGED requested
  BY DEF PictureFails
<1>3. k - 1 \in 0..Len(c) /\ (k = 1 => k - 1 = 0)
  BY <1>1
<1>4. HandleFrames(SubSeq(c, 1, k - 1)) \in Results(T)
  BY <1>2, <1>3, PrefixFacts
<1>5. QED BY <1>2, <1>4

(* Pushing the output at the back of the queue.                            *)
LEMMA PushFacts ==
  ASSUME NEW T \in SUBSET Handle, NEW r \in Results(T), PushReady(r.output),
         ready_queue \in Seq(Handle), ready_poll_fd \in BOOLEAN
  PROVE  /\ r.output \in Seq(T) /\ r.output \in Seq(Handle)
         /\ r.references \in [Slots -> T \cup {NoHandle}]
         /\ ready_queue' = ready_queue \o r.output /\ ready_queue' \in Seq(Handle)
         /\ ready_poll_fd' \in BOOLEAN
<1>1. r.output \in Seq(T) /\ r.references \in [Slots -> T \cup {NoHandle}]
  BY DEF Results
<1>2. \A i \in 1..Len(r.output) : r.output[i] \in Handle
  BY <1>1, ElementOfSeq
<1>3. r.output \in Seq(Handle)
  <2>1. Len(r.output) \in Nat /\ r.output = [i \in 1..Len(r.output) |-> r.output[i]]
    BY <1>1
  <2>2. QED BY <1>2, <2>1, IsASeq
<1>4. ready_queue' = ready_queue \o r.output /\ ready_poll_fd' = (ready_poll_fd \/ r.output # <<>>)
  BY DEF PushReady
<1>5. QED BY <1>1, <1>3, <1>4, ConcatProperties
-----------------------------------------------------------------------------
(* Every variable keeps its type, and chunks their sizes.                  *)

LEMMA AcceptedType ==
  ASSUME NEW n \in Nat, ClientTypeOK, Accepted(n)
  PROVE  ClientTypeOK'
<1> USE DEF ClientTypeOK, Accepted
<1>1. num_chunks' \in Nat /\ num_handles' \in Nat /\ pool_start' \in Nat
  OBVIOUS
<1>2. chunk' \in Chunks \cup {NoChunk} /\ attended' \in BOOLEAN
  OBVIOUS
<1>3. held' \in SUBSET Handle /\ delivered' \in Seq(Handle)
  OBVIOUS
<1>4. outcome' \in {"Ok", "Error"} \cup Refusals
  OBVIOUS
<1>5. profile' \in Profiles
  OBVIOUS
<1>6. QED BY <1>1, <1>2, <1>3, <1>4, <1>5

LEMMA RefusedType ==
  ASSUME NEW c \in Chunks, NEW why \in Refusals, ClientTypeOK, Refused(c, why)
  PROVE  ClientTypeOK'
  BY DEF ClientTypeOK, Refused

LEMMA FailedType ==
  ASSUME ClientTypeOK, Failed
  PROVE  ClientTypeOK'
  BY DEF ClientTypeOK, Failed

(* What a call leaves of the chunk and the stream.                         *)
LEMMA StreamsKept ==
  ASSUME TypeOK, Streams, NEW c \in Chunks, Submits(c),
         \/ \E why \in Refusals : Refused(c, why)
         \/ \E n \in Nat : Accepted(n)
         \/ Failed,
         UNCHANGED accepted_format,
         InState("AwaitingFormat")' => InState("AwaitingFormat") \/ ChunkFormat(c) # NoFormat
  PROVE  Streams' /\ stream_format' \in Formats \cup {NoFormat} /\ sought' \in BOOLEAN /\ UNCHANGED ordinary
<1>1. stream_format \in Formats \cup {NoFormat}
  BY DEF TypeOK
<1>2. /\ Sized(c) \/ (Unsized(c) /\ stream_format' = NoFormat)
      /\ stream_format' \in Formats \cup {NoFormat}
      /\ stream_format' = NoFormat => stream_format = NoFormat /\ ChunkFormat(c) = NoFormat
  BY <1>1, SubmittedFacts
<1>3. (outcome' = "Ok" => chunk' = NoChunk) /\ (outcome' \in Refusals => chunk' = c)
  BY DEF Refused, Accepted, Failed, Refusals
<1>4. stream_format' = NoFormat => accepted_format' = NoFormat /\ ~InState("AwaitingFormat")'
  BY <1>2 DEF Streams
<1>5. pool_start' <= num_handles'
  <2>1. num_handles \in Nat /\ pool_start \in Nat /\ pool_start <= num_handles /\ pool_start' = pool_start
    BY DEF TypeOK, ClientTypeOK, Streams, Refused, Accepted, Failed
  <2>2. \E n \in Nat : num_handles' = num_handles + n
    BY <2>1 DEF Refused, Accepted, Failed
  <2>3. QED BY <2>1, <2>2
<1>6. Streams'
  BY <1>2, <1>3, <1>4, <1>5 DEF Streams, Sized, Unsized
<1>7. QED BY <1>2, <1>6 DEF Submits

LEMMA DecodeTypes ==
  ASSUME TypeOK, Streams, NEW c \in Chunks, Decode(c)
  PROVE  TypeOK' /\ Streams'
<1>a. /\ DecoderTypeOK(Handle) /\ ClientTypeOK
      /\ reference_frames \in [Slots -> Handle \cup {NoHandle}] /\ requested \in Int
      /\ ordinary \in StreamKinds /\ stream_format \in Formats \cup {NoFormat}
  BY DEF TypeOK
<1>b. /\ decoding_state \in DecodingStates /\ ready_queue \in Seq(Handle) /\ ready_poll_fd \in BOOLEAN
      /\ awaiting_format_event \in BOOLEAN /\ accepted_format \in Formats \cup {NoFormat}
      /\ backend_format \in Formats \cup {NoFormat} /\ client_thread \in {"running", "blocked"}
      /\ num_handles \in Nat /\ pool_start \in Nat
  BY <1>a DEF DecoderTypeOK, ClientTypeOK
<1>c. NoHandle \notin Handle
  BY Vp9Assumption
<1>d. NoReferences \in [Slots -> Handle \cup {NoHandle}]
  BY DEF NoReferences
<1>e. "CheckEvents" \in Refusals /\ "NotEnoughOutputBuffers" \in Refusals /\ 0 \in Nat
  BY DEF Refusals
<1>f. StateAfterDrcFlush \in DecodingStates /\ State("Decoding") \in DecodingStates
      /\ State("FlushingForDRC") \in DecodingStates
  BY <1>b, StateTypes DEF StateAfterDrcFlush
<1>g. (State("Decoding").name # "AwaitingFormat") /\ State("FlushingForDRC").name # "AwaitingFormat"
      /\ (StateAfterDrcFlush.name = "AwaitingFormat" => InState("AwaitingFormat"))
  BY StateTypes DEF StateAfterDrcFlush, InState
<1>1. CASE StillDraining(c)
  <2>1. Submits(c) /\ Refused(c, "CheckEvents")
        /\ UNCHANGED <<decoding_state, ready_queue, ready_poll_fd, accepted_format, backend_format, codec_vars>>
        /\ awaiting_format_event' \in BOOLEAN /\ client_thread' \in {"running", "blocked"}
    BY <1>1 DEF StillDraining, RefuseUntilDrained
  <2>2. ClientTypeOK'
    BY <1>a, <1>e, <2>1, RefusedType
  <2>3. Streams' /\ stream_format' \in Formats \cup {NoFormat} /\ sought' \in BOOLEAN /\ UNCHANGED ordinary
    BY <1>e, <2>1, StreamsKept DEF InState
  <2>4. QED BY <1>a, <1>b, <2>1, <2>2, <2>3 DEF TypeOK, DecoderTypeOK, codec_vars
<1>2. CASE StartDrc(c)
  <2>1. Submits(c) /\ Refused(c, "CheckEvents") /\ reference_frames' = NoReferences
        /\ decoding_state' = State("FlushingForDRC") /\ awaiting_format_event' \in BOOLEAN
        /\ UNCHANGED <<ready_queue, ready_poll_fd, accepted_format, backend_format, client_thread, requested>>
    BY <1>2 DEF StartDrc
  <2>2. ClientTypeOK'
    BY <1>a, <1>e, <2>1, RefusedType
  <2>3. Streams' /\ stream_format' \in Formats \cup {NoFormat} /\ sought' \in BOOLEAN /\ UNCHANGED ordinary
    BY <1>e, <1>g, <2>1, StreamsKept DEF InState
  <2>4. QED BY <1>a, <1>b, <1>d, <1>f, <2>1, <2>2, <2>3 DEF TypeOK, DecoderTypeOK
<1>3. CASE NewSequence(c)
  <2>1. Submits(c) /\ Refused(c, "CheckEvents") /\ Renegotiates(c)
        /\ decoding_state' = AwaitingFormat(ChunkFormat(c)) /\ awaiting_format_event' \in BOOLEAN
        /\ backend_format' = ChunkFormat(c)
        /\ UNCHANGED <<ready_queue, ready_poll_fd, accepted_format, client_thread, codec_vars>>
    BY <1>3 DEF NewSequence, AwaitFormatChange
  <2>2. ChunkFormat(c) \in Formats
    BY <2>1, LargestFacts DEF Renegotiates
  <2>3. ClientTypeOK'
    BY <1>a, <1>e, <2>1, RefusedType
  <2>4. Streams' /\ stream_format' \in Formats \cup {NoFormat} /\ sought' \in BOOLEAN /\ UNCHANGED ordinary
    BY <1>e, <2>1, <2>2, StreamsKept DEF InState
  <2>5. decoding_state' \in DecodingStates
    BY <2>1, <2>2, StateTypes
  <2>6. QED BY <1>a, <1>b, <2>1, <2>2, <2>3, <2>4, <2>5 DEF TypeOK, DecoderTypeOK, codec_vars
<1>4. CASE Skip(c)
  <2>1. Submits(c) /\ Accepted(0) /\ UNCHANGED <<decoder_vars, codec_vars>>
    BY <1>4 DEF Skip
  <2>2. ClientTypeOK'
    BY <1>a, <1>e, <2>1, AcceptedType
  <2>3. Streams' /\ stream_format' \in Formats \cup {NoFormat} /\ sought' \in BOOLEAN /\ UNCHANGED ordinary
    BY <1>e, <2>1, StreamsKept DEF InState, decoder_vars
  <2>4. QED BY <1>a, <1>b, <2>1, <2>2, <2>3 DEF TypeOK, DecoderTypeOK, codec_vars, decoder_vars
<1>5. CASE StillAwaitingFormat(c)
  <2>1. Submits(c) /\ Refused(c, "CheckEvents") /\ awaiting_format_event' \in BOOLEAN
        /\ UNCHANGED <<decoding_state, ready_queue, ready_poll_fd, accepted_format, backend_format,
                       client_thread, codec_vars>>
    BY <1>5 DEF StillAwaitingFormat
  <2>2. ClientTypeOK'
    BY <1>a, <1>e, <2>1, RefusedType
  <2>3. Streams' /\ stream_format' \in Formats \cup {NoFormat} /\ sought' \in BOOLEAN /\ UNCHANGED ordinary
    BY <1>e, <2>1, StreamsKept DEF InState
  <2>4. QED BY <1>a, <1>b, <2>1, <2>2, <2>3 DEF TypeOK, DecoderTypeOK, codec_vars
<1>h. ASSUME ReadyToDecode(c)
      PROVE  /\ Submits(c) /\ decoding_state' = State("Decoding") /\ decoding_state' \in DecodingStates
             /\ ~InState("AwaitingFormat")'
             /\ UNCHANGED <<awaiting_format_event, accepted_format, backend_format, client_thread>>
  BY <1>h, <1>f, <1>g DEF ReadyToDecode, InState
<1>6. CASE NoOutputBuffer(c)
  <2>1. ReadyToDecode(c) /\ Refused(c, "NotEnoughOutputBuffers")
        /\ UNCHANGED <<ready_queue, ready_poll_fd, reference_frames>>
    BY <1>6 DEF NoOutputBuffer
  <2>2. requested' \in Int
    <3>1. PICK i \in DOMAIN c : requested' = AllPictures(c) - (i - 1)
      BY <1>6 DEF NoOutputBuffer
    <3>2. i \in Int /\ Len(c) \in 1..Len(c)
      BY ChunkTypes
    <3>3. AllPictures(c) \in Nat
      BY <3>2, PictureFacts DEF AllPictures
    <3>4. QED BY <3>1, <3>2, <3>3
  <2>3. ClientTypeOK'
    BY <1>a, <1>e, <2>1, RefusedType
  <2>4. Streams' /\ stream_format' \in Formats \cup {NoFormat} /\ sought' \in BOOLEAN /\ UNCHANGED ordinary
    BY <1>e, <1>h, <2>1, StreamsKept
  <2>5. QED BY <1>a, <1>b, <1>h, <2>1, <2>2, <2>3, <2>4 DEF TypeOK, DecoderTypeOK
<1>7. CASE Decoded(c)
  <2> DEFINE r == HandleFrames(c)
  <2>1. ReadyToDecode(c) /\ reference_frames' = r.references /\ PushReady(r.output)
        /\ (Accepted(r.made) \/ Failed) /\ UNCHANGED requested
    BY <1>7 DEF Decoded
  <2>2. r \in Results(Handle)
    BY <1>7, <1>a, <1>b, <1>c, DecodedFacts
  <2> HIDE DEF r
  <2>3. r.made \in Nat
    BY <2>2 DEF Results
  <2>4. ready_queue' \in Seq(Handle) /\ ready_poll_fd' \in BOOLEAN
        /\ reference_frames' \in [Slots -> Handle \cup {NoHandle}]
    BY <1>b, <2>1, <2>2, PushFacts
  <2>5. ClientTypeOK'
    BY <1>a, <2>1, <2>3, AcceptedType, FailedType
  <2>6. Streams' /\ stream_format' \in Formats \cup {NoFormat} /\ sought' \in BOOLEAN /\ UNCHANGED ordinary
    BY <1>h, <2>1, <2>3, StreamsKept
  <2>7. QED BY <1>a, <1>b, <1>h, <2>1, <2>4, <2>5, <2>6 DEF TypeOK, DecoderTypeOK
<1>8. CASE NewSequenceFails(c)
  <2>1. Submits(c) /\ Failed /\ decoding_state' = StateAfterDrcFlush
        /\ UNCHANGED <<ready_queue, ready_poll_fd, awaiting_format_event, accepted_format, backend_format,
                       client_thread, codec_vars>>
    BY <1>8 DEF NewSequenceFails
  <2>2. ClientTypeOK'
    BY <1>a, <2>1, FailedType
  <2>3. Streams' /\ stream_format' \in Formats \cup {NoFormat} /\ sought' \in BOOLEAN /\ UNCHANGED ordinary
    BY <1>g, <2>1, StreamsKept DEF InState
  <2>4. QED BY <1>a, <1>b, <1>f, <2>1, <2>2, <2>3 DEF TypeOK, DecoderTypeOK, codec_vars
<1>9. CASE PictureFails(c)
  <2>1. ReadyToDecode(c) /\ Failed /\ UNCHANGED requested
        /\ \E r \in Results(Handle) : reference_frames' = r.references /\ PushReady(r.output)
    BY <1>9, <1>a, <1>b, <1>c, FailedFacts
  <2>2. ready_queue' \in Seq(Handle) /\ ready_poll_fd' \in BOOLEAN
        /\ reference_frames' \in [Slots -> Handle \cup {NoHandle}]
    BY <1>b, <2>1, PushFacts
  <2>3. ClientTypeOK'
    BY <1>a, <2>1, FailedType
  <2>4. Streams' /\ stream_format' \in Formats \cup {NoFormat} /\ sought' \in BOOLEAN /\ UNCHANGED ordinary
    BY <1>h, <2>1, StreamsKept
  <2>5. QED BY <1>a, <1>b, <1>h, <2>1, <2>2, <2>3, <2>4 DEF TypeOK, DecoderTypeOK
<1>10. QED
  BY <1>1, <1>2, <1>3, <1>4, <1>5, <1>6, <1>7, <1>8, <1>9 DEF Decode

LEMMA Invariant == Spec => [](TypeOK /\ Streams)
<1>1. Init => TypeOK /\ Streams
  <2> SUFFICES ASSUME Init PROVE TypeOK /\ Streams
    OBVIOUS
  <2>1. DecoderTypeOK(Handle)
    BY StateTypes, EmptySeq DEF Init, DecoderInit, DecoderTypeOK
  <2>2. ClientTypeOK
    <3>1. held \in SUBSET Handle /\ delivered \in Seq(Handle)
      BY EmptySeq DEF Init, ClientInit
    <3>2. QED BY <3>1 DEF ClientTypeOK, Init, ClientInit
  <2>3. TypeOK
    <3>1. /\ reference_frames = NoReferences /\ requested = 0 /\ ordinary \in StreamKinds
          /\ stream_format = NoFormat /\ sought = FALSE
      BY DEF Init
    <3>2. reference_frames \in [Slots -> Handle \cup {NoHandle}]
      BY <3>1 DEF NoReferences
    <3>3. requested \in Int /\ stream_format \in Formats \cup {NoFormat}
      BY <3>1
    <3>4. sought \in BOOLEAN
      BY <3>1
    <3>5. QED BY <2>1, <2>2, <3>1, <3>2, <3>3, <3>4 DEF TypeOK
  <2>4. Streams
    BY StateTypes DEF Streams, Init, DecoderInit, ClientInit, InState, Refusals
  <2>5. QED BY <2>3, <2>4
<1>2. TypeOK /\ Streams /\ [Next]_vars => TypeOK' /\ Streams'
  <2> SUFFICES ASSUME TypeOK, Streams, [Next]_vars PROVE TypeOK' /\ Streams'
    OBVIOUS
  <2>a. /\ DecoderTypeOK(Handle) /\ ClientTypeOK
        /\ reference_frames \in [Slots -> Handle \cup {NoHandle}] /\ requested \in Int
        /\ ordinary \in StreamKinds /\ stream_format \in Formats \cup {NoFormat} /\ sought \in BOOLEAN
    BY DEF TypeOK
  <2>1. ASSUME NEW c \in Chunks, Decode(c) PROVE TypeOK' /\ Streams'
    BY <2>1, DecodeTypes
  <2>2. CASE Flush
    <3>1. /\ AbandonChunk /\ reference_frames' = NoReferences /\ decoding_state' = State("Reset")
          /\ sought' = TRUE
          /\ UNCHANGED <<ready_queue, ready_poll_fd, awaiting_format_event, accepted_format, backend_format,
                         client_thread, requested, ordinary, stream_format>>
      BY <2>2 DEF Flush
    <3>2. ClientTypeOK'
      BY <2>a, <3>1 DEF AbandonChunk, ClientTypeOK
    <3>3. DecoderTypeOK(Handle)'
      BY <2>a, <3>1, StateTypes DEF DecoderTypeOK
    <3>4. Streams'
      BY <3>1, StateTypes DEF Streams, AbandonChunk, InState, Refusals
    <3>5. QED BY <2>a, <3>1, <3>2, <3>3, <3>4 DEF TypeOK, NoReferences
  <2>3. CASE TakeFrame /\ UNCHANGED <<codec_vars, stream_vars>>
    <3>1. /\ ready_queue # <<>> /\ ready_queue' = Tail(ready_queue)
          /\ held' = held \cup {Head(ready_queue)} /\ delivered' = Append(delivered, Head(ready_queue))
          /\ ready_queue \in Seq(Handle) /\ delivered \in Seq(Handle)
      BY <2>3, <2>a DEF TakeFrame, FrameReady, PopReady, DecoderTypeOK, ClientTypeOK
    <3>2. Head(ready_queue) \in Handle /\ Tail(ready_queue) \in Seq(Handle)
      BY <3>1, HeadTailProperties
    <3>3. delivered' \in Seq(Handle)
      BY <3>1, <3>2, AppendProperties
    <3>4. /\ attended' = (attended \/ ~profile.drains_all_events)
          /\ UNCHANGED <<decoding_state, awaiting_format_event, accepted_format, backend_format, profile, chunk,
                         outcome, num_chunks, num_handles, pool_start>>
          /\ ready_poll_fd' \in {FALSE, ready_poll_fd} /\ client_thread' \in {"running", "blocked", client_thread}
      BY <2>3 DEF TakeFrame, FrameReady, PopReady
    <3>5. DecoderTypeOK(Handle)'
      BY <2>a, <3>1, <3>2, <3>4 DEF DecoderTypeOK
    <3>6. ClientTypeOK'
      BY <2>a, <3>1, <3>2, <3>3, <3>4 DEF ClientTypeOK
    <3>7. Streams'
      BY <2>3, <3>4 DEF Streams, InState, stream_vars
    <3>8. QED BY <2>a, <2>3, <3>5, <3>6, <3>7 DEF TypeOK, codec_vars, stream_vars
  <2>4. CASE TakeFormatChange /\ UNCHANGED <<codec_vars, stream_vars>>
    <3>1. /\ decoding_state' = State("Reset") /\ accepted_format' = decoding_state.format
          /\ InState("AwaitingFormat") /\ awaiting_format_event' = FALSE
          /\ client_thread' \in {"running", "blocked"}
          /\ UNCHANGED <<ready_queue, ready_poll_fd, backend_format, profile, chunk, outcome, held, delivered,
                         num_chunks, num_handles>>
          /\ pool_start' = num_handles /\ attended' = (attended \/ ~profile.drains_all_events)
      BY <2>4 DEF TakeFormatChange, FormatChanged
    <3>2. accepted_format' \in Formats
      BY <2>a, <3>1, StateTypes DEF DecoderTypeOK, InState
    <3>3. DecoderTypeOK(Handle)'
      BY <2>a, <3>1, <3>2, StateTypes DEF DecoderTypeOK
    <3>4. ClientTypeOK'
      BY <2>a, <3>1 DEF ClientTypeOK
    <3>5. Streams'
      <4>1. pool_start' <= num_handles'
        BY <2>a, <3>1 DEF ClientTypeOK
      <4>2. QED BY <2>4, <3>1, <4>1 DEF Streams, InState, stream_vars
    <3>6. QED BY <2>a, <2>4, <3>3, <3>4, <3>5 DEF TypeOK, codec_vars, stream_vars
  <2>5. CASE TakeNothing /\ UNCHANGED <<codec_vars, stream_vars>>
    <3>1. DecoderTypeOK(Handle)' /\ ClientTypeOK'
      BY <2>a, <2>5 DEF TakeNothing, DecoderTypeOK, ClientTypeOK, decoder_vars
    <3>2. Streams'
      BY <2>5 DEF TakeNothing, Streams, InState, decoder_vars, stream_vars
    <3>3. QED BY <2>a, <2>5, <3>1, <3>2 DEF TypeOK, codec_vars, stream_vars
  <2>6. ASSUME NEW h \in held, Drop(h) PROVE TypeOK' /\ Streams'
    <3>1. DecoderTypeOK(Handle)' /\ ClientTypeOK'
      BY <2>a, <2>6 DEF Drop, DropFrame, DecoderTypeOK, ClientTypeOK, decoder_vars
    <3>2. Streams'
      BY <2>6 DEF Drop, DropFrame, Streams, InState, decoder_vars, stream_vars
    <3>3. QED BY <2>a, <2>6, <3>1, <3>2 DEF TypeOK, Drop, codec_vars, stream_vars
  <2>7. CASE UNCHANGED vars
    <3>1. DecoderTypeOK(Handle)' /\ ClientTypeOK'
      BY <2>a, <2>7 DEF vars, DecoderTypeOK, ClientTypeOK, decoder_vars, client_vars
    <3>2. Streams'
      BY <2>7 DEF vars, Streams, InState, decoder_vars, client_vars, stream_vars
    <3>3. QED BY <2>a, <2>7, <3>1, <3>2 DEF TypeOK, vars, codec_vars, stream_vars
  <2>8. QED BY <2>1, <2>2, <2>3, <2>4, <2>5, <2>6, <2>7 DEF Next, NextEvent
<1>3. QED BY <1>1, <1>2, PTL DEF Spec

(* Every variable keeps its type; among others, that a frame of unknown    *)
(* size is never decoded (decode, negotiation_possible).                   *)
THEOREM TypeCorrect == Spec => []TypeOK
  BY Invariant, PTL
-----------------------------------------------------------------------------
(* The references, in streams whose layers can be compared.                *)

(* Of two frames of a superframe one is at least as wide and as high as    *)
(* the other, as the spatial layers of a picture are.  Of two that cannot  *)
(* be compared max_by returns one that does not contain the other, and a   *)
(* pool of that size has no room for it.                                   *)
Layered == \A c \in Chunks : Comparable(c)

(* Only a decoder that is decoding has references, and they fit.           *)
FramesFit ==
  /\ reference_frames \in [Slots -> FitFrames \cup {NoHandle}]
  /\ ~InState("Decoding") => reference_frames = NoReferences

(* A chunk is decoded into the pool and the format there are: the same     *)
(* handles fit, whatever the call returns.                                 *)
LEMMA ClientFixed ==
  ASSUME (\E c, why : Refused(c, why)) \/ (\E n : Accepted(n)) \/ Failed,
         UNCHANGED accepted_format
  PROVE  pool_start' = pool_start /\ FitFrames' = FitFrames /\ UNCHANGED <<delivered, held, profile>>
<1>1. UNCHANGED <<pool_start, delivered, held, profile>>
  BY DEF Refused, Accepted, Failed
<1>2. QED BY <1>1 DEF FitFrames, CanContain

LEMMA FramesFitKept ==
  Layered /\ TypeOK /\ Streams /\ FramesFit /\ [Next]_vars => FramesFit'
<1> SUFFICES ASSUME Layered, TypeOK, Streams, FramesFit, [Next]_vars PROVE FramesFit'
  OBVIOUS
<1>a. /\ stream_format \in Formats \cup {NoFormat} /\ accepted_format \in Formats \cup {NoFormat}
      /\ num_handles \in Nat /\ pool_start \in Nat /\ decoding_state \in DecodingStates
      /\ ready_queue \in Seq(Handle) /\ ready_poll_fd \in BOOLEAN
  BY DEF TypeOK, DecoderTypeOK, ClientTypeOK
<1>b. NoHandle \notin FitFrames /\ FitFrames \in SUBSET Handle
  BY Vp9Assumption DEF FitFrames
<1>c. ASSUME reference_frames' = NoReferences PROVE FramesFit'
  BY <1>c DEF FramesFit, NoReferences
<1>d. ASSUME UNCHANGED <<reference_frames, accepted_format, pool_start>>,
             InState("Decoding") => InState("Decoding")'
      PROVE  FramesFit'
  <2>1. FitFrames' = FitFrames
    BY <1>d DEF FitFrames, CanContain
  <2>2. QED BY <1>d, <2>1 DEF FramesFit, NoReferences
<1>1. ASSUME NEW c \in Chunks, StillDraining(c) \/ Skip(c) \/ StillAwaitingFormat(c)
      PROVE  FramesFit'
  <2>1. UNCHANGED <<reference_frames, accepted_format, pool_start, decoding_state>>
    BY <1>1 DEF StillDraining, Skip, StillAwaitingFormat, codec_vars, decoder_vars, Refused, Accepted
  <2>2. QED BY <2>1, <1>d DEF InState
<1>2. ASSUME NEW c \in Chunks, StartDrc(c) PROVE FramesFit'
  BY <1>2, <1>c DEF StartDrc
<1>3. ASSUME NEW c \in Chunks, NewSequence(c) \/ NewSequenceFails(c) PROVE FramesFit'
  <2>1. UNCHANGED <<reference_frames, accepted_format, pool_start>> /\ ~InState("Decoding")
    BY <1>3 DEF NewSequence, NewSequenceFails, codec_vars, Refused, Failed
  <2>2. QED BY <2>1, <1>d
<1>4. ASSUME NEW c \in Chunks, NoOutputBuffer(c) PROVE FramesFit'
  <2>1. UNCHANGED <<reference_frames, accepted_format, pool_start>> /\ InState("Decoding")'
    BY <1>4, StateTypes DEF NoOutputBuffer, ReadyToDecode, Refused, InState
  <2>2. QED BY <2>1, <1>d
<1>5. ASSUME NEW c \in Chunks, Decoded(c) \/ PictureFails(c) PROVE FramesFit'
  <2>1. ReadyToDecode(c) /\ reference_frames' \in [Slots -> FitFrames \cup {NoHandle}]
        /\ ((\E n : Accepted(n)) \/ Failed)
    <3>1. reference_frames \in [Slots -> FitFrames \cup {NoHandle}] /\ Comparable(c)
      BY DEF FramesFit, Layered
    <3>2. CASE Decoded(c)
      <4>1. HandleFrames(c) \in Results(FitFrames)
        BY <1>a, <1>b, <3>1, <3>2, DecodedFacts
      <4>2. /\ ReadyToDecode(c) /\ reference_frames' = HandleFrames(c).references
            /\ Accepted(HandleFrames(c).made) \/ Failed
        BY <3>2 DEF Decoded
      <4>3. QED BY <4>1, <4>2 DEF Results
    <3>3. CASE PictureFails(c)
      <4>1. ReadyToDecode(c) /\ Failed /\ \E r \in Results(FitFrames) : reference_frames' = r.references
        BY <1>a, <1>b, <3>1, <3>3, FailedFacts
      <4>2. QED BY <4>1 DEF Results
    <3>4. QED BY <1>5, <3>2, <3>3
  <2>2. UNCHANGED accepted_format /\ InState("Decoding")'
    BY <2>1, StateTypes DEF ReadyToDecode, InState
  <2>3. FitFrames' = FitFrames
    BY <2>1, <2>2, ClientFixed
  <2>4. QED BY <2>1, <2>2, <2>3 DEF FramesFit
<1>6. CASE Flush
  BY <1>6, <1>c DEF Flush
<1>7. CASE TakeFrame /\ UNCHANGED codec_vars
  <2>1. UNCHANGED <<reference_frames, accepted_format, pool_start, decoding_state>>
    BY <1>7 DEF TakeFrame, codec_vars
  <2>2. QED BY <2>1, <1>d DEF InState
<1>8. CASE TakeFormatChange /\ UNCHANGED codec_vars
  <2>1. InState("AwaitingFormat") /\ reference_frames' = reference_frames
    BY <1>8 DEF TakeFormatChange, FormatChanged, codec_vars
  <2>2. reference_frames' = NoReferences
    BY <2>1 DEF FramesFit, InState
  <2>3. QED BY <2>2, <1>c
<1>9. CASE TakeNothing /\ UNCHANGED codec_vars
  <2>1. UNCHANGED <<reference_frames, accepted_format, pool_start, decoding_state>>
    BY <1>9 DEF TakeNothing, codec_vars, decoder_vars
  <2>2. QED BY <2>1, <1>d DEF InState
<1>10. ASSUME NEW h \in held, Drop(h) PROVE FramesFit'
  <2>1. UNCHANGED <<reference_frames, accepted_format, pool_start, decoding_state>>
    BY <1>10 DEF Drop, DropFrame, codec_vars, decoder_vars
  <2>2. QED BY <2>1, <1>d DEF InState
<1>11. CASE UNCHANGED vars
  <2>1. UNCHANGED <<reference_frames, accepted_format, pool_start, decoding_state>>
    BY <1>11 DEF vars, client_vars, codec_vars, decoder_vars
  <2>2. QED BY <2>1, <1>d DEF InState
<1>12. QED
  BY <1>1, <1>2, <1>3, <1>4, <1>5, <1>6, <1>7, <1>8, <1>9, <1>10, <1>11 DEF Next, Decode, NextEvent

LEMMA AlwaysFit == Layered /\ Spec => [](TypeOK /\ Streams /\ FramesFit)
<1> SUFFICES ASSUME Layered PROVE Spec => [](TypeOK /\ Streams /\ FramesFit)
  OBVIOUS
<1>1. Init => FramesFit
  BY DEF Init, FramesFit, NoReferences
<1>2. TypeOK /\ Streams /\ FramesFit /\ [Next]_vars => FramesFit'
  BY FramesFitKept
<1>3. QED BY <1>1, <1>2, Invariant, PTL DEF Spec

(* In an ordinary stream, of a client that repeats what was refused: there *)
(* are references, all of them, in the format of the stream ...            *)
Going ==
  /\ InState("Decoding")
  /\ reference_frames \in [Slots -> FitFrames]
  /\ stream_format = accepted_format

(* ... unless the stream begins, begins again after a seek, or a key frame *)
(* is to be submitted again, which needs none.                             *)
ReferencesKept ==
  /\ InState("AwaitingStreamInfo") => accepted_format = NoFormat
  /\ ordinary /\ profile.retries_same_chunk =>
       /\ outcome = "Ok" =>
            \/ sought /\ ~InState("Decoding")
            \/ Going
            \/ InState("AwaitingStreamInfo") /\ stream_format = NoFormat
       /\ outcome \in Refusals =>
            StartsWithKey(chunk) \/ (Going /\ ChunkFormat(chunk) \in {accepted_format, NoFormat})

LEMMA SubmittedKinds ==
  ASSUME Streams, ReferencesKept, ordinary, profile.retries_same_chunk, NEW c \in Chunks, Submits(c)
  PROVE  \/ StartsWithKey(c)
         \/ Going /\ ChunkFormat(c) \in {accepted_format, NoFormat}
         \/ InState("AwaitingStreamInfo") /\ stream_format = NoFormat /\ ChunkFormat(c) = NoFormat
<1>1. MayDecode(c) /\ (c # chunk => Follows(c)) /\ c # NoChunk
  BY ChunkTypes DEF Submits
<1>2. CASE outcome = "Ok"
  <2>1. c # chunk
    BY <1>1, <1>2 DEF Streams
  <2>2. StartsWithKey(c) \/ (~sought /\ ChunkFormat(c) \in {stream_format, NoFormat})
    BY <1>1, <2>1 DEF Follows
  <2>3. QED BY <1>2, <2>2 DEF ReferencesKept, Going
<1>3. CASE outcome \in Refusals
  <2>1. c = chunk
    BY <1>1, <1>3 DEF MayDecode, Refusals
  <2>2. QED BY <1>3, <2>1 DEF ReferencesKept
<1>4. QED BY <1>1, <1>2, <1>3 DEF MayDecode

(* A key frame has a size.                                                 *)
LEMMA KeyFormat ==
  ASSUME NEW c \in Chunks, StartsWithKey(c)
  PROVE  ChunkFormat(c) # NoFormat
<1>1. 1 \in 1..Len(c) /\ DOMAIN c = 1..Len(c)
  BY ChunkTypes
<1>2. c[1].format \in Formats
  BY <1>1, Vp9Assumption DEF StartsWithKey
<1>3. QED BY <1>1, <1>2, LargestFacts

LEMMA ReferencesKeptStep ==
  Layered /\ TypeOK /\ Streams /\ FramesFit /\ ReferencesKept /\ [Next]_vars => ReferencesKept'
<1> SUFFICES ASSUME Layered, TypeOK, Streams, FramesFit, ReferencesKept, [Next]_vars
             PROVE  ReferencesKept'
  OBVIOUS
<1>a. /\ stream_format \in Formats \cup {NoFormat} /\ accepted_format \in Formats \cup {NoFormat}
      /\ num_handles \in Nat /\ pool_start \in Nat /\ decoding_state \in DecodingStates
  BY DEF TypeOK, DecoderTypeOK, ClientTypeOK
<1>b. NoHandle \notin FitFrames /\ FitFrames \in SUBSET Handle
  BY Vp9Assumption DEF FitFrames
<1>c. ASSUME UNCHANGED <<decoding_state, reference_frames, accepted_format, pool_start, stream_format, sought,
                         ordinary, profile, outcome, chunk>>
      PROVE  ReferencesKept'
  <2>1. FitFrames' = FitFrames
    BY <1>c DEF FitFrames, CanContain
  <2>2. QED BY <1>c, <2>1 DEF ReferencesKept, Going, InState
(* A key frame that is refused, or any chunk that fails.                   *)
<1>d. ASSUME NEW c \in Chunks, Submits(c), UNCHANGED accepted_format,
             InState("AwaitingStreamInfo")' => InState("AwaitingStreamInfo"),
             \/ \E why \in Refusals : Refused(c, why) /\ (ordinary /\ profile.retries_same_chunk => StartsWithKey(c))
             \/ Failed
      PROVE  ReferencesKept'
  <2>1. ordinary' = ordinary /\ profile' = profile /\ outcome' # "Ok" /\ (outcome' \in Refusals => chunk' = c)
        /\ (outcome' \in Refusals /\ ordinary /\ profile.retries_same_chunk => StartsWithKey(c))
    BY <1>d DEF Submits, Refused, Failed, Refusals
  <2>2. QED BY <1>d, <2>1 DEF ReferencesKept
<1>e. "CheckEvents" \in Refusals /\ "NotEnoughOutputBuffers" \in Refusals /\ "Ok" \notin Refusals
  BY DEF Refusals
<1>f. ASSUME NEW c \in Chunks, ReadyToDecode(c)
      PROVE  /\ Submits(c) /\ InState("Decoding")' /\ ~InState("AwaitingStreamInfo")
             /\ UNCHANGED accepted_format /\ ChunkFormat(c) \in {NoFormat, accepted_format}
             /\ ordinary /\ profile.retries_same_chunk =>
                  /\ StartsWithKey(c) \/ Going
                  /\ stream_format' = accepted_format'
  <2>1. Submits(c) /\ InState("Decoding")' /\ UNCHANGED accepted_format /\ ~Renegotiates(c)
    BY <1>f, StateTypes DEF ReadyToDecode, InState
  <2>2. ~InState("AwaitingStreamInfo")
    BY <1>f, StateTypes DEF ReadyToDecode, DispatchState, StateAfterDrcFlush, InState
  <2>3. ChunkFormat(c) \in {NoFormat, accepted_format}
    BY <2>1 DEF Renegotiates
  <2>4. ASSUME ordinary, profile.retries_same_chunk
        PROVE  (StartsWithKey(c) \/ Going) /\ stream_format' = accepted_format'
    <3>1. StartsWithKey(c) \/ Going
      BY <2>1, <2>2, <2>4, SubmittedKinds
    <3>2. stream_format' = IF ChunkFormat(c) = NoFormat THEN stream_format ELSE ChunkFormat(c)
      BY <2>1 DEF Submits
    <3>3. QED BY <2>1, <2>3, <3>1, <3>2, KeyFormat DEF Going
  <2>5. QED BY <2>1, <2>2, <2>3, <2>4
<1>1. ASSUME NEW c \in Chunks, StillDraining(c) PROVE ReferencesKept'
  <2>1. /\ Submits(c) /\ UNCHANGED <<accepted_format, decoding_state>> /\ Refused(c, "CheckEvents")
        /\ InState("FlushingForDRC")
    BY <1>1 DEF StillDraining, RefuseUntilDrained, DrcFlushPending
  <2>2. ordinary /\ profile.retries_same_chunk => StartsWithKey(c)
    BY <2>1, SubmittedKinds DEF Going, InState
  <2>3. QED BY <1>d, <1>e, <2>1, <2>2 DEF InState
<1>2. ASSUME NEW c \in Chunks, StartDrc(c) PROVE ReferencesKept'
  <2>1. /\ Submits(c) /\ UNCHANGED accepted_format /\ Refused(c, "CheckEvents")
        /\ InState("Decoding") /\ Renegotiates(c) /\ decoding_state' = State("FlushingForDRC")
    BY <1>2 DEF StartDrc
  <2>2. ordinary /\ profile.retries_same_chunk => StartsWithKey(c)
    BY <2>1, SubmittedKinds DEF Renegotiates
  <2>3. ~InState("AwaitingStreamInfo")'
    BY <2>1, StateTypes DEF InState
  <2>4. QED BY <1>d, <1>e, <2>1, <2>2, <2>3
<1>3. ASSUME NEW c \in Chunks, NewSequence(c) PROVE ReferencesKept'
  <2>1. /\ Submits(c) /\ UNCHANGED accepted_format /\ Refused(c, "CheckEvents")
        /\ ~InState("Decoding") /\ Renegotiates(c) /\ decoding_state' = AwaitingFormat(ChunkFormat(c))
    BY <1>3 DEF NewSequence, AwaitFormatChange
  <2>2. ordinary /\ profile.retries_same_chunk => StartsWithKey(c)
    BY <2>1, SubmittedKinds DEF Renegotiates
  <2>3. ~InState("AwaitingStreamInfo")'
    BY <2>1, StateTypes DEF InState
  <2>4. QED BY <1>d, <1>e, <2>1, <2>2, <2>3
<1>4. ASSUME NEW c \in Chunks, Skip(c) PROVE ReferencesKept'
  <2>1. /\ Submits(c) /\ UNCHANGED <<accepted_format, decoding_state>> /\ Accepted(0)
        /\ InState("AwaitingStreamInfo") /\ ~Renegotiates(c)
    BY <1>4 DEF Skip, decoder_vars
  <2>2. accepted_format = NoFormat /\ ChunkFormat(c) = NoFormat
    BY <2>1 DEF ReferencesKept, Renegotiates
  <2>3. ordinary' = ordinary /\ profile' = profile /\ outcome' = "Ok" /\ stream_format' = stream_format
    BY <2>1, <2>2 DEF Submits, Accepted
  <2>4. ordinary /\ profile.retries_same_chunk => stream_format = NoFormat
    BY <2>1, <2>2, KeyFormat, SubmittedKinds DEF Going, InState
  <2>5. QED BY <1>e, <2>1, <2>2, <2>3, <2>4 DEF ReferencesKept, InState
<1>5. ASSUME NEW c \in Chunks, StillAwaitingFormat(c) PROVE ReferencesKept'
  <2>1. /\ Submits(c) /\ UNCHANGED <<accepted_format, decoding_state>> /\ Refused(c, "CheckEvents")
        /\ InState("AwaitingFormat")
    BY <1>5 DEF StillAwaitingFormat
  <2>2. ordinary /\ profile.retries_same_chunk => StartsWithKey(c)
    BY <2>1, SubmittedKinds DEF Going, InState
  <2>3. QED BY <1>d, <1>e, <2>1, <2>2 DEF InState
<1>6. ASSUME NEW c \in Chunks, NoOutputBuffer(c) PROVE ReferencesKept'
  <2>1. ReadyToDecode(c) /\ Refused(c, "NotEnoughOutputBuffers") /\ UNCHANGED reference_frames
    BY <1>6 DEF NoOutputBuffer
  <2>2. /\ Submits(c) /\ InState("Decoding")' /\ UNCHANGED accepted_format
        /\ ChunkFormat(c) \in {NoFormat, accepted_format}
        /\ ordinary /\ profile.retries_same_chunk =>
             (StartsWithKey(c) \/ Going) /\ stream_format' = accepted_format'
    BY <1>f, <2>1
  <2>3. FitFrames' = FitFrames
    BY <2>1, <2>2, ClientFixed
  <2>4. ordinary' = ordinary /\ profile' = profile /\ outcome' # "Ok" /\ chunk' = c
    BY <2>1, <2>2 DEF Submits, Refused
  <2>5. ~InState("AwaitingStreamInfo")'
    BY <2>2 DEF InState
  <2>6. QED BY <2>1, <2>2, <2>3, <2>4, <2>5 DEF ReferencesKept, Going
<1>7. ASSUME NEW c \in Chunks, Decoded(c) PROVE ReferencesKept'
  <2>1. ReadyToDecode(c) /\ (Accepted(HandleFrames(c).made) \/ Failed)
    BY <1>7 DEF Decoded
  <2>2. /\ Submits(c) /\ InState("Decoding")' /\ UNCHANGED accepted_format
        /\ ordinary /\ profile.retries_same_chunk =>
             (StartsWithKey(c) \/ Going) /\ stream_format' = accepted_format'
    BY <1>f, <2>1
  <2>3. FitFrames' = FitFrames
    BY <2>1, <2>2, ClientFixed
  <2>4. ordinary' = ordinary /\ profile' = profile /\ outcome' \in {"Ok", "Error"}
    BY <2>1, <2>2 DEF Submits, Accepted, Failed
  <2>5. ~InState("AwaitingStreamInfo")'
    BY <2>2 DEF InState
  <2>6. ASSUME ordinary, profile.retries_same_chunk PROVE Going'
    <3>1. Comparable(c) /\ reference_frames \in [Slots -> FitFrames \cup {NoHandle}]
      BY DEF Layered, FramesFit
    <3>2. StartsWithKey(c) \/ reference_frames \in [Slots -> FitFrames]
      BY <2>2, <2>6 DEF Going
    <3>3. reference_frames' \in [Slots -> FitFrames]
      BY <1>7, <1>a, <1>b, <3>1, <3>2, DecodedFacts
    <3>4. QED BY <2>2, <2>3, <2>6, <3>3 DEF Going
  <2>7. QED BY <2>4, <2>5, <2>6 DEF ReferencesKept, Refusals
<1>8. ASSUME NEW c \in Chunks, NewSequenceFails(c) PROVE ReferencesKept'
  <2>1. Submits(c) /\ Failed /\ UNCHANGED accepted_format /\ decoding_state' = StateAfterDrcFlush
    BY <1>8 DEF NewSequenceFails
  <2>2. InState("AwaitingStreamInfo")' => InState("AwaitingStreamInfo")
    BY <2>1, StateTypes DEF StateAfterDrcFlush, InState
  <2>3. QED BY <1>d, <2>1, <2>2
<1>9. ASSUME NEW c \in Chunks, PictureFails(c) PROVE ReferencesKept'
  <2>1. ReadyToDecode(c) /\ Failed
    BY <1>9 DEF PictureFails
  <2>2. Submits(c) /\ UNCHANGED accepted_format /\ ~InState("AwaitingStreamInfo")'
    BY <1>f, <2>1 DEF InState
  <2>3. QED BY <1>d, <2>1, <2>2
<1>10. CASE Flush
  <2>1. /\ decoding_state' = State("Reset") /\ sought' = TRUE /\ outcome' = "Ok"
        /\ UNCHANGED <<accepted_format, ordinary, profile>>
    BY <1>10 DEF Flush, AbandonChunk
  <2>2. InState("Reset")'
    BY <2>1, StateTypes DEF InState
  <2>3. QED BY <1>e, <2>1, <2>2 DEF ReferencesKept, InState
<1>11. CASE TakeFrame /\ UNCHANGED <<codec_vars, stream_vars>>
  BY <1>11, <1>c DEF TakeFrame, codec_vars, stream_vars
<1>12. CASE TakeFormatChange /\ UNCHANGED <<codec_vars, stream_vars>>
  <2>1. /\ decoding_state' = State("Reset") /\ InState("AwaitingFormat")
        /\ UNCHANGED <<ordinary, profile, sought, outcome, chunk>>
    BY <1>12 DEF TakeFormatChange, FormatChanged, stream_vars
  <2>2. InState("Reset")'
    BY <2>1, StateTypes DEF InState
  <2>3. QED BY <2>1, <2>2 DEF ReferencesKept, Going, InState
<1>13. CASE TakeNothing /\ UNCHANGED <<codec_vars, stream_vars>>
  BY <1>13, <1>c DEF TakeNothing, decoder_vars, codec_vars, stream_vars
<1>14. ASSUME NEW h \in held, Drop(h) PROVE ReferencesKept'
  BY <1>14, <1>c DEF Drop, DropFrame, decoder_vars, codec_vars, stream_vars
<1>15. CASE UNCHANGED vars
  BY <1>15, <1>c DEF vars, decoder_vars, client_vars, codec_vars, stream_vars
<1>16. QED
  BY <1>1, <1>2, <1>3, <1>4, <1>5, <1>6, <1>7, <1>8, <1>9, <1>10, <1>11, <1>12, <1>13, <1>14, <1>15
     DEF Next, Decode, NextEvent

(* In an ordinary stream every slot holds a frame of the client's pool     *)
(* that fits in its buffers whenever an inter frame may come, whatever has *)
(* been refused, renegotiated or flushed (decode, update_references).      *)
THEOREM Safe == Layered /\ Spec => []Safety
<1> SUFFICES ASSUME Layered PROVE Spec => []Safety
  OBVIOUS
<1>1. Init => ReferencesKept
  BY StateTypes DEF Init, DecoderInit, ClientInit, ReferencesKept, Refusals, InState
<1>2. TypeOK /\ Streams /\ FramesFit /\ ReferencesKept /\ [Next]_vars => ReferencesKept'
  BY ReferencesKeptStep
<1>3. TypeOK /\ ReferencesKept => Safety
  <2> SUFFICES ASSUME TypeOK, ReferencesKept, ordinary, profile.retries_same_chunk, InState("Decoding"),
                      outcome = "Ok", NEW s \in Slots
               PROVE  /\ reference_frames[s] # NoHandle
                      /\ reference_frames[s].id > pool_start
                      /\ CanContain(accepted_format, reference_frames[s].format)
    BY DEF Safety, ReferencesUsable
  <2>1. Going
    BY DEF ReferencesKept, InState
  <2>2. reference_frames[s] \in FitFrames
    BY <2>1 DEF Going
  <2>3. QED BY <2>2, Vp9Assumption DEF FitFrames
<1>4. Spec => [](TypeOK /\ Streams /\ FramesFit)
  BY AlwaysFit
<1>5. QED BY <1>1, <1>2, <1>3, <1>4, PTL DEF Spec
-----------------------------------------------------------------------------
(* The decoder implements the abstract service.                            *)

LEMMA OutputStreamTypes ==
  ASSUME TypeOK
  PROVE  /\ delivered \in Seq(Handle)
         /\ ready_queue \in Seq(Handle)
         /\ delivered \o ready_queue \in Seq(Handle)
         /\ Len(delivered \o ready_queue) = Len(delivered) + Len(ready_queue)
         /\ Len(delivered) \in Nat
         /\ Len(ready_queue) \in Nat
  BY ConcatProperties, LenProperties DEF TypeOK, DecoderTypeOK, ClientTypeOK

LEMMA Regroup ==
  ASSUME NEW S
  PROVE  \A s, t, u \in Seq(S) : (s \o t) \o u = s \o (t \o u)
  BY ConcatAssociative

LEMMA ServiceOutput ==
  ASSUME TypeOK, NEW frames \in Seq(FitFrames), frames \in Seq(Handle),
         ready_queue' = ready_queue \o frames,
         UNCHANGED <<delivered, accepted_format>>
  PROVE  [Service!Next]_(Service!vars)
<1> DEFINE out == delivered \o ready_queue
           new == SubSeq(out', Len(out) + 1, Len(out'))
<1>1. /\ delivered \in Seq(Handle) /\ ready_queue \in Seq(Handle)
      /\ out \in Seq(Handle) /\ Len(out) \in Nat /\ Len(frames) \in Nat
  BY OutputStreamTypes
<1>2. out' = out \o frames
  <2>1. (delivered \o ready_queue) \o frames = delivered \o (ready_queue \o frames)
    <3>1. \A s, t, u \in Seq(Handle) : (s \o t) \o u = s \o (t \o u)
      BY ONLY Regroup
    <3>2. delivered \in Seq(Handle) /\ ready_queue \in Seq(Handle) /\ frames \in Seq(Handle)
      BY <1>1
    <3>3. QED BY ONLY <3>1, <3>2, Zenon
  <2>2. QED BY <2>1
<1>3. Len(out') = Len(out) + Len(frames)
  BY <1>1, <1>2, ConcatProperties
<1>4. CASE frames = <<>>
  <2>1. ready_queue' = ready_queue
    BY <1>1, <1>4, ConcatEmptySeq
  <2>2. QED BY <2>1 DEF Service!vars
<1>5. CASE frames # <<>>
  <2>1. Len(frames) > 0
    BY <1>1, <1>5, EmptySeq
  <2>2. new = frames
    <3> HIDE DEF out
    <3>1. Len(out) + 1 \in Len(out) + 1 .. Len(out) + Len(frames) + 1
          /\ Len(out) + Len(frames) \in (Len(out) + 1) - 1 .. Len(out) + Len(frames)
      BY <1>1
    <3>2. SubSeq(out \o frames, Len(out) + 1, Len(out) + Len(frames))
            = SubSeq(frames, (Len(out) + 1) - Len(out), (Len(out) + Len(frames)) - Len(out))
      BY ONLY <1>1, <3>1, SubSeqOfConcat2, frames \in Seq(Handle)
    <3>3. (Len(out) + 1) - Len(out) = 1 /\ (Len(out) + Len(frames)) - Len(out) = Len(frames)
      BY <1>1
    <3>4. SubSeq(frames, 1, Len(frames)) = frames
      BY SubSeqFull
    <3>5. QED BY <1>2, <1>3, <3>2, <3>3, <3>4
  <2>3. \A i \in DOMAIN frames : frames[i].format \in Formats /\ CanContain(accepted_format, frames[i].format)
    <3>1. DOMAIN frames = 1..Len(frames)
      BY LenProperties
    <3>2. \A i \in 1..Len(frames) : frames[i] \in FitFrames
      BY ElementOfSeq
    <3>3. QED BY <3>1, <3>2 DEF FitFrames, Handle
  <2>4. \A i \in DOMAIN frames : <<accepted_format, frames[i].format>> \in RoomFor
    BY <2>3 DEF CanContain
  <2>5. 1 \in DOMAIN frames
    BY <2>1, <1>1
  <2>6. accepted_format \in Formats
    BY <2>4, <2>5, Vp9Assumption
  <2>7. \A i \in DOMAIN frames :
          <<frames[i].format, accepted_format>> \in {p \in Formats \X Formats : <<p[2], p[1]>> \in RoomFor}
    BY <2>3, <2>4, <2>6
  <2>8. out' = out \o new
    BY <1>2, <2>2
  <2> HIDE DEF new
  <2>9. Service!Output(new)
    BY <2>2, <2>6, <2>7, <2>8 DEF Service!Output
  <2>10. QED BY <2>9 DEF Service!Next, new
<1>6. QED BY <1>4, <1>5

LEMMA ServiceTake ==
  ASSUME TypeOK, TakeFrame
  PROVE  Service!Next
<1> DEFINE out == delivered \o ready_queue
           h == Head(ready_queue)
<1>1. /\ delivered \in Seq(Handle) /\ ready_queue \in Seq(Handle)
      /\ ready_queue # <<>>
      /\ ready_queue' = Tail(ready_queue)
      /\ delivered' = Append(delivered, h)
      /\ UNCHANGED accepted_format
  BY OutputStreamTypes DEF TakeFrame, FrameReady, PopReady
<1>2. /\ h \in Handle /\ Tail(ready_queue) \in Seq(Handle)
      /\ Len(ready_queue) \in Nat \ {0}
      /\ <<h>> \in Seq(Handle)
  BY <1>1, HeadTailProperties, EmptySeq, LenProperties
<1>3. ready_queue = <<h>> \o Tail(ready_queue)
  <2>1. ready_queue = SubSeq(ready_queue, 1, Len(ready_queue))
    BY <1>1, SubSeqFull
  <2>2. SubSeq(ready_queue, 1, Len(ready_queue))
          = <<ready_queue[1]>> \o SubSeq(ready_queue, 2, Len(ready_queue))
    <3>1. 1 \in 1 .. Len(ready_queue) /\ Len(ready_queue) \in 1 .. Len(ready_queue)
      BY <1>2
    <3>2. 1 + 1 = 2
      OBVIOUS
    <3>3. SubSeq(ready_queue, 1, Len(ready_queue))
            = <<ready_queue[1]>> \o SubSeq(ready_queue, 1 + 1, Len(ready_queue))
      BY <1>1, <3>1, SubSeqRecursiveFirst, Zenon
    <3>4. QED BY ONLY <3>2, <3>3, Zenon
  <2>3. Tail(ready_queue) = SubSeq(ready_queue, 2, Len(ready_queue))
    BY <1>1, TailIsSubSeq
  <2>4. h = ready_queue[1]
    BY <1>1
  <2>5. QED BY <2>1, <2>2, <2>3, <2>4
<1>4. out' = out
  <2>1. delivered' = delivered \o <<h>>
    BY <1>1, <1>2, AppendIsConcat
  <2>2. out' = (delivered \o <<h>>) \o Tail(ready_queue)
    BY <1>1, <2>1
  <2>3. (delivered \o <<h>>) \o Tail(ready_queue)
          = delivered \o (<<h>> \o Tail(ready_queue))
    BY <1>1, <1>2, ConcatAssociative
  <2>4. QED BY <1>3, <2>2, <2>3
<1>5. Len(delivered) < Len(out) /\ out[Len(delivered) + 1] = h
  <2>1. Len(delivered) \in Nat
    BY <1>1, LenProperties
  <2>2. /\ Len(out) = Len(delivered) + Len(ready_queue)
        /\ out[Len(delivered) + 1] = ready_queue[1]
    BY <1>1, <1>2, <2>1, ConcatProperties
  <2>3. h = ready_queue[1]
    BY <1>1
  <2>4. QED BY <1>2, <2>1, <2>2, <2>3
<1>6. Service!Take
  BY <1>1, <1>4, <1>5 DEF Service!Take
<1>7. QED BY <1>6 DEF Service!Next

(* Where one of two layers of a superframe contains the other, the output  *)
(* grows only at its end, by frames that fit in the buffers of the format  *)
(* the client has accepted, and is handed over in order (decode,           *)
(* handle_show_existing_frame, on_format_changed).                         *)
THEOREM ImplementsService == Layered /\ Spec => ServiceSpec
<1> SUFFICES ASSUME Layered PROVE Spec => ServiceSpec
  OBVIOUS
<1>1. Init => Service!Init
  <2> SUFFICES ASSUME Init PROVE Service!Init
    OBVIOUS
  <2>1. delivered = <<>> /\ ready_queue = <<>> /\ accepted_format = NoFormat
    BY DEF Init, DecoderInit, ClientInit
  <2>2. <<>> \o <<>> = <<>>
    BY ConcatEmptySeq, EmptySeq
  <2>3. QED BY <2>1, <2>2 DEF Service!Init
<1>2. TypeOK /\ Streams /\ FramesFit /\ [Next]_vars => [Service!Next]_(Service!vars)
  <2> SUFFICES ASSUME TypeOK, Streams, FramesFit, [Next]_vars
               PROVE  [Service!Next]_(Service!vars)
    OBVIOUS
  <2>a. ASSUME UNCHANGED <<delivered, ready_queue, accepted_format>>
        PROVE  UNCHANGED Service!vars
    BY <2>a DEF Service!vars
  <2>b. /\ decoding_state \in DecodingStates /\ ready_queue \in Seq(Handle) /\ ready_poll_fd \in BOOLEAN
        /\ stream_format \in Formats \cup {NoFormat} /\ accepted_format \in Formats \cup {NoFormat}
        /\ num_handles \in Nat /\ pool_start \in Nat
    BY DEF TypeOK, DecoderTypeOK, ClientTypeOK
  <2>c. NoHandle \notin FitFrames /\ FitFrames \in SUBSET Handle
    BY Vp9Assumption DEF FitFrames
  <2>1. ASSUME NEW c \in Chunks, StillDraining(c) \/ StartDrc(c) \/ NewSequence(c) \/ StillAwaitingFormat(c)
        PROVE  UNCHANGED Service!vars
    BY <2>1, <2>a DEF StillDraining, StartDrc, NewSequence, StillAwaitingFormat, Refused
  <2>2. ASSUME NEW c \in Chunks, Skip(c) PROVE UNCHANGED Service!vars
    BY <2>2, <2>a DEF Skip, Accepted, decoder_vars
  <2>3. ASSUME NEW c \in Chunks, NoOutputBuffer(c) PROVE UNCHANGED Service!vars
    BY <2>3, <2>a DEF NoOutputBuffer, ReadyToDecode, Refused
  <2>4. ASSUME NEW c \in Chunks, NewSequenceFails(c) PROVE UNCHANGED Service!vars
    BY <2>4, <2>a DEF NewSequenceFails, Failed
  <2>5. ASSUME NEW c \in Chunks, Decoded(c) \/ PictureFails(c) PROVE [Service!Next]_(Service!vars)
    <3>1. reference_frames \in [Slots -> FitFrames \cup {NoHandle}] /\ Comparable(c)
      BY DEF FramesFit, Layered
    <3>2. PICK r \in Results(FitFrames) : PushReady(r.output) /\ UNCHANGED <<delivered, accepted_format>>
      <4>1. CASE Decoded(c)
        <5>1. HandleFrames(c) \in Results(FitFrames)
          BY <2>b, <2>c, <3>1, <4>1, DecodedFacts
        <5>2. PushReady(HandleFrames(c).output) /\ UNCHANGED <<delivered, accepted_format>>
          BY <4>1 DEF Decoded, ReadyToDecode, Accepted, Failed
        <5>3. QED BY <5>1, <5>2
      <4>2. CASE PictureFails(c)
        <5>1. ReadyToDecode(c) /\ Failed /\ \E r \in Results(FitFrames) : PushReady(r.output)
          BY <2>b, <2>c, <3>1, <4>2, FailedFacts
        <5>2. UNCHANGED <<delivered, accepted_format>>
          BY <5>1 DEF ReadyToDecode, Failed
        <5>3. QED BY <5>1, <5>2
      <4>3. QED BY <2>5, <4>1, <4>2
    <3>3. r.output \in Seq(FitFrames) /\ r.output \in Seq(Handle) /\ ready_queue' = ready_queue \o r.output
      BY <2>b, <2>c, <3>2, PushFacts
    <3>4. QED BY <3>2, <3>3, ServiceOutput
  <2>6. ASSUME Flush PROVE UNCHANGED Service!vars
    BY <2>6, <2>a DEF Flush, AbandonChunk
  <2>7. ASSUME TakeFrame PROVE Service!Next
    BY <2>7, ServiceTake
  <2>8. ASSUME TakeFormatChange PROVE Service!Next
    <3>1. /\ ready_queue = <<>> /\ UNCHANGED <<delivered, ready_queue>>
          /\ accepted_format' \in Formats
      BY <2>8, <2>b, StateTypes DEF TakeFormatChange, FormatChanged, InState
    <3>2. delivered \o ready_queue = delivered
      BY <3>1, OutputStreamTypes, ConcatEmptySeq
    <3>3. Service!ChangeFormat(accepted_format')
      BY <3>1, <3>2 DEF Service!ChangeFormat
    <3>4. QED BY <3>1, <3>3 DEF Service!Next
  <2>9. ASSUME TakeNothing PROVE UNCHANGED Service!vars
    BY <2>9, <2>a DEF TakeNothing, decoder_vars
  <2>10. ASSUME NEW h \in held, Drop(h) PROVE UNCHANGED Service!vars
    BY <2>10, <2>a DEF Drop, DropFrame, decoder_vars
  <2>11. CASE UNCHANGED vars
    BY <2>11, <2>a DEF vars, decoder_vars, client_vars
  <2>12. QED
    BY <2>1, <2>2, <2>3, <2>4, <2>5, <2>6, <2>7, <2>8, <2>9, <2>10, <2>11 DEF Next, Decode, NextEvent
<1>3. QED BY <1>1, <1>2, AlwaysFit, PTL DEF Spec, ServiceSpec, Service!Spec
-----------------------------------------------------------------------------
(* How many pictures a refused superframe asks for.                        *)

LEMMA ElementsFinite ==
  ASSUME NEW s \in Seq(Handle)
  PROVE  IsFiniteSet(ToSet(s))
<1> DEFINE f == [i \in 1..Len(s) |-> s[i]]
<1>1. Len(s) \in Nat /\ DOMAIN s = 1..Len(s)
  BY LenProperties
<1>2. IsFiniteSet(1..Len(s))
  BY <1>1, FS_Interval
<1>3. f \in Surjection(1..Len(s), ToSet(s))
  BY <1>1 DEF Surjection, ToSet
<1> HIDE DEF f
<1>4. QED BY <1>2, <1>3, FS_Surjection

LEMMA ReferencesFinite == IsFiniteSet(ReferenceSet)
<1> DEFINE S == {reference_frames[s] : s \in Slots}
           f == [s \in Slots |-> reference_frames[s]]
<1>1. f \in Surjection(Slots, S)
  BY DEF Surjection
<1> HIDE DEF f
<1>2. IsFiniteSet(S)
  <2> HIDE DEF S
  <2>1. QED BY <1>1, Vp9Assumption, FS_Surjection
<1>3. ReferenceSet \in SUBSET S
  BY DEF ReferenceSet
<1>4. QED BY <1>2, <1>3, FS_Subset

(* The client holds finitely many frames.                                  *)
HeldFinite == IsFiniteSet(held)

LEMMA FreeIsNumber ==
  ASSUME TypeOK, HeldFinite
  PROVE  Free \in Int
<1> DEFINE F == PoolFrames(ReferenceSet)
           A == ReferenceSet \cup held \cup ToSet(ready_queue)
<1>1. IsFiniteSet(ToSet(ready_queue))
  BY ElementsFinite DEF TypeOK, DecoderTypeOK
<1>2. IsFiniteSet(ReferenceSet \cup held)
  BY ReferencesFinite, FS_Union DEF HeldFinite
<1>3. IsFiniteSet(A)
  BY <1>1, <1>2, FS_Union
<1>4. F \in SUBSET A
  BY DEF PoolFrames
<1>5. IsFiniteSet(F)
  <2> HIDE DEF F, A
  <2>1. QED BY <1>3, <1>4, FS_Subset
<1>6. Cardinality(F) \in Nat
  <2> HIDE DEF F
  <2>1. QED BY <1>5, FS_CardinalityType
<1>7. PoolSize \in Int
  BY ClientAssumption
<1>8. QED BY <1>6, <1>7 DEF Free, FreeFrames

(* The number in NotEnoughOutputBuffers is that of the pictures missing,   *)
(* if no frame is shown again (decode).                                    *)
THEOREM RequestsAreExact == Spec => RequestIsExact
<1> DEFINE Exact ==
             Refuses /\ (\A i \in DOMAIN chunk' : ~chunk'[i].show_existing_frame) =>
               requested' = AllPictures(chunk') - Free
<1>1. Init => HeldFinite
  BY FS_EmptySet DEF Init, ClientInit, HeldFinite
<1>2. HeldFinite /\ [Next]_vars => HeldFinite'
  <2> SUFFICES ASSUME HeldFinite, [Next]_vars PROVE HeldFinite'
    OBVIOUS
  <2>1. ASSUME NEW c \in Chunks, Decode(c) PROVE HeldFinite'
    <3>1. UNCHANGED held
      BY <2>1 DEF Decode, StillDraining, StartDrc, NewSequence, Skip, StillAwaitingFormat, NoOutputBuffer,
                  Decoded, NewSequenceFails, PictureFails, Accepted, Refused, Failed
    <3>2. QED BY <3>1 DEF HeldFinite
  <2>2. CASE Flush
    BY <2>2 DEF Flush, AbandonChunk, HeldFinite
  <2>3. CASE TakeFrame
    <3>1. held' = held \cup {Head(ready_queue)}
      BY <2>3 DEF TakeFrame
    <3>2. QED BY <3>1, FS_AddElement DEF HeldFinite
  <2>4. CASE TakeFormatChange \/ TakeNothing
    BY <2>4 DEF TakeFormatChange, TakeNothing, HeldFinite
  <2>5. ASSUME NEW h \in held, Drop(h) PROVE HeldFinite'
    <3>1. held' = held \ {h}
      BY <2>5 DEF Drop, DropFrame
    <3>2. QED BY <3>1, FS_RemoveElement DEF HeldFinite
  <2>6. CASE UNCHANGED vars
    BY <2>6 DEF vars, client_vars, HeldFinite
  <2>7. QED BY <2>1, <2>2, <2>3, <2>4, <2>5, <2>6 DEF Next, NextEvent
<1>3. TypeOK /\ HeldFinite /\ [Next]_vars => [Exact]_vars
  <2> SUFFICES ASSUME TypeOK, HeldFinite, Next, Refuses,
                      \A i \in DOMAIN chunk' : ~chunk'[i].show_existing_frame
               PROVE  requested' = AllPictures(chunk') - Free
    OBVIOUS
  <2>1. outcome' = "NotEnoughOutputBuffers" /\ ~attended' /\ (attended \/ outcome = "Ok")
    BY DEF Refuses
  <2>2. \E c \in Chunks : NoOutputBuffer(c)
    <3>1. ASSUME NEW c \in Chunks, Decode(c) PROVE NoOutputBuffer(c)
      BY <2>1, <3>1
         DEF Decode, StillDraining, StartDrc, NewSequence, Skip, StillAwaitingFormat,
             Decoded, NewSequenceFails, PictureFails, Accepted, Refused, Failed
    <3>2. ~Flush
      BY <2>1 DEF Flush, AbandonChunk
    <3>3. ~TakeFrame /\ ~TakeFormatChange /\ ~TakeNothing
      BY <2>1 DEF TakeFrame, TakeFormatChange, TakeNothing
    <3>4. \A h \in held : ~Drop(h)
      BY <2>1 DEF Drop, DropFrame
    <3>5. QED BY <3>1, <3>2, <3>3, <3>4 DEF Next, NextEvent
  <2>3. PICK c \in Chunks : NoOutputBuffer(c)
    BY <2>2
  <2>4. chunk' = c /\ DOMAIN c = 1..Len(c) /\ Len(c) \in Nat
    BY <2>3, ChunkTypes DEF NoOutputBuffer, Refused
  <2>5. PICK i \in DOMAIN c : /\ Cardinality(Pictures(c, i)) = Free + 1
                              /\ requested' = AllPictures(c) - (i - 1)
    BY <2>3 DEF NoOutputBuffer
  <2>6. i \in 1..Len(c) /\ i \in Nat /\ \A k \in 1..i : k \in DOMAIN c
    BY <2>4
  <2>7. Cardinality(Pictures(c, i)) = i
    BY <2>4, <2>6, PictureFacts
  <2>8. Free \in Int
    BY FreeIsNumber
  <2>9. Free = i - 1
    BY <2>5, <2>6, <2>7, <2>8
  <2>10. QED BY <2>4, <2>5, <2>9
<1>4. Spec => [](TypeOK /\ HeldFinite)
  BY <1>1, <1>2, TypeCorrect, PTL DEF Spec
<1>5. Spec => [][Exact]_vars
  BY <1>3, <1>4, PTL DEF Spec
<1>6. QED BY <1>5 DEF RequestIsExact
=============================================================================
