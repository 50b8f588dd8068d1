--------------------------- MODULE Av1DecoderProofs ---------------------------
(***************************************************************************)
(* Theorems of Av1Decoder, for every set of formats and of units, every    *)
(* pool size and every client that splits no frame's unit, and, but for    *)
(* the first, gives a refused unit again: what the slots of the parser say *)
(* of the frames in them, the second call for a refused unit, and the      *)
(* abstract service.  What the code does to a unit step by step is reduced *)
(* to facts about each step (SubmitFacts, DecodeHeaderFacts, TileFacts) on *)
(* what the parser makes of a header (HeaderFacts, UpdateFacts).           *)
(***************************************************************************)
EXTENDS Av1Decoder, SequenceTheorems, TLAPS

USE FormatAssumption

-----------------------------------------------------------------------------
(* Headers and slots as records: which fields a step of the parser sets.   *)

Described == SizeFields \cup {"type", "id"}

LEMMA WithFacts ==
  ASSUME NEW h, NEW r
  PROVE  /\ DOMAIN With(h, r) = DOMAIN h \cup DOMAIN r
         /\ \A f \in DOMAIN r : With(h, r)[f] = r[f]
         /\ \A f \in DOMAIN h \ DOMAIN r : With(h, r)[f] = h[f]
  BY DEF With

KnownFields == Described \cup {"show_existing", "idx", "show", "refresh", "order_hint"}

LEMMA DefaultFields ==
  /\ {"show_existing", "idx", "display_id", "type", "show", "refresh", "order_hint", "id", "showable", "refs"}
       \subseteq DOMAIN DefaultFrame
  /\ DefaultFrame.order_hint = 0
<1>1. /\ "show_existing" \in DOMAIN DefaultFrame /\ "idx" \in DOMAIN DefaultFrame /\ "type" \in DOMAIN DefaultFrame
      /\ "show" \in DOMAIN DefaultFrame /\ "refresh" \in DOMAIN DefaultFrame /\ "order_hint" \in DOMAIN DefaultFrame
      /\ "id" \in DOMAIN DefaultFrame /\ "display_id" \in DOMAIN DefaultFrame
  BY ONLY DEF DefaultFrame
<1>2. "showable" \in DOMAIN DefaultFrame /\ "refs" \in DOMAIN DefaultFrame
  BY ONLY DEF DefaultFrame
<1>3. DefaultFrame.order_hint = 0
  BY ONLY DEF DefaultFrame
<1>4. QED BY <1>1, <1>2, <1>3

LEMMA KnownAreFields == KnownFields \subseteq DOMAIN DefaultFrame \cup SizeFields
  BY DefaultFields DEF KnownFields, Described

LEMMA EmptyFields ==
  DOMAIN EmptySlot = Described \cup {"valid", "hint", "display_id", "showable"}
  BY DEF EmptySlot, Described, SizeFields

(* What a header shows from its slot has the fields the slot has.          *)
LEMMA LoadFacts ==
  ASSUME NEW p, NEW h
  PROVE  LET l == LoadReference(p, h) IN
         /\ DOMAIN l = DOMAIN DefaultFrame \cup SizeFields
         /\ l.show_existing = 1 /\ l.idx = h.idx /\ l.order_hint = 0
         /\ l.type = p.slots[h.idx].type
         /\ l.type # "key" => l.refresh = {}
         /\ l.type = "key" => \A f \in Described : l[f] = p.slots[h.idx][f]
<1> DEFINE slot == p.slots[h.idx]
           key  == slot.type = "key"
           e == [DefaultFrame EXCEPT !.show_existing = 1, !.idx = h.idx, !.display_id = h.display_id, !.type = slot.type,
                   !.show = 0, !.refresh = IF key THEN ALL_FRAMES ELSE {}, !.id = IF key THEN slot.id ELSE 0]
           z == [f \in SizeFields |-> slot[f]]
           l == LoadReference(p, h)
<1>1. /\ DOMAIN e = DOMAIN DefaultFrame
      /\ e.show_existing = 1 /\ e.idx = h.idx /\ e.order_hint = 0 /\ e.type = slot.type
      /\ e.refresh = (IF key THEN ALL_FRAMES ELSE {}) /\ e.id = (IF key THEN slot.id ELSE 0)
  <2> HIDE DEF slot
  <2>1. QED BY DefaultFields DEF Described
<1>2. DOMAIN z = SizeFields /\ \A f \in SizeFields : z[f] = slot[f]
  OBVIOUS
<1>3. l = With(e, z)
  BY Zenon DEF LoadReference
<1> HIDE DEF e, z, l, key, slot
<1>4. /\ DOMAIN l = DOMAIN DefaultFrame \cup SizeFields
      /\ \A f \in SizeFields : l[f] = slot[f]
      /\ \A f \in DOMAIN DefaultFrame \ SizeFields : l[f] = e[f]
  <2>1. /\ DOMAIN With(e, z) = DOMAIN e \cup DOMAIN z
        /\ \A f \in DOMAIN z : With(e, z)[f] = z[f]
        /\ \A f \in DOMAIN e \ DOMAIN z : With(e, z)[f] = e[f]
    BY WithFacts
  <2>2. QED BY <2>1, <1>1, <1>2, <1>3
<1>5. {"show_existing", "idx", "order_hint", "type", "refresh", "id"} \subseteq DOMAIN DefaultFrame \ SizeFields
  BY DefaultFields DEF Described, SizeFields
<1>6. /\ l.show_existing = 1 /\ l.idx = h.idx /\ l.order_hint = 0 /\ l.type = slot.type
      /\ l.refresh = (IF key THEN ALL_FRAMES ELSE {}) /\ l.id = (IF key THEN slot.id ELSE 0)
  BY <1>1, <1>4, <1>5
<1>7. key => \A f \in Described : l[f] = slot[f]
  BY <1>4, <1>6 DEF Described
<1>8. QED BY <1>4, <1>6, <1>7 DEF l, key, slot

(* A header of its own is one the parser has made so.                      *)
LEMMA ParsedFacts ==
  ASSUME NEW h, NEW s, DOMAIN h = DOMAIN DefaultFrame
  PROVE  LET r == ParsedFrame(h, s) IN
         /\ DOMAIN r = DOMAIN DefaultFrame
         /\ r.show_existing = 0
         /\ ShownKey(r) => r.refresh = ALL_FRAMES
         /\ ShownKey(h) => ShownKey(r)
<1>1. {"show_existing", "type", "show", "refresh"} \subseteq DOMAIN h
  BY DefaultFields DEF Described
<1>2. QED BY <1>1 DEF ParsedFrame, ShownKey

LEMMA CompleteFacts ==
  ASSUME NEW h, NEW s, NEW slots, DOMAIN h = DOMAIN DefaultFrame
  PROVE  LET r == Complete(h, s, slots) IN
         /\ DOMAIN r = DOMAIN DefaultFrame \cup SizeFields
         /\ r.show_existing = h.show_existing /\ r.type = h.type /\ r.show = h.show /\ r.refresh = h.refresh
<1> DEFINE e == [h EXCEPT !.refs = IF IsIntra(h) THEN @ ELSE Refs(h, s, slots)]
           r == Complete(h, s, slots)
           z == FrameSize(h, s, slots)
<1>1. DOMAIN z = SizeFields
  BY DEF FrameSize, TakenSize, OwnSize, SizeOf, SizeFields
<1>2. r = With(e, z)
  BY DEF Complete
<1>3. /\ DOMAIN e = DOMAIN DefaultFrame
      /\ \A f \in DOMAIN DefaultFrame \ {"refs"} : e[f] = h[f]
  OBVIOUS
<1> HIDE DEF e, r, z
<1>4. /\ DOMAIN r = DOMAIN DefaultFrame \cup SizeFields
      /\ \A f \in DOMAIN DefaultFrame \ SizeFields : r[f] = e[f]
  <2>1. /\ DOMAIN With(e, z) = DOMAIN e \cup DOMAIN z
        /\ \A f \in DOMAIN e \ DOMAIN z : With(e, z)[f] = e[f]
    BY ONLY WithFacts
  <2> HIDE DEF e, z, r
  <2>2. QED BY <1>1, <1>2, <1>3, <2>1
<1>5. {"show_existing", "type", "show", "refresh"} \subseteq DOMAIN DefaultFrame \ (SizeFields \cup {"refs"})
  BY DefaultFields DEF Described, SizeFields
<1>6. QED BY <1>3, <1>4, <1>5 DEF r

-----------------------------------------------------------------------------
(* What the parser keeps has its form.                                     *)

SlotsOK(slots) ==
  /\ DOMAIN slots = Slots
  /\ \A i \in Slots : DOMAIN slots[i] = DOMAIN EmptySlot /\ slots[i].valid \in BOOLEAN

OwnOK(h) == KnownFields \subseteq DOMAIN h /\ h.show_existing = 0

ParserOK(p) ==
  /\ DOMAIN p = {"seq", "slots", "seen", "last", "id", "tiles"}
  /\ SlotsOK(p.slots)
  /\ p.last # NoHeader => OwnOK(p.last)

(* Slots s are slots t, but that some are no longer valid.                 *)
Weaker(s, t) ==
  \A i \in Slots :
    /\ \A f \in Described : s[i][f] = t[i][f]
    /\ s[i].valid => t[i].valid /\ s[i].hint = t[i].hint

LEMMA WeakerTrans ==
  ASSUME NEW s, NEW t, NEW u, Weaker(s, t), Weaker(t, u)
  PROVE  Weaker(s, u)
  BY DEF Weaker

LEMMA ForgetFacts ==
  ASSUME NEW s, SlotsOK(s)
  PROVE  SlotsOK(ForgetAll(s)) /\ Weaker(ForgetAll(s), s)
<1>1. \A i \in Slots : /\ DOMAIN ForgetAll(s)[i] = DOMAIN EmptySlot /\ ForgetAll(s)[i].valid = FALSE
                       /\ \A f \in Described : ForgetAll(s)[i][f] = s[i][f]
  BY EmptyFields DEF ForgetAll, SlotsOK, Described, SizeFields
<1>2. DOMAIN ForgetAll(s) = Slots
  BY DEF ForgetAll
<1>3. QED BY <1>1, <1>2 DEF SlotsOK, Weaker

LEMMA InvalidatedFacts ==
  ASSUME NEW s, NEW S, SlotsOK(s)
  PROVE  SlotsOK(Invalidated(s, S)) /\ Weaker(Invalidated(s, S), s)
<1>1. \A i \in Slots : /\ DOMAIN Invalidated(s, S)[i] = DOMAIN EmptySlot
                       /\ Invalidated(s, S)[i].valid = (s[i].valid /\ i \notin S)
                       /\ Invalidated(s, S)[i].hint = s[i].hint
                       /\ \A f \in Described : Invalidated(s, S)[i][f] = s[i][f]
  BY EmptyFields DEF Invalidated, SlotsOK, Described, SizeFields
<1>2. DOMAIN Invalidated(s, S) = Slots
  BY DEF Invalidated
<1>3. QED BY <1>1, <1>2 DEF SlotsOK, Weaker

LEMMA SlotsForFacts ==
  ASSUME NEW p, NEW h, SlotsOK(p.slots)
  PROVE  SlotsOK(SlotsFor(p, h)) /\ Weaker(SlotsFor(p, h), p.slots)
<1> DEFINE fresh  == IF ShownKey(h) THEN ForgetAll(p.slots) ELSE p.slots
           marked == Invalidated(fresh, TooFar(fresh, h, p.seq))
           last == Invalidated(marked, OtherHint(marked, h, p.seq))
<1>1. SlotsOK(fresh) /\ Weaker(fresh, p.slots)
  BY ForgetFacts DEF Weaker
<1> HIDE DEF fresh
<1>2. SlotsOK(marked) /\ Weaker(marked, fresh)
  BY <1>1, InvalidatedFacts
<1> HIDE DEF marked
<1>3. SlotsOK(last) /\ Weaker(last, marked)
  BY <1>2, InvalidatedFacts
<1> HIDE DEF last
<1>4. Weaker(last, fresh)
  BY <1>2, <1>3, WeakerTrans
<1>5. Weaker(last, p.slots)
  BY <1>1, <1>4, WeakerTrans
<1>6. SlotsFor(p, h) = IF AcceptsId(p, h) THEN last ELSE fresh
  BY DEF SlotsFor, fresh, marked, last
<1>7. QED BY <1>1, <1>3, <1>5, <1>6

(* What decides about a header, with the slots as they are for it.         *)
OwnAccepted(g, s, slots) ==
  /\ AcceptsReferences(g, s, slots)
  /\ AcceptsPrimary(g, s, slots)
  /\ LET c == Complete(g, s, slots) IN AcceptsTiles(c, s, MiSize(c.width), MiSize(c.height))

LEMMA OwnFacts ==
  ASSUME NEW p, NEW h, ParserOK(p), DOMAIN h = DOMAIN DefaultFrame
  PROVE  LET r == ParseOwn(p, h)
             g == ParsedFrame(h, p.seq)
         IN /\ DOMAIN r = {"ok", "header", "parser"}
            /\ DOMAIN r.parser = {"seq", "slots", "seen", "last", "id", "tiles"}
            /\ r.parser.slots = SlotsFor(p, g) /\ r.parser.seq = p.seq /\ r.parser.last = p.last
            /\ r.ok <=> AcceptsId(p, g) /\ OwnAccepted(g, p.seq, SlotsFor(p, g))
            /\ r.ok => r.header = Complete(g, p.seq, SlotsFor(p, g)) /\ OwnOK(r.header)
            /\ r.ok /\ ShownKey(h) => ShownKey(r.header) /\ r.header.refresh = ALL_FRAMES
<1> DEFINE g == ParsedFrame(h, p.seq)
           q == [p EXCEPT !.slots = SlotsFor(p, g), !.id = g.id]
           c == Complete(g, p.seq, q.slots)
           a == AcceptsId(p, g) /\ AcceptsReferences(g, p.seq, q.slots) /\ AcceptsPrimary(g, p.seq, q.slots)
           r == ParseOwn(p, h)
<1>1. /\ DOMAIN g = DOMAIN DefaultFrame /\ g.show_existing = 0
      /\ ShownKey(g) => g.refresh = ALL_FRAMES
      /\ ShownKey(h) => ShownKey(g)
  BY ParsedFacts
<1> HIDE DEF g
<1>2. /\ DOMAIN q = {"seq", "slots", "seen", "last", "id", "tiles"}
      /\ q.slots = SlotsFor(p, g) /\ q.seq = p.seq /\ q.last = p.last
  BY DEF ParserOK
<1> HIDE DEF q
<1>3. /\ DOMAIN c = DOMAIN DefaultFrame \cup SizeFields
      /\ c.show_existing = 0 /\ c.type = g.type /\ c.show = g.show /\ c.refresh = g.refresh
  BY <1>1, CompleteFacts
<1>4. OwnOK(c) /\ (ShownKey(h) => ShownKey(c) /\ c.refresh = ALL_FRAMES)
  BY <1>1, <1>3, KnownAreFields DEF OwnOK, ShownKey
<1> HIDE DEF c
<1>5. r = ParseTiles(q, c, a)
  BY DEF ParseOwn, g, q, c
<1> DEFINE mi_cols == MiSize(c.width)
           mi_rows == MiSize(c.height)
           ok == a /\ AcceptsTiles(c, q.seq, mi_cols, mi_rows)
           n == NumTiles(TileInfo(c, q.seq, mi_cols, mi_rows))
<1>6. r = [ok |-> ok, header |-> IF ok THEN c ELSE NoHeader, parser |-> IF ok THEN [q EXCEPT !.tiles = n] ELSE q]
  BY <1>5 DEF ParseTiles
<1>7. ok <=> AcceptsId(p, g) /\ OwnAccepted(g, p.seq, SlotsFor(p, g))
  BY <1>2 DEF OwnAccepted, c
<1> HIDE DEF ok, n, r
<1>8. /\ DOMAIN r = {"ok", "header", "parser"} /\ r.ok = ok /\ (ok => r.header = c)
      /\ r.parser = IF ok THEN [q EXCEPT !.tiles = n] ELSE q
  BY <1>6
<1>9. /\ DOMAIN r.parser = {"seq", "slots", "seen", "last", "id", "tiles"}
      /\ r.parser.slots = SlotsFor(p, g) /\ r.parser.seq = p.seq /\ r.parser.last = p.last
  BY <1>2, <1>8
<1>10. c = Complete(g, p.seq, SlotsFor(p, g))
  BY <1>2 DEF c
<1>11. QED BY <1>4, <1>7, <1>8, <1>9, <1>10 DEF r, g

-----------------------------------------------------------------------------
(* Parsing a header.                                                       *)

Coded(h) == DOMAIN h = DOMAIN DefaultFrame /\ h.idx \in Slots /\ h.show_existing \in {0, 1}

(* A header that shows what slot idx holds.                                *)
ShowsSlot(h, slots) ==
  /\ KnownFields \subseteq DOMAIN h
  /\ h.show_existing = 1 /\ h.idx \in Slots
  /\ h.type = "key" => h.order_hint = 0 /\ \A f \in Described : h[f] = slots[h.idx][f]

(* What parsing header h from parser p gives.                              *)
Parsed(p, h, fh) ==
  /\ ParserOK(fh.parser) /\ fh.parser.seq = p.seq /\ Weaker(fh.parser.slots, p.slots)
  /\ fh.ok => \/ OwnOK(fh.header) /\ fh.parser.last = fh.header /\ fh.parser.seen
              \/ ShowsSlot(fh.header, fh.parser.slots)
  /\ fh.ok /\ ~p.seen /\ ShownKey(h) /\ h.show_existing = 0 =>
       OwnOK(fh.header) /\ ShownKey(fh.header) /\ fh.header.refresh = ALL_FRAMES

LEMMA HeaderFacts ==
  ASSUME NEW p, NEW h, ParserOK(p), Coded(h)
  PROVE  Parsed(p, h, ParseFrameHeader(p, h))
<1> DEFINE fh == ParseFrameHeader(p, h)
           shown == p.seq.reduced = 0 /\ h.show_existing = 1
<1>1. CASE p.seen
  <2>1. fh = [ok |-> p.last # NoHeader, parser |-> p, header |-> p.last]
    BY <1>1 DEF ParseFrameHeader
  <2> HIDE DEF fh
  <2>2. fh.ok = (p.last # NoHeader) /\ fh.parser = p /\ fh.header = p.last
    BY <2>1
  <2>3. Parsed(p, h, fh)
    BY <1>1, <2>2 DEF Parsed, Weaker, ParserOK
  <2>4. QED BY <2>3 DEF fh
<1>2. CASE ~p.seen /\ p.seq = NoSequence
  <2>1. fh = [ok |-> FALSE, parser |-> [p EXCEPT !.seen = TRUE], header |-> NoHeader]
    BY <1>2 DEF ParseFrameHeader
  <2>2. QED BY <1>2, <2>1 DEF Parsed, Weaker, ParserOK
<1>3. CASE ~p.seen /\ p.seq # NoSequence /\ shown
  <2> DEFINE l == LoadReference(p, h)
  <2>1. fh = IF AcceptsShown(p, h) THEN [ok |-> TRUE, parser |-> [p EXCEPT !.seen = FALSE, !.last = NoHeader], header |-> l]
            ELSE [ok |-> FALSE, parser |-> [p EXCEPT !.seen = TRUE], header |-> NoHeader]
    BY <1>3 DEF ParseFrameHeader
  <2>2. ShowsSlot(l, p.slots)
    BY LoadFacts, KnownAreFields DEF ShowsSlot, Coded
  <2> HIDE DEF l, fh
  <2>3. CASE AcceptsShown(p, h)
    <3>1. fh = [ok |-> TRUE, parser |-> [p EXCEPT !.seen = FALSE, !.last = NoHeader], header |-> l]
      BY <2>1, <2>3
    <3>2. ParserOK(fh.parser) /\ fh.parser.seq = p.seq /\ fh.parser.slots = p.slots
      BY <3>1 DEF ParserOK
    <3>3. fh.header = l /\ ShowsSlot(fh.header, fh.parser.slots)
      BY <3>1, <3>2, <2>2
    <3>4. Parsed(p, h, fh)
      BY <3>2, <3>3, <1>3 DEF Parsed, Weaker
    <3>5. QED BY <3>4 DEF fh
  <2>4. CASE ~AcceptsShown(p, h)
    <3>1. fh = [ok |-> FALSE, parser |-> [p EXCEPT !.seen = TRUE], header |-> NoHeader]
      BY <2>1, <2>4
    <3>2. ParserOK(fh.parser) /\ fh.parser.seq = p.seq /\ fh.parser.slots = p.slots
      BY <3>1 DEF ParserOK
    <3>3. Parsed(p, h, fh)
      BY <3>1, <3>2 DEF Parsed, Weaker
    <3>4. QED BY <3>3 DEF fh
  <2>5. QED BY <2>3, <2>4
<1>4. CASE ~p.seen /\ p.seq # NoSequence /\ ~shown
  <2> DEFINE own == ParseOwn(p, h)
             g == ParsedFrame(h, p.seq)
  <2>1. fh = [own EXCEPT !.parser.seen = TRUE, !.parser.last = IF own.ok THEN own.header ELSE @]
    BY <1>4 DEF ParseFrameHeader
  <2>2. /\ DOMAIN own = {"ok", "header", "parser"}
        /\ DOMAIN own.parser = {"seq", "slots", "seen", "last", "id", "tiles"}
        /\ own.parser.slots = SlotsFor(p, g) /\ own.parser.seq = p.seq /\ own.parser.last = p.last
        /\ own.ok => OwnOK(own.header)
        /\ own.ok /\ ShownKey(h) => ShownKey(own.header) /\ own.header.refresh = ALL_FRAMES
    BY OwnFacts DEF Coded
  <2>3. SlotsOK(SlotsFor(p, g)) /\ Weaker(SlotsFor(p, g), p.slots)
    BY SlotsForFacts DEF ParserOK
  <2> HIDE DEF own, g, fh
  <2>4. /\ fh.ok = own.ok /\ fh.header = own.header
        /\ DOMAIN fh.parser = {"seq", "slots", "seen", "last", "id", "tiles"}
        /\ fh.parser.slots = own.parser.slots /\ fh.parser.seq = own.parser.seq
        /\ fh.parser.seen = TRUE
        /\ fh.parser.last = IF own.ok THEN own.header ELSE own.parser.last
    BY <2>1, <2>2
  <2>5. ParserOK(fh.parser)
    BY <2>2, <2>3, <2>4 DEF ParserOK
  <2>6. Parsed(p, h, fh)
    BY <2>2, <2>3, <2>4, <2>5 DEF Parsed
  <2>7. QED BY <2>6 DEF fh
<1>5. QED BY <1>1, <1>2, <1>3, <1>4

-----------------------------------------------------------------------------
(* What ends a frame does to the slots.                                    *)
LEMMA UpdateFacts ==
  ASSUME NEW p, NEW h, ParserOK(p)
  PROVE  LET r == RefFrameUpdate(p, h)
         IN /\ ParserOK(r) /\ r.seq = p.seq /\ r.last = p.last /\ r.seen = p.seen
            /\ h.show_existing = 1 /\ h.type # "key" => r = p
            /\ ~ (h.show_existing = 1 /\ h.type # "key") =>
                 \A i \in Slots :
                   /\ i \notin h.refresh => r.slots[i] = p.slots[i]
                   /\ i \in h.refresh =>
                        r.slots[i].hint = h.order_hint /\ \A f \in Described : r.slots[i][f] = h[f]
<1> DEFINE e == [EmptySlot EXCEPT !.valid = TRUE, !.hint = h.order_hint, !.id = h.id, !.display_id = h.display_id,
                      !.type = h.type, !.showable = h.showable]
           z == [f \in SizeFields |-> h[f]]
           slot == With(e, z)
           r == RefFrameUpdate(p, h)
<1>1. /\ DOMAIN e = DOMAIN EmptySlot /\ e.valid = TRUE /\ e.hint = h.order_hint /\ e.id = h.id /\ e.type = h.type
  BY EmptyFields DEF Described
<1>2. DOMAIN z = SizeFields /\ \A f \in SizeFields : z[f] = h[f]
  OBVIOUS
<1>3. r = IF h.show_existing = 1 /\ h.type # "key" THEN p
          ELSE [p EXCEPT !.slots = [i \in Slots |-> IF i \in h.refresh THEN slot ELSE @[i]]]
  BY Zenon DEF RefFrameUpdate
<1> HIDE DEF e, z
<1>4. /\ DOMAIN slot = DOMAIN e \cup DOMAIN z
      /\ \A f \in DOMAIN z : slot[f] = z[f]
      /\ \A f \in DOMAIN e \ DOMAIN z : slot[f] = e[f]
  BY WithFacts
<1> HIDE DEF slot, r
<1>5. {"valid", "hint", "id", "type"} \subseteq DOMAIN EmptySlot \ SizeFields /\ SizeFields \subseteq DOMAIN EmptySlot
  BY EmptyFields DEF Described, SizeFields
<1>6. /\ DOMAIN slot = DOMAIN EmptySlot /\ slot.valid = TRUE /\ slot.hint = h.order_hint
      /\ slot.id = h.id /\ slot.type = h.type
      /\ \A f \in SizeFields : slot[f] = h[f]
  BY <1>1, <1>2, <1>4, <1>5
<1>7. \A f \in Described : slot[f] = h[f]
  BY <1>6 DEF Described
<1>8. CASE h.show_existing = 1 /\ h.type # "key"
  BY <1>3, <1>8 DEF r
<1>9. CASE ~ (h.show_existing = 1 /\ h.type # "key")
  <2>1. r = [p EXCEPT !.slots = [i \in Slots |-> IF i \in h.refresh THEN slot ELSE @[i]]]
    BY <1>3, <1>9
  <2>2. /\ DOMAIN r = DOMAIN p /\ r.seq = p.seq /\ r.last = p.last /\ r.seen = p.seen
        /\ r.slots = [i \in Slots |-> IF i \in h.refresh THEN slot ELSE p.slots[i]]
    BY <2>1 DEF ParserOK
  <2>3. SlotsOK(r.slots)
    <3>1. slot.valid \in BOOLEAN
      BY <1>6
    <3>2. \A i \in Slots : r.slots[i] \in {slot, p.slots[i]}
      BY <2>2
    <3>3. \A i \in Slots : DOMAIN p.slots[i] = DOMAIN EmptySlot /\ p.slots[i].valid \in BOOLEAN
      BY DEF SlotsOK, ParserOK
    <3>4. \A i \in Slots : \A t \in {slot, p.slots[i]} : DOMAIN t = DOMAIN EmptySlot /\ t.valid \in BOOLEAN
      BY <1>6, <3>1, <3>3
    <3>5. QED BY <2>2, <3>2, <3>4 DEF SlotsOK
  <2>4. ParserOK(r)
    BY <2>2, <2>3 DEF ParserOK
  <2>5. QED BY <1>6, <1>7, <1>9, <2>2, <2>4 DEF r
<1>10. QED BY <1>8, <1>9

(* The other units change no slot.                                         *)
LEMMA SmallUnits ==
  ASSUME NEW p, NEW s, NEW e \in BOOLEAN, ParserOK(p)
  PROVE  /\ ParserOK(ParseSequence(p, s).parser) /\ ParseSequence(p, s).parser.slots = p.slots
         /\ ParserOK(ParseDelimiter(p)) /\ ParseDelimiter(p).slots = p.slots
         /\ ParserOK(ParseTileGroup(p, e)) /\ ParseTileGroup(p, e).slots = p.slots
         /\ ParseTileGroup(p, e).seq = p.seq /\ ParseTileGroup(p, e).last = p.last
         /\ ParseTileGroup(p, e).seen = (p.seen /\ ~e)
<1>1. ParserOK(ParseSequence(p, s).parser) /\ ParseSequence(p, s).parser.slots = p.slots
  BY DEF ParserOK, ParseSequence
<1>2. ParserOK(ParseDelimiter(p)) /\ ParseDelimiter(p).slots = p.slots
  BY DEF ParserOK, ParseDelimiter
<1>3. /\ ParserOK(ParseTileGroup(p, e)) /\ ParseTileGroup(p, e).slots = p.slots
      /\ ParseTileGroup(p, e).seq = p.seq /\ ParseTileGroup(p, e).last = p.last
      /\ ParseTileGroup(p, e).seen = (p.seen /\ ~e)
  BY DEF ParserOK, ParseTileGroup
<1>4. QED BY <1>1, <1>2, <1>3

-----------------------------------------------------------------------------
(* The steps of a unit, one by one.                                        *)

IsWork(w) == DOMAIN w = {"parser", "references", "pic", "output", "about", "made", "status"}
Picture(h, handle) == [header |-> h, handle |-> handle]

LEMMA PictureFacts ==
  ASSUME NEW h, NEW g
  PROVE  Picture(h, g) # NoPicture /\ Picture(h, g).header = h /\ Picture(h, g).handle = g
<1>1. DOMAIN Picture(h, g) = {"header", "handle"} /\ DOMAIN NoPicture = {}
  BY DEF Picture, NoPicture
<1>2. QED BY <1>1 DEF Picture

Submitted(w, s) ==
  LET h    == w.pic.header
      keep == IF h.show_existing = 1 /\ h.type # "key" THEN {} ELSE h.refresh
  IN /\ w.status = "Ok" /\ w.pic # NoPicture /\ s.pic = NoPicture
     /\ s.references = [i \in Slots |-> IF i \in keep THEN w.pic.handle ELSE w.references[i]]
     /\ s.output = w.output \o OutputOf(h, w.pic.handle)
     /\ \/ AcceptsUpdate(h) /\ s.status = "Ok" /\ s.parser = RefFrameUpdate(w.parser, h)
        \/ ~AcceptsUpdate(h) /\ s.status = "Error"

LEMMA SubmitFacts ==
  ASSUME NEW w, IsWork(w)
  PROVE  LET s == SubmitFrame(w)
         IN /\ IsWork(s) /\ s.about = w.about /\ s.made = w.made
            /\ \/ s = w /\ (w.status # "Ok" \/ w.pic = NoPicture)
               \/ Submitted(w, s)
<1> DEFINE h == w.pic.header
           keep == IF h.show_existing = 1 /\ h.type # "key" THEN {} ELSE h.refresh
           done == [w EXCEPT !.references = [i \in Slots |-> IF i \in keep THEN w.pic.handle ELSE @[i]],
                             !.output = @ \o OutputOf(h, w.pic.handle), !.pic = NoPicture]
           s == SubmitFrame(w)
<1>1. s = IF w.status # "Ok" \/ w.pic = NoPicture THEN w
          ELSE IF AcceptsUpdate(h) THEN [done EXCEPT !.parser = RefFrameUpdate(@, h)]
          ELSE [done EXCEPT !.status = "Error"]
  BY DEF SubmitFrame
<1> HIDE DEF keep
<1>2. /\ DOMAIN done = DOMAIN w /\ done.pic = NoPicture /\ done.parser = w.parser /\ done.about = w.about
      /\ done.made = w.made /\ done.status = w.status
      /\ done.references = [i \in Slots |-> IF i \in keep THEN w.pic.handle ELSE w.references[i]]
      /\ done.output = w.output \o OutputOf(h, w.pic.handle)
  BY DEF IsWork
<1> HIDE DEF done, s
<1>3. CASE w.status # "Ok" \/ w.pic = NoPicture
  BY <1>1, <1>3 DEF s
<1>4. CASE w.status = "Ok" /\ w.pic # NoPicture /\ AcceptsUpdate(h)
  <2>1. s = [done EXCEPT !.parser = RefFrameUpdate(@, h)]
    BY <1>1, <1>4
  <2>2. /\ DOMAIN s = DOMAIN w /\ s.pic = NoPicture /\ s.parser = RefFrameUpdate(w.parser, h) /\ s.about = w.about
        /\ s.made = w.made /\ s.status = "Ok" /\ s.references = done.references /\ s.output = done.output
    BY <1>2, <1>4, <2>1 DEF IsWork
  <2>3. Submitted(w, s)
    BY <1>2, <1>4, <2>2 DEF Submitted, keep
  <2>4. QED BY <2>2, <2>3 DEF IsWork, s
<1>5. CASE w.status = "Ok" /\ w.pic # NoPicture /\ ~AcceptsUpdate(h)
  <2>1. s = [done EXCEPT !.status = "Error"]
    BY <1>1, <1>5
  <2>2. /\ DOMAIN s = DOMAIN w /\ s.pic = NoPicture /\ s.about = w.about
        /\ s.made = w.made /\ s.status = "Error" /\ s.references = done.references /\ s.output = done.output
    BY <1>2, <1>5, <2>1 DEF IsWork
  <2>3. Submitted(w, s)
    BY <1>2, <1>5, <2>2 DEF Submitted, keep
  <2>4. QED BY <2>2, <2>3 DEF IsWork, s
<1>6. QED BY <1>3, <1>4, <1>5

NewHandle(w) == [id |-> num_handles + w.made + 1, format |-> accepted_format]

(* The four ends of decode_frame_header.                                   *)
HeaderLeft(w, h, d) == d = w /\ (w.status # "Ok" \/ (h.show_existing = 0 /\ accepted_format = NoFormat))
HeaderRefused(w, h, d) ==
  /\ w.status = "Ok" /\ d.pic = w.pic /\ d.about = w.about /\ d.made = w.made
  /\ \/ d.status = "Error" /\ h.show_existing = 1
     \/ d.status = "NotEnoughOutputBuffers" /\ h.show_existing = 0 /\ accepted_format # NoFormat
HeaderShows(w, h, d) ==
  /\ w.status = "Ok" /\ d.status = "Ok" /\ d.about = w.about /\ d.made = w.made
  /\ h.show_existing = 1 /\ w.references[h.idx] # NoHandle
  /\ d.pic = Picture(h, w.references[h.idx])
HeaderStarts(w, h, d) ==
  /\ w.status = "Ok" /\ d.status = "Ok" /\ h.show_existing = 0 /\ accepted_format # NoFormat
  /\ d.pic = Picture(h, NewHandle(w)) /\ d.made = w.made + 1 /\ d.about = Append(w.about, h)

LEMMA DecodeHeaderFacts ==
  ASSUME NEW w, NEW h, IsWork(w), w.status = "Ok" => h.show_existing \in {0, 1}
  PROVE  LET d == DecodeFrameHeader(w, h)
         IN /\ IsWork(d) /\ d.parser = w.parser /\ d.references = w.references /\ d.output = w.output
            /\ \/ HeaderLeft(w, h, d) \/ HeaderRefused(w, h, d) \/ HeaderShows(w, h, d) \/ HeaderStarts(w, h, d)
<1> DEFINE d == DecodeFrameHeader(w, h)
<1>1. CASE w.status # "Ok"
  <2>1. d = w
    BY <1>1 DEF DecodeFrameHeader
  <2>2. QED BY <1>1, <2>1 DEF HeaderLeft
<1>2. CASE w.status = "Ok" /\ h.show_existing = 1
  <2>1. d = IF w.references[h.idx] = NoHandle THEN [w EXCEPT !.status = "Error"]
            ELSE [w EXCEPT !.pic = Picture(h, w.references[h.idx])]
    BY <1>2 DEF DecodeFrameHeader, Picture
  <2> HIDE DEF d
  <2>2. CASE w.references[h.idx] = NoHandle
    <3>1. d = [w EXCEPT !.status = "Error"]
      BY <2>1, <2>2
    <3>2. /\ IsWork(d) /\ d.parser = w.parser /\ d.references = w.references /\ d.output = w.output
          /\ HeaderRefused(w, h, d)
      BY <1>2, <3>1 DEF IsWork, HeaderRefused
    <3>3. QED BY <3>2 DEF d
  <2>3. CASE w.references[h.idx] # NoHandle
    <3>1. d = [w EXCEPT !.pic = Picture(h, w.references[h.idx])]
      BY <2>1, <2>3
    <3>2. /\ IsWork(d) /\ d.parser = w.parser /\ d.references = w.references /\ d.output = w.output
          /\ HeaderShows(w, h, d)
      BY <1>2, <2>3, <3>1 DEF IsWork, HeaderShows
    <3>3. QED BY <3>2 DEF d
  <2>4. QED BY <2>2, <2>3
<1>3. CASE w.status = "Ok" /\ h.show_existing = 0 /\ accepted_format = NoFormat
  <2>1. d = w
    BY <1>3 DEF DecodeFrameHeader
  <2>2. QED BY <1>3, <2>1 DEF HeaderLeft
<1>4. CASE w.status = "Ok" /\ h.show_existing = 0 /\ accepted_format # NoFormat
  <2>1. d = IF PoolLeft(w) <= 0 THEN [w EXCEPT !.status = "NotEnoughOutputBuffers"]
            ELSE [w EXCEPT !.pic = Picture(h, NewHandle(w)), !.made = @ + 1, !.about = Append(@, h)]
    BY <1>4 DEF DecodeFrameHeader, Picture, NewHandle
  <2> HIDE DEF d
  <2>2. CASE PoolLeft(w) <= 0
    <3>1. d = [w EXCEPT !.status = "NotEnoughOutputBuffers"]
      BY <2>1, <2>2
    <3>2. /\ IsWork(d) /\ d.parser = w.parser /\ d.references = w.references /\ d.output = w.output
          /\ HeaderRefused(w, h, d)
      BY <1>4, <3>1 DEF IsWork, HeaderRefused
    <3>3. QED BY <3>2 DEF d
  <2>3. CASE ~ (PoolLeft(w) <= 0)
    <3>1. d = [w EXCEPT !.pic = Picture(h, NewHandle(w)), !.made = @ + 1, !.about = Append(@, h)]
      BY <2>1, <2>3
    <3>2. /\ IsWork(d) /\ d.parser = w.parser /\ d.references = w.references /\ d.output = w.output
          /\ HeaderStarts(w, h, d)
      BY <1>4, <3>1 DEF IsWork, HeaderStarts
    <3>3. QED BY <3>2 DEF d
  <2>4. QED BY <2>2, <2>3
<1>5. QED BY <1>1, <1>2, <1>3, <1>4

(* A group of tiles is for a picture of its own.                           *)
LEMMA TileFacts ==
  ASSUME NEW w, IsWork(w)
  PROVE  LET t == DecodeTileGroup(w)
         IN \/ t = w /\ (w.status = "Ok" => w.pic # NoPicture /\ w.pic.header.show_existing # 1)
            \/ /\ IsWork(t) /\ t.status = "Error" /\ w.status = "Ok" /\ t.parser = w.parser /\ t.references = w.references
               /\ t.pic = w.pic /\ t.output = w.output /\ t.about = w.about /\ t.made = w.made
               /\ (w.pic = NoPicture \/ w.pic.header.show_existing = 1)
<1> DEFINE t == DecodeTileGroup(w)
<1>1. CASE w.status # "Ok"
  <2>1. t = w
    BY <1>1 DEF DecodeTileGroup
  <2>2. QED BY <1>1, <2>1
<1>2. CASE w.status = "Ok" /\ (w.pic = NoPicture \/ w.pic.header.show_existing = 1)
  <2>1. t = [w EXCEPT !.status = "Error"]
    BY <1>2 DEF DecodeTileGroup
  <2> HIDE DEF t
  <2>2. /\ IsWork(t) /\ t.status = "Error" /\ t.parser = w.parser /\ t.references = w.references
        /\ t.pic = w.pic /\ t.output = w.output /\ t.about = w.about /\ t.made = w.made
    BY <2>1 DEF IsWork
  <2>3. QED BY <1>2, <2>2 DEF t
<1>3. CASE w.status = "Ok" /\ ~ (w.pic = NoPicture \/ w.pic.header.show_existing = 1)
  BY <1>3 DEF DecodeTileGroup
<1>4. QED BY <1>1, <1>2, <1>3

(* What a unit starts from, with a parser and a status.                    *)
Start(p, status) == [Work(p) EXCEPT !.status = status]

LEMMA StartFacts ==
  ASSUME NEW p, NEW status
  PROVE  /\ IsWork(Start(p, status)) /\ IsWork(Work(p)) /\ Work(p) = Start(p, "Ok")
         /\ Start(p, status).parser = p /\ Start(p, status).references = reference_frames
         /\ Start(p, status).pic = current_pic /\ Start(p, status).output = <<>>
         /\ Start(p, status).about = about /\ Start(p, status).made = 0
         /\ Start(p, status).status = status
<1>1. /\ IsWork(Start(p, status)) /\ IsWork(Work(p))
      /\ Start(p, status).parser = p /\ Start(p, status).references = reference_frames
      /\ Start(p, status).pic = current_pic /\ Start(p, status).output = <<>>
      /\ Start(p, status).about = about /\ Start(p, status).made = 0
      /\ Start(p, status).status = status
  BY DEF Start, Work, IsWork
<1>2. Work(p) = Start(p, "Ok")
  BY DEF Start, Work
<1>3. QED BY <1>1, <1>2

LEMMA ChunkFacts ==
  ASSUME NEW o \in Chunks
  PROVE  /\ o.kind \in {"sequence", "delimiter", "header", "tiles", "frame", "tile_list", "other"}
         /\ o.ends \in BOOLEAN /\ o.last \in BOOLEAN
         /\ o.kind = "sequence" => ChunkFormat(o) \in Formats
         /\ o.kind \in {"header", "frame"} => Coded(o.header)
         /\ o # NoChunk
  BY Av1Assumption, ClientAssumption DEF ChunkFormat, Coded

(* The header a unit carries, as it is parsed, and what it is decoded with.*)
HeaderOf(o) == ParseFrameHeader(parser, o.header)
HeadStatus(o) ==
  IF HeaderOf(o).ok /\ (o.kind = "frame" => accepted_format # NoFormat) THEN "Ok" ELSE "Error"
HeadParser(o) == IF o.kind = "frame" THEN ParseTileGroup(HeaderOf(o).parser, o.ends) ELSE HeaderOf(o).parser
Headed(o) == DecodeFrameHeader(Start(HeadParser(o), HeadStatus(o)), OwnHeader(o, HeaderOf(o).header))

(* Where no picture waits, a unit does only its own part.                  *)
LEMMA UnitShape ==
  ASSUME NEW o \in Chunks
  PROVE  /\ o.kind = "frame" /\ current_pic = NoPicture =>
              DecodeUnit(o) = SubmitFrame(DecodeTileGroup(Headed(o)))
         /\ o.kind = "header" /\ current_pic = NoPicture => DecodeUnit(o) = Headed(o)
         /\ o.kind = "tiles" => DecodeUnit(o) = DecodeTileGroup(Start(ParseTileGroup(parser, o.ends), "Ok"))
         /\ o.kind = "delimiter" => DecodeUnit(o) = Start(ParseDelimiter(parser), "Ok")
         /\ o.kind = "tile_list" => DecodeUnit(o) = Start(parser, "Error")
         /\ o.kind = "other" => DecodeUnit(o) = Start(parser, "Ok")
<1>1. ASSUME o.kind = "frame", current_pic = NoPicture
      PROVE  DecodeUnit(o) = SubmitFrame(DecodeTileGroup(Headed(o)))
  <2> DEFINE b == Start(HeadParser(o), HeadStatus(o))
  <2>1. b = [Work(ParseTileGroup(HeaderOf(o).parser, o.ends)) EXCEPT
               !.status = IF HeaderOf(o).ok /\ accepted_format # NoFormat THEN "Ok" ELSE "Error"]
    BY <1>1 DEF Start, HeadParser, HeadStatus
  <2>2. DecodeUnit(o) = SubmitFrame(DecodeTileGroup(DecodeFrameHeader(SubmitFrame(b), OwnHeader(o, HeaderOf(o).header))))
    BY <1>1, <2>1 DEF DecodeUnit, HeaderOf
  <2>3. SubmitFrame(b) = b
    BY <1>1, StartFacts DEF SubmitFrame
  <2>4. QED BY <2>2, <2>3 DEF Headed
<1>2. ASSUME o.kind = "header", current_pic = NoPicture
      PROVE  DecodeUnit(o) = Headed(o)
  <2> DEFINE b == Start(HeadParser(o), HeadStatus(o))
  <2>1. b = [Work(HeaderOf(o).parser) EXCEPT !.status = IF HeaderOf(o).ok THEN "Ok" ELSE "Error"]
    BY <1>2 DEF Start, HeadParser, HeadStatus
  <2>2. DecodeUnit(o) = DecodeFrameHeader(SubmitFrame(b), OwnHeader(o, HeaderOf(o).header))
    BY <1>2, <2>1 DEF DecodeUnit, HeaderOf
  <2>3. SubmitFrame(b) = b
    BY <1>2, StartFacts DEF SubmitFrame
  <2>4. QED BY <2>2, <2>3 DEF Headed
<1>3. /\ o.kind = "tiles" => DecodeUnit(o) = DecodeTileGroup(Work(ParseTileGroup(parser, o.ends)))
      /\ o.kind = "delimiter" => DecodeUnit(o) = Work(ParseDelimiter(parser))
      /\ o.kind = "tile_list" => DecodeUnit(o) = [Work(parser) EXCEPT !.status = "Error"]
      /\ o.kind = "other" => DecodeUnit(o) = Work(parser)
  BY DEF DecodeUnit
<1>4. QED BY <1>1, <1>2, <1>3, StartFacts DEF Start

LEMMA OwnHeaderFacts ==
  ASSUME NEW o, NEW h, KnownFields \subseteq DOMAIN h
  PROVE  /\ KnownFields \subseteq DOMAIN OwnHeader(o, h)
         /\ \A f \in KnownFields : OwnHeader(o, h)[f] = h[f]
         /\ OwnOK(h) => OwnOK(OwnHeader(o, h))
         /\ \A slots : ShowsSlot(h, slots) => ShowsSlot(OwnHeader(o, h), slots)
         /\ ShownKey(h) => ShownKey(OwnHeader(o, h))
         /\ AcceptsUpdate(h) => AcceptsUpdate(OwnHeader(o, h))
<1> DEFINE g == OwnHeader(o, h)
           l == [layer |-> o.layer]
<1>1. "layer" \notin KnownFields /\ DOMAIN l = {"layer"}
  BY DEF KnownFields, Described, SizeFields
<1>2. g = With(h, l)
  BY DEF OwnHeader
<1> HIDE DEF g, l
<1>3. DOMAIN With(h, l) = DOMAIN h \cup DOMAIN l /\ \A f \in DOMAIN h \ DOMAIN l : With(h, l)[f] = h[f]
  BY WithFacts
<1>4. KnownFields \subseteq DOMAIN g /\ \A f \in KnownFields : g[f] = h[f]
  BY <1>1, <1>2, <1>3
<1>5. {"show_existing", "idx", "show", "refresh", "order_hint", "type"} \subseteq KnownFields /\ Described \subseteq KnownFields
  BY DEF KnownFields, Described
<1>6. /\ g.show_existing = h.show_existing /\ g.idx = h.idx /\ g.show = h.show /\ g.refresh = h.refresh
      /\ g.order_hint = h.order_hint /\ g.type = h.type
      /\ \A f \in Described : g[f] = h[f]
  BY <1>4, <1>5
<1>7. QED BY <1>4, <1>6 DEF OwnOK, ShowsSlot, ShownKey, AcceptsUpdate, g

-----------------------------------------------------------------------------
(* The headers of the handles so far, as a sequence of some set.           *)
Listed(a) == \E S : a \in Seq(S)

LEMMA ListedFacts ==
  ASSUME NEW a, Listed(a), NEW h
  PROVE  LET b == Append(a, h) IN
         /\ Listed(b) /\ Len(a) \in Nat /\ Len(b) = Len(a) + 1
         /\ DOMAIN a = 1 .. Len(a) /\ DOMAIN b = 1 .. (Len(a) + 1)
         /\ \A i \in DOMAIN a : b[i] = a[i]
         /\ b[Len(a) + 1] = h
<1>1. PICK S : a \in Seq(S)
  BY DEF Listed
<1> DEFINE T == S \cup {h}
           b == Append(a, h)
<1>2. Len(a) \in Nat /\ DOMAIN a = 1 .. Len(a) /\ a \in [1 .. Len(a) -> S]
  BY <1>1, LenProperties
<1>3. a \in [1 .. Len(a) -> T]
  BY <1>2
<1>4. a \in Seq(T) /\ h \in T
  BY <1>2, <1>3
<1> HIDE DEF T
<1>5. /\ b \in Seq(T) /\ Len(b) = Len(a) + 1
      /\ \A i \in 1 .. Len(a) : b[i] = a[i]
      /\ b[Len(a) + 1] = h
  BY <1>4, AppendProperties
<1>6. DOMAIN b = 1 .. (Len(a) + 1)
  BY <1>5, LenProperties
<1>7. QED BY <1>2, <1>5, <1>6 DEF Listed

-----------------------------------------------------------------------------
(* The slots and the frames they hold.                                     *)

(* What a slot says of a frame with header h.                              *)
SlotTells(slot, h) ==
  /\ \A f \in Described : slot[f] = h[f]
  /\ slot.valid => slot.hint \in {h.order_hint} \cup (IF h.type = "key" THEN {0} ELSE {})

Describes(slots, refs, a) ==
  \A i \in Slots : refs[i] # NoHandle => refs[i].id \in DOMAIN a /\ SlotTells(slots[i], a[refs[i].id])

(* A picture that waits is of the header of its handle, or shows a key     *)
(* frame again.                                                            *)
PictureTold(pic, a) ==
  pic # NoPicture =>
    /\ pic.handle.id \in DOMAIN a
    /\ \/ pic.header.show_existing = 0 /\ pic.header = a[pic.handle.id]
       \/ /\ pic.header.show_existing = 1
          /\ pic.header.type = "key" =>
               pic.header.order_hint = 0 /\ \A f \in Described : pic.header[f] = a[pic.handle.id][f]

Told(p, refs, pic, a, n) ==
  /\ ParserOK(p) /\ Listed(a) /\ Len(a) = n
  /\ Describes(p.slots, refs, a) /\ PictureTold(pic, a)

WorkTold(w) ==
  /\ IsWork(w)
  /\ w.status \in {"Ok", "NotEnoughOutputBuffers", "Error"}
  /\ w.status # "Error" => Told(w.parser, w.references, w.pic, w.about, num_handles + w.made)
  /\ w.status = "NotEnoughOutputBuffers" => w.made = 0

(* Each step of a unit keeps it.                                           *)
LEMMA SubmitTold ==
  ASSUME NEW w, WorkTold(w)
  PROVE  WorkTold(SubmitFrame(w))
<1> DEFINE s == SubmitFrame(w)
           h == w.pic.header
<1>1. /\ IsWork(s) /\ s.about = w.about /\ s.made = w.made
      /\ \/ s = w /\ (w.status # "Ok" \/ w.pic = NoPicture)
         \/ Submitted(w, s)
  BY SubmitFacts DEF WorkTold
<1> HIDE DEF s
<1>2. CASE s = w
  BY <1>2 DEF s
<1>3. CASE Submitted(w, s)
  <2>1. /\ ParserOK(w.parser) /\ Listed(w.about) /\ Len(w.about) = num_handles + w.made
        /\ Describes(w.parser.slots, w.references, w.about) /\ PictureTold(w.pic, w.about)
    BY <1>3 DEF Submitted, WorkTold, Told
  <2> DEFINE keep == IF h.show_existing = 1 /\ h.type # "key" THEN {} ELSE h.refresh
  <2>2. /\ w.status = "Ok" /\ w.pic # NoPicture /\ s.pic = NoPicture
        /\ s.references = [i \in Slots |-> IF i \in keep THEN w.pic.handle ELSE w.references[i]]
        /\ \/ s.status = "Ok" /\ s.parser = RefFrameUpdate(w.parser, h)
           \/ s.status = "Error"
    BY <1>3 DEF Submitted
  <2>3. CASE s.status = "Error"
    BY <1>1, <2>2, <2>3 DEF WorkTold, s
  <2>4. CASE s.status = "Ok" /\ s.parser = RefFrameUpdate(w.parser, h)
    <3>1. /\ ParserOK(s.parser)
          /\ h.show_existing = 1 /\ h.type # "key" => s.parser = w.parser
          /\ ~ (h.show_existing = 1 /\ h.type # "key") =>
               \A i \in Slots :
                 /\ i \notin h.refresh => s.parser.slots[i] = w.parser.slots[i]
                 /\ i \in h.refresh =>
                      s.parser.slots[i].hint = h.order_hint /\ \A f \in Described : s.parser.slots[i][f] = h[f]
      BY <2>1, <2>4, UpdateFacts
    <3> DEFINE a == w.about
               m == a[w.pic.handle.id]
    <3>2. /\ w.pic.handle.id \in DOMAIN a
          /\ \/ h.show_existing = 0 /\ h = m
             \/ /\ h.show_existing = 1
                /\ h.type = "key" => h.order_hint = 0 /\ \A f \in Described : h[f] = m[f]
      BY <2>1, <2>2 DEF PictureTold
    <3> HIDE DEF h, m, a, keep
    <3>3. ASSUME NEW i \in Slots, s.references[i] # NoHandle
          PROVE  s.references[i].id \in DOMAIN a /\ SlotTells(s.parser.slots[i], a[s.references[i].id])
      <4>1. CASE i \in keep
        <5>1. s.references[i] = w.pic.handle
          BY <2>2, <4>1
        <5>2. /\ ~ (h.show_existing = 1 /\ h.type # "key") /\ i \in h.refresh
          BY <4>1 DEF keep
        <5>3. s.parser.slots[i].hint = h.order_hint /\ \A f \in Described : s.parser.slots[i][f] = h[f]
          BY <3>1, <5>2
        <5>4. (\A f \in Described : h[f] = m[f]) /\ (h.order_hint = m.order_hint \/ (h.order_hint = 0 /\ h.type = "key"))
          BY <3>2, <5>2
        <5>5. "type" \in Described
          BY DEF Described
        <5>6. h.type = m.type
          BY <5>4, <5>5
        <5>7. h.order_hint \in {m.order_hint} \cup (IF m.type = "key" THEN {0} ELSE {})
          BY <5>4, <5>6
        <5>8. SlotTells(s.parser.slots[i], m)
          BY <5>3, <5>4, <5>7 DEF SlotTells
        <5>9. QED BY <5>1, <5>8, <3>2 DEF m
      <4>2. CASE i \notin keep
        <5>1. s.references[i] = w.references[i]
          BY <2>2, <4>2
        <5>2. s.parser.slots[i] = w.parser.slots[i]
          BY <3>1, <4>2 DEF keep
        <5>3. QED BY <5>1, <5>2, <3>3, <2>1 DEF Describes, a
      <4>3. QED BY <4>1, <4>2
    <3>4. Describes(s.parser.slots, s.references, a)
      BY <3>3 DEF Describes
    <3>5. Told(s.parser, s.references, s.pic, s.about, num_handles + s.made)
      BY <1>1, <2>1, <2>2, <3>1, <3>4 DEF Told, PictureTold, a
    <3>6. QED BY <1>1, <2>4, <3>5 DEF WorkTold, s
  <2>5. QED BY <2>2, <2>3, <2>4
<1>4. QED BY <1>1, <1>2, <1>3

LEMMA HeaderTold ==
  ASSUME NEW w, NEW h, WorkTold(w), w.made = 0, num_handles \in Nat,
         w.status = "Ok" => OwnOK(h) \/ ShowsSlot(h, w.parser.slots)
  PROVE  WorkTold(DecodeFrameHeader(w, h))
<1> DEFINE d == DecodeFrameHeader(w, h)
<1>1. w.status = "Ok" => h.show_existing \in {0, 1}
  BY DEF OwnOK, ShowsSlot
<1>2. /\ IsWork(d) /\ d.parser = w.parser /\ d.references = w.references
      /\ \/ HeaderLeft(w, h, d) \/ HeaderRefused(w, h, d) \/ HeaderShows(w, h, d) \/ HeaderStarts(w, h, d)
  BY <1>1, DecodeHeaderFacts DEF WorkTold
<1> HIDE DEF d
<1>3. CASE HeaderLeft(w, h, d)
  BY <1>3 DEF HeaderLeft, d
<1>4. CASE HeaderRefused(w, h, d)
  BY <1>2, <1>4 DEF HeaderRefused, WorkTold, d
<1>5. CASE HeaderShows(w, h, d)
  <2>1. /\ ParserOK(w.parser) /\ Listed(w.about) /\ Len(w.about) = num_handles + w.made
        /\ Describes(w.parser.slots, w.references, w.about)
    BY <1>5 DEF HeaderShows, WorkTold, Told
  <2>2. ShowsSlot(h, w.parser.slots)
    BY <1>5 DEF HeaderShows, OwnOK
  <2> DEFINE r == w.references[h.idx]
             m == w.about[r.id]
             slot == w.parser.slots[h.idx]
  <2>3. r.id \in DOMAIN w.about /\ \A f \in Described : slot[f] = m[f]
    BY <1>5, <2>1, <2>2 DEF HeaderShows, ShowsSlot, Describes, SlotTells
  <2>4. h.type = "key" => h.order_hint = 0 /\ \A f \in Described : h[f] = m[f]
    BY <2>2, <2>3 DEF ShowsSlot
  <2>5. d.pic.header = h /\ d.pic.handle = r /\ d.status = "Ok" /\ d.about = w.about /\ d.made = w.made
    BY <1>5, PictureFacts DEF HeaderShows
  <2>6. PictureTold(d.pic, d.about)
    BY <2>2, <2>3, <2>4, <2>5 DEF PictureTold, ShowsSlot
  <2>7. QED BY <1>2, <2>1, <2>5, <2>6 DEF WorkTold, Told, d
<1>6. CASE HeaderStarts(w, h, d)
  <2>1. /\ ParserOK(w.parser) /\ Listed(w.about) /\ Len(w.about) = num_handles
        /\ Describes(w.parser.slots, w.references, w.about)
    BY <1>6 DEF HeaderStarts, WorkTold, Told
  <2>2. /\ d.pic.header = h /\ d.pic.handle = NewHandle(w) /\ d.status = "Ok" /\ d.made = 1
        /\ d.about = Append(w.about, h) /\ h.show_existing = 0
    BY <1>6, PictureFacts DEF HeaderStarts
  <2>3. /\ Listed(d.about) /\ Len(d.about) = Len(w.about) + 1
        /\ DOMAIN w.about = 1 .. Len(w.about) /\ DOMAIN d.about = 1 .. (Len(w.about) + 1)
        /\ \A i \in DOMAIN w.about : d.about[i] = w.about[i]
        /\ d.about[Len(w.about) + 1] = h
    BY <2>1, <2>2, ListedFacts
  <2>4. NewHandle(w).id = Len(w.about) + 1
    BY <2>1 DEF NewHandle
  <2>5. PictureTold(d.pic, d.about)
    BY <2>1, <2>2, <2>3, <2>4 DEF PictureTold
  <2>6. DOMAIN w.about \subseteq DOMAIN d.about
    BY <2>1, <2>3
  <2>7. Describes(d.parser.slots, d.references, d.about)
    BY <1>2, <2>1, <2>3, <2>6 DEF Describes
  <2>8. Len(d.about) = num_handles + d.made
    BY <2>1, <2>2, <2>3
  <2>9. QED BY <1>2, <2>1, <2>2, <2>3, <2>5, <2>7, <2>8 DEF WorkTold, Told, d
<1>7. QED BY <1>2, <1>3, <1>4, <1>5, <1>6

LEMMA TilesTold ==
  ASSUME NEW w, WorkTold(w)
  PROVE  WorkTold(DecodeTileGroup(w))
  BY TileFacts DEF WorkTold

(* The same of the state, as long as no call has failed.                   *)
StateTold == outcome # "Error" => Told(parser, reference_frames, current_pic, about, num_handles)

LEMMA StartTold ==
  ASSUME NEW p, NEW x \in {"Ok", "NotEnoughOutputBuffers", "Error"}, num_handles \in Nat,
         Told(parser, reference_frames, current_pic, about, num_handles),
         ParserOK(p), Weaker(p.slots, parser.slots)
  PROVE  WorkTold(Start(p, x))
<1>1. Describes(p.slots, reference_frames, about)
  BY DEF Told, Describes, SlotTells, Weaker, Described
<1>2. num_handles + 0 = num_handles
  OBVIOUS
<1>3. QED BY <1>1, <1>2, StartFacts DEF WorkTold, Told

LEMMA HeadTold ==
  ASSUME NEW o \in Chunks, o.kind \in {"header", "frame"}, num_handles \in Nat,
         Told(parser, reference_frames, current_pic, about, num_handles)
  PROVE  WorkTold(Headed(o))
<1> DEFINE fh == HeaderOf(o)
           b == Start(HeadParser(o), HeadStatus(o))
           g == OwnHeader(o, fh.header)
<1>1. Parsed(parser, o.header, fh) /\ o.ends \in BOOLEAN
  BY ChunkFacts, HeaderFacts DEF Told, HeaderOf
<1>2. ParserOK(HeadParser(o)) /\ HeadParser(o).slots = fh.parser.slots
  BY <1>1, SmallUnits DEF Parsed, HeadParser
<1>3. HeadStatus(o) \in {"Ok", "Error"} /\ (HeadStatus(o) = "Ok" => fh.ok)
  BY DEF HeadStatus
<1> HIDE DEF fh
<1>4. WorkTold(b)
  BY <1>1, <1>2, <1>3, StartTold DEF Parsed
<1>5. b.made = 0 /\ b.status = HeadStatus(o) /\ b.parser = HeadParser(o)
  BY StartFacts
<1> HIDE DEF b
<1>6. fh.ok => OwnOK(g) \/ ShowsSlot(g, fh.parser.slots)
  <2>1. fh.ok => OwnOK(fh.header) \/ ShowsSlot(fh.header, fh.parser.slots)
    BY <1>1 DEF Parsed
  <2>2. OwnOK(fh.header) \/ ShowsSlot(fh.header, fh.parser.slots) => KnownFields \subseteq DOMAIN fh.header
    BY DEF OwnOK, ShowsSlot
  <2>3. QED BY <2>1, <2>2, OwnHeaderFacts
<1> HIDE DEF g
<1>7. b.status = "Ok" => OwnOK(g) \/ ShowsSlot(g, b.parser.slots)
  BY <1>2, <1>3, <1>5, <1>6
<1>8. WorkTold(DecodeFrameHeader(b, g))
  BY <1>4, <1>5, <1>7, HeaderTold
<1>9. QED BY <1>8 DEF Headed, b, g, fh

LEMMA WorkedTold ==
  ASSUME NEW o \in Chunks, ~SplitsUnits, Submits(o), num_handles \in Nat,
         Told(parser, reference_frames, current_pic, about, num_handles)
  PROVE  WorkTold(Worked(o))
<1>1. ParserOK(parser) /\ o.ends \in BOOLEAN
  BY ChunkFacts DEF Told
<1>2. \A w : WorkTold(w) => WorkTold(EndOfBytes(w, o))
  BY SubmitTold DEF EndOfBytes
<1>3. WorkTold(Start(ParseSequence(parser, o.header).parser, "Ok"))
  <2> DEFINE p == ParseSequence(parser, o.header).parser
  <2>1. ParserOK(p) /\ p.slots = parser.slots
    BY <1>1, SmallUnits
  <2> HIDE DEF p
  <2>2. Weaker(p.slots, parser.slots)
    BY <2>1 DEF Weaker
  <2>3. WorkTold(Start(p, "Ok"))
    BY <2>1, <2>2, StartTold
  <2>4. QED BY <2>3 DEF p
<1>4. WorkTold(DecodeUnit(o))
  <2>1. CASE o.kind = "frame"
    <3>1. current_pic = NoPicture
      BY <2>1 DEF Submits
    <3>2. WorkTold(SubmitFrame(DecodeTileGroup(Headed(o))))
      BY <2>1, HeadTold, TilesTold, SubmitTold
    <3>3. QED BY <2>1, <3>1, <3>2, UnitShape
  <2>2. CASE o.kind = "header"
    <3>1. current_pic = NoPicture
      BY <2>2 DEF Submits
    <3>2. QED BY <2>2, <3>1, UnitShape, HeadTold
  <2>3. CASE o.kind = "tiles"
    <3>1. WorkTold(Start(ParseTileGroup(parser, o.ends), "Ok"))
      BY <1>1, SmallUnits, StartTold DEF Weaker
    <3>2. QED BY <2>3, <3>1, UnitShape, TilesTold
  <2>4. CASE o.kind = "delimiter"
    <3>1. WorkTold(Start(ParseDelimiter(parser), "Ok"))
      BY <1>1, SmallUnits, StartTold DEF Weaker
    <3>2. QED BY <2>4, <3>1, UnitShape
  <2>5. CASE o.kind = "tile_list" \/ o.kind = "other"
    <3>1. WorkTold(Start(parser, "Ok")) /\ WorkTold(Start(parser, "Error"))
      BY <1>1, StartTold DEF Weaker
    <3>2. QED BY <2>5, <3>1, UnitShape
  <2>6. CASE o.kind = "sequence"
    <3>1. DecodeUnit(o) = Work(parser)
      BY <2>6 DEF DecodeUnit
    <3>2. WorkTold(Start(parser, "Ok"))
      BY <1>1, StartTold DEF Weaker
    <3>3. QED BY <3>1, <3>2, StartFacts
  <2>7. QED BY <2>1, <2>2, <2>3, <2>4, <2>5, <2>6, ChunkFacts
<1>5. QED BY <1>2, <1>3, <1>4, StartFacts DEF Worked

-----------------------------------------------------------------------------
(* Each step keeps what is told of the state.                              *)

CountOK == num_handles \in Nat

LEMMA AlwaysTold == ~SplitsUnits /\ Spec => [](CountOK /\ StateTold)
<1> DEFINE Inv == CountOK /\ StateTold
<1> SUFFICES ASSUME ~SplitsUnits PROVE Spec => []Inv
  OBVIOUS
<1>1. Init => Inv
  <2> SUFFICES ASSUME Init PROVE Inv
    OBVIOUS
  <2>1. num_handles = 0 /\ parser = NewParser /\ reference_frames = NoReferences /\ current_pic = NoPicture /\ about = <<>>
    BY DEF Init, ClientInit
  <2>2. ParserOK(NewParser)
    <3>1. EmptySlot.valid \in BOOLEAN
      BY DEF EmptySlot
    <3>2. SlotsOK([i \in Slots |-> EmptySlot])
      BY <3>1 DEF SlotsOK
    <3>3. QED BY <3>2 DEF ParserOK, NewParser
  <2>3. Listed(<<>>) /\ Len(<<>>) = 0
    BY EmptySeq DEF Listed
  <2>4. Describes(NewParser.slots, NoReferences, <<>>)
    BY DEF Describes, NoReferences
  <2>5. QED BY <2>1, <2>2, <2>3, <2>4 DEF CountOK, StateTold, Told, PictureTold
<1>2. Inv /\ [Next]_vars => Inv'
  <2> SUFFICES ASSUME Inv, [Next]_vars PROVE Inv'
    OBVIOUS
  <2> USE DEF CountOK
  <2>1. ASSUME NEW o \in Chunks, Skip(o) PROVE Inv'
    <3>1. outcome # "Error"
      BY <2>1 DEF Skip, Submits, MayDecode, Refusals
    <3>2. QED BY <2>1, <3>1 DEF Skip, Accepted, codec_vars, StateTold, Told, Describes, PictureTold
  <2>2. ASSUME NEW o \in Chunks, SkipFails(o) PROVE Inv'
    BY <2>2 DEF SkipFails, Failed, StateTold
  <2>3. ASSUME NEW o \in Chunks, StillAwaitingFormat(o) PROVE Inv'
    <3>1. outcome # "Error"
      BY <2>3 DEF StillAwaitingFormat, Submits, MayDecode, Refusals
    <3>2. QED BY <2>3, <3>1 DEF StillAwaitingFormat, Refused, codec_vars, StateTold, Told, Describes, PictureTold
  <2>4. ASSUME NEW o \in Chunks, NewSequence(o) PROVE Inv'
    <3>1. outcome # "Error"
      BY <2>4 DEF NewSequence, Submits, MayDecode, Refusals
    <3>2. parser' = ParseSequence(parser, o.header).parser /\ ParserOK(parser)
      BY <2>4, <3>1 DEF NewSequence, StateTold, Told
    <3>3. ParserOK(parser') /\ parser'.slots = parser.slots
      BY <3>2, SmallUnits
    <3>4. UNCHANGED <<reference_frames, current_pic, about>> /\ num_handles' = num_handles + 0
      BY <2>4 DEF NewSequence, Accepted
    <3>5. QED BY <3>1, <3>3, <3>4 DEF StateTold, Told, Describes, PictureTold
  <2>5. ASSUME NEW o \in Chunks, SequenceFails(o) PROVE Inv'
    BY <2>5 DEF SequenceFails, Failed, StateTold
  <2>6. ASSUME NEW o \in Chunks, NewSequenceFails(o) PROVE Inv'
    BY <2>6 DEF NewSequenceFails, Failed, StateTold
  <2>7. ASSUME NEW o \in Chunks, Decoded(o) PROVE Inv'
    <3> DEFINE w == Worked(o)
    <3>1. outcome # "Error" /\ Submits(o)
      BY <2>7 DEF Decoded, Ready, Submits, MayDecode, Refusals
    <3>2. WorkTold(w)
      BY <3>1, WorkedTold DEF StateTold
    <3>3. /\ parser' = w.parser /\ reference_frames' = w.references /\ current_pic' = w.pic /\ about' = w.about
          /\ CASE w.status = "Ok" -> Accepted(w.made)
               [] w.status = "NotEnoughOutputBuffers" -> Refused(o, w.status)
               [] OTHER -> Failed
      BY <2>7 DEF Decoded, Finish
    <3> HIDE DEF w
    <3>4. CASE w.status = "Error"
      <4>1. Failed
        BY <3>3, <3>4
      <4>2. QED BY <4>1 DEF Failed, StateTold
    <3>5. CASE w.status = "Ok"
      <4>1. Accepted(w.made)
        BY <3>3, <3>5
      <4>2. num_handles' = num_handles + w.made
        BY <4>1 DEF Accepted
      <4>3. Told(w.parser, w.references, w.pic, w.about, num_handles + w.made)
        BY <3>2, <3>5 DEF WorkTold
      <4>4. num_handles' \in Nat
        BY <4>2, <4>3, ListedFacts DEF Told
      <4>5. QED BY <3>3, <4>2, <4>3, <4>4 DEF StateTold
    <3>6. CASE w.status = "NotEnoughOutputBuffers"
      <4>1. Refused(o, w.status)
        BY <3>3, <3>6
      <4>2. num_handles' = num_handles
        BY <4>1 DEF Refused
      <4>3. Told(w.parser, w.references, w.pic, w.about, num_handles + w.made) /\ w.made = 0
        BY <3>2, <3>6 DEF WorkTold
      <4>4. num_handles + w.made = num_handles'
        BY <4>2, <4>3
      <4>5. QED BY <3>3, <4>2, <4>3, <4>4 DEF StateTold
    <3>7. QED BY <3>2, <3>4, <3>5, <3>6 DEF WorkTold
  <2>8. ASSUME Flush PROVE Inv'
    <3>1. /\ outcome # "Error" /\ reference_frames' = NoReferences
          /\ UNCHANGED <<parser, current_pic, about, num_handles>>
      BY <2>8 DEF Flush, AbandonChunk
    <3>2. Told(parser, NoReferences, current_pic, about, num_handles)
      BY <3>1 DEF StateTold, Told, Describes, NoReferences
    <3>3. QED BY <3>1, <3>2 DEF StateTold
  <2>9. ASSUME NextEvent PROVE Inv'
    <3>1. UNCHANGED <<outcome, parser, reference_frames, current_pic, about, num_handles>>
      BY <2>9 DEF NextEvent, TakeFrame, TakeFormatChange, TakeNothing, codec_vars
    <3>2. QED BY <3>1 DEF StateTold
  <2>10. ASSUME NEW h \in held, Drop(h) PROVE Inv'
    <3>1. UNCHANGED <<outcome, parser, reference_frames, current_pic, about, num_handles>>
      BY <2>10 DEF Drop, DropFrame, codec_vars
    <3>2. QED BY <3>1 DEF StateTold
  <2>11. CASE UNCHANGED vars
    <3>1. UNCHANGED <<outcome, parser, reference_frames, current_pic, about, num_handles>>
      BY <2>11 DEF vars, client_vars, codec_vars
    <3>2. QED BY <3>1 DEF StateTold
  <2>12. QED
    BY <2>1, <2>2, <2>3, <2>4, <2>5, <2>6, <2>7, <2>8, <2>9, <2>10, <2>11 DEF Next, Decode
<1>3. QED BY <1>1, <1>2, PTL DEF Spec

(* A slot of the parser describes the frame the decoder holds for it, for  *)
(* clients that do not split units (submit_frame, ref_frame_update).       *)
THEOREM SlotsTell == ~SplitsUnits /\ Spec => []SlotsDescribeFrames
<1>1. CountOK /\ StateTold => SlotsDescribeFrames
  BY DEF StateTold, Told, Describes, SlotTells, SlotsDescribeFrames, Described
<1>2. QED BY <1>1, AlwaysTold, PTL

-----------------------------------------------------------------------------
(* Parsing a header of its own again, in a stream without identifiers,     *)
(* finds the slots as the first time.                                      *)

(* What is no longer valid is all that marking slots changes.              *)
LEMMA InvalidatedForm ==
  ASSUME NEW s, NEW S, SlotsOK(s)
  PROVE  Invalidated(s, S) =
           [i \in Slots |-> [f \in DOMAIN EmptySlot |-> IF f = "valid" THEN s[i].valid /\ i \notin S ELSE s[i][f]]]
<1>1. ASSUME NEW i \in Slots
      PROVE  [s[i] EXCEPT !.valid = @ /\ i \notin S] =
               [f \in DOMAIN EmptySlot |-> IF f = "valid" THEN s[i].valid /\ i \notin S ELSE s[i][f]]
  <2>1. DOMAIN s[i] = DOMAIN EmptySlot
    BY DEF SlotsOK
  <2>2. [s[i] EXCEPT !.valid = @ /\ i \notin S] =
          [f \in DOMAIN s[i] |-> IF f = "valid" THEN s[i].valid /\ i \notin S ELSE s[i][f]]
    BY ONLY TRUE
  <2>3. QED BY <2>1, <2>2
<1>2. QED BY <1>1 DEF Invalidated

LEMMA InvalidatedParts ==
  ASSUME NEW s, NEW S, SlotsOK(s), NEW i \in Slots
  PROVE  /\ Invalidated(s, S)[i].valid <=> (s[i].valid /\ i \notin S)
         /\ Invalidated(s, S)[i].hint = s[i].hint
         /\ \A f \in DOMAIN EmptySlot \ {"valid", "hint"} : Invalidated(s, S)[i][f] = s[i][f]
<1>1. "valid" \in DOMAIN EmptySlot /\ "hint" \in DOMAIN EmptySlot
  BY EmptyFields
<1>2. \A f \in DOMAIN EmptySlot : Invalidated(s, S)[i][f] = IF f = "valid" THEN s[i].valid /\ i \notin S ELSE s[i][f]
  BY InvalidatedForm
<1>3. QED BY <1>1, <1>2

LEMMA SameInvalidated ==
  ASSUME NEW s, NEW t, NEW S, NEW T, SlotsOK(s), SlotsOK(t),
         \A i \in Slots : /\ \A f \in DOMAIN EmptySlot \ {"valid"} : s[i][f] = t[i][f]
                          /\ (s[i].valid /\ i \notin S) <=> (t[i].valid /\ i \notin T)
  PROVE  Invalidated(s, S) = Invalidated(t, T)
<1>1. ASSUME NEW i \in Slots
      PROVE  [f \in DOMAIN EmptySlot |-> IF f = "valid" THEN s[i].valid /\ i \notin S ELSE s[i][f]]
               = [f \in DOMAIN EmptySlot |-> IF f = "valid" THEN t[i].valid /\ i \notin T ELSE t[i][f]]
  <2>1. \A f \in DOMAIN EmptySlot : f # "valid" => s[i][f] = t[i][f]
    OBVIOUS
  <2>2. (s[i].valid /\ i \notin S) = (t[i].valid /\ i \notin T)
    OBVIOUS
  <2>3. QED BY <2>1, <2>2
<1>2. QED BY <1>1, InvalidatedForm

(* Doing to the slots a second time what a header does to them.            *)
LEMMA SlotsAgain ==
  ASSUME NEW p, NEW q, NEW h, SlotsOK(p.slots), p.seq.ids = 0,
         q.slots = SlotsFor(p, h), q.seq = p.seq
  PROVE  SlotsFor(q, h) = SlotsFor(p, h)
<1> DEFINE Fresh(s) == IF ShownKey(h) THEN ForgetAll(s) ELSE s
           Marked(s) == Invalidated(Fresh(s), {})
           Final(s)  == Invalidated(Marked(s), OtherHint(Marked(s), h, p.seq))
           s == p.slots
           t == Final(s)
<1>1. \A x : TooFar(x, h, p.seq) = {}
  BY DEF TooFar
<1>2. AcceptsId(p, h) /\ AcceptsId(q, h)
  BY DEF AcceptsId
<1>3. SlotsFor(p, h) = Final(p.slots) /\ SlotsFor(q, h) = Final(q.slots)
  BY <1>1, <1>2 DEF SlotsFor
<1>4. \A x : SlotsOK(x) => SlotsOK(Fresh(x))
  BY ForgetFacts
<1> HIDE DEF Fresh
<1>5. \A x : SlotsOK(x) => SlotsOK(Marked(x))
  BY <1>4, InvalidatedFacts
<1> HIDE DEF Marked
<1>6. \A x : SlotsOK(x) => SlotsOK(Final(x))
  BY <1>5, InvalidatedFacts
<1> HIDE DEF Final
<1>7. \A x : SlotsOK(x) => \A i \in Slots :
        /\ Fresh(x)[i].valid <=> (x[i].valid /\ ~ShownKey(h))
        /\ Fresh(x)[i].hint = IF ShownKey(h) THEN 0 ELSE x[i].hint
        /\ \A f \in DOMAIN EmptySlot \ {"valid", "hint"} : Fresh(x)[i][f] = x[i][f]
  BY EmptyFields DEF Fresh, ForgetAll, SlotsOK
<1>8. \A x : SlotsOK(x) => \A i \in Slots :
        /\ Marked(x)[i].valid <=> Fresh(x)[i].valid
        /\ Marked(x)[i].hint = Fresh(x)[i].hint
        /\ \A f \in DOMAIN EmptySlot \ {"valid", "hint"} : Marked(x)[i][f] = Fresh(x)[i][f]
  BY <1>4, InvalidatedParts DEF Marked
<1>9. \A x : SlotsOK(x) => \A i \in Slots :
        /\ Final(x)[i].valid <=> (Marked(x)[i].valid /\ i \notin OtherHint(Marked(x), h, p.seq))
        /\ Final(x)[i].hint = Marked(x)[i].hint
        /\ \A f \in DOMAIN EmptySlot \ {"valid", "hint"} : Final(x)[i][f] = Marked(x)[i][f]
  BY <1>5, InvalidatedParts DEF Final
<1>10. SlotsOK(s) /\ SlotsOK(t) /\ SlotsOK(Marked(s)) /\ SlotsOK(Marked(t))
  BY <1>5, <1>6
<1>11. \A i \in Slots : /\ Marked(t)[i].hint = Marked(s)[i].hint
                        /\ \A f \in DOMAIN EmptySlot \ {"valid", "hint"} : Marked(t)[i][f] = Marked(s)[i][f]
  BY <1>7, <1>8, <1>9, <1>10
<1>12. OtherHint(Marked(t), h, p.seq) = OtherHint(Marked(s), h, p.seq)
  BY <1>11 DEF OtherHint
<1>13. \A i \in Slots : (Marked(t)[i].valid /\ i \notin OtherHint(Marked(t), h, p.seq))
                          <=> (Marked(s)[i].valid /\ i \notin OtherHint(Marked(s), h, p.seq))
  BY <1>7, <1>8, <1>9, <1>10, <1>12
<1>14. \A i \in Slots : \A f \in DOMAIN EmptySlot \ {"valid"} : Marked(t)[i][f] = Marked(s)[i][f]
  BY <1>11
<1>15. Final(t) = Final(s)
  BY <1>10, <1>13, <1>14, SameInvalidated DEF Final
<1>16. QED BY <1>3, <1>15

(* A header that the parser takes as one of its own again, because it has  *)
(* kept it or because the slots are as they were for it.                   *)
Kept(p) == p.seen /\ p.last # NoHeader
Anew(p, h) ==
  LET g == ParsedFrame(h, p.seq)
  IN /\ ~p.seen /\ p.seq # NoSequence /\ ~ (p.seq.reduced = 0 /\ h.show_existing = 1)
     /\ p.seq.ids = 0 => OwnAccepted(g, p.seq, SlotsFor(p, g))

LEMMA OwnIsKept == ASSUME NEW h, OwnOK(h) PROVE h # NoHeader
<1>1. "type" \in DOMAIN h
  BY DEF OwnOK, KnownFields, Described
<1>2. DOMAIN NoHeader = {}
  BY DEF NoHeader
<1>3. QED BY <1>1, <1>2

LEMMA TakenAgain ==
  ASSUME NEW p, NEW h, ParserOK(p), Coded(h), Kept(p) \/ (Anew(p, h) /\ p.seq.ids = 0)
  PROVE  ParseFrameHeader(p, h).ok /\ OwnOK(ParseFrameHeader(p, h).header)
<1> DEFINE fh == ParseFrameHeader(p, h)
           own == ParseOwn(p, h)
           g == ParsedFrame(h, p.seq)
<1>1. CASE Kept(p)
  <2>1. fh = [ok |-> p.last # NoHeader, parser |-> p, header |-> p.last]
    BY <1>1 DEF ParseFrameHeader, Kept
  <2> HIDE DEF fh
  <2>2. fh.ok /\ fh.header = p.last
    BY <1>1, <2>1 DEF Kept
  <2>3. QED BY <1>1, <2>2 DEF Kept, ParserOK, fh
<1>2. CASE Anew(p, h) /\ p.seq.ids = 0
  <2>1. fh = [own EXCEPT !.parser.seen = TRUE, !.parser.last = IF own.ok THEN own.header ELSE @]
    BY <1>2 DEF ParseFrameHeader, Anew
  <2>2. AcceptsId(p, g)
    BY <1>2 DEF AcceptsId
  <2>3. OwnAccepted(g, p.seq, SlotsFor(p, g))
    BY <1>2 DEF Anew
  <2>4. /\ DOMAIN own = {"ok", "header", "parser"}
        /\ own.ok <=> AcceptsId(p, g) /\ OwnAccepted(g, p.seq, SlotsFor(p, g))
        /\ own.ok => OwnOK(own.header)
    BY OwnFacts DEF Coded
  <2> HIDE DEF own, fh, g
  <2>5. fh.ok = own.ok /\ fh.header = own.header
    BY <2>1, <2>4
  <2>6. QED BY <2>2, <2>3, <2>4, <2>5 DEF fh
<1>3. QED BY <1>1, <1>2

(* What an accepted header of its own leaves for a second call.            *)
LEMMA LeftForRetry ==
  ASSUME NEW p, NEW h, ParserOK(p), Coded(h), ~p.seen,
         ParseFrameHeader(p, h).ok, OwnOK(ParseFrameHeader(p, h).header),
         NEW q, q.slots = ParseFrameHeader(p, h).parser.slots, q.seq = p.seq, ~q.seen
  PROVE  Anew(q, h)
<1> DEFINE fh == ParseFrameHeader(p, h)
           own == ParseOwn(p, h)
           g == ParsedFrame(h, p.seq)
<1>1. p.seq # NoSequence
  <2>1. CASE p.seq = NoSequence
    BY <2>1 DEF ParseFrameHeader
  <2>2. QED BY <2>1
<1>2. ~ (p.seq.reduced = 0 /\ h.show_existing = 1)
  <2> SUFFICES ASSUME p.seq.reduced = 0 /\ h.show_existing = 1 PROVE FALSE
    OBVIOUS
  <2>1. fh = IF AcceptsShown(p, h)
               THEN [ok |-> TRUE, parser |-> [p EXCEPT !.seen = FALSE, !.last = NoHeader], header |-> LoadReference(p, h)]
               ELSE [ok |-> FALSE, parser |-> [p EXCEPT !.seen = TRUE], header |-> NoHeader]
    BY <1>1 DEF ParseFrameHeader
  <2> DEFINE l == LoadReference(p, h)
  <2>2. l.show_existing = 1
    BY LoadFacts
  <2> HIDE DEF l
  <2>3. fh.header = l
    BY <2>1 DEF l
  <2>4. QED BY <2>2, <2>3 DEF OwnOK
<1>3. fh = [own EXCEPT !.parser.seen = TRUE, !.parser.last = IF own.ok THEN own.header ELSE @]
  BY <1>1, <1>2 DEF ParseFrameHeader
<1>4. /\ DOMAIN own = {"ok", "header", "parser"}
      /\ DOMAIN own.parser = {"seq", "slots", "seen", "last", "id", "tiles"}
      /\ own.parser.slots = SlotsFor(p, g)
      /\ own.ok <=> AcceptsId(p, g) /\ OwnAccepted(g, p.seq, SlotsFor(p, g))
  BY OwnFacts DEF Coded
<1>5. fh.ok
  OBVIOUS
<1>6. q.slots = fh.parser.slots
  OBVIOUS
<1> HIDE DEF own, fh, g
<1>7. fh.ok = own.ok /\ fh.parser.slots = SlotsFor(p, g)
  BY <1>3, <1>4
<1>8. OwnAccepted(g, p.seq, SlotsFor(p, g)) /\ q.slots = SlotsFor(p, g)
  BY <1>4, <1>5, <1>6, <1>7
<1>9. q.seq.ids = 0 => SlotsFor(q, g) = SlotsFor(p, g)
  BY <1>8, SlotsAgain DEF ParserOK
<1>10. QED BY <1>1, <1>2, <1>8, <1>9 DEF Anew, g

-----------------------------------------------------------------------------
(* The second call for a unit that was refused.                            *)

Retries == \A q \in Profiles : q.retries_same_chunk

(* A unit that is to be submitted again, and what the parser has for it.   *)
RefusedForBuffer ==
  /\ chunk \in Chunks /\ chunk.kind \in {"header", "frame"}
  /\ InState("Decoding") /\ accepted_format # NoFormat /\ current_pic = NoPicture
  /\ Kept(parser) \/ Anew(parser, chunk.header)
  /\ chunk.kind = "frame" /\ chunk.ends => ~parser.seen

RetryReady ==
  /\ profile \in Profiles
  /\ outcome = "NotEnoughOutputBuffers" => RefusedForBuffer
  /\ outcome = "CheckEvents" /\ chunk.kind = "frame" => ~parser.seen

(* Where no buffer is left, a header of its own has been parsed.           *)
LEMMA RefusedHead ==
  ASSUME NEW o \in Chunks, o.kind \in {"header", "frame"}, ParserOK(parser),
         Headed(o).status = "NotEnoughOutputBuffers"
  PROVE  /\ accepted_format # NoFormat /\ HeaderOf(o).ok /\ OwnOK(HeaderOf(o).header)
         /\ Headed(o).parser = HeadParser(o) /\ Headed(o).pic = current_pic
<1> DEFINE b == Start(HeadParser(o), HeadStatus(o))
           h == HeaderOf(o).header
           g == OwnHeader(o, h)
           d == Headed(o)
<1>1. /\ IsWork(b) /\ b.status = HeadStatus(o) /\ b.parser = HeadParser(o) /\ b.pic = current_pic
  BY StartFacts
<1>2. HeadStatus(o) \in {"Ok", "Error"} /\ (HeadStatus(o) = "Ok" => HeaderOf(o).ok)
  BY DEF HeadStatus
<1>3. d = DecodeFrameHeader(b, g)
  BY DEF Headed
<1>4. Parsed(parser, o.header, HeaderOf(o))
  BY ChunkFacts, HeaderFacts DEF HeaderOf
<1> HIDE DEF b, d
<1>5. HeaderOf(o).ok => /\ OwnOK(h) \/ ShowsSlot(h, HeaderOf(o).parser.slots)
                        /\ g.show_existing = h.show_existing /\ h.show_existing \in {0, 1}
  <2>1. OwnOK(h) \/ ShowsSlot(h, HeaderOf(o).parser.slots) => KnownFields \subseteq DOMAIN h /\ h.show_existing \in {0, 1}
    BY DEF OwnOK, ShowsSlot
  <2>2. "show_existing" \in KnownFields
    BY DEF KnownFields
  <2>3. HeaderOf(o).ok => OwnOK(h) \/ ShowsSlot(h, HeaderOf(o).parser.slots)
    BY <1>4 DEF Parsed
  <2>4. KnownFields \subseteq DOMAIN h => g["show_existing"] = h["show_existing"]
    BY <2>2, OwnHeaderFacts
  <2>5. QED BY <2>1, <2>3, <2>4
<1> HIDE DEF g
<1>6. b.status = "Ok" => g.show_existing \in {0, 1}
  BY <1>1, <1>2, <1>5
<1>7. /\ d.parser = b.parser
      /\ \/ HeaderLeft(b, g, d) \/ HeaderRefused(b, g, d) \/ HeaderShows(b, g, d) \/ HeaderStarts(b, g, d)
  BY <1>1, <1>3, <1>6, DecodeHeaderFacts
<1>8. d.status = "NotEnoughOutputBuffers"
  BY DEF d
<1>9. HeaderRefused(b, g, d) /\ g.show_existing = 0 /\ accepted_format # NoFormat /\ b.status = "Ok"
  BY <1>1, <1>2, <1>7, <1>8 DEF HeaderLeft, HeaderRefused, HeaderShows, HeaderStarts
<1>10. HeaderOf(o).ok /\ OwnOK(h)
  BY <1>1, <1>2, <1>5, <1>9 DEF ShowsSlot
<1>11. d.parser = HeadParser(o) /\ d.pic = current_pic
  BY <1>1, <1>7, <1>9 DEF HeaderRefused
<1>12. QED BY <1>9, <1>10, <1>11 DEF d

(* A refusal comes from the header alone.                                  *)
LEMMA RefusedWork ==
  ASSUME NEW o \in Chunks, ~SplitsUnits, Submits(o), num_handles \in Nat,
         Told(parser, reference_frames, current_pic, about, num_handles),
         Worked(o).status = "NotEnoughOutputBuffers"
  PROVE  /\ o.kind \in {"header", "frame"} /\ current_pic = NoPicture
         /\ Worked(o) = Headed(o)
<1>1. ParserOK(parser) /\ o.ends \in BOOLEAN /\ o.last \in BOOLEAN
  BY ChunkFacts DEF Told
<1>2. ASSUME NEW w, IsWork(w), SubmitFrame(w).status = "NotEnoughOutputBuffers" PROVE SubmitFrame(w) = w
  BY <1>2, SubmitFacts DEF Submitted
<1>3. ASSUME NEW w, IsWork(w), DecodeTileGroup(w).status = "NotEnoughOutputBuffers" PROVE DecodeTileGroup(w) = w
  BY <1>3, TileFacts
<1>4. ASSUME NEW p, NEW x \in {"Ok", "Error"} PROVE Start(p, x).status # "NotEnoughOutputBuffers" /\ IsWork(Start(p, x))
  BY <1>4, StartFacts
<1>5. ASSUME NEW w, IsWork(w), EndOfBytes(w, o).status = "NotEnoughOutputBuffers" PROVE EndOfBytes(w, o) = w
  BY <1>5, <1>2 DEF EndOfBytes
<1>6. o.kind # "sequence"
  <2> SUFFICES ASSUME o.kind = "sequence" PROVE FALSE
    OBVIOUS
  <2> DEFINE b == Start(ParseSequence(parser, o.header).parser, "Ok")
  <2>1. Worked(o) = EndOfBytes(b, o)
    BY StartFacts DEF Worked
  <2> HIDE DEF b
  <2>2. IsWork(b) /\ b.status # "NotEnoughOutputBuffers"
    BY <1>4 DEF b
  <2>3. QED BY <1>5, <2>1, <2>2
<1>7. Worked(o) = EndOfBytes(DecodeUnit(o), o)
  BY <1>6 DEF Worked
<1>8. \A p, x : IsWork(Start(p, x))
  BY StartFacts
<1>9. CASE o.kind \in {"header", "frame"}
  <2>1. current_pic = NoPicture
    BY <1>9 DEF Submits
  <2>2. WorkTold(Headed(o))
    BY <1>9, HeadTold
  <2> DEFINE d == Headed(o)
  <2> HIDE DEF d
  <2>3. IsWork(d)
    BY <2>2 DEF WorkTold, d
  <2>4. WorkTold(DecodeUnit(o))
    BY <1>9, <2>1, <2>2, UnitShape, TilesTold, SubmitTold
  <2>5. Worked(o) = DecodeUnit(o)
    BY <1>5, <1>7, <2>4 DEF WorkTold
  <2>6. CASE o.kind = "header"
    BY <1>9, <2>1, <2>5, <2>6, UnitShape
  <2>7. CASE o.kind = "frame"
    <3>1. DecodeUnit(o) = SubmitFrame(DecodeTileGroup(d))
      BY <2>1, <2>7, UnitShape DEF d
    <3> DEFINE t == DecodeTileGroup(d)
    <3>2. IsWork(t)
      BY <2>3, TileFacts
    <3> HIDE DEF t
    <3>3. SubmitFrame(t) = t /\ t.status = "NotEnoughOutputBuffers"
      BY <1>2, <2>5, <3>1, <3>2 DEF t
    <3>4. t = d
      BY <1>3, <2>3, <3>3 DEF t
    <3>5. QED BY <2>1, <2>5, <2>7, <3>1, <3>3, <3>4 DEF t, d
  <2>8. QED BY <1>9, <2>6, <2>7
<1>10. CASE o.kind \notin {"header", "frame"}
  <2> DEFINE Fine(w) == IsWork(w) /\ w.status # "NotEnoughOutputBuffers"
  <2>1. ASSUME NEW w, Fine(w) PROVE Fine(DecodeTileGroup(w))
    BY <1>3, <2>1, TileFacts
  <2>2. \A p : \A x \in {"Ok", "Error"} : Fine(Start(p, x))
    BY <1>4
  <2> HIDE DEF Fine
  <2>3. /\ Fine(DecodeTileGroup(Start(ParseTileGroup(parser, o.ends), "Ok")))
        /\ Fine(Start(ParseDelimiter(parser), "Ok"))
        /\ Fine(Start(parser, "Error")) /\ Fine(Start(parser, "Ok"))
    BY <2>1, <2>2
  <2>4. Fine(DecodeUnit(o))
    BY <1>6, <1>10, <2>3, UnitShape, ChunkFacts
  <2>5. QED BY <1>5, <1>7, <2>4 DEF Fine
<1>11. QED BY <1>9, <1>10

(* What waits for the second call is kept by every step.                   *)
LEMMA RetryReadyKept ==
  ~SplitsUnits /\ Retries /\ CountOK /\ StateTold /\ RetryReady /\ [Next]_vars => RetryReady'
<1> SUFFICES ASSUME ~SplitsUnits, Retries, CountOK, StateTold, RetryReady, [Next]_vars
             PROVE  RetryReady'
  OBVIOUS
<1> USE DEF CountOK
<1>1. ASSUME NEW o \in Chunks, Submits(o)
      PROVE  /\ outcome # "Error" /\ (outcome \in Refusals => o = chunk)
             /\ outcome \in {"Ok"} \cup Refusals
  BY <1>1 DEF Submits, MayDecode, Refusals, Retries, RetryReady
<1>2. ASSUME NEW o \in Chunks, Submits(o), o.kind = "frame", o.ends \/ outcome # "NotEnoughOutputBuffers"
      PROVE  ~parser.seen
  BY <1>1, <1>2 DEF RetryReady, RefusedForBuffer, Refusals, Submits
<1>3. ASSUME NEW o \in Chunks, Skip(o) \/ NewSequence(o) PROVE RetryReady'
  <2>1. outcome' = "Ok" /\ profile' = profile
    BY <1>3 DEF Skip, NewSequence, Accepted
  <2>2. QED BY <2>1 DEF RetryReady
<1>4. ASSUME NEW o \in Chunks, SkipFails(o) \/ SequenceFails(o) \/ NewSequenceFails(o) PROVE RetryReady'
  <2>1. outcome' = "Error" /\ profile' = profile
    BY <1>4 DEF SkipFails, SequenceFails, NewSequenceFails, Failed
  <2>2. QED BY <2>1 DEF RetryReady
<1>5. ASSUME NEW o \in Chunks, StillAwaitingFormat(o) PROVE RetryReady'
  <2>1. Submits(o) /\ outcome' = "CheckEvents" /\ chunk' = o /\ parser' = parser /\ profile' = profile /\ InState("AwaitingFormat")
    BY <1>5 DEF StillAwaitingFormat, Refused, codec_vars
  <2>2. outcome # "NotEnoughOutputBuffers"
    BY <2>1 DEF RetryReady, RefusedForBuffer, InState
  <2>3. o.kind = "frame" => ~parser'.seen
    BY <1>2, <2>1, <2>2
  <2>4. QED BY <2>1, <2>3 DEF RetryReady
<1>6. ASSUME NEW o \in Chunks, Decoded(o) PROVE RetryReady'
  <2> DEFINE w == Worked(o)
  <2>1. Submits(o) /\ outcome # "Error"
    BY <1>1, <1>6 DEF Decoded, Ready
  <2>2. Told(parser, reference_frames, current_pic, about, num_handles)
    BY <2>1 DEF StateTold
  <2>3. WorkTold(w)
    BY <2>1, <2>2, WorkedTold
  <2>4. /\ parser' = w.parser /\ current_pic' = w.pic /\ accepted_format' = accepted_format
        /\ decoding_state' = IF IsDecodeOp(o) THEN State("Decoding") ELSE decoding_state
        /\ CASE w.status = "Ok" -> Accepted(w.made)
             [] w.status = "NotEnoughOutputBuffers" -> Refused(o, w.status)
             [] OTHER -> Failed
    BY <1>6 DEF Decoded, Finish
  <2>5. CASE w.status # "NotEnoughOutputBuffers"
    <3>1. w.status \in {"Ok", "Error"}
      BY <2>3, <2>5 DEF WorkTold
    <3>2. outcome' \in {"Ok", "Error"} /\ profile' = profile
      BY <2>4, <3>1 DEF Accepted, Failed
    <3>3. QED BY <3>2 DEF RetryReady
  <2>6. CASE w.status = "NotEnoughOutputBuffers"
    <3>1. /\ o.kind \in {"header", "frame"} /\ current_pic = NoPicture /\ w = Headed(o)
      BY <2>1, <2>2, <2>6, RefusedWork
    <3>2. ParserOK(parser)
      BY <2>2 DEF Told
    <3>3. /\ accepted_format # NoFormat /\ HeaderOf(o).ok /\ OwnOK(HeaderOf(o).header)
          /\ w.parser = HeadParser(o) /\ w.pic = current_pic
      BY <2>6, <3>1, <3>2, RefusedHead
    <3>4. Parsed(parser, o.header, HeaderOf(o)) /\ Coded(o.header) /\ o.ends \in BOOLEAN
      BY <3>1, <3>2, ChunkFacts, HeaderFacts DEF HeaderOf
    <3> DEFINE fh == HeaderOf(o)
    <3> HIDE DEF w, fh
    <3>5. ParserOK(fh.parser) /\ fh.parser.seq = parser.seq /\ fh.parser.last = fh.header /\ fh.parser.seen
      BY <3>3, <3>4 DEF Parsed, ShowsSlot, OwnOK, fh
    <3>6. fh.header # NoHeader
      BY <3>3, OwnIsKept DEF fh
    <3>7. Kept(parser') \/ Anew(parser', o.header)
      <4>1. CASE o.kind = "header"
        <5>1. parser' = fh.parser
          BY <2>4, <3>3, <4>1 DEF HeadParser, fh
        <5>2. QED BY <3>5, <3>6, <5>1 DEF Kept
      <4>2. CASE o.kind = "frame"
        <5>1. parser' = ParseTileGroup(fh.parser, o.ends)
          BY <2>4, <3>3, <4>2 DEF HeadParser, fh
        <5>2. /\ parser'.slots = fh.parser.slots /\ parser'.seq = parser.seq /\ parser'.last = fh.header
              /\ parser'.seen = (fh.parser.seen /\ ~o.ends)
          BY <3>4, <3>5, <5>1, SmallUnits
        <5>3. CASE ~o.ends
          BY <3>5, <3>6, <5>2, <5>3 DEF Kept
        <5>4. CASE o.ends
          <6>1. ~parser.seen
            BY <1>2, <2>1, <4>2, <5>4
          <6>2. ~parser'.seen
            BY <5>2, <5>4
          <6>3. Anew(parser', o.header)
            BY <3>2, <3>3, <3>4, <5>2, <6>1, <6>2, LeftForRetry DEF HeaderOf, fh
          <6>4. QED BY <6>3
        <5>5. QED BY <3>4, <5>3, <5>4
      <4>3. QED BY <3>1, <4>1, <4>2
    <3>8. o.kind = "frame" /\ o.ends => ~parser'.seen
      <4> SUFFICES ASSUME o.kind = "frame", o.ends PROVE ~parser'.seen
        OBVIOUS
      <4>1. parser' = ParseTileGroup(fh.parser, o.ends)
        BY <2>4, <3>3 DEF HeadParser, fh
      <4>2. QED BY <3>4, <3>5, <4>1, SmallUnits
    <3>9. outcome' = "NotEnoughOutputBuffers" /\ chunk' = o /\ profile' = profile
      BY <2>4, <2>6 DEF Refused
    <3>10. InState("Decoding")'
      BY <2>4, <3>1 DEF IsDecodeOp, InState, State
    <3>11. RefusedForBuffer'
      BY <2>4, <3>1, <3>3, <3>7, <3>8, <3>9, <3>10 DEF RefusedForBuffer
    <3>12. QED BY <3>9, <3>11 DEF RetryReady
  <2>7. QED BY <2>5, <2>6
<1>7. ASSUME Flush PROVE RetryReady'
  BY <1>7 DEF Flush, AbandonChunk, RetryReady
<1>8. ASSUME NextEvent \/ (\E h \in held : Drop(h)) \/ UNCHANGED vars PROVE RetryReady'
  <2>1. UNCHANGED <<outcome, chunk, profile, parser, current_pic>>
    BY <1>8 DEF NextEvent, TakeFrame, TakeFormatChange, TakeNothing, codec_vars, Drop, DropFrame, vars, client_vars
  <2>2. (InState("Decoding") /\ accepted_format # NoFormat) => (InState("Decoding") /\ accepted_format # NoFormat)'
    BY <1>8 DEF NextEvent, TakeFrame, FrameReady, PopReady, TakeFormatChange, FormatChanged, TakeNothing, Drop, DropFrame, vars,
                decoder_vars, InState
  <2>3. RefusedForBuffer => RefusedForBuffer'
    BY <2>1, <2>2 DEF RefusedForBuffer
  <2>4. QED BY <2>1, <2>3 DEF RetryReady
<1>9. QED
  BY <1>3, <1>4, <1>5, <1>6, <1>7, <1>8 DEF Next, Decode

(* A refused unit is decoded, once there is a buffer for it.               *)
LEMMA SecondCallWorks ==
  ASSUME ~SplitsUnits, CountOK, StateTold, RefusedForBuffer, outcome # "Error",
         parser.seq.ids = 0, MayRefresh(HeaderOf(chunk)), Submits(chunk)
  PROVE  Worked(chunk).status # "Error"
<1> DEFINE o == chunk
           h == HeaderOf(o).header
           g == OwnHeader(o, h)
           b == Start(HeadParser(o), HeadStatus(o))
           d == Headed(o)
<1>1. /\ o \in Chunks /\ o.kind \in {"header", "frame"} /\ accepted_format # NoFormat /\ current_pic = NoPicture
      /\ ParserOK(parser) /\ Coded(o.header)
  BY ChunkFacts DEF RefusedForBuffer, StateTold, Told
<1>2. HeaderOf(o).ok /\ OwnOK(h)
  BY <1>1, TakenAgain DEF RefusedForBuffer, HeaderOf
<1>3. AcceptsUpdate(h)
  BY <1>2 DEF MayRefresh
<1>4. OwnOK(g) /\ AcceptsUpdate(g)
  BY <1>2, <1>3, OwnHeaderFacts DEF OwnOK
<1>5. HeadStatus(o) = "Ok"
  BY <1>1, <1>2 DEF HeadStatus
<1>6. IsWork(b) /\ b.status = "Ok"
  BY <1>5, StartFacts
<1>7. d = DecodeFrameHeader(b, g)
  BY DEF Headed
<1> HIDE DEF o, h, g, b, d
<1>8. g.show_existing = 0
  BY <1>4 DEF OwnOK
<1>9. /\ IsWork(d)
      /\ \/ HeaderLeft(b, g, d) \/ HeaderRefused(b, g, d) \/ HeaderShows(b, g, d) \/ HeaderStarts(b, g, d)
  BY <1>6, <1>7, <1>8, DecodeHeaderFacts
<1> DEFINE Fine(w) == IsWork(w) /\ w.status # "Error"
                      /\ (w.status = "Ok" /\ w.pic # NoPicture => AcceptsUpdate(w.pic.header))
<1>10. Fine(d) /\ (d.status = "Ok" => d.pic # NoPicture /\ d.pic.header = g)
  BY <1>1, <1>4, <1>6, <1>8, <1>9, PictureFacts DEF HeaderLeft, HeaderRefused, HeaderShows, HeaderStarts
<1>11. ASSUME NEW w, Fine(w) PROVE Fine(SubmitFrame(w))
  <2>1. IsWork(w)
    BY <1>11
  <2>2. /\ IsWork(SubmitFrame(w))
        /\ SubmitFrame(w) = w \/ Submitted(w, SubmitFrame(w))
    BY <2>1, SubmitFacts
  <2>3. QED BY <1>11, <2>2 DEF Submitted
<1>12. DecodeTileGroup(d) = d
  BY <1>8, <1>10, TileFacts
<1> HIDE DEF Fine
<1>13. Fine(DecodeUnit(o))
  BY <1>1, <1>10, <1>11, <1>12, UnitShape DEF d
<1>14. Fine(Worked(o))
  BY <1>1, <1>11, <1>13 DEF Worked, EndOfBytes
<1>15. QED BY <1>14 DEF Fine, o

(* A unit refused for want of a buffer does not fail when it is given      *)
(* again, where frames are not numbered: its header is still kept, or is   *)
(* parsed with slots that differ from those of the first call in nothing a *)
(* second parse looks at (parse_frame_header_obu, decode_frame_header).    *)
THEOREM RetryWorks == ~SplitsUnits /\ Retries /\ Spec => RetryIsHarmless
<1> SUFFICES ASSUME ~SplitsUnits, Retries PROVE Spec => RetryIsHarmless
  OBVIOUS
<1>1. Init => RetryReady
  BY DEF Init, ClientInit, RetryReady
<1>2. CountOK /\ StateTold /\ RetryReady /\ [Next]_vars => RetryReady'
  BY RetryReadyKept
<1> DEFINE Again == /\ outcome = "NotEnoughOutputBuffers" /\ parser.seq.ids = 0
                    /\ MayRefresh(ParseFrameHeader(parser, chunk.header))
                    /\ Decode(chunk)
                    => outcome' # "Error"
<1>3. CountOK /\ StateTold /\ RetryReady => [Again]_vars
  <2> SUFFICES ASSUME CountOK, StateTold, RetryReady, outcome = "NotEnoughOutputBuffers", parser.seq.ids = 0,
                      MayRefresh(HeaderOf(chunk)), Decode(chunk)
               PROVE  outcome' # "Error"
    BY DEF HeaderOf
  <2>1. RefusedForBuffer /\ chunk \in Chunks
    BY DEF RetryReady, RefusedForBuffer
  <2>2. /\ InState("Decoding") /\ chunk.kind # "sequence"
    BY <2>1 DEF RefusedForBuffer
  <2>3. Decoded(chunk) \/ StillAwaitingFormat(chunk)
    BY <2>2 DEF Decode, Skip, SkipFails, NewSequence, SequenceFails, NewSequenceFails, InState
  <2>4. CASE StillAwaitingFormat(chunk)
    BY <2>4 DEF StillAwaitingFormat, Refused
  <2>5. CASE Decoded(chunk)
    <3> DEFINE w == Worked(chunk)
    <3>1. Submits(chunk) /\ outcome # "Error"
      BY <2>5 DEF Decoded, Ready
    <3>2. w.status # "Error"
      BY <2>1, <3>1, SecondCallWorks
    <3>3. WorkTold(w)
      BY <2>1, <3>1, WorkedTold DEF StateTold, CountOK
    <3>4. /\ TRUE
          /\ CASE w.status = "Ok" -> Accepted(w.made)
               [] w.status = "NotEnoughOutputBuffers" -> Refused(chunk, w.status)
               [] OTHER -> Failed
      BY <2>5 DEF Decoded, Finish
    <3> HIDE DEF w
    <3>5. w.status \in {"Ok", "NotEnoughOutputBuffers"}
      BY <3>2, <3>3 DEF WorkTold
    <3>6. Accepted(w.made) \/ Refused(chunk, "NotEnoughOutputBuffers")
      BY <3>4, <3>5
    <3>7. QED BY <3>6 DEF Accepted, Refused
  <2>6. QED BY <2>3, <2>4, <2>5
<1>4. Spec => [](CountOK /\ StateTold)
  BY AlwaysTold
<1>5. Spec => [](CountOK /\ StateTold /\ RetryReady)
  BY <1>1, <1>2, <1>4, PTL DEF Spec
<1>6. Spec => [][Again]_vars
  BY <1>3, <1>5, PTL DEF Spec
<1>7. QED BY <1>6 DEF RetryIsHarmless

-----------------------------------------------------------------------------
(* The frames the decoder holds are of the accepted format, or will be     *)
(* replaced by the first frame of the sequence before any is used.         *)

OwnFrames == {h \in Handle : h.format = accepted_format}
RefsFit(refs) == \A i \in Slots : refs[i] # NoHandle => refs[i] \in OwnFrames

(* A picture that replaces all references.                                 *)
Replaces(pic) == pic # NoPicture /\ pic.header.show_existing = 0 /\ pic.header.refresh = ALL_FRAMES

(* What the parser makes of header h is such a picture's.                  *)
KeyAhead(p, h) ==
  \/ p.seen /\ p.last # NoHeader /\ p.last.refresh = ALL_FRAMES
  \/ ~p.seen /\ ShownKey(h) /\ h.show_existing = 0

ServiceTypes ==
  /\ decoding_state \in DecodingStates
  /\ ready_queue \in Seq(Handle) /\ delivered \in Seq(Handle)
  /\ accepted_format \in Formats \cup {NoFormat}

FirstRefused == outcome = "NotEnoughOutputBuffers" /\ KeyAhead(parser, chunk.header)
FramesFit ==
  outcome # "Error" =>
    /\ current_pic # NoPicture => current_pic.handle \in OwnFrames
    /\ InState("AwaitingFormat") => begins /\ current_pic = NoPicture
    /\ accepted_format = NoFormat => RefsFit(reference_frames)
    /\ RefsFit(reference_frames) \/ begins \/ FirstRefused \/ Replaces(current_pic)

(* The same of the work on unit o, and of what it outputs.                 *)
WorkFits(w, o) ==
  /\ IsWork(w)
  /\ w.status \in {"Ok", "NotEnoughOutputBuffers", "Error"}
  /\ w.output \in Seq(OwnFrames)
  /\ w.pic # NoPicture => w.pic.handle \in OwnFrames
  /\ accepted_format = NoFormat => RefsFit(w.references)
  /\ w.status = "Ok" =>
       RefsFit(w.references) \/ Replaces(w.pic) \/ (begins /\ o.kind \notin {"header", "frame"})
  /\ w.status = "NotEnoughOutputBuffers" => RefsFit(w.references) \/ KeyAhead(w.parser, o.header)

(* Each step of a unit keeps it.                                           *)
LEMMA SubmitFits ==
  ASSUME NEW w, NEW o, WorkFits(w, o)
  PROVE  WorkFits(SubmitFrame(w), o)
<1> DEFINE s == SubmitFrame(w)
           h == w.pic.header
           keep == IF h.show_existing = 1 /\ h.type # "key" THEN {} ELSE h.refresh
<1>1. /\ IsWork(s)
      /\ s = w \/ Submitted(w, s)
  BY SubmitFacts DEF WorkFits
<1> HIDE DEF s
<1>2. CASE s = w
  BY <1>2 DEF s
<1>3. CASE Submitted(w, s)
  <2>1. /\ w.status = "Ok" /\ w.pic # NoPicture /\ s.pic = NoPicture
        /\ s.references = [i \in Slots |-> IF i \in keep THEN w.pic.handle ELSE w.references[i]]
        /\ s.output = w.output \o OutputOf(h, w.pic.handle)
        /\ s.status \in {"Ok", "Error"}
    BY <1>3 DEF Submitted
  <2> HIDE DEF h
  <2>2. w.pic.handle \in OwnFrames
    BY <2>1 DEF WorkFits
  <2>3. s.output \in Seq(OwnFrames)
    <3>1. OutputOf(h, w.pic.handle) \in Seq(OwnFrames)
      <4>1. <<w.pic.handle>> \in Seq(OwnFrames) /\ <<>> \in Seq(OwnFrames)
        BY <2>2
      <4>2. QED BY <4>1 DEF OutputOf
    <3>2. QED BY <2>1, <3>1, ConcatProperties DEF WorkFits
  <2>4. RefsFit(w.references) => RefsFit(s.references)
    BY <2>1, <2>2 DEF RefsFit
  <2>5. Replaces(w.pic) => RefsFit(s.references)
    <3>1. Replaces(w.pic) => keep = Slots
      BY DEF Replaces, h, ALL_FRAMES
    <3>2. QED BY <2>1, <2>2, <3>1 DEF RefsFit
  <2>6. QED BY <1>1, <2>1, <2>3, <2>4, <2>5 DEF WorkFits, s
<1>4. QED BY <1>1, <1>2, <1>3

LEMMA TilesFit ==
  ASSUME NEW w, NEW o, WorkFits(w, o)
  PROVE  WorkFits(DecodeTileGroup(w), o)
  BY TileFacts DEF WorkFits

(* A unit that is not a frame's, or the tiles of one.                      *)
LEMMA StartFits ==
  ASSUME NEW p, NEW x \in {"Ok", "Error"}, NEW o, o.kind \notin {"header", "frame"}, FramesFit,
         outcome # "Error", outcome # "NotEnoughOutputBuffers"
  PROVE  WorkFits(Start(p, x), o)
<1>1. <<>> \in Seq(OwnFrames)
  OBVIOUS
<1> DEFINE w == Start(p, x)
<1>2. /\ IsWork(w) /\ w.references = reference_frames /\ w.pic = current_pic /\ w.output = <<>> /\ w.status = x
  BY StartFacts
<1> HIDE DEF w
<1>3. /\ w.pic # NoPicture => w.pic.handle \in OwnFrames
      /\ accepted_format = NoFormat => RefsFit(w.references)
      /\ RefsFit(w.references) \/ begins \/ Replaces(w.pic)
  BY <1>2 DEF FramesFit, FirstRefused
<1>4. w.status \in {"Ok", "Error"} /\ w.output \in Seq(OwnFrames)
  BY <1>1, <1>2
<1>5. WorkFits(w, o)
  BY <1>2, <1>3, <1>4 DEF WorkFits
<1>6. QED BY <1>5 DEF w

(* What a frame's unit is given with.                                      *)
LEMMA FrameGiven ==
  ASSUME NEW o \in Chunks, o.kind \in {"header", "frame"}, ~SplitsUnits, Retries, Submits(o), RetryReady, FramesFit
  PROVE  /\ current_pic = NoPicture
         /\ accepted_format = NoFormat => RefsFit(reference_frames)
         /\ RefsFit(reference_frames) \/ KeyAhead(parser, o.header)
         /\ o.kind = "frame" /\ o.ends => ~parser.seen
<1>1. current_pic = NoPicture
  BY DEF Submits
<1>2. outcome \in {"Ok", "CheckEvents", "NotEnoughOutputBuffers"} /\ (outcome # "Ok" => o = chunk)
  BY DEF Submits, MayDecode, Refusals, Retries, RetryReady
<1>3. /\ accepted_format = NoFormat => RefsFit(reference_frames)
      /\ RefsFit(reference_frames) \/ begins \/ FirstRefused \/ Replaces(current_pic)
  BY <1>2 DEF FramesFit
<1>4. begins => KeyAhead(parser, o.header)
  BY DEF Submits, KeyAhead
<1>5. FirstRefused => KeyAhead(parser, o.header)
  BY <1>2 DEF FirstRefused
<1>6. ~Replaces(current_pic)
  BY <1>1 DEF Replaces
<1>7. o.kind = "frame" /\ o.ends => ~parser.seen
  BY <1>2 DEF Submits, RetryReady, RefusedForBuffer
<1>8. QED BY <1>1, <1>3, <1>4, <1>5, <1>6, <1>7

(* Such a header is of a frame of its own that replaces all references.    *)
LEMMA KeyTaken ==
  ASSUME NEW o \in Chunks, o.kind \in {"header", "frame"}, ParserOK(parser), KeyAhead(parser, o.header), HeaderOf(o).ok
  PROVE  /\ OwnOK(HeaderOf(o).header) /\ HeaderOf(o).header.refresh = ALL_FRAMES
         /\ (o.kind = "frame" /\ o.ends => ~parser.seen) => KeyAhead(HeadParser(o), o.header)
<1> DEFINE fh == HeaderOf(o)
<1>1. Parsed(parser, o.header, fh) /\ o.ends \in BOOLEAN
  BY ChunkFacts, HeaderFacts DEF HeaderOf
<1>2. OwnOK(fh.header) /\ fh.header.refresh = ALL_FRAMES
  <2>1. CASE parser.seen /\ parser.last # NoHeader /\ parser.last.refresh = ALL_FRAMES
    <3>1. fh = [ok |-> parser.last # NoHeader, parser |-> parser, header |-> parser.last]
      BY <2>1 DEF ParseFrameHeader, HeaderOf
    <3> HIDE DEF fh
    <3>2. fh.header = parser.last
      BY <3>1
    <3>3. QED BY <2>1, <3>2 DEF ParserOK
  <2>2. CASE ~parser.seen /\ ShownKey(o.header) /\ o.header.show_existing = 0
    BY <1>1, <2>2 DEF Parsed
  <2>3. QED BY <2>1, <2>2 DEF KeyAhead
<1>3. fh.ok
  OBVIOUS
<1> HIDE DEF fh
<1>4. ParserOK(fh.parser) /\ fh.parser.last = fh.header /\ fh.parser.seen
  BY <1>1, <1>2, <1>3 DEF Parsed, ShowsSlot, OwnOK
<1>5. fh.header # NoHeader
  BY <1>2, OwnIsKept
<1>6. ASSUME o.kind = "frame" /\ o.ends => ~parser.seen PROVE KeyAhead(HeadParser(o), o.header)
  <2>1. CASE o.kind = "header"
    <3>1. HeadParser(o) = fh.parser
      BY <2>1 DEF HeadParser, fh
    <3>2. QED BY <1>2, <1>4, <1>5, <3>1 DEF KeyAhead
  <2>2. CASE o.kind = "frame"
    <3>1. HeadParser(o) = ParseTileGroup(fh.parser, o.ends)
      BY <2>2 DEF HeadParser, fh
    <3>2. HeadParser(o).last = fh.header /\ HeadParser(o).seen = (fh.parser.seen /\ ~o.ends)
      BY <1>1, <1>4, <3>1, SmallUnits
    <3>3. CASE o.ends
      <4>1. ShownKey(o.header) /\ o.header.show_existing = 0
        BY <1>6, <2>2, <3>3 DEF KeyAhead
      <4>2. QED BY <3>2, <3>3, <4>1 DEF KeyAhead
    <3>4. CASE ~o.ends
      BY <1>2, <1>4, <1>5, <3>2, <3>4 DEF KeyAhead
    <3>5. QED BY <1>1, <3>3, <3>4
  <2>3. QED BY <2>1, <2>2
<1>7. QED BY <1>2, <1>6 DEF fh

(* The whole of what a unit does fits.                                     *)
LEMMA HeadFits ==
  ASSUME NEW o \in Chunks, o.kind \in {"header", "frame"}, ~SplitsUnits, Retries, Submits(o), RetryReady, FramesFit,
         ParserOK(parser), num_handles \in Nat, accepted_format \in Formats \cup {NoFormat}
  PROVE  WorkFits(Headed(o), o)
<1> DEFINE b == Start(HeadParser(o), HeadStatus(o))
           h == HeaderOf(o).header
           g == OwnHeader(o, h)
           d == Headed(o)
<1>1. /\ IsWork(b) /\ b.parser = HeadParser(o) /\ b.references = reference_frames /\ b.pic = current_pic
      /\ b.output = <<>> /\ b.made = 0 /\ b.status = HeadStatus(o)
  BY StartFacts
<1>2. HeadStatus(o) \in {"Ok", "Error"} /\ (HeadStatus(o) = "Ok" => HeaderOf(o).ok)
  BY DEF HeadStatus
<1>3. /\ current_pic = NoPicture
      /\ accepted_format = NoFormat => RefsFit(reference_frames)
      /\ RefsFit(reference_frames) \/ KeyAhead(parser, o.header)
      /\ o.kind = "frame" /\ o.ends => ~parser.seen
  BY FrameGiven
<1>4. Parsed(parser, o.header, HeaderOf(o))
  BY ChunkFacts, HeaderFacts DEF HeaderOf
<1>5. HeaderOf(o).ok =>
        /\ g.show_existing \in {0, 1}
        /\ g.show_existing = 1 => g.idx \in Slots
        /\ KeyAhead(parser, o.header) =>
             g.show_existing = 0 /\ g.refresh = ALL_FRAMES /\ KeyAhead(HeadParser(o), o.header)
  <2> SUFFICES ASSUME HeaderOf(o).ok
               PROVE  /\ g.show_existing \in {0, 1}
                      /\ g.show_existing = 1 => g.idx \in Slots
                      /\ KeyAhead(parser, o.header) =>
                           g.show_existing = 0 /\ g.refresh = ALL_FRAMES /\ KeyAhead(HeadParser(o), o.header)
    OBVIOUS
  <2>1. OwnOK(h) \/ ShowsSlot(h, HeaderOf(o).parser.slots)
    BY <1>4 DEF Parsed
  <2>2. KnownFields \subseteq DOMAIN h
    BY <2>1 DEF OwnOK, ShowsSlot
  <2>3. /\ \A f \in KnownFields : g[f] = h[f]
        /\ OwnOK(h) => OwnOK(g)
        /\ ShowsSlot(h, HeaderOf(o).parser.slots) => ShowsSlot(g, HeaderOf(o).parser.slots)
    BY <2>2, OwnHeaderFacts
  <2>4. "refresh" \in KnownFields
    BY DEF KnownFields
  <2>5. KeyAhead(parser, o.header) => OwnOK(h) /\ h.refresh = ALL_FRAMES /\ KeyAhead(HeadParser(o), o.header)
    BY <1>3, KeyTaken
  <2> HIDE DEF g, h
  <2>6. g.refresh = h.refresh
    BY <2>3, <2>4
  <2>7. QED BY <2>1, <2>3, <2>5, <2>6 DEF OwnOK, ShowsSlot
<1>6. d = DecodeFrameHeader(b, g)
  BY DEF Headed
<1> HIDE DEF b, g, h, d
<1>7. b.status = "Ok" => g.show_existing \in {0, 1}
  BY <1>1, <1>2, <1>5
<1>8. /\ IsWork(d) /\ d.parser = b.parser /\ d.references = b.references /\ d.output = b.output
      /\ HeaderLeft(b, g, d) \/ HeaderRefused(b, g, d) \/ HeaderShows(b, g, d) \/ HeaderStarts(b, g, d)
  BY <1>1, <1>6, <1>7, DecodeHeaderFacts
<1>9. d.output \in Seq(OwnFrames)
  <2>1. <<>> \in Seq(OwnFrames)
    OBVIOUS
  <2>2. QED BY <1>1, <1>8, <2>1
<1>10. d.references = reference_frames
  BY <1>1, <1>8
<1>11. CASE HeaderLeft(b, g, d)
  <2>1. d.pic = NoPicture /\ d.status \in {"Ok", "Error"}
    BY <1>1, <1>2, <1>3, <1>11 DEF HeaderLeft
  <2>2. d.status = "Ok" => accepted_format = NoFormat
    BY <1>11 DEF HeaderLeft
  <2>3. WorkFits(d, o)
    BY <1>3, <1>8, <1>9, <1>10, <2>1, <2>2 DEF WorkFits
  <2>4. QED BY <2>3 DEF d
<1>12. CASE HeaderRefused(b, g, d)
  <2>1. d.pic = NoPicture /\ d.status \in {"Error", "NotEnoughOutputBuffers"} /\ HeaderOf(o).ok
    BY <1>1, <1>2, <1>3, <1>12 DEF HeaderRefused
  <2>2. RefsFit(d.references) \/ KeyAhead(d.parser, o.header)
    BY <1>1, <1>3, <1>5, <1>8, <1>10, <2>1
  <2>3. WorkFits(d, o)
    BY <1>3, <1>8, <1>9, <1>10, <2>1, <2>2 DEF WorkFits
  <2>4. QED BY <2>3 DEF d
<1>13. CASE HeaderShows(b, g, d)
  <2>1. /\ d.status = "Ok" /\ HeaderOf(o).ok /\ g.show_existing = 1
        /\ b.references[g.idx] # NoHandle /\ d.pic.handle = b.references[g.idx]
    BY <1>1, <1>2, <1>13, PictureFacts DEF HeaderShows
  <2>2. RefsFit(reference_frames) /\ g.idx \in Slots
    BY <1>3, <1>5, <2>1
  <2>3. d.pic.handle \in OwnFrames
    BY <1>1, <2>1, <2>2 DEF RefsFit
  <2>4. WorkFits(d, o)
    BY <1>8, <1>9, <1>10, <2>1, <2>2, <2>3 DEF WorkFits
  <2>5. QED BY <2>4 DEF d
<1>14. CASE HeaderStarts(b, g, d)
  <2>1. /\ d.status = "Ok" /\ HeaderOf(o).ok /\ g.show_existing = 0 /\ accepted_format # NoFormat
        /\ d.pic # NoPicture /\ d.pic.handle = NewHandle(b) /\ d.pic.header = g
    BY <1>1, <1>2, <1>14, PictureFacts DEF HeaderStarts
  <2>2. NewHandle(b) \in OwnFrames
    <3>1. num_handles + b.made + 1 \in Nat
      BY <1>1
    <3>2. QED BY <2>1, <3>1 DEF NewHandle, OwnFrames, Handle
  <2>3. RefsFit(d.references) \/ Replaces(d.pic)
    BY <1>3, <1>5, <1>10, <2>1 DEF Replaces
  <2>4. WorkFits(d, o)
    BY <1>8, <1>9, <2>1, <2>2, <2>3 DEF WorkFits
  <2>5. QED BY <2>4 DEF d
<1>15. QED BY <1>8, <1>11, <1>12, <1>13, <1>14

LEMMA WorkedFits ==
  ASSUME NEW o \in Chunks, ~SplitsUnits, Retries, Submits(o), RetryReady, FramesFit, num_handles \in Nat,
         ParserOK(parser), accepted_format \in Formats \cup {NoFormat}
  PROVE  WorkFits(Worked(o), o)
<1>1. \A w : WorkFits(w, o) => WorkFits(EndOfBytes(w, o), o)
  BY SubmitFits DEF EndOfBytes
<1>2. CASE o.kind \in {"header", "frame"}
  <2>1. current_pic = NoPicture
    BY <1>2 DEF Submits
  <2>2. WorkFits(Headed(o), o)
    BY <1>2, HeadFits
  <2>3. WorkFits(SubmitFrame(DecodeTileGroup(Headed(o))), o)
    BY <2>2, TilesFit, SubmitFits
  <2>4. WorkFits(DecodeUnit(o), o)
    BY <1>2, <2>1, <2>2, <2>3, UnitShape
  <2>5. QED BY <1>1, <1>2, <2>4 DEF Worked
<1>3. CASE o.kind \notin {"header", "frame"}
  <2>1. outcome \in {"Ok", "CheckEvents", "NotEnoughOutputBuffers"} /\ (outcome # "Ok" => o = chunk)
    BY DEF Submits, MayDecode, Refusals, Retries, RetryReady
  <2>2. outcome # "Error" /\ outcome # "NotEnoughOutputBuffers"
    BY <1>3, <2>1 DEF RetryReady, RefusedForBuffer
  <2>3. \A p : \A x \in {"Ok", "Error"} : WorkFits(Start(p, x), o)
    BY <1>3, <2>2, StartFits
  <2>4. /\ WorkFits(DecodeTileGroup(Start(ParseTileGroup(parser, o.ends), "Ok")), o)
        /\ WorkFits(Start(ParseDelimiter(parser), "Ok"), o)
        /\ WorkFits(Start(parser, "Error"), o) /\ WorkFits(Start(parser, "Ok"), o)
        /\ WorkFits(Start(ParseSequence(parser, o.header).parser, "Ok"), o)
    BY <2>3, TilesFit
  <2>5. CASE o.kind = "sequence"
    BY <1>1, <2>4, <2>5, StartFacts DEF Worked
  <2>6. CASE o.kind # "sequence"
    <3>1. WorkFits(DecodeUnit(o), o)
      BY <1>3, <2>4, <2>6, UnitShape, ChunkFacts
    <3>2. QED BY <1>1, <2>6, <3>1 DEF Worked
  <2>7. QED BY <2>5, <2>6
<1>4. QED BY <1>2, <1>3

(* Every step keeps the types, and keeps the frames fitting.               *)
LEMMA StateTypes ==
  /\ State("AwaitingStreamInfo") \in DecodingStates
  /\ State("Decoding") \in DecodingStates
  /\ State("Reset") \in DecodingStates
  /\ \A f \in Formats : AwaitingFormat(f) \in DecodingStates
  /\ \A s \in DecodingStates : s.name = "AwaitingFormat" => s.format \in Formats
  /\ \A n : State(n).name = n
<1> USE DEF State, AwaitingFormat
<1>1. /\ State("AwaitingStreamInfo") \in DecodingStates
      /\ State("Decoding") \in DecodingStates
      /\ State("Reset") \in DecodingStates
  BY DEF DecodingStates
<1>2. \A f \in Formats : AwaitingFormat(f) \in DecodingStates
  BY DEF DecodingStates
<1>3. \A s \in DecodingStates : s.name = "AwaitingFormat" => s.format \in Formats
  BY DEF DecodingStates
<1>4. \A n : State(n).name = n
  OBVIOUS
<1>5. QED BY <1>1, <1>2, <1>3, <1>4

(* No picture begins with a unit that has neither header nor tiles.        *)
LEMMA NoPictureMade ==
  ASSUME NEW o \in Chunks, ~IsDecodeOp(o), current_pic = NoPicture
  PROVE  Worked(o).pic = NoPicture
<1>1. ASSUME NEW p, NEW x PROVE EndOfBytes(Start(p, x), o).pic = NoPicture /\ Start(p, x).pic = NoPicture
  <2>1. Start(p, x).pic = NoPicture
    BY StartFacts
  <2>2. QED BY <2>1 DEF EndOfBytes, SubmitFrame
<1>2. o.kind \in {"sequence", "delimiter", "tile_list", "other"}
  BY ChunkFacts DEF IsDecodeOp
<1>3. CASE o.kind = "sequence"
  BY <1>1, <1>3, StartFacts DEF Worked
<1>4. CASE o.kind # "sequence"
  BY <1>1, <1>2, <1>4, UnitShape DEF Worked
<1>5. QED BY <1>3, <1>4

LEMMA FramesFitKept ==
  ~SplitsUnits /\ Retries /\ CountOK /\ StateTold /\ RetryReady /\ ServiceTypes /\ FramesFit /\ [Next]_vars
    => ServiceTypes' /\ FramesFit'
<1> SUFFICES ASSUME ~SplitsUnits, Retries, CountOK, StateTold, RetryReady, ServiceTypes, FramesFit, [Next]_vars
             PROVE  ServiceTypes' /\ FramesFit'
  OBVIOUS
<1> USE DEF CountOK
<1>1. ASSUME NEW o \in Chunks, Submits(o)
      PROVE  outcome \in {"Ok", "CheckEvents", "NotEnoughOutputBuffers"} /\ (outcome # "Ok" => o = chunk)
  BY <1>1 DEF Submits, MayDecode, Refusals, Retries, RetryReady
<1>2. ASSUME NEW o \in Chunks, Skip(o) PROVE ServiceTypes' /\ FramesFit'
  <2>1. Submits(o) /\ ~InState("Decoding") /\ outcome' = "Ok"
        /\ UNCHANGED <<decoder_vars, codec_vars, delivered>>
    BY <1>2 DEF Skip, Accepted, InState
  <2>2. outcome # "Error" /\ outcome # "NotEnoughOutputBuffers"
    BY <1>1, <2>1 DEF RetryReady, RefusedForBuffer
  <2>3. ServiceTypes'
    BY <2>1 DEF ServiceTypes, decoder_vars
  <2>4. FramesFit'
    BY <2>1, <2>2 DEF FramesFit, FirstRefused, RefsFit, OwnFrames, Replaces, InState, decoder_vars, codec_vars
  <2>5. QED BY <2>3, <2>4
<1>3. ASSUME NEW o \in Chunks, SkipFails(o) \/ SequenceFails(o) \/ NewSequenceFails(o) PROVE ServiceTypes' /\ FramesFit'
  <2>1. outcome' = "Error" /\ UNCHANGED <<decoder_vars, delivered>>
    BY <1>3 DEF SkipFails, SequenceFails, NewSequenceFails, Failed
  <2>2. QED BY <2>1 DEF FramesFit, ServiceTypes, decoder_vars
<1>4. ASSUME NEW o \in Chunks, StillAwaitingFormat(o) PROVE ServiceTypes' /\ FramesFit'
  <2>1. /\ Submits(o) /\ InState("AwaitingFormat")
        /\ UNCHANGED <<decoding_state, ready_queue, accepted_format, delivered, codec_vars>>
    BY <1>4 DEF StillAwaitingFormat, Refused
  <2>2. outcome # "Error"
    BY <1>1, <2>1
  <2>3. begins /\ current_pic = NoPicture
    BY <2>1, <2>2 DEF FramesFit
  <2>4. ServiceTypes'
    BY <2>1 DEF ServiceTypes
  <2>5. FramesFit'
    BY <2>1, <2>2, <2>3 DEF FramesFit, RefsFit, OwnFrames, InState, codec_vars
  <2>6. QED BY <2>4, <2>5
<1>5. ASSUME NEW o \in Chunks, NewSequence(o) PROVE ServiceTypes' /\ FramesFit'
  <2>1. /\ Submits(o) /\ current_pic = NoPicture /\ o.kind = "sequence"
        /\ begins' = TRUE /\ decoding_state' = AwaitingFormat(ChunkFormat(o))
        /\ UNCHANGED <<ready_queue, accepted_format, delivered, reference_frames, current_pic>>
    BY <1>5 DEF NewSequence, AwaitFormatChange, Accepted
  <2>2. outcome # "Error" /\ AwaitingFormat(ChunkFormat(o)) \in DecodingStates
    BY <1>1, <2>1, ChunkFacts, StateTypes
  <2>3. ServiceTypes'
    BY <2>1, <2>2 DEF ServiceTypes
  <2>4. accepted_format = NoFormat => RefsFit(reference_frames)
    BY <2>2 DEF FramesFit
  <2>5. FramesFit'
    BY <2>1, <2>4 DEF FramesFit, RefsFit, OwnFrames
  <2>6. QED BY <2>3, <2>5
<1>6. ASSUME NEW o \in Chunks, Decoded(o) PROVE ServiceTypes' /\ FramesFit'
  <2> DEFINE w == Worked(o)
  <2>1. Submits(o) /\ (IsDecodeOp(o) => ~InState("AwaitingFormat"))
    BY <1>6 DEF Decoded, Ready, InState
  <2>2. outcome # "Error"
    BY <1>1, <2>1
  <2>3. ParserOK(parser)
    BY <2>2 DEF StateTold, Told
  <2>4. WorkFits(w, o)
    BY <2>1, <2>3, WorkedFits DEF ServiceTypes
  <2>5. ~IsDecodeOp(o) /\ current_pic = NoPicture => w.pic = NoPicture
    BY NoPictureMade
  <2> HIDE DEF w
  <2>6. /\ parser' = w.parser /\ current_pic' = w.pic /\ reference_frames' = w.references
        /\ UNCHANGED <<accepted_format, delivered>>
        /\ decoding_state' = IF IsDecodeOp(o) THEN State("Decoding") ELSE decoding_state
        /\ begins' = (begins /\ o.kind \notin {"header", "frame"})
        /\ ready_queue' = ready_queue \o w.output
        /\ \/ w.status = "Ok" /\ outcome' = "Ok"
           \/ w.status = "NotEnoughOutputBuffers" /\ outcome' = "NotEnoughOutputBuffers" /\ chunk' = o
           \/ outcome' = "Error"
    <3>1. /\ parser' = w.parser /\ current_pic' = w.pic /\ reference_frames' = w.references
          /\ decoding_state' = IF IsDecodeOp(o) THEN State("Decoding") ELSE decoding_state
          /\ begins' = (begins /\ o.kind \notin {"header", "frame"})
          /\ ready_queue' = ready_queue \o w.output
          /\ UNCHANGED accepted_format
          /\ CASE w.status = "Ok" -> Accepted(w.made)
               [] w.status = "NotEnoughOutputBuffers" -> Refused(o, w.status)
               [] OTHER -> Failed
      BY <1>6 DEF Decoded, Finish, PushReady, w
    <3>2. \/ w.status = "Ok" /\ Accepted(w.made)
          \/ w.status = "NotEnoughOutputBuffers" /\ Refused(o, "NotEnoughOutputBuffers")
          \/ Failed
      BY <3>1, <2>4 DEF WorkFits
    <3>3. QED BY <3>1, <3>2 DEF Accepted, Refused, Failed
  <2>7. OwnFrames' = OwnFrames /\ (\A r : RefsFit(r)' <=> RefsFit(r))
    BY <2>6 DEF OwnFrames, RefsFit
  <2>8. ready_queue' \in Seq(Handle)
    <3>1. w.output \in Seq(OwnFrames) /\ OwnFrames \subseteq Handle
      BY <2>4 DEF WorkFits, OwnFrames
    <3>2. w.output \in Seq(Handle)
      BY <3>1
    <3>3. QED BY <2>6, <3>2, ConcatProperties DEF ServiceTypes
  <2>9. ServiceTypes'
    BY <2>6, <2>8, StateTypes DEF ServiceTypes
  <2>10. InState("AwaitingFormat")' => ~IsDecodeOp(o) /\ InState("AwaitingFormat")
    BY <2>6, StateTypes DEF InState
  <2>11. InState("AwaitingFormat")' => begins' /\ current_pic' = NoPicture
    BY <2>2, <2>5, <2>6, <2>10 DEF FramesFit, IsDecodeOp
  <2>12. w.pic # NoPicture => w.pic.handle \in OwnFrames
    BY <2>4 DEF WorkFits
  <2>13. accepted_format = NoFormat => RefsFit(w.references)
    BY <2>4 DEF WorkFits
  <2>14. outcome' # "Error" => RefsFit(w.references) \/ begins' \/ FirstRefused' \/ Replaces(w.pic)
    BY <2>4, <2>6 DEF WorkFits, FirstRefused
  <2>15. RefsFit(reference_frames)' <=> RefsFit(w.references)
    BY <2>6 DEF RefsFit, OwnFrames
  <2>16. FramesFit'
    BY <2>6, <2>7, <2>11, <2>12, <2>13, <2>14, <2>15 DEF FramesFit, Replaces
  <2>17. QED BY <2>9, <2>16
<1>7. ASSUME Flush PROVE ServiceTypes' /\ FramesFit'
  <2>1. /\ outcome # "Error" /\ reference_frames' = NoReferences /\ decoding_state' = State("Reset")
        /\ UNCHANGED <<ready_queue, delivered, accepted_format, current_pic>>
    BY <1>7 DEF Flush, AbandonChunk
  <2>2. RefsFit(reference_frames)'
    BY <2>1 DEF RefsFit, NoReferences
  <2>3. ~InState("AwaitingFormat")' /\ ServiceTypes'
    BY <2>1, StateTypes DEF InState, ServiceTypes
  <2>4. (current_pic # NoPicture => current_pic.handle \in OwnFrames)'
    BY <2>1 DEF FramesFit, OwnFrames
  <2>5. QED BY <2>2, <2>3, <2>4 DEF FramesFit
<1>8. ASSUME TakeFormatChange, UNCHANGED codec_vars PROVE ServiceTypes' /\ FramesFit'
  <2>1. /\ InState("AwaitingFormat") /\ decoding_state' = State("Reset")
        /\ accepted_format' = decoding_state.format /\ decoding_state.format \in Formats
        /\ UNCHANGED <<ready_queue, delivered, outcome, current_pic, begins>>
    BY <1>8, StateTypes DEF TakeFormatChange, FormatChanged, InState, ServiceTypes, codec_vars
  <2>2. ServiceTypes' /\ ~InState("AwaitingFormat")' /\ accepted_format' # NoFormat
    <3>1. ServiceTypes'
      BY <2>1, StateTypes DEF ServiceTypes
    <3>2. ~InState("AwaitingFormat")'
      BY <2>1, StateTypes DEF InState
    <3>3. QED BY <2>1, <3>1, <3>2, FormatAssumption
  <2>3. outcome # "Error" => begins /\ current_pic = NoPicture
    BY <2>1 DEF FramesFit
  <2>4. FramesFit'
    BY <2>1, <2>2, <2>3 DEF FramesFit
  <2>5. QED BY <2>2, <2>4
<1>9. ASSUME TakeFrame, UNCHANGED codec_vars PROVE ServiceTypes' /\ FramesFit'
  <2>1. /\ ready_queue # <<>> /\ ready_queue' = Tail(ready_queue) /\ delivered' = Append(delivered, Head(ready_queue))
        /\ UNCHANGED <<decoding_state, accepted_format, outcome, chunk, parser, reference_frames, current_pic, begins>>
    BY <1>9 DEF TakeFrame, FrameReady, PopReady, codec_vars
  <2>2. Tail(ready_queue) \in Seq(Handle) /\ Append(delivered, Head(ready_queue)) \in Seq(Handle)
    BY <2>1, HeadTailProperties, AppendProperties DEF ServiceTypes
  <2>3. ServiceTypes'
    BY <2>1, <2>2 DEF ServiceTypes
  <2>4. FramesFit'
    BY <2>1 DEF FramesFit, FirstRefused, RefsFit, OwnFrames, InState
  <2>5. QED BY <2>3, <2>4
<1>10. ASSUME (TakeNothing /\ UNCHANGED codec_vars) \/ (\E h \in held : Drop(h)) \/ UNCHANGED vars
       PROVE  ServiceTypes' /\ FramesFit'
  <2>1. UNCHANGED <<decoding_state, ready_queue, delivered, accepted_format, outcome, chunk, parser, reference_frames,
                    current_pic, begins>>
    BY <1>10 DEF TakeNothing, Drop, DropFrame, vars, decoder_vars, client_vars, codec_vars
  <2>2. QED BY <2>1 DEF ServiceTypes, FramesFit, FirstRefused, RefsFit, OwnFrames, InState
<1>11. QED
  BY <1>2, <1>3, <1>4, <1>5, <1>6, <1>7, <1>8, <1>9, <1>10 DEF Next, Decode, NextEvent

(* The steps of the service: frames are output, the first one is taken.    *)
LEMMA ServiceOutput ==
  ASSUME ServiceTypes, NEW frames \in Seq(OwnFrames),
         ready_queue' = ready_queue \o frames,
         UNCHANGED <<delivered, accepted_format>>
  PROVE  [Service!Next]_Service!vars
<1> DEFINE out == delivered \o ready_queue
           new == SubSeq(out', Len(out) + 1, Len(out'))
<1>1. /\ delivered \in Seq(Handle) /\ ready_queue \in Seq(Handle) /\ frames \in Seq(Handle)
      /\ out \in Seq(Handle) /\ Len(out) \in Nat
  <2>1. OwnFrames \subseteq Handle
    BY DEF OwnFrames
  <2>2. frames \in Seq(Handle)
    BY <2>1
  <2>3. QED BY <2>2, ConcatProperties, LenProperties DEF ServiceTypes
<1>2. out' = out \o frames
  <2>1. out' = delivered \o (ready_queue \o frames)
    OBVIOUS
  <2>2. (delivered \o ready_queue) \o frames = delivered \o (ready_queue \o frames)
    BY ONLY <1>1, ConcatAssociative
  <2>3. QED BY <2>1, <2>2
<1>3. CASE frames = <<>>
  <2>1. out' = out
    BY <1>1, <1>2, <1>3, ConcatEmptySeq
  <2>2. QED BY <2>1 DEF Service!vars
<1>4. CASE frames # <<>>
  <2>1. Len(out') = Len(out) + Len(frames) /\ Len(frames) \in Nat
    BY <1>1, <1>2, ConcatProperties, LenProperties
  <2>2. new = frames
    <3> HIDE DEF out
    <3>1. new = SubSeq(frames, 1, Len(frames))
      BY <1>1, <1>2, <2>1, SubSeqOfConcat2
    <3>2. QED BY <1>1, <3>1, SubSeqFull
  <2>3. \A i \in DOMAIN frames : frames[i] \in OwnFrames
    BY ElementOfSeq, LenProperties
  <2>4. accepted_format \in Formats
    <3>1. 1 \in DOMAIN frames
      BY <1>1, <1>4, EmptySeq, LenProperties
    <3>2. QED BY <2>3, <3>1 DEF OwnFrames, Handle
  <2>5. \A i \in DOMAIN frames : frames[i].format = accepted_format
    BY <2>3 DEF OwnFrames
  <2>6. Service!Output(new)
    <3> HIDE DEF new
    <3>1. out' = out \o new
      BY <1>2, <2>2
    <3>2. QED BY <2>2, <2>4, <2>5, <3>1 DEF Service!Output
  <2>7. QED BY <2>6 DEF Service!Next
<1>5. QED BY <1>3, <1>4

LEMMA ServiceTake ==
  ASSUME ServiceTypes, TakeFrame
  PROVE  Service!Next
<1> DEFINE out == delivered \o ready_queue
           h == Head(ready_queue)
<1>1. /\ delivered \in Seq(Handle) /\ ready_queue \in Seq(Handle) /\ ready_queue # <<>>
      /\ ready_queue' = Tail(ready_queue)
      /\ delivered' = Append(delivered, h)
      /\ UNCHANGED accepted_format
  BY DEF ServiceTypes, TakeFrame, FrameReady, PopReady
<1>2. /\ h \in Handle /\ Tail(ready_queue) \in Seq(Handle)
      /\ Len(ready_queue) \in Nat \ {0}
      /\ <<h>> \in Seq(Handle) /\ h = ready_queue[1]
  BY <1>1, HeadTailProperties, EmptySeq, LenProperties
<1>3. ready_queue = <<h>> \o Tail(ready_queue)
  <2>1. ready_queue = SubSeq(ready_queue, 1, Len(ready_queue))
    BY <1>1, SubSeqFull
  <2>2. SubSeq(ready_queue, 1, Len(ready_queue)) = <<ready_queue[1]>> \o SubSeq(ready_queue, 2, Len(ready_queue))
    <3>1. 1 \in 1 .. Len(ready_queue)
      BY <1>2
    <3>2. QED BY ONLY <1>1, <3>1, SubSeqRecursiveFirst
  <2>3. Tail(ready_queue) = SubSeq(ready_queue, 2, Len(ready_queue))
    BY <1>1, TailIsSubSeq
  <2>4. QED BY <1>2, <2>1, <2>2, <2>3
<1>4. out' = out
  <2>1. delivered' = delivered \o <<h>>
    BY <1>1, <1>2, AppendIsConcat
  <2>2. out' = (delivered \o <<h>>) \o Tail(ready_queue)
    BY <1>1, <2>1
  <2>3. (delivered \o <<h>>) \o Tail(ready_queue) = delivered \o (<<h>> \o Tail(ready_queue))
    BY <1>1, <1>2, ConcatAssociative
  <2>4. QED BY <1>3, <2>2, <2>3
<1>5. Len(delivered) < Len(out) /\ out[Len(delivered) + 1] = h
  <2>1. Len(delivered) \in Nat
    BY <1>1, LenProperties
  <2>2. /\ Len(out) = Len(delivered) + Len(ready_queue)
        /\ out[Len(delivered) + 1] = ready_queue[1]
    BY <1>1, <1>2, <2>1, ConcatProperties
  <2>3. QED BY <1>2, <2>1, <2>2
<1>6. Service!Take
  BY <1>1, <1>4, <1>5 DEF Service!Take
<1>7. QED BY <1>6 DEF Service!Next

(* The decoder implements the abstract service: what is output is in the   *)
(* format the client has accepted, at the end of the stream, and is handed *)
(* over in its order (decode, submit_frame, on_format_changed).            *)
THEOREM ImplementsService == ~SplitsUnits /\ Retries /\ Spec => ServiceSpec
<1> SUFFICES ASSUME ~SplitsUnits, Retries PROVE Spec => ServiceSpec
  OBVIOUS
<1> DEFINE Inv == CountOK /\ StateTold /\ RetryReady /\ ServiceTypes /\ FramesFit
<1>1. Init => RetryReady /\ ServiceTypes /\ FramesFit /\ Service!Init
  <2> SUFFICES ASSUME Init PROVE RetryReady /\ ServiceTypes /\ FramesFit /\ Service!Init
    OBVIOUS
  <2>1. /\ decoding_state = State("AwaitingStreamInfo") /\ ready_queue = <<>> /\ delivered = <<>>
        /\ accepted_format = NoFormat /\ reference_frames = NoReferences /\ current_pic = NoPicture
    BY DEF Init, DecoderInit, ClientInit
  <2>2. RetryReady
    BY DEF Init, ClientInit, RetryReady
  <2>3. ServiceTypes
    BY <2>1, StateTypes, EmptySeq DEF ServiceTypes
  <2>4. FramesFit
    <3>1. RefsFit(reference_frames)
      BY <2>1 DEF RefsFit, NoReferences
    <3>2. ~InState("AwaitingFormat")
      BY <2>1, StateTypes DEF InState
    <3>3. QED BY <2>1, <3>1, <3>2 DEF FramesFit
  <2>5. Service!Init
    <3>1. <<>> \o <<>> = <<>>
      BY ConcatEmptySeq, EmptySeq
    <3>2. QED BY <2>1, <3>1 DEF Service!Init
  <2>6. QED BY <2>2, <2>3, <2>4, <2>5
<1>2. Inv /\ [Next]_vars => RetryReady' /\ ServiceTypes' /\ FramesFit'
  BY RetryReadyKept, FramesFitKept
<1>3. Inv /\ [Next]_vars => [Service!Next]_Service!vars
  <2> SUFFICES ASSUME Inv, [Next]_vars PROVE [Service!Next]_Service!vars
    OBVIOUS
  <2>1. ASSUME UNCHANGED <<delivered, ready_queue, accepted_format>>
        PROVE  [Service!Next]_Service!vars
    BY <2>1 DEF Service!vars
  <2>2. ASSUME NEW o \in Chunks,
               Skip(o) \/ SkipFails(o) \/ StillAwaitingFormat(o) \/ NewSequence(o) \/ SequenceFails(o) \/ NewSequenceFails(o)
        PROVE  [Service!Next]_Service!vars
    BY <2>1, <2>2 DEF Skip, SkipFails, StillAwaitingFormat, NewSequence, SequenceFails, NewSequenceFails,
                      Accepted, Failed, Refused, decoder_vars
  <2>3. ASSUME NEW o \in Chunks, Decoded(o) PROVE [Service!Next]_Service!vars
    <3> DEFINE w == Worked(o)
    <3>1. Submits(o)
      BY <2>3 DEF Decoded, Ready
    <3>2. outcome # "Error"
      BY <3>1 DEF Submits, MayDecode, Refusals
    <3>3. WorkFits(w, o)
      BY <3>1, <3>2, WorkedFits DEF ServiceTypes, StateTold, Told, CountOK
    <3> HIDE DEF w
    <3>4. ready_queue' = ready_queue \o w.output /\ UNCHANGED accepted_format
      BY <2>3 DEF Decoded, Finish, PushReady, w
    <3>5. UNCHANGED delivered
      <4>1. /\ TRUE
            /\ CASE w.status = "Ok" -> Accepted(w.made)
                 [] w.status = "NotEnoughOutputBuffers" -> Refused(o, w.status)
                 [] OTHER -> Failed
        BY <2>3 DEF Decoded, Finish, w
      <4>2. Accepted(w.made) \/ Refused(o, w.status) \/ Failed
        BY <4>1
      <4>3. QED BY <4>2 DEF Accepted, Refused, Failed
    <3>6. QED BY <3>3, <3>4, <3>5, ServiceOutput DEF WorkFits
  <2>4. ASSUME Flush \/ TakeNothing \/ (\E h \in held : Drop(h)) \/ UNCHANGED vars
        PROVE  [Service!Next]_Service!vars
    BY <2>1, <2>4 DEF Flush, AbandonChunk, TakeNothing, Drop, DropFrame, vars, decoder_vars, client_vars
  <2>5. ASSUME TakeFormatChange PROVE [Service!Next]_Service!vars
    <3>1. /\ ready_queue = <<>> /\ UNCHANGED <<delivered, ready_queue>>
          /\ accepted_format' \in Formats
      BY <2>5, StateTypes DEF TakeFormatChange, FormatChanged, InState, ServiceTypes
    <3>2. delivered \o ready_queue = delivered
      BY <3>1, ConcatEmptySeq DEF ServiceTypes
    <3>3. Service!ChangeFormat(accepted_format')
      BY <3>1, <3>2 DEF Service!ChangeFormat
    <3>4. QED BY <3>1, <3>3 DEF Service!Next
  <2>6. ASSUME TakeFrame PROVE [Service!Next]_Service!vars
    BY <2>6, ServiceTake
  <2>7. QED
    BY <2>2, <2>3, <2>4, <2>5, <2>6 DEF Next, Decode, NextEvent
<1>4. Spec => [](CountOK /\ StateTold)
  BY AlwaysTold
<1>5. QED BY <1>1, <1>2, <1>3, <1>4, PTL DEF Spec, ServiceSpec, Service!Spec
=============================================================================
