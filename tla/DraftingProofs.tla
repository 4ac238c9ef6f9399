--------------------------- MODULE DraftingProofs ---------------------------
(***************************************************************************)
(* Proofs about what an article is written from, for any records, texts,   *)
(* limits and answers of a model: the prompts, which hold nothing a model  *)
(* may not read; the facts, which add up and stand in the records they are *)
(* named for; and the drafts, which show nothing that their facts do not   *)
(* allow.                                                                  *)
(***************************************************************************)
EXTENDS Drafting, ListFacts

-----------------------------------------------------------------------------
(* The drafts: what a model is given to read.                              *)

Text == Seq(Token)

LEMMA CutText ==
  ASSUME NEW text \in Text, NEW n \in Nat
  PROVE  /\ Cut(text, n) \in Text /\ IsPrefix(Cut(text, n), text)
         /\ n # 0 /\ text # << >> => Cut(text, n) # << >>
  <1> DEFINE m == Min({n, Len(text)})
  <1>1. m \in Nat /\ m <= Len(text) /\ (m = n \/ m = Len(text))
    <2>1. Len(text) \in Nat
      BY DEF Text
    <2>2. \E x \in {n, Len(text)} : \A y \in {n, Len(text)} : x =< y
      BY <2>1
    <2>3. m \in {n, Len(text)} /\ \A y \in {n, Len(text)} : m =< y
      BY <2>2 DEF Min
    <2>4. QED
      BY <2>1, <2>3
  <1>2. Cut(text, n) = SubSeq(text, 1, m)
    BY DEF Cut
  <1> HIDE DEF m
  <1>3. /\ SubSeq(text, 1, m) \in Text /\ Len(SubSeq(text, 1, m)) = m
    BY <1>1 DEF Text
  <1>4. text # << >> => Len(text) # 0
    BY DEF Text
  <1>5. IsPrefix(Cut(text, n), text)
    BY <1>1, <1>2, <1>3 DEF IsPrefix, Text
  <1>6. n # 0 /\ text # << >> => Cut(text, n) # << >>
    BY <1>1, <1>2, <1>3, <1>4
  <1>7. QED
    BY <1>2, <1>3, <1>5, <1>6

\* The beginning of a beginning is one.
LEMMA PrefixesChain ==
  ASSUME NEW a \in Text, NEW b \in Text, NEW c \in Text, IsPrefix(a, b), IsPrefix(b, c)
  PROVE  IsPrefix(a, c)
  <1>1. Len(a) \in Nat /\ Len(b) \in Nat /\ Len(c) \in Nat /\ Len(a) <= Len(b) /\ Len(b) <= Len(c)
    BY DEF IsPrefix, Text
  <1>2. \A i \in 1 .. Len(a) : a[i] = b[i]
    <2>1. SubSeq(a, 1, Len(a)) = SubSeq(b, 1, Len(a))
      BY DEF IsPrefix
    <2>2. \A i \in 1 .. Len(a) : SubSeq(a, 1, Len(a))[i] = a[i] /\ SubSeq(b, 1, Len(a))[i] = b[i]
      BY <1>1 DEF Text
    <2>3. QED
      BY <2>1, <2>2
  <1>3. \A i \in 1 .. Len(b) : b[i] = c[i]
    <2>1. SubSeq(b, 1, Len(b)) = SubSeq(c, 1, Len(b))
      BY DEF IsPrefix
    <2>2. \A i \in 1 .. Len(b) : SubSeq(b, 1, Len(b))[i] = b[i] /\ SubSeq(c, 1, Len(b))[i] = c[i]
      BY <1>1 DEF Text
    <2>3. QED
      BY <2>1, <2>2
  <1>4. SubSeq(a, 1, Len(a)) = SubSeq(c, 1, Len(a))
    <2>1. /\ Len(SubSeq(a, 1, Len(a))) = Len(a) /\ Len(SubSeq(c, 1, Len(a))) = Len(a)
          /\ SubSeq(a, 1, Len(a)) \in Seq(Token) /\ SubSeq(c, 1, Len(a)) \in Seq(Token)
          /\ \A i \in 1 .. Len(a) :
                SubSeq(a, 1, Len(a))[i] = a[i] /\ SubSeq(c, 1, Len(a))[i] = c[i]
      BY <1>1 DEF Text
    <2>2. \A i \in 1 .. Len(a) : a[i] = c[i]
      BY <1>1, <1>2, <1>3
    <2>3. QED
      BY <1>1, <2>1, <2>2, SeqEqual
  <1>5. QED
    BY <1>1, <1>4 DEF IsPrefix

\* A beginning of a text holds nothing the text does not hold.
LEMMA PrefixHolds ==
  ASSUME NEW a \in Text, NEW b \in Text, IsPrefix(a, b), NEW kinds, Holds(a, kinds)
  PROVE  Holds(b, kinds)
  <1>1. Len(a) \in Nat /\ Len(b) \in Nat /\ Len(a) <= Len(b)
    BY DEF IsPrefix, Text
  <1>2. \A i \in 1 .. Len(a) : a[i] = b[i]
    <2>1. SubSeq(a, 1, Len(a)) = SubSeq(b, 1, Len(a))
      BY DEF IsPrefix
    <2>2. \A i \in 1 .. Len(a) : SubSeq(a, 1, Len(a))[i] = a[i] /\ SubSeq(b, 1, Len(a))[i] = b[i]
      BY <1>1 DEF Text
    <2>3. QED
      BY <2>1, <2>2
  <1>3. PICK i \in 1 .. Len(a) : a[i][1] \in kinds
    BY DEF Holds
  <1>4. i \in 1 .. Len(b) /\ b[i][1] \in kinds
    BY <1>1, <1>2, <1>3
  <1>5. QED
    BY <1>4 DEF Holds

LEMMA GreatestOf ==
  ASSUME NEW n \in Nat, NEW T \in SUBSET (1 .. n), T # {}
  PROVE  \E x \in T : \A y \in T : x >= y
  <1> DEFINE U == {k \in 0 .. n : \A y \in T : y <= k}
  <1>1. U \in SUBSET Nat /\ n \in U
    OBVIOUS
  <1>2. PICK m \in U : \A k \in U : m <= k
    BY <1>1, LeastOf
  <1>3. m \in T
    <2> SUFFICES ASSUME m \notin T PROVE FALSE
      OBVIOUS
    <2>1. m \in Nat /\ \A y \in T : y \in Nat \ {0} /\ y < m
      BY <1>2
    <2>2. PICK y \in T : TRUE
      OBVIOUS
    <2>3. m - 1 \in 0 .. n /\ \A z \in T : z <= m - 1
      BY <1>2, <2>1, <2>2
    <2>4. m - 1 \in U
      BY <2>3
    <2> HIDE DEF U
    <2>5. QED
      BY <1>2, <2>1, <2>4
  <1>4. QED
    BY <1>2, <1>3

LEMMA TruncateText ==
  ASSUME NEW text \in Text, NEW limit \in Nat
  PROVE  Truncate(text, limit) \in Text /\ IsPrefix(Truncate(text, limit), text)
  <1> DEFINE head == Cut(text, limit)
             ends == Starting(head, "stop")
  <1>1. head \in Text /\ IsPrefix(head, text)
    BY CutText
  <1>2. CASE Len(text) <= limit \/ ends = {}
    BY <1>1, <1>2 DEF Truncate
  <1>3. CASE ~(Len(text) <= limit \/ ends = {})
    <2> DEFINE m == Max(ends)
    <2>1. Len(head) \in Nat /\ ends \in SUBSET (1 .. Len(head))
      BY <1>1 DEF Starting, Text
    <2>2. m \in ends
      <3>1. \E x \in ends : \A y \in ends : x >= y
        <4> HIDE DEF ends, head
        <4>1. QED
          BY <1>3, <2>1, GreatestOf
      <3>2. QED
        BY <3>1 DEF Max
    <2>3. Truncate(text, limit) = SubSeq(head, 1, m)
      BY <1>3 DEF Truncate
    <2> HIDE DEF head, m, ends
    <2>4. m \in 1 .. Len(head)
      BY <2>1, <2>2
    <2>5. SubSeq(head, 1, m) \in Text /\ IsPrefix(SubSeq(head, 1, m), head)
      <3>1. SubSeq(head, 1, m) \in Text /\ Len(SubSeq(head, 1, m)) = m
        BY <1>1, <2>4 DEF Text
      <3>2. SubSeq(SubSeq(head, 1, m), 1, m) = SubSeq(head, 1, m)
        BY <1>1, <2>4 DEF Text
      <3>3. QED
        BY <2>1, <2>4, <3>1, <3>2 DEF IsPrefix
    <2>6. QED
      BY <1>1, <2>3, <2>5, PrefixesChain
  <1>4. QED
    BY <1>2, <1>3

-----------------------------------------------------------------------------

\* The records of an article, each once.
LEMMA RecordsOf ==
  ASSUME NEW s \in Sources
  PROVE  /\ s \in Seq(ToSet(s))
         /\ \A r, q \in ToSet(s) : r.id = q.id => r = q
         /\ \A r \in ToSet(s) : \E i \in 1 .. Len(s) : r = s[i]
         /\ \A r \in ToSet(s) :
               /\ r.title \in Text /\ r.texts \in Seq(Text)
               /\ r.id \in Nat /\ r.created \in Nat /\ r.updated \in Nat
               /\ \A l \in LabelsOf(r) : l.name \in Nat
               /\ IsFiniteSet(r.tags)
               /\ r.type \in {"incident", "divergence"} /\ r.severity \in ToSet(Severities)
  <1>1. /\ s \in Seq(ToSet(s))
        /\ \A i, j \in DOMAIN s : s[i].id = s[j].id => i = j
    BY FactsAssumption
  <1>2. \A r \in ToSet(s) : \E i \in DOMAIN s : r = s[i]
    BY DEF ToSet
  <1>3. \A r, q \in ToSet(s) : r.id = q.id => r = q
    BY <1>1, <1>2
  <1>4. DOMAIN s = 1 .. Len(s)
    BY <1>1
  <1>5. ASSUME NEW r \in ToSet(s)
        PROVE  /\ r.title \in Text /\ r.texts \in Seq(Text)
               /\ {r.id, r.created, r.updated} \subseteq Nat
               /\ IsFiniteSet(r.tags) /\ {l.name : l \in LabelsOf(r)} \subseteq Nat
               /\ r.type \in {"incident", "divergence"} /\ r.severity \in ToSet(Severities)
    BY FactsAssumption DEF Text, LabelsOf
  <1> QED BY <1>1, <1>2, <1>3, <1>4, <1>5

\* A record's title and sections.
LEMMA PartsOf ==
  ASSUME NEW s \in Sources, NEW r \in ToSet(s)
  PROVE  /\ Parts(r) \in Seq(Text)
         /\ \A q \in ToSet(s) : q.id = r.id => q = r
  <1>1. r.title \in Text /\ r.texts \in Seq(Text)
    BY RecordsOf
  <1>2. <<r.title>> \in Seq(Text)
    BY <1>1
  <1>3. Parts(r) \in Seq(Text)
    BY <1>1, <1>2, ConcatProperties DEF Parts
  <1>4. QED
    BY <1>3, RecordsOf

Forbidden == {"inject", "secret", "url", "script"}

Given(narrative, r, i) == \E p \in narrative.parts : p.record = r.id /\ p.part = i
Named(narrative, r, i) ==
    \E x \in narrative.excluded : x.record = r.id /\ x.part \in {0, i}

\* What is taken of the records, when exactly the published and unflagged of some
\* are material.
LEMMA NarrativeIsClean ==
  ASSUME NEW s \in Sources, NEW ids, ids = {r.id : r \in Screened(s)},
         NEW narrative, narrative = Narrative(s, ids)
  PROVE  /\ \A h \in narrative.heads :
                \E r \in ToSet(s) : r.status = "published" /\ r.flags = {} /\ r.id = h.record
         /\ \A p \in narrative.parts :
                /\ \E r \in ToSet(s) : /\ r.status = "published" /\ r.flags = {}
                                       /\ r.id = p.record
                                       /\ IsPrefix(p.text, Parts(r)[p.part])
                /\ ~Holds(p.text, Forbidden)
         /\ \A r \in ToSet(s) : \A i \in 1 .. Len(Parts(r)) :
                Given(narrative, r, i) <=> ~Named(narrative, r, i)
  <1> DEFINE All == ToSet(s)
             sound == {r \in All : RecordRejection(r, ids) = "none"}
             read == {r \in All : RecordRejection(r, ids) \in {"none", "no-usable-prose"}}
             Kept(r) == {i \in 1 .. Len(Parts(r)) : PartRejection(Parts(r)[i]) = "none"}
             Piece(r, i) == [record |-> r.id, part |-> i, text |-> Truncate(Parts(r)[i], PartMax)]
             Taken(r) == {Piece(r, i) : i \in Kept(r)}
             taken == UNION {Taken(r) : r \in sound}
             whole == {[record |-> r.id, part |-> 0, reason |-> RecordRejection(r, ids)] :
                          r \in All \ sound}
             Gap(r, i) == [record |-> r.id, part |-> i, reason |-> PartRejection(Parts(r)[i])]
             Left(r) == {Gap(r, i) : i \in (1 .. Len(Parts(r))) \ Kept(r)}
             left == UNION {Left(r) : r \in read}
  <1>1. narrative.parts = taken /\ narrative.excluded = whole \cup left
    BY DEF Narrative
  <1>2. \A r \in All : Parts(r) \in Seq(Text) /\ \A q \in All : q.id = r.id => q = r
    BY PartsOf
  <1>3. ASSUME NEW r \in sound
        PROVE  /\ r \in All /\ r.status = "published" /\ r.flags = {}
               /\ \A i \in 1 .. Len(Parts(r)) : ~Holds(Parts(r)[i], {"inject"})
                                            /\ ~Holds(Parts(r)[i], {"script"})
    <2>1. RecordRejection(r, ids) = "none" /\ r \in All
      OBVIOUS
    <2>2. /\ r.id \in ids /\ r.flags = {}
          /\ \A p \in ToSet(Parts(r)) : ~Holds(p, {"inject"}) /\ ~Holds(p, {"script"})
      BY <2>1 DEF RecordRejection
    <2>3. PICK q \in Screened(s) : q.id = r.id
      BY <2>2
    <2>4. q \in All /\ q.status = "published"
      BY <2>3 DEF Screened, ExclusionReason
    <2>5. r.status = "published"
      BY <1>2, <2>1, <2>3, <2>4
    <2>6. \A i \in 1 .. Len(Parts(r)) : Parts(r)[i] \in ToSet(Parts(r))
      BY <1>2, <2>1 DEF ToSet
    <2>7. QED
      BY <2>1, <2>2, <2>5, <2>6
  <1>10. ASSUME NEW h \in narrative.heads
         PROVE  \E r \in All : r.status = "published" /\ r.flags = {} /\ r.id = h.record
    <2> DEFINE Top(r) == [record |-> r.id, type |-> r.type, severity |-> r.severity,
                          created |-> Day(r.created), tags |-> r.tags]
    <2>2. narrative.heads = {Top(r) : r \in sound}
      BY DEF Narrative
    <2>3. \A r : Top(r).record = r.id
      OBVIOUS
    <2> HIDE DEF Top
    <2>1. PICK r \in sound : h.record = r.id
      BY <1>10, <2>2, <2>3
    <2> HIDE DEF sound
    <2> QED BY <1>3, <2>1
  <1>4. ASSUME NEW p \in taken
        PROVE  \E r \in sound : \E i \in Kept(r) :
                   p = [record |-> r.id, part |-> i, text |-> Truncate(Parts(r)[i], PartMax)]
    OBVIOUS
  <1>5. ASSUME NEW p \in taken
        PROVE  /\ \E r \in All : /\ r.status = "published" /\ r.flags = {} /\ r.id = p.record
                                 /\ IsPrefix(p.text, Parts(r)[p.part])
               /\ ~Holds(p.text, Forbidden)
    <2>1. PICK r \in sound : \E i \in Kept(r) :
              p = [record |-> r.id, part |-> i, text |-> Truncate(Parts(r)[i], PartMax)]
      BY <1>4
    <2>2. PICK i \in Kept(r) :
              p = [record |-> r.id, part |-> i, text |-> Truncate(Parts(r)[i], PartMax)]
      BY <2>1
    <2> DEFINE t == Parts(r)[i]
    <2>3. i \in 1 .. Len(Parts(r)) /\ t \in Text /\ PartRejection(t) = "none"
      BY <1>2, <1>3
    <2>4. p.record = r.id /\ p.part = i /\ p.text = Truncate(t, PartMax)
      BY <2>2
    <2>5. p.text \in Text /\ IsPrefix(p.text, t)
      BY <2>3, <2>4, DraftingAssumption, TruncateText
    <2>6. /\ ~Holds(t, {"inject"}) /\ ~Holds(t, {"script"})
          /\ ~Holds(t, {"url"}) /\ ~Holds(t, {"secret"})
      BY <1>3, <2>3 DEF PartRejection
    <2>7. ~Holds(t, Forbidden)
      BY <2>6 DEF Holds, Forbidden
    <2> HIDE DEF t
    <2>8. ~Holds(p.text, Forbidden)
      BY <2>3, <2>5, <2>7, PrefixHolds
    <2>9. QED
      BY <1>3, <2>4, <2>5, <2>8 DEF t
  <1>6. ASSUME NEW r \in All, NEW i \in 1 .. Len(Parts(r))
        PROVE  (\E p \in taken : p.record = r.id /\ p.part = i) <=> r \in sound /\ i \in Kept(r)
    <2>1. ASSUME NEW p \in taken, p.record = r.id, p.part = i PROVE r \in sound /\ i \in Kept(r)
      <3>1. PICK q \in sound : \E j \in Kept(q) :
                p = [record |-> q.id, part |-> j, text |-> Truncate(Parts(q)[j], PartMax)]
        BY <1>4
      <3>2. q = r
        BY <1>2, <1>3, <2>1, <3>1
      <3>3. QED
        BY <2>1, <3>1, <3>2
    <2>2. ASSUME r \in sound, i \in Kept(r) PROVE \E p \in taken : p.record = r.id /\ p.part = i
      <3>1. Piece(r, i).record = r.id /\ Piece(r, i).part = i
        OBVIOUS
      <3>2. Piece(r, i) \in Taken(r)
        BY <2>2
      <3> HIDE DEF Taken, Piece, sound, Kept
      <3>3. Piece(r, i) \in taken
        BY <2>2, <3>2
      <3>4. QED
        BY <3>1, <3>3
    <2>3. QED
      BY <2>1, <2>2
  <1>7. ASSUME NEW r \in All, NEW i \in 1 .. Len(Parts(r))
        PROVE  (\E x \in whole \cup left : x.record = r.id /\ x.part \in {0, i})
                   <=> r \notin sound \/ i \notin Kept(r)
    <2>1. i # 0 /\ i \in Nat
      <3>1. Len(Parts(r)) \in Nat
        BY <1>2
      <3>2. QED
        BY <3>1
    <2>2. ASSUME NEW x \in whole, x.record = r.id PROVE r \notin sound
      <3>1. PICK q \in All \ sound : x = [record |-> q.id, part |-> 0, reason |-> RecordRejection(q, ids)]
        OBVIOUS
      <3>2. x.record = q.id
        BY <3>1
      <3>3. q = r
        BY <1>2, <2>2, <3>2
      <3>4. QED
        BY <3>3
    <2>3. ASSUME NEW x \in left, x.record = r.id, x.part \in {0, i} PROVE i \notin Kept(r)
      <3>1. PICK q \in read : \E j \in (1 .. Len(Parts(q))) \ Kept(q) :
                x = [record |-> q.id, part |-> j, reason |-> PartRejection(Parts(q)[j])]
        OBVIOUS
      <3>2. PICK j \in (1 .. Len(Parts(q))) \ Kept(q) :
                x = [record |-> q.id, part |-> j, reason |-> PartRejection(Parts(q)[j])]
        BY <3>1
      <3>3. x.record = q.id /\ x.part = j /\ Len(Parts(q)) \in Nat
        BY <1>2, <3>2
      <3>4. q \in All /\ q = r
        BY <1>2, <2>3, <3>3
      <3>5. j # 0 /\ j = i
        BY <2>1, <2>3, <3>3
      <3>6. QED
        BY <3>4, <3>5
    <2>4. ASSUME r \notin sound PROVE \E x \in whole \cup left : x.record = r.id /\ x.part \in {0, i}
      <3> DEFINE x == [record |-> r.id, part |-> 0, reason |-> RecordRejection(r, ids)]
      <3>1. x \in whole /\ x.record = r.id /\ x.part = 0
        BY <2>4
      <3>2. QED
        BY <3>1
    <2>5. ASSUME r \in sound, i \notin Kept(r)
          PROVE  \E x \in whole \cup left : x.record = r.id /\ x.part \in {0, i}
      <3>1. r \in read /\ Gap(r, i).record = r.id /\ Gap(r, i).part = i
        BY <2>5
      <3>2. Gap(r, i) \in Left(r)
        BY <2>5
      <3> HIDE DEF Left, Gap, read, Kept, sound
      <3>3. Gap(r, i) \in left
        BY <3>1, <3>2
      <3> HIDE DEF left, whole
      <3>4. QED
        BY <3>1, <3>3
    <2> HIDE DEF whole, left, sound, Kept
    <2>6. QED
      BY <2>2, <2>3, <2>4, <2>5
  <1> HIDE DEF taken, whole, left, sound, Kept, read
  <1>8. ASSUME NEW r \in All, NEW i \in 1 .. Len(Parts(r))
        PROVE  Given(narrative, r, i) <=> ~Named(narrative, r, i)
    <2>1. Given(narrative, r, i) <=> r \in sound /\ i \in Kept(r)
      BY <1>1, <1>6 DEF Given
    <2>2. Named(narrative, r, i) <=> r \notin sound \/ i \notin Kept(r)
      BY <1>1, <1>7 DEF Named
    <2>3. QED
      BY <2>1, <2>2
  <1>9. QED
    BY <1>1, <1>5, <1>8, <1>10

\* A function has no more values than arguments.
LEMMA ValuesAreFew ==
  ASSUME NEW S, IsFiniteSet(S), NEW f, DOMAIN f = S, f = [x \in S |-> f[x]]
  PROVE  LET T == {f[x] : x \in S}
         IN  IsFiniteSet(T) /\ Cardinality(T) <= Cardinality(S)
  <1> DEFINE T == {f[x] : x \in S}
  <1>1. f \in [S -> T]
    OBVIOUS
  <1>2. f \in Surjection(S, T)
    BY <1>1 DEF Surjection
  <1> HIDE DEF T
  <1>3. QED
    BY <1>2, FS_Surjection DEF T

\* Every style sample is passed on or named; what is passed on is clean.
LEMMA StyleIsClean ==
  ASSUME NEW files \in Seq(Text)
  PROVE  LET style == StyleSamples(files)
         IN  /\ \A t \in style.samples : t # << >> /\ ~Holds(t, {"inject", "secret"})
             /\ Cardinality(style.rejected) + Cardinality(style.samples) <= Len(files)
  <1> DEFINE All == 1 .. Len(files)
             bad == {j \in All : SampleRejection(files[j]) # "none"}
             good == All \ bad
             samples == {Cut(t, SampleMax) : t \in {x \in ToSet(files) : SampleRejection(x) = "none"}}
             rejected == {[file |-> i, reason |-> SampleRejection(files[i])] : i \in bad}
             f == [i \in bad |-> [file |-> i, reason |-> SampleRejection(files[i])]]
             c == [i \in good |-> Cut(files[i], SampleMax)]
  <1>1. StyleSamples(files).samples = samples /\ StyleSamples(files).rejected = rejected
    BY DEF StyleSamples
  <1>2. ASSUME NEW t \in samples PROVE t # << >> /\ ~Holds(t, {"inject", "secret"})
    <2>1. PICK x \in ToSet(files) : SampleRejection(x) = "none" /\ t = Cut(x, SampleMax)
      OBVIOUS
    <2>2. x \in Text
      BY <2>1 DEF ToSet
    <2>3. x # << >> /\ ~Holds(x, {"inject"}) /\ ~Holds(x, {"secret"})
      BY <2>1 DEF SampleRejection
    <2>4. ~Holds(x, {"inject", "secret"})
      BY <2>3 DEF Holds
    <2>5. t \in Text /\ IsPrefix(t, x) /\ t # << >>
      BY <2>1, <2>2, <2>3, DraftingAssumption, CutText
    <2>6. QED
      BY <2>2, <2>4, <2>5, PrefixHolds
  <1>3. Len(files) \in Nat /\ IsFiniteSet(All) /\ Cardinality(All) = Len(files)
    <2>1. Len(files) \in Nat
      OBVIOUS
    <2>2. QED
      BY <2>1, FS_Interval
  <1>4. IsFiniteSet(bad) /\ IsFiniteSet(good)
    BY <1>3, FS_Subset
  <1>5. Cardinality(bad) + Cardinality(good) = Len(files)
    <2>1. bad \cup good = All /\ bad \cap good = {}
      OBVIOUS
    <2> HIDE DEF bad, good, All
    <2>2. /\ Cardinality(bad) \in Nat /\ Cardinality(good) \in Nat /\ Cardinality({}) = 0
          /\ Cardinality(bad \cup good) =
                 Cardinality(bad) + Cardinality(good) - Cardinality(bad \cap good)
      BY <1>4, FS_Union, FS_EmptySet, FS_CardinalityType
    <2>3. Cardinality(bad \cap good) = 0 /\ Cardinality(bad \cup good) = Len(files)
      BY <1>3, <2>1, <2>2
    <2>4. QED
      BY ONLY <2>2, <2>3
  <1>6. IsFiniteSet(rejected) /\ Cardinality(rejected) <= Cardinality(bad)
    <2>1. rejected = {f[i] : i \in bad}
      OBVIOUS
    <2>2. DOMAIN f = bad /\ f = [i \in bad |-> f[i]]
      OBVIOUS
    <2> HIDE DEF f, bad, rejected
    <2>3. QED
      BY <1>4, <2>1, <2>2, ValuesAreFew
  <1>7. IsFiniteSet(samples) /\ Cardinality(samples) <= Cardinality(good)
    <2>1. samples \subseteq {c[i] : i \in good}
      BY DEF ToSet
    <2>2. DOMAIN c = good /\ c = [i \in good |-> c[i]]
      OBVIOUS
    <2> HIDE DEF c, good, samples
    <2> DEFINE T == {c[i] : i \in good}
    <2>3. IsFiniteSet(T) /\ Cardinality(T) <= Cardinality(good)
      BY <1>4, <2>2, ValuesAreFew
    <2> HIDE DEF T
    <2>4. IsFiniteSet(samples) /\ Cardinality(samples) <= Cardinality(T)
      BY <2>1, <2>3, FS_Subset DEF T
    <2>5. Cardinality(T) \in Nat /\ Cardinality(good) \in Nat /\ Cardinality(samples) \in Nat
      BY <1>4, <2>3, <2>4, FS_CardinalityType
    <2>6. QED
      BY <2>3, <2>4, <2>5
  <1> HIDE DEF samples, rejected, bad, good, All, f, c
  <1>8. Cardinality(rejected) + Cardinality(samples) <= Len(files)
    <2>1. /\ Cardinality(bad) \in Nat /\ Cardinality(good) \in Nat
          /\ Cardinality(rejected) \in Nat /\ Cardinality(samples) \in Nat
      BY <1>4, <1>6, <1>7, FS_CardinalityType
    <2>2. QED
      BY <1>3, <1>5, <1>6, <1>7, <2>1
  <1>9. QED
    BY <1>1, <1>2, <1>8

-----------------------------------------------------------------------------
(* The facts: what may be quoted of a record.                              *)

\* A text that stands in another, item by item.
LEMMA PieceOf ==
  ASSUME NEW text \in Text, NEW i \in Int, NEW j \in Int, 1 <= i, i <= j + 1, j <= Len(text)
  PROVE  LET x == SubSeq(text, i, j)
         IN  /\ x \in Text /\ Len(x) = j - i + 1
             /\ \A k \in 1 .. Len(x) : i + k - 1 \in 1 .. Len(text) /\ x[k] = text[i + k - 1]
  <1>1. Len(text) \in Nat /\ \A k \in 1 .. Len(text) : text[k] \in Token
    BY DEF Text
  <1>2. \A k \in i .. j : text[k] \in Token
    BY <1>1
  <1>3. /\ SubSeq(text, i, j) \in Seq(Token)
        /\ Len(SubSeq(text, i, j)) = IF i <= j THEN j - i + 1 ELSE 0
        /\ \A k \in 1 .. j - i + 1 : SubSeq(text, i, j)[k] = text[i + k - 1]
    BY <1>2, SubSeqProperties
  <1>4. Len(SubSeq(text, i, j)) = j - i + 1
    BY <1>3
  <1> QED BY <1>1, <1>3, <1>4 DEF Text

LEMMA IncludesItems ==
  ASSUME NEW text \in Text, NEW x \in Text
  PROVE  Includes(text, x) <=>
            \E i \in 1 .. Len(text) - Len(x) + 1 : \A k \in 1 .. Len(x) : text[i + k - 1] = x[k]
  <1>1. Len(text) \in Nat /\ Len(x) \in Nat
    BY DEF Text
  <1>2. ASSUME NEW i \in 1 .. Len(text) - Len(x) + 1
        PROVE  (SubSeq(text, i, i + Len(x) - 1) = x)
                   <=> (\A k \in 1 .. Len(x) : text[i + k - 1] = x[k])
    <2> DEFINE j == i + Len(x) - 1
               y == SubSeq(text, i, j)
    <2>1. i \in Int /\ j \in Int /\ 1 <= i /\ i <= j + 1 /\ j <= Len(text) /\ j - i + 1 = Len(x)
      BY <1>1
    <2> HIDE DEF j
    <2>2. y \in Text /\ Len(y) = Len(x) /\ \A k \in 1 .. Len(x) : y[k] = text[i + k - 1]
      BY <2>1, PieceOf
    <2> HIDE DEF y
    <2>3. (\A k \in 1 .. Len(x) : y[k] = x[k]) => y = x
      BY <2>2, SeqEqual DEF Text
    <2> QED BY <2>2, <2>3 DEF y, j
  <1> QED BY <1>2 DEF Includes

LEMMA IncludesChain ==
  ASSUME NEW a \in Text, NEW b \in Text, NEW c \in Text, Includes(a, b), Includes(b, c)
  PROVE  Includes(a, c)
  <1>1. Len(a) \in Nat /\ Len(b) \in Nat /\ Len(c) \in Nat
    BY DEF Text
  <1>2. PICK i \in 1 .. Len(a) - Len(b) + 1 : \A k \in 1 .. Len(b) : a[i + k - 1] = b[k]
    BY IncludesItems
  <1>3. PICK j \in 1 .. Len(b) - Len(c) + 1 : \A k \in 1 .. Len(c) : b[j + k - 1] = c[k]
    BY IncludesItems
  <1> DEFINE m == i + j - 1
  <1>4. m \in 1 .. Len(a) - Len(c) + 1
    BY <1>1
  <1>5. ASSUME NEW k \in 1 .. Len(c) PROVE a[m + k - 1] = c[k]
    <2>1. j + k - 1 \in 1 .. Len(b) /\ i + (j + k - 1) - 1 = m + k - 1
      BY <1>1
    <2>2. a[i + (j + k - 1) - 1] = b[j + k - 1] /\ b[j + k - 1] = c[k]
      BY <1>2, <1>3, <2>1
    <2> QED BY <2>1, <2>2
  <1> HIDE DEF m
  <1> QED BY <1>4, <1>5, IncludesItems

LEMMA PieceIncluded ==
  ASSUME NEW text \in Text, NEW i \in Int, NEW j \in Int, 1 <= i, i <= j + 1, j <= Len(text)
  PROVE  SubSeq(text, i, j) \in Text /\ Includes(text, SubSeq(text, i, j))
  <1> DEFINE x == SubSeq(text, i, j)
  <1>1. /\ x \in Text /\ Len(x) = j - i + 1
        /\ \A k \in 1 .. Len(x) : x[k] = text[i + k - 1]
    BY PieceOf
  <1> HIDE DEF x
  <1>2. Len(text) \in Nat /\ i \in 1 .. Len(text) - Len(x) + 1
    BY <1>1 DEF Text
  <1>3. Includes(text, x)
    BY <1>1, <1>2, IncludesItems
  <1> QED BY <1>1, <1>3 DEF x

LEMMA TokenIncluded ==
  ASSUME NEW text \in Text, NEW x \in Text, Includes(text, x), NEW k \in 1 .. Len(x)
  PROVE  \E j \in 1 .. Len(text) : text[j] = x[k]
  <1>1. Len(text) \in Nat /\ Len(x) \in Nat
    BY DEF Text
  <1>2. PICK i \in 1 .. Len(text) - Len(x) + 1 : \A m \in 1 .. Len(x) : text[i + m - 1] = x[m]
    BY IncludesItems
  <1>3. i + k - 1 \in 1 .. Len(text) /\ text[i + k - 1] = x[k]
    BY <1>1, <1>2
  <1> QED BY <1>3

\* A piece of a text that is not broken, nor prose when it is not asked for.
IsSnippet(text, x) == x \in Text /\ Includes(text, x) /\ \A k \in 1 .. Len(x) : x[k][1] # "break"

LEMMA SlicedText ==
  ASSUME NEW text \in Text, NEW from \in 1 .. Len(text), text[from][1] \in {"error", "tool"}
  PROVE  LET x == SliceAscii(text, from)
         IN  IsSnippet(text, x) /\ \A k \in 1 .. Len(x) : x[k][1] \notin Foreign
  <1> DEFINE ends == {i \in from .. Len(text) : text[i][1] \in Foreign \cup {"stop", "break"}}
             all == ends \cup {Len(text) + 1, from + MaxSnippet}
             m == Min(all)
  <1>1. Len(text) \in Nat /\ MaxSnippet \in Nat /\ from \in Nat
    BY FactsAssumption DEF Text
  <1>2. all # {} /\ \A e \in all : e \in Int /\ from <= e
    BY <1>1
  <1>3. m \in all /\ m \in Int /\ \A e \in all : m <= e
    <2> HIDE DEF all
    <2> QED BY <1>1, <1>2, MinOf
  <1>4. from <= m /\ m <= Len(text) + 1
    BY <1>1, <1>2, <1>3
  <1>5. SliceAscii(text, from) = SubSeq(text, from, m - 1)
    BY DEF SliceAscii
  <1> DEFINE x == SubSeq(text, from, m - 1)
  <1>6. /\ x \in Text /\ Includes(text, x) /\ Len(x) = m - from
        /\ \A k \in 1 .. Len(x) : from + k - 1 \in 1 .. Len(text) /\ x[k] = text[from + k - 1]
    <2> HIDE DEF m
    <2>1. from \in Int /\ m - 1 \in Int /\ 1 <= from /\ from <= (m - 1) + 1 /\ m - 1 <= Len(text)
      BY <1>1, <1>3, <1>4
    <2> DEFINE n == m - 1
    <2>2. n - from + 1 = m - from
      BY <1>1, <1>3
    <2> HIDE DEF n
    <2> QED BY <2>1, <2>2, PieceOf, PieceIncluded DEF n
  <1>7. ASSUME NEW k \in 1 .. Len(x) PROVE x[k][1] \notin Foreign \cup {"stop", "break"}
    <2>1. from + k - 1 \in from .. Len(text) /\ from + k - 1 < m /\ x[k] = text[from + k - 1]
      BY <1>1, <1>3, <1>6
    <2>2. from + k - 1 \notin ends
      <3>1. ends \subseteq all
        OBVIOUS
      <3> HIDE DEF m, ends, all
      <3> QED BY <1>1, <1>3, <2>1, <3>1
    <2> QED BY <2>1, <2>2
  <1> HIDE DEF x
  <1> QED BY <1>5, <1>6, <1>7 DEF x, IsSnippet

LEMMA TrimmedText ==
  ASSUME NEW text \in Text, NEW x, IsSnippet(text, x)
  PROVE  LET y == TrimSnippet(x)
         IN  y # << >> =>
             IsSnippet(text, y) /\ \A k \in 1 .. Len(y) : \E j \in 1 .. Len(x) : y[k] = x[j]
  <1> DEFINE solid == {i \in 1 .. Len(x) : x[i][1] # "quote"}
             a == Min(solid)
             b == Max(solid)
             y == SubSeq(x, a, b)
  <1> SUFFICES ASSUME solid # {} 
               PROVE  IsSnippet(text, y) /\ \A k \in 1 .. Len(y) : \E j \in 1 .. Len(x) : y[k] = x[j]
    BY DEF TrimSnippet
  <1>1. x \in Text /\ Includes(text, x) /\ \A k \in 1 .. Len(x) : x[k][1] # "break"
    BY DEF IsSnippet
  <1>2. Len(x) \in Nat
    BY <1>1 DEF Text
  <1>3. \A i \in solid : i \in Int /\ 1 <= i /\ i <= Len(x)
    BY <1>2
  <1>4. a \in solid /\ b \in solid /\ a <= b
    <2> HIDE DEF solid
    <2> QED BY <1>2, <1>3, MinOf, MaxOf
  <1>5. a \in Int /\ b \in Int /\ 1 <= a /\ a <= b + 1 /\ b <= Len(x)
    BY <1>3, <1>4
  <1> HIDE DEF a, b, solid
  <1>6. y \in Text /\ Includes(x, y)
    BY <1>1, <1>5, PieceIncluded
  <1> HIDE DEF y
  <1>7. Includes(text, y)
    BY <1>1, <1>6, IncludesChain
  <1>8. \A k \in 1 .. Len(y) : \E j \in 1 .. Len(x) : y[k] = x[j]
    BY <1>1, <1>6, TokenIncluded
  <1> QED BY <1>1, <1>6, <1>7, <1>8 DEF IsSnippet

\* What a quotation or a slice of a text is.
LEMMA InnerText ==
  ASSUME NEW text \in Text, NEW i \in 1 .. Len(text), NEW j \in 1 .. Len(text), i < j
  PROVE  LET x == SubSeq(text, i + 1, j - 1)
         IN  /\ x \in Text /\ Includes(text, x) /\ Len(x) = j - i - 1
             /\ \A k \in 1 .. Len(x) : i + k \in i + 1 .. j - 1 /\ x[k] = text[i + k]
  <1>1. Len(text) \in Nat
    BY DEF Text
  <1> DEFINE m == i + 1
             n == j - 1
             x == SubSeq(text, m, n)
  <1>2. m \in Int /\ n \in Int /\ 1 <= m /\ m <= n + 1 /\ n <= Len(text) /\ n - m + 1 = j - i - 1
    BY <1>1
  <1>3. /\ x \in Text /\ Len(x) = n - m + 1
        /\ \A k \in 1 .. Len(x) : x[k] = text[m + k - 1]
    <2> HIDE DEF m, n
    <2> QED BY <1>2, PieceOf
  <1>4. Includes(text, x)
    <2> HIDE DEF m, n
    <2> QED BY <1>2, PieceIncluded
  <1>5. \A k \in 1 .. Len(x) : m + k - 1 = i + k /\ i + k \in i + 1 .. j - 1
    <2> HIDE DEF x
    <2> QED BY <1>1, <1>2, <1>3
  <1>6. \A k \in 1 .. Len(x) : x[k] = text[i + k]
    <2>1. \A k \in 1 .. Len(x) : m + k - 1 = i + k /\ x[k] = text[m + k - 1]
      BY <1>3, <1>5
    <2> HIDE DEF x, m
    <2> QED BY <2>1
  <1> HIDE DEF x
  <1> QED BY <1>2, <1>3, <1>4, <1>5, <1>6 DEF x

\* Collected of a text: pieces of it.
LEMMA ErrorsCollected ==
  ASSUME NEW text \in Text, NEW x \in CollectErrors(text), x # << >>
  PROVE  IsSnippet(text, x)
  <1>1. Len(text) \in Nat
    BY DEF Text
  <1> DEFINE quotes == Starting(text, "quote")
  <1>2. quotes \subseteq 1 .. Len(text)
    BY DEF Starting
  <1>3. CASE \E i, j \in quotes : /\ i < j /\ x = SubSeq(text, i + 1, j - 1)
                                  /\ \A k \in i + 1 .. j - 1 : text[k][1] \notin {"quote", "break"}
    <2>1. PICK i \in 1 .. Len(text), j \in 1 .. Len(text) :
              /\ i < j /\ x = SubSeq(text, i + 1, j - 1)
              /\ \A k \in i + 1 .. j - 1 : text[k][1] \notin {"quote", "break"}
      BY <1>2, <1>3
    <2>2. /\ x \in Text /\ Includes(text, x)
          /\ \A k \in 1 .. Len(x) : i + k \in i + 1 .. j - 1 /\ x[k] = text[i + k]
      BY <2>1, InnerText
    <2>3. \A k \in 1 .. Len(x) : x[k][1] # "break"
      BY <2>1, <2>2
    <2> QED BY <2>2, <2>3 DEF IsSnippet
  <1>4. CASE \E i \in Starting(text, "error") : x = TrimSnippet(SliceAscii(text, i))
    <2>1. PICK i \in Starting(text, "error") : x = TrimSnippet(SliceAscii(text, i))
      BY <1>4
    <2>2. i \in 1 .. Len(text) /\ text[i][1] \in {"error", "tool"}
      BY DEF Starting
    <2>3. IsSnippet(text, SliceAscii(text, i))
      BY <2>2, SlicedText
    <2> QED BY <2>1, <2>3, TrimmedText
  <1>5. QED
    <2> DEFINE Inner(i, j) == SubSeq(text, i + 1, j - 1)
               Quoted(i, j) == \A k \in i + 1 .. j - 1 : text[k][1] \notin {"quote", "break"}
               told == {q \in quotes \X quotes : /\ q[1] < q[2] /\ Quoted(q[1], q[2])
                                                 /\ Starting(Inner(q[1], q[2]), "error") # {}}
    <2>1. CollectErrors(text) = {Inner(q[1], q[2]) : q \in told}
              \cup {TrimSnippet(SliceAscii(text, i)) : i \in Starting(text, "error")}
      BY DEF CollectErrors
    <2>2. CASE \E q \in told : x = Inner(q[1], q[2])
      <3>1. PICK q \in told : x = Inner(q[1], q[2])
        BY <2>2
      <3>2. q[1] \in quotes /\ q[2] \in quotes /\ q[1] < q[2] /\ Quoted(q[1], q[2])
        OBVIOUS
      <3> QED BY <1>3, <3>1, <3>2
    <2>3. CASE \E i \in Starting(text, "error") : x = TrimSnippet(SliceAscii(text, i))
      BY <1>4, <2>3
    <2> HIDE DEF told, Inner
    <2> QED BY <2>1, <2>2, <2>3

LEMMA PairIncluded ==
  ASSUME NEW text \in Text, NEW i \in 1 .. Len(text), i < Len(text)
  PROVE  LET x == SubSeq(text, i, i + 1)
         IN  /\ x \in Text /\ Includes(text, x) /\ Len(x) = 2 /\ x[1] = text[i] /\ x[2] = text[i + 1]
  <1> DEFINE j == i + 1
             x == SubSeq(text, i, j)
  <1>1. Len(text) \in Nat
    BY DEF Text
  <1>2. i \in Int /\ j \in Int /\ 1 <= i /\ i <= j + 1 /\ j <= Len(text) /\ j - i + 1 = 2
    BY <1>1
  <1>3. /\ x \in Text /\ Len(x) = 2 /\ Includes(text, x)
        /\ \A k \in 1 .. Len(x) : x[k] = text[i + k - 1]
    <2> HIDE DEF j
    <2> QED BY <1>2, PieceOf, PieceIncluded
  <1>4. x[1] = text[i + 1 - 1] /\ x[2] = text[i + 2 - 1]
    <2> HIDE DEF x
    <2> QED BY <1>3
  <1>5. i + 1 - 1 = i /\ i + 2 - 1 = i + 1
    BY <1>1
  <1> HIDE DEF x
  <1> QED BY <1>3, <1>4, <1>5 DEF x

LEMMA OneIncluded ==
  ASSUME NEW text \in Text, NEW i \in 1 .. Len(text)
  PROVE  <<text[i]>> \in Text /\ Includes(text, <<text[i]>>)
  <1>1. Len(text) \in Nat /\ text[i] \in Token
    BY DEF Text
  <1> DEFINE x == <<text[i]>>
  <1>2. x \in Text /\ Len(x) = 1 /\ x[1] = text[i]
    BY <1>1 DEF Text
  <1>3. i \in 1 .. Len(text) - 1 + 1 /\ i + 1 - 1 = i
    BY <1>1
  <1> HIDE DEF x
  <1>4. \A k \in 1 .. Len(x) : text[i + k - 1] = x[k]
    BY <1>2, <1>3
  <1>5. Includes(text, x)
    BY <1>2, <1>3, <1>4, IncludesItems
  <1> QED BY <1>2, <1>5 DEF x

\* The measures, which may hold the units of other scripts.
LEMMA MetricsCollected ==
  ASSUME NEW text \in Text, NEW x \in CollectMetrics(text)
  PROVE  IsSnippet(text, x) /\ \A k \in 1 .. Len(x) : x[k][1] \notin {"prose", "script"}
  <1>1. PICK i \in {j \in Starting(text, "num") :
            j < Len(text) /\ text[j + 1][1] \in {"unit", "koreanUnit"}} : x = SubSeq(text, i, i + 1)
    BY DEF CollectMetrics
  <1>2. i \in 1 .. Len(text) /\ i < Len(text) /\ text[i][1] = "num"
        /\ text[i + 1][1] \in {"unit", "koreanUnit"}
    BY DEF Starting
  <1>3. /\ x \in Text /\ Includes(text, x) /\ Len(x) = 2 /\ x[1] = text[i] /\ x[2] = text[i + 1]
    BY <1>1, <1>2, PairIncluded
  <1>4. \A k \in 1 .. Len(x) : x[k][1] \in {"num", "unit", "koreanUnit"}
    BY <1>2, <1>3
  <1> QED BY <1>3, <1>4 DEF IsSnippet

LEMMA VersionsCollected ==
  ASSUME NEW text \in Text, NEW x \in CollectVersions(text)
  PROVE  IsSnippet(text, x)
  <1>1. CASE \E i \in Starting(text, "version") : x = <<text[i]>>
    <2>1. PICK i \in Starting(text, "version") : x = <<text[i]>>
      BY <1>1
    <2>2. i \in 1 .. Len(text) /\ text[i][1] = "version"
      BY DEF Starting
    <2> QED BY <2>1, <2>2, OneIncluded DEF IsSnippet
  <1>2. CASE \E i \in {j \in Starting(text, "tool") :
              j < Len(text) /\ text[j + 1][1] = "num"} : x = SubSeq(text, i, i + 1)
    <2>1. PICK i \in {j \in Starting(text, "tool") :
              j < Len(text) /\ text[j + 1][1] = "num"} : x = SubSeq(text, i, i + 1)
      BY <1>2
    <2>2. i \in 1 .. Len(text) /\ i < Len(text) /\ text[i][1] = "tool" /\ text[i + 1][1] = "num"
      BY DEF Starting
    <2>3. /\ x \in Text /\ Includes(text, x) /\ Len(x) = 2 /\ x[1] = text[i] /\ x[2] = text[i + 1]
      BY <2>1, <2>2, PairIncluded
    <2> QED BY <2>2, <2>3 DEF IsSnippet
  <1> QED BY <1>1, <1>2 DEF CollectVersions

LEMMA SingleSnippet ==
  ASSUME NEW text \in Text, NEW i \in 1 .. Len(text), text[i][1] # "break"
  PROVE  IsSnippet(text, <<text[i]>>)
  <1>1. <<text[i]>> \in Text /\ Includes(text, <<text[i]>>)
    BY OneIncluded
  <1> QED BY <1>1 DEF IsSnippet

LEMMA CommandsCollected ==
  ASSUME NEW text \in Text, NEW x \in CollectCommands(text), x # << >>
  PROVE  IsSnippet(text, x)
  <1>1. PICK i \in Starting(text, "tool") : x = TrimSnippet(SliceAscii(text, i))
    BY DEF CollectCommands
  <1>2. i \in 1 .. Len(text) /\ text[i][1] \in {"error", "tool"}
    BY DEF Starting
  <1>3. IsSnippet(text, SliceAscii(text, i))
    BY <1>2, SlicedText
  <1> QED BY <1>1, <1>3, TrimmedText

Snippable == {"error", "command", "path", "metric", "version", "url"}

LEMMA CollectedSnippets ==
  ASSUME NEW text \in Text, NEW k \in DOMAIN Collect(text), NEW x \in Collect(text)[k], x # << >>
  PROVE  /\ k \in Snippable /\ IsSnippet(text, x)
         /\ k = "metric" => \A c \in 1 .. Len(x) : x[c][1] \notin {"prose", "script"}
  <1>1. k \in Snippable
    BY DEF Collect, Snippable
  <1>2. CASE k = "error"
    BY <1>2, ErrorsCollected DEF Collect, Snippable
  <1>3. CASE k = "command"
    BY <1>3, CommandsCollected DEF Collect, Snippable
  <1>4. CASE k = "path"
    <2>1. x \in CollectPaths(text)
      BY <1>4 DEF Collect
    <2>2. PICK i \in 1 .. Len(text) : x = <<text[i]>> /\ text[i][1] = "path"
      BY <2>1 DEF CollectPaths, Starting
    <2> QED BY <1>1, <1>4, <2>2, SingleSnippet
  <1>5. CASE k = "metric"
    BY <1>5, MetricsCollected DEF Collect, Snippable
  <1>6. CASE k = "version"
    BY <1>6, VersionsCollected DEF Collect, Snippable
  <1>7. CASE k = "url"
    <2>1. x \in CollectUrls(text)
      BY <1>7 DEF Collect
    <2>2. PICK i \in 1 .. Len(text) : x = <<text[i]>> /\ text[i][1] = "url"
      BY <2>1 DEF CollectUrls, Starting
    <2> QED BY <1>1, <1>7, <2>2, SingleSnippet
  <1> QED BY <1>1, <1>2, <1>3, <1>4, <1>5, <1>6, <1>7 DEF Snippable

-----------------------------------------------------------------------------
(* The facts: finitely many snippets.                                      *)

LEMMA RowsAreFew ==
  ASSUME NEW S, IsFiniteSet(S), NEW f, DOMAIN f = S, f = [x \in S |-> f[x]],
         \A x \in S : IsFiniteSet(f[x])
  PROVE  IsFiniteSet(UNION {f[x] : x \in S})
  <1>1. IsFiniteSet({f[x] : x \in S})
    BY ValuesAreFew
  <1> QED BY <1>1, FS_UNION

LEMMA ItemsAreFew ==
  ASSUME NEW T, NEW list \in Seq(T)
  PROVE  /\ IsFiniteSet(ToSet(list)) /\ ToSet(list) = {list[i] : i \in 1 .. Len(list)}
         /\ IsFiniteSet(DOMAIN list)
  <1>1. Len(list) \in Nat /\ DOMAIN list = 1 .. Len(list) /\ list = [i \in DOMAIN list |-> list[i]]
    OBVIOUS
  <1>2. IsFiniteSet(DOMAIN list)
    <2> DEFINE n == Len(list)
    <2>1. IsFiniteSet(1 .. n)
      <3> HIDE DEF n
      <3>1. n \in Int
        BY <1>1 DEF n
      <3> QED BY <3>1, FS_Interval
    <2> QED BY <1>1, <2>1
  <1>3. IsFiniteSet({list[i] : i \in DOMAIN list})
    BY <1>1, <1>2, ValuesAreFew
  <1> QED BY <1>1, <1>2, <1>3 DEF ToSet

LEMMA PiecesAreFew ==
  ASSUME NEW text \in Text, NEW S, \A x \in S : x \in Text /\ Includes(text, x)
  PROVE  IsFiniteSet(S)
  <1> DEFINE A == (1 .. Len(text) + 1) \X (0 .. Len(text))
             f == [p \in A |-> SubSeq(text, p[1], p[2])]
  <1>1. Len(text) \in Nat
    BY DEF Text
  <1>2. IsFiniteSet(A)
    <2>1. IsFiniteSet(1 .. Len(text) + 1) /\ IsFiniteSet(0 .. Len(text))
      BY <1>1, FS_Interval
    <2> QED BY <2>1, FS_Product
  <1>3. DOMAIN f = A /\ f = [p \in A |-> f[p]]
    OBVIOUS
  <1>4. IsFiniteSet({f[p] : p \in A})
    <2> HIDE DEF f, A
    <2> QED BY <1>2, <1>3, ValuesAreFew
  <1>5. ASSUME NEW x \in S PROVE x \in {f[p] : p \in A}
    <2>1. PICK i \in 1 .. Len(text) - Len(x) + 1 : SubSeq(text, i, i + Len(x) - 1) = x
      BY DEF Includes
    <2>2. Len(x) \in Nat
      BY DEF Text
    <2>3. i \in 1 .. Len(text) + 1 /\ i + Len(x) - 1 \in 0 .. Len(text)
      BY <1>1, <2>2
    <2> DEFINE p == <<i, i + Len(x) - 1>>
    <2>4. p \in A /\ f[p] = x
      BY <2>1, <2>3
    <2> QED BY <2>4
  <1> QED BY <1>4, <1>5, FS_Subset

\* A snippet that is published.
IsExtract(text, s) ==
    /\ s = [kind |-> s.kind, text |-> s.text]
    /\ s.kind \in Snippable /\ s.text # << >> /\ IsSnippet(text, s.text)
    /\ \A k \in 1 .. Len(s.text) : s.text[k][1] \notin {"secret", "inject", "prose", "script", "break"}

LEMMA ExtractedSnippets ==
  ASSUME NEW text \in Text, NEW s \in ExtractSnippets(text)
  PROVE  IsExtract(text, s)
  <1> DEFINE Of(k) == {x \in Collect(text)[k] :
                          Len(x) <= MaxSnippet /\ IsPublishableSnippet(x, k = "metric")}
  <1>1. s \in UNION {{[kind |-> k, text |-> t] : t \in Of(k)} : k \in DOMAIN Collect(text)}
    BY DEF ExtractSnippets
  <1>11. PICK k \in DOMAIN Collect(text) : s \in {[kind |-> k, text |-> t] : t \in Of(k)}
    <2> HIDE DEF Of
    <2> QED BY <1>1
  <1>2. PICK t \in Of(k) : s = [kind |-> k, text |-> t]
    <2> HIDE DEF Of
    <2> QED BY <1>11
  <1>3. t \in Collect(text)[k] /\ IsPublishableSnippet(t, k = "metric")
    OBVIOUS
  <1>4. t # << >> /\ Starting(t, "secret") = {} /\ Starting(t, "inject") = {}
    BY <1>3 DEF IsPublishableSnippet, ContainsSecretShape, DetectsInjection
  <1>5. /\ k \in Snippable /\ IsSnippet(text, t)
        /\ k = "metric" => \A c \in 1 .. Len(t) : t[c][1] \notin {"prose", "script"}
    BY <1>3, <1>4, CollectedSnippets
  <1>6. k # "metric" => \A c \in 1 .. Len(t) : t[c][1] \notin {"prose", "script"}
    BY <1>3 DEF IsPublishableSnippet, IsMachineSnippet, Foreign
  <1>7. \A c \in 1 .. Len(t) : t[c][1] \notin {"secret", "inject"}
    BY <1>4 DEF Starting
  <1>8. \A c \in 1 .. Len(t) : t[c][1] # "break"
    BY <1>5 DEF IsSnippet
  <1>9. s.kind = k /\ s.text = t /\ s = [kind |-> s.kind, text |-> s.text]
    BY <1>2
  <1>10. \A c \in 1 .. Len(t) : t[c][1] \notin {"secret", "inject", "prose", "script", "break"}
    BY <1>5, <1>6, <1>7, <1>8
  <1> HIDE DEF Of
  <1> QED BY <1>4, <1>5, <1>9, <1>10 DEF IsExtract

LEMMA ExtractsAreFew ==
  ASSUME NEW text \in Text
  PROVE  IsFiniteSet(ExtractSnippets(text))
  <1> DEFINE E == ExtractSnippets(text)
             T == {s.text : s \in E}
             A == Snippable \X T
             f == [p \in A |-> [kind |-> p[1], text |-> p[2]]]
  <1>1. \A x \in T : x \in Text /\ Includes(text, x)
    BY ExtractedSnippets DEF IsExtract, IsSnippet
  <1>2. IsFiniteSet(T)
    <2> HIDE DEF T
    <2> QED BY <1>1, PiecesAreFew
  <1>3. IsFiniteSet(Snippable)
    <2>1. \A x : IsFiniteSet({x})
      BY FS_Singleton
    <2>2. Snippable = {"error"} \cup {"command"} \cup {"path"} \cup {"metric"} \cup {"version"} \cup {"url"}
      BY DEF Snippable
    <2> QED BY <2>1, <2>2, FS_Union
  <1>4. IsFiniteSet(A)
    <2> HIDE DEF T
    <2> QED BY <1>2, <1>3, FS_Product
  <1>5. DOMAIN f = A /\ f = [p \in A |-> f[p]]
    OBVIOUS
  <1>6. IsFiniteSet({f[p] : p \in A})
    <2> HIDE DEF f, A
    <2> QED BY <1>4, <1>5, ValuesAreFew
  <1>7. ASSUME NEW s \in E PROVE s \in {f[p] : p \in A}
    <2>1. s.kind \in Snippable /\ s = [kind |-> s.kind, text |-> s.text]
      BY ExtractedSnippets DEF IsExtract
    <2> DEFINE p == <<s.kind, s.text>>
    <2>2. p \in A /\ f[p] = s
      BY <2>1
    <2> QED BY <2>2
  <1> HIDE DEF E, f, A
  <1> QED BY <1>6, <1>7, FS_Subset DEF E

\* Where a snippet was found.
LEMMA SnippetsOf ==
  ASSUME NEW material, NEW s
  PROVE  s \in Snippets(material) <=>
           \E r \in ToSet(material) : IsQuotable(r) /\ \E i \in 1 .. Len(r.texts) :
             \E x \in ExtractSnippets(r.texts[i]) :
                 s = [kind |-> x.kind, text |-> x.text, section |-> i, record |-> r.id]
  <1> DEFINE At(r, i) == {[kind |-> x.kind, text |-> x.text, section |-> i, record |-> r.id] :
                             x \in ExtractSnippets(r.texts[i])}
             In(r) == UNION {At(r, i) : i \in 1 .. Len(r.texts)}
  <1>1. Snippets(material) = UNION {In(r) : r \in {m \in ToSet(material) : IsQuotable(m)}}
    BY DEF Snippets
  <1>2. s \in Snippets(material) <=> \E r \in ToSet(material) : IsQuotable(r) /\ s \in In(r)
    <2> HIDE DEF In
    <2> QED BY <1>1
  <1>3. ASSUME NEW r PROVE s \in In(r) <=> \E i \in 1 .. Len(r.texts) : s \in At(r, i)
    <2> HIDE DEF At
    <2> QED OBVIOUS
  <1> HIDE DEF In
  <1> QED BY <1>2, <1>3

LEMMA SnippetsAreFew ==
  ASSUME NEW material, IsFiniteSet(ToSet(material)),
         \A r \in ToSet(material) : r.texts \in Seq(Text)
  PROVE  IsFiniteSet(Snippets(material))
  <1> DEFINE At(r, i) == {[kind |-> x.kind, text |-> x.text, section |-> i, record |-> r.id] :
                             x \in ExtractSnippets(r.texts[i])}
             In(r) == UNION {At(r, i) : i \in 1 .. Len(r.texts)}
             Q == {m \in ToSet(material) : IsQuotable(m)}
             rows == [r \in Q |-> In(r)]
  <1>1. Snippets(material) = UNION {rows[r] : r \in Q}
    BY DEF Snippets
  <1>2. ASSUME NEW r \in Q, NEW i \in 1 .. Len(r.texts)
        PROVE  IsFiniteSet(At(r, i))
    <2> DEFINE E == ExtractSnippets(r.texts[i])
               f == [x \in E |-> [kind |-> x.kind, text |-> x.text, section |-> i, record |-> r.id]]
    <2>1. r.texts[i] \in Text
      BY ItemsOf
    <2>2. IsFiniteSet(E)
      BY <2>1, ExtractsAreFew
    <2>3. At(r, i) = {f[x] : x \in E} /\ DOMAIN f = E /\ f = [x \in E |-> f[x]]
      OBVIOUS
    <2> HIDE DEF At, f, E
    <2> QED BY <2>2, <2>3, ValuesAreFew
  <1>3. ASSUME NEW r \in Q PROVE IsFiniteSet(In(r))
    <2> DEFINE n == 1 .. Len(r.texts)
               f == [i \in n |-> At(r, i)]
    <2>1. IsFiniteSet(n)
      <3>1. Len(r.texts) \in Nat
        BY ItemsOf
      <3> QED BY <3>1, FS_Interval
    <2>2. In(r) = UNION {f[i] : i \in n} /\ DOMAIN f = n /\ f = [i \in n |-> f[i]]
      <3> HIDE DEF At
      <3> QED OBVIOUS
    <2>3. \A i \in n : IsFiniteSet(f[i])
      <3> HIDE DEF At
      <3> QED BY <1>2
    <2> HIDE DEF At, f, n, In
    <2> QED BY <2>1, <2>2, <2>3, RowsAreFew
  <1>4. IsFiniteSet(Q)
    BY FS_Subset
  <1>5. DOMAIN rows = Q /\ rows = [r \in Q |-> rows[r]] /\ \A r \in Q : IsFiniteSet(rows[r])
    <2> HIDE DEF In, Q
    <2> QED BY <1>3
  <1> HIDE DEF rows, Q
  <1> QED BY <1>1, <1>4, <1>5, RowsAreFew

-----------------------------------------------------------------------------
(* The facts: the order of the evidence.                                   *)

LEMMA IndexFound ==
  ASSUME NEW seq, NEW x \in ToSet(seq), DOMAIN seq = 1 .. Len(seq)
  PROVE  IndexIn(x, seq) \in 1 .. Len(seq) /\ seq[IndexIn(x, seq)] = x
  <1>1. \E i \in 1 .. Len(seq) : seq[i] = x
    BY DEF ToSet
  <1> QED BY <1>1 DEF IndexIn

\* An operator ranks the elements of S.
LEMMA TokensRanked ==
  ASSUME NEW t \in Token, NEW u \in Token, NEW v \in Token
  PROVE  /\ ~TokenBefore(t, t)
         /\ t # u => TokenBefore(t, u) \/ TokenBefore(u, t)
         /\ TokenBefore(t, u) /\ TokenBefore(u, v) => TokenBefore(t, v)
  <1> DEFINE n == Len(TokenKinds)
             At(k) == IndexIn(k, TokenKinds)
  <1>1. DOMAIN TokenKinds = 1 .. n
    BY DEF TokenKinds
  <1>2. \A k \in ToSet(TokenKinds) : At(k) \in 1 .. n /\ TokenKinds[At(k)] = k
    BY <1>1, IndexFound
  <1>3. \A k \in ToSet(TokenKinds) : At(k) \in Int
    BY <1>2
  <1>4. \A k, l \in ToSet(TokenKinds) : At(k) = At(l) => k = l
    BY <1>2
  <1>5. \A x, y : TokenBefore(x, y) <=> At(x[1]) < At(y[1]) \/ (x[1] = y[1] /\ x[2] < y[2])
    BY DEF TokenBefore
  <1>6. /\ t[1] \in ToSet(TokenKinds) /\ t[2] \in Int /\ u[1] \in ToSet(TokenKinds) /\ u[2] \in Int
        /\ v[1] \in ToSet(TokenKinds) /\ v[2] \in Int
        /\ (t # u => t[1] # u[1] \/ t[2] # u[2])
    BY DEF Token
  <1> HIDE DEF At
  <1>7. ~TokenBefore(t, t)
    BY <1>3, <1>5, <1>6
  <1>8. t # u => TokenBefore(t, u) \/ TokenBefore(u, t)
    <2>1. CASE t[1] = u[1]
      BY <1>5, <1>6, <2>1
    <2>2. CASE t[1] # u[1]
      <3>1. At(t[1]) # At(u[1]) /\ At(t[1]) \in Int /\ At(u[1]) \in Int
        BY <1>3, <1>4, <1>6, <2>2
      <3> QED BY <1>5, <3>1
    <2> QED BY <2>1, <2>2
  <1>9. TokenBefore(t, u) /\ TokenBefore(u, v) => TokenBefore(t, v)
    <2>1. At(t[1]) \in Int /\ At(u[1]) \in Int /\ At(v[1]) \in Int
      BY <1>3, <1>6
    <2> QED BY <1>5, <1>6, <2>1
  <1> QED BY <1>7, <1>8, <1>9

LEMMA TextIsItself ==
  ASSUME NEW a \in Text
  PROVE  ~TextBefore(a, a)
  <1>1. Len(a) \in Nat /\ \A k \in 1 .. Len(a) : a[k] \in Token
    BY DEF Text
  <1>2. \A k \in 1 .. Len(a) : ~TokenBefore(a[k], a[k])
    BY <1>1, TokensRanked
  <1> QED BY <1>1, <1>2 DEF TextBefore

LEMMA TextsDiffer ==
  ASSUME NEW a \in Text, NEW b \in Text, a # b
  PROVE  TextBefore(a, b) \/ TextBefore(b, a)
  <1> DEFINE D == {k \in Nat \ {0} : /\ k <= Len(a) \/ k <= Len(b)
                                     /\ k > Len(a) \/ k > Len(b) \/ a[k] # b[k]}
  <1>1. Len(a) \in Nat /\ Len(b) \in Nat /\ a \in Seq(Token) /\ b \in Seq(Token)
        /\ (\A k \in 1 .. Len(a) : a[k] \in Token) /\ (\A k \in 1 .. Len(b) : b[k] \in Token)
    BY DEF Text
  <1>2. D # {}
    <2> SUFFICES ASSUME D = {} PROVE FALSE
      OBVIOUS
    <2>1. ~(Len(a) < Len(b)) /\ ~(Len(b) < Len(a))
      <3>1. Len(a) < Len(b) => Len(b) \in D
        BY <1>1
      <3>2. Len(b) < Len(a) => Len(a) \in D
        BY <1>1
      <3> QED BY <3>1, <3>2
    <2>2. Len(a) = Len(b)
      BY <1>1, <2>1
    <2>3. \A k \in 1 .. Len(a) : a[k] = b[k]
      BY <1>1, <2>2
    <2> QED BY <1>1, <2>2, <2>3, SeqEqual
  <1>3. PICK m \in D : \A k \in D : m <= k
    <2>1. D \in SUBSET Nat
      OBVIOUS
    <2> HIDE DEF D
    <2> QED BY <1>2, <2>1, LeastOf
  <1>4. m \in Nat \ {0} /\ (m <= Len(a) \/ m <= Len(b)) /\ (m > Len(a) \/ m > Len(b) \/ a[m] # b[m])
    OBVIOUS
  <1>5. ASSUME NEW i \in 1 .. m - 1 PROVE i <= Len(a) /\ i <= Len(b) /\ a[i] = b[i]
    <2>1. i \in Nat \ {0} /\ i < m
      BY <1>4
    <2>2. i \notin D
      <3> HIDE DEF D
      <3> QED BY <1>3, <1>4, <2>1
    <2>3. i <= Len(a) \/ i <= Len(b)
      BY <1>1, <1>4, <2>1
    <2> QED BY <1>1, <2>1, <2>2, <2>3
  <1>6. m <= Len(a) + 1 /\ m <= Len(b) + 1
    <2>1. CASE m = 1
      BY <1>1, <2>1
    <2>2. CASE m # 1
      <3>1. m - 1 \in 1 .. m - 1
        BY <1>4, <2>2
      <3> QED BY <1>1, <1>4, <1>5, <3>1
    <2> QED BY <2>1, <2>2
  <1> HIDE DEF D
  <1>7. CASE m > Len(a)
    <2>1. m \in 1 .. Len(b) /\ ~(m <= Len(a))
      BY <1>1, <1>4, <1>7
    <2> QED BY <1>5, <1>6, <2>1 DEF TextBefore
  <1>8. CASE m > Len(b)
    <2>1. m \in 1 .. Len(a) /\ ~(m <= Len(b))
      BY <1>1, <1>4, <1>8
    <2> QED BY <1>5, <1>6, <2>1 DEF TextBefore
  <1>9. CASE m <= Len(a) /\ m <= Len(b)
    <2>1. m \in 1 .. Len(a) /\ m \in 1 .. Len(b) /\ a[m] # b[m]
      BY <1>1, <1>4, <1>9
    <2>2. TokenBefore(a[m], b[m]) \/ TokenBefore(b[m], a[m])
      BY <1>1, <2>1, TokensRanked
    <2>3. \A i \in 1 .. m - 1 : a[i] = b[i]
      BY <1>5
    <2> QED BY <1>6, <2>1, <2>2, <2>3 DEF TextBefore
  <1> QED BY <1>1, <1>4, <1>7, <1>8, <1>9

LEMMA TextsChain ==
  ASSUME NEW a \in Text, NEW b \in Text, NEW c \in Text, TextBefore(a, b), TextBefore(b, c)
  PROVE  TextBefore(a, c)
  <1>1. /\ Len(a) \in Nat /\ Len(b) \in Nat /\ Len(c) \in Nat
        /\ \A k \in 1 .. Len(a) : a[k] \in Token
        /\ \A k \in 1 .. Len(b) : b[k] \in Token
        /\ \A k \in 1 .. Len(c) : c[k] \in Token
    BY DEF Text
  <1>2. PICK k \in 1 .. Len(b) : /\ k <= Len(a) + 1 /\ \A i \in 1 .. k - 1 : a[i] = b[i]
                                 /\ k <= Len(a) => TokenBefore(a[k], b[k])
    BY DEF TextBefore
  <1>3. PICK l \in 1 .. Len(c) : /\ l <= Len(b) + 1 /\ \A i \in 1 .. l - 1 : b[i] = c[i]
                                 /\ l <= Len(b) => TokenBefore(b[l], c[l])
    BY DEF TextBefore
  <1>4. CASE k < l
    <2>1. k \in 1 .. l - 1 /\ k \in 1 .. Len(c) /\ b[k] = c[k]
      BY <1>1, <1>3, <1>4
    <2>2. \A i \in 1 .. k - 1 : i \in 1 .. l - 1
      BY <1>1, <1>4
    <2>3. \A i \in 1 .. k - 1 : a[i] = c[i]
      BY <1>2, <1>3, <2>2
    <2> QED BY <1>2, <2>1, <2>3 DEF TextBefore
  <1>5. CASE l < k
    <2>1. l \in 1 .. k - 1 /\ l <= Len(a) /\ l <= Len(b) /\ a[l] = b[l]
      BY <1>1, <1>2, <1>5
    <2>2. \A i \in 1 .. l - 1 : i \in 1 .. k - 1
      BY <1>1, <1>5
    <2>3. \A i \in 1 .. l - 1 : a[i] = c[i]
      BY <1>2, <1>3, <2>2
    <2>4. TokenBefore(a[l], c[l]) /\ l <= Len(a) + 1
      BY <1>1, <1>3, <2>1
    <2> QED BY <2>3, <2>4 DEF TextBefore
  <1>6. CASE k = l
    <2>1. TokenBefore(b[k], c[k])
      BY <1>1, <1>3, <1>6
    <2>2. k <= Len(a) => TokenBefore(a[k], c[k])
      <3> SUFFICES ASSUME k <= Len(a) PROVE TokenBefore(a[k], c[k])
        OBVIOUS
      <3>1. a[k] \in Token /\ b[k] \in Token /\ c[k] \in Token
        BY <1>1, <1>6
      <3> QED BY <1>2, <2>1, <3>1, TokensRanked
    <2>3. \A i \in 1 .. k - 1 : a[i] = c[i]
      BY <1>2, <1>3, <1>6
    <2> QED BY <1>2, <1>6, <2>2, <2>3 DEF TextBefore
  <1> QED BY <1>1, <1>4, <1>5, <1>6

ByEvidence == INSTANCE Folding WITH Op <- LAMBDA given, a, b : EvidenceBefore(a, b)

\* What snippets are made of.
AreSnippets(snippets) ==
    /\ IsFiniteSet(snippets)
    /\ \A s \in snippets : s.kind \in Snippable /\ s.text \in Text

LEMMA EvidenceRanked ==
  ASSUME NEW snippets, AreSnippets(snippets)
  PROVE  LET S == {EvidenceOf(snippets, s) : s \in snippets}
         IN  IsFiniteSet(S) /\ ByEvidence!Ranks(0, S)
  <1> DEFINE S == {EvidenceOf(snippets, s) : s \in snippets}
             f == [s \in snippets |-> EvidenceOf(snippets, s)]
             At(k) == IndexIn(k, EvidenceKinds)
  <1>1. IsFiniteSet(S)
    <2>1. S = {f[s] : s \in snippets} /\ DOMAIN f = snippets /\ f = [s \in snippets |-> f[s]]
      OBVIOUS
    <2> HIDE DEF f, S
    <2> QED BY <2>1, ValuesAreFew DEF AreSnippets
  <1>2. ASSUME NEW s \in snippets
        PROVE  EvidenceOf(snippets, s).count \in Nat
    <2> DEFINE Of == {o \in snippets : o.kind = s.kind /\ o.text = s.text}
               g == [o \in Of |-> o.record]
               R == {o.record : o \in Of}
    <2>1. IsFiniteSet(Of)
      BY FS_Subset DEF AreSnippets
    <2>2. R = {g[o] : o \in Of} /\ DOMAIN g = Of /\ g = [o \in Of |-> g[o]]
      OBVIOUS
    <2>3. IsFiniteSet(R)
      <3> HIDE DEF g, Of, R
      <3> QED BY <2>1, <2>2, ValuesAreFew
    <2>4. Cardinality(R) \in Nat
      <3> HIDE DEF R
      <3> QED BY <2>3, FS_CardinalityType
    <2> QED BY <2>4 DEF EvidenceOf
  <1>3. \A s \in snippets : /\ EvidenceOf(snippets, s).kind = s.kind
                            /\ EvidenceOf(snippets, s).text = s.text
    BY DEF EvidenceOf
  <1>4. \A e \in S : e.count \in Nat /\ e.kind \in Snippable /\ e.text \in Text
    BY <1>2, <1>3 DEF AreSnippets
  <1>5. \A s, o \in snippets : s.kind = o.kind /\ s.text = o.text
                                   => EvidenceOf(snippets, s) = EvidenceOf(snippets, o)
    BY DEF EvidenceOf
  <1>6. \A a, b \in S : a.kind = b.kind /\ a.text = b.text => a = b
    <2> SUFFICES ASSUME NEW a \in S, NEW b \in S, a.kind = b.kind, a.text = b.text PROVE a = b
      OBVIOUS
    <2>1. PICK s \in snippets : a = EvidenceOf(snippets, s)
      OBVIOUS
    <2>2. PICK o \in snippets : b = EvidenceOf(snippets, o)
      OBVIOUS
    <2> HIDE DEF S
    <2> QED BY <1>3, <1>5, <2>1, <2>2
  <1> HIDE DEF S
  <1>7. \A k \in Snippable : At(k) \in Int
    <2>1. DOMAIN EvidenceKinds = 1 .. Len(EvidenceKinds) /\ Snippable = ToSet(EvidenceKinds)
      BY DEF EvidenceKinds, ToSet, Snippable
    <2>2. \A k \in Snippable : At(k) \in 1 .. Len(EvidenceKinds)
      BY <2>1, IndexFound
    <2>3. Len(EvidenceKinds) \in Nat
      BY DEF EvidenceKinds
    <2> HIDE DEF At
    <2> QED BY <2>2, <2>3
  <1>8. \A k, l \in Snippable : At(k) = At(l) => k = l
    <2>1. DOMAIN EvidenceKinds = 1 .. Len(EvidenceKinds) /\ Snippable = ToSet(EvidenceKinds)
      BY DEF EvidenceKinds, ToSet, Snippable
    <2>2. \A k \in Snippable : EvidenceKinds[At(k)] = k
      BY <2>1, IndexFound
    <2> HIDE DEF At
    <2> QED BY <2>2
  <1>9. \A a, b : EvidenceBefore(a, b) <=>
            \/ a.count > b.count
            \/ /\ a.count = b.count
               /\ \/ At(a.kind) < At(b.kind)
                  \/ a.kind = b.kind /\ TextBefore(a.text, b.text)
    BY DEF EvidenceBefore
  <1> HIDE DEF At
  <1>10. \A a \in S : ~EvidenceBefore(a, a)
    BY <1>4, <1>7, <1>9, TextIsItself
  <1>11. ASSUME NEW a \in S, NEW b \in S, a # b
         PROVE  EvidenceBefore(a, b) \/ EvidenceBefore(b, a)
    <2>1. /\ a.count \in Nat /\ b.count \in Nat /\ At(a.kind) \in Int /\ At(b.kind) \in Int
          /\ a.kind \in Snippable /\ b.kind \in Snippable /\ a.text \in Text /\ b.text \in Text
      BY <1>4, <1>7
    <2>2. CASE a.count # b.count
      BY <1>9, <2>1, <2>2
    <2>3. CASE a.count = b.count /\ a.kind # b.kind
      <3>1. At(a.kind) # At(b.kind)
        BY <1>8, <2>1, <2>3
      <3> QED BY <1>9, <2>1, <2>3, <3>1
    <2>4. CASE a.count = b.count /\ a.kind = b.kind
      <3>1. TextBefore(a.text, b.text) \/ TextBefore(b.text, a.text)
        BY <1>6, <1>11, <2>1, <2>4, TextsDiffer
      <3> QED BY <1>9, <2>4, <3>1
    <2> QED BY <2>2, <2>3, <2>4
  <1>12. ASSUME NEW a \in S, NEW b \in S, NEW c \in S, EvidenceBefore(a, b), EvidenceBefore(b, c)
         PROVE  EvidenceBefore(a, c)
    <2>1. /\ a.count \in Nat /\ b.count \in Nat /\ c.count \in Nat
          /\ At(a.kind) \in Int /\ At(b.kind) \in Int /\ At(c.kind) \in Int
          /\ a.text \in Text /\ b.text \in Text /\ c.text \in Text
      BY <1>4, <1>7
    <2>2. TextBefore(a.text, b.text) /\ TextBefore(b.text, c.text) => TextBefore(a.text, c.text)
      BY <2>1, TextsChain
    <2>3. /\ \/ a.count > b.count
             \/ a.count = b.count /\ At(a.kind) < At(b.kind)
             \/ a.count = b.count /\ a.kind = b.kind /\ TextBefore(a.text, b.text)
          /\ \/ b.count > c.count
             \/ b.count = c.count /\ At(b.kind) < At(c.kind)
             \/ b.count = c.count /\ b.kind = c.kind /\ TextBefore(b.text, c.text)
      BY <1>9, <1>12
    <2>4. \/ a.count > c.count
          \/ a.count = c.count /\ At(a.kind) < At(c.kind)
          \/ a.count = c.count /\ a.kind = c.kind /\ TextBefore(a.text, c.text)
      BY <2>1, <2>2, <2>3
    <2> QED BY <1>9, <2>4
  <1>13. ByEvidence!Ranks(0, S)
    BY <1>10, <1>11, <1>12 DEF ByEvidence!Ranks
  <1> QED BY <1>1, <1>13 DEF S

\* groupEvidence: a fact for every snippet, and of all that say the same.
LEMMA EvidenceGrouped ==
  ASSUME NEW snippets, AreSnippets(snippets)
  PROVE  LET S == {EvidenceOf(snippets, s) : s \in snippets}
         IN  /\ GroupEvidence(snippets) \in Seq(S)
             /\ ToSet(GroupEvidence(snippets)) = S
  <1> DEFINE S == {EvidenceOf(snippets, s) : s \in snippets}
             list == ByEvidence!Ranked(0, S)
  <1>1. GroupEvidence(snippets) = list
    BY DEF GroupEvidence, ByEvidence!Ranked, Sorted, ByEvidence!Sorted, Cardinality,
           ByEvidence!Cardinality
  <1>2. ByEvidence!InRank(0, S, list)
    <2>1. IsFiniteSet(S) /\ ByEvidence!Ranks(0, S)
      BY EvidenceRanked
    <2> HIDE DEF S
    <2>2. ByEvidence!IsFiniteSet(S)
      BY <2>1 DEF IsFiniteSet, ByEvidence!IsFiniteSet
    <2> QED BY <2>1, <2>2, ByEvidence!SortingOrders
  <1> HIDE DEF S, list
  <1>3. list \in Seq(S) /\ \A e \in S : \E k \in 1 .. Len(list) : list[k] = e
    BY <1>2 DEF ByEvidence!InRank
  <1>4. ToSet(list) = S
    BY <1>3 DEF ToSet
  <1> QED BY <1>1, <1>3, <1>4 DEF S

-----------------------------------------------------------------------------
(* The facts: the records they are taken from, and their times.            *)

ByIds == INSTANCE Folding WITH Op <- LAMBDA given, a, b : ById(a, b)

\* screenMaterial: the records that are kept, each once.
LEMMA MaterialOf ==
  ASSUME NEW s \in Sources
  PROVE  LET m == ScreenMaterial(s)
         IN  /\ m \in Seq(Screened(s)) /\ ToSet(m) = Screened(s) /\ Screened(s) \subseteq ToSet(s)
             /\ IsFiniteSet(Screened(s)) /\ Len(m) = Cardinality(Screened(s))
             /\ \A i, j \in 1 .. Len(m) : i # j => m[i].id # m[j].id
  <1> DEFINE S == Screened(s)
             m == ByIds!Ranked(0, S)
  <1>1. S \subseteq ToSet(s) /\ IsFiniteSet(ToSet(s))
    BY RecordsOf, ItemsAreFew DEF Screened
  <1>2. IsFiniteSet(S)
    BY <1>1, FS_Subset
  <1>3. \A r, q \in S : r.id \in Nat /\ q.id \in Nat /\ (r.id = q.id => r = q)
    BY <1>1, RecordsOf
  <1>4. ScreenMaterial(s) = m
    BY DEF ScreenMaterial, ByIds!Ranked, Sorted, ByIds!Sorted, Cardinality, ByIds!Cardinality
  <1> HIDE DEF S
  <1>5. ByIds!Ranks(0, S)
    BY <1>3 DEF ByIds!Ranks, ById
  <1>6. ByIds!IsFiniteSet(S) /\ ByIds!Cardinality(S) = Cardinality(S)
    BY <1>2 DEF IsFiniteSet, ByIds!IsFiniteSet, Cardinality, ByIds!Cardinality
  <1>7. ByIds!InRank(0, S, m)
    BY <1>5, <1>6, ByIds!SortingOrders
  <1> HIDE DEF m
  <1>8. /\ m \in Seq(S) /\ Len(m) = Cardinality(S) /\ \A e \in S : \E k \in 1 .. Len(m) : m[k] = e
        /\ \A j, k \in 1 .. Len(m) : j < k <=> m[j].id < m[k].id
    BY <1>6, <1>7 DEF ByIds!InRank, ById
  <1>9. ToSet(m) = S
    BY <1>8 DEF ToSet
  <1>10. ASSUME NEW j \in 1 .. Len(m), NEW k \in 1 .. Len(m), j # k PROVE m[j].id # m[k].id
    <2>1. m[j] \in S /\ m[k] \in S
      BY <1>8
    <2>2. m[j].id \in Nat /\ m[k].id \in Nat
      BY <1>3, <2>1
    <2>3. j < k \/ k < j
      BY <1>10
    <2>4. m[j].id < m[k].id \/ m[k].id < m[j].id
      BY <1>8, <2>3
    <2> QED BY <2>2, <2>4
  <1> QED BY <1>1, <1>2, <1>4, <1>8, <1>9, <1>10 DEF S

Earlier(material, i, j) ==
    \/ material[i].created < material[j].created
    \/ material[i].created = material[j].created /\ i < j

InTime == INSTANCE Folding WITH Op <- LAMBDA given, i, j : Earlier(given, i, j)

\* The times the records of the material were created at, as many as there are records.
LEMMA InstantsOf ==
  ASSUME NEW S, NEW m \in Seq(S), \A r \in S : r.created \in Nat
  PROVE  /\ Instants(m) \in Seq(Nat) /\ Len(Instants(m)) = Len(m)
         /\ \A k \in 1 .. Len(m) : \E i \in 1 .. Len(m) : Instants(m)[k] = m[i].created
         /\ \A j, k \in 1 .. Len(m) : j < k => Instants(m)[j] <= Instants(m)[k]
  <1> DEFINE P == DOMAIN m
             order == InTime!Ranked(m, P)
             t == [k \in 1 .. Len(m) |-> m[order[k]].created]
  <1>1. P = 1 .. Len(m) /\ Len(m) \in Nat /\ \A i \in P : m[i].created \in Nat /\ i \in Int
    OBVIOUS
  <1>2. IsFiniteSet(P) /\ Cardinality(P) = Len(m)
    <2> DEFINE n == Len(m)
    <2>1. n \in Nat
      BY <1>1
    <2> HIDE DEF n
    <2>2. IsFiniteSet(1 .. n) /\ Cardinality(1 .. n) = n
      BY <2>1, FS_Interval
    <2> QED BY <1>1, <2>2 DEF n
  <1>3. Instants(m) = t
    BY DEF Instants, Earlier, InTime!Ranked, Sorted, InTime!Sorted, Cardinality, InTime!Cardinality
  <1> HIDE DEF P
  <1>4. InTime!Ranks(m, P)
    <2>1. \A i \in P : ~Earlier(m, i, i)
      BY <1>1 DEF Earlier
    <2>2. \A i, j \in P : i # j => Earlier(m, i, j) \/ Earlier(m, j, i)
      BY <1>1 DEF Earlier
    <2>3. \A i, j, k \in P : Earlier(m, i, j) /\ Earlier(m, j, k) => Earlier(m, i, k)
      BY <1>1 DEF Earlier
    <2> QED BY <2>1, <2>2, <2>3 DEF InTime!Ranks
  <1>5. InTime!IsFiniteSet(P) /\ InTime!Cardinality(P) = Cardinality(P)
    BY <1>2 DEF IsFiniteSet, InTime!IsFiniteSet, Cardinality, InTime!Cardinality
  <1>6. InTime!InRank(m, P, order)
    BY <1>4, <1>5, InTime!SortingOrders
  <1> HIDE DEF order
  <1>7. /\ order \in Seq(P) /\ Len(order) = Len(m)
        /\ \A j, k \in 1 .. Len(m) : j < k => Earlier(m, order[j], order[k])
    BY <1>2, <1>5, <1>6 DEF InTime!InRank
  <1>8. \A k \in 1 .. Len(m) : order[k] \in P
    BY <1>7
  <1>9. \A k \in 1 .. Len(m) : t[k] = m[order[k]].created
    OBVIOUS
  <1>10. t \in Seq(Nat) /\ Len(t) = Len(m)
    BY <1>1, <1>8
  <1>11. ASSUME NEW j \in 1 .. Len(m), NEW k \in 1 .. Len(m), j < k PROVE t[j] <= t[k]
    <2>1. Earlier(m, order[j], order[k])
      BY <1>7, <1>11
    <2> HIDE DEF t
    <2>2. t[j] = m[order[j]].created /\ t[k] = m[order[k]].created /\ t[j] \in Nat /\ t[k] \in Nat
      BY <1>1, <1>8, <1>9
    <2> QED BY <2>1, <2>2 DEF Earlier
  <1> HIDE DEF t
  <1> QED BY <1>1, <1>3, <1>8, <1>9, <1>10, <1>11

InEntries == INSTANCE Folding WITH Op <- LAMBDA given, a, b : EntryBefore(a, b)

\* What happened to records: each was created, and some were changed since.
EntryOf(r, event, at) == [at |-> at, record |-> r.id, event |-> event]
CreatedEntries(S) == {EntryOf(r, "created", r.created) : r \in S}
UpdatedEntries(S) == {EntryOf(r, "updated", r.updated) : r \in {q \in S : q.updated # q.created}}

LEMMA TimelineOf ==
  ASSUME NEW m, IsFiniteSet(ToSet(m)),
         \A r \in ToSet(m) : r.id \in Nat /\ r.created \in Nat /\ r.updated \in Nat
  PROVE  LET E == CreatedEntries(ToSet(m)) \cup UpdatedEntries(ToSet(m))
         IN  Timeline(m) \in Seq(E) /\ ToSet(Timeline(m)) = E /\ IsFiniteSet(E)
  <1> DEFINE S == ToSet(m)
             E == CreatedEntries(S) \cup UpdatedEntries(S)
             list == InEntries!Ranked(0, E)
  <1>1. IsFiniteSet(E)
    <2> DEFINE U == {q \in S : q.updated # q.created}
               f == [r \in S |-> EntryOf(r, "created", r.created)]
               g == [r \in U |-> EntryOf(r, "updated", r.updated)]
    <2>1. CreatedEntries(S) = {f[r] : r \in S} /\ DOMAIN f = S /\ f = [r \in S |-> f[r]]
      BY DEF CreatedEntries
    <2>2. UpdatedEntries(S) = {g[r] : r \in U} /\ DOMAIN g = U /\ g = [r \in U |-> g[r]]
      BY DEF UpdatedEntries
    <2>3. IsFiniteSet(U)
      BY FS_Subset
    <2> HIDE DEF f, g, U, S
    <2>4. IsFiniteSet(CreatedEntries(S)) /\ IsFiniteSet(UpdatedEntries(S))
      BY <2>1, <2>2, <2>3, ValuesAreFew DEF S
    <2> QED BY <2>4, FS_Union
  <1>2. \A e \in E : /\ e.at \in Nat /\ e.record \in Nat /\ e.event \in {"created", "updated"}
                     /\ e = [at |-> e.at, record |-> e.record, event |-> e.event]
    BY DEF CreatedEntries, UpdatedEntries, EntryOf
  <1>3. Timeline(m) = list
    BY DEF Timeline, CreatedEntries, UpdatedEntries, EntryOf, InEntries!Ranked, Sorted,
           InEntries!Sorted, Cardinality, InEntries!Cardinality
  <1> HIDE DEF E
  <1>4. InEntries!Ranks(0, E)
    <2>1. \A a \in E : ~EntryBefore(a, a)
      BY <1>2 DEF EntryBefore
    <2>2. \A a, b \in E : a # b => EntryBefore(a, b) \/ EntryBefore(b, a)
      <3> SUFFICES ASSUME NEW a \in E, NEW b \in E, a # b
                   PROVE  EntryBefore(a, b) \/ EntryBefore(b, a)
        OBVIOUS
      <3>1. a.at # b.at \/ a.record # b.record \/ a.event # b.event
        BY <1>2
      <3>2. /\ a.at \in Nat /\ b.at \in Nat /\ a.record \in Nat /\ b.record \in Nat
            /\ a.event \in {"created", "updated"} /\ b.event \in {"created", "updated"}
        BY <1>2
      <3> QED BY <3>1, <3>2 DEF EntryBefore
    <2>3. \A a, b, c \in E : EntryBefore(a, b) /\ EntryBefore(b, c) => EntryBefore(a, c)
      BY <1>2 DEF EntryBefore
    <2> QED BY <2>1, <2>2, <2>3 DEF InEntries!Ranks
  <1>5. InEntries!IsFiniteSet(E)
    BY <1>1 DEF IsFiniteSet, InEntries!IsFiniteSet
  <1>6. InEntries!InRank(0, E, list)
    BY <1>4, <1>5, InEntries!SortingOrders
  <1> HIDE DEF list
  <1>7. list \in Seq(E) /\ \A e \in E : \E k \in 1 .. Len(list) : list[k] = e
    BY <1>6 DEF InEntries!InRank
  <1>8. ToSet(list) = E
    BY <1>7 DEF ToSet
  <1> QED BY <1>1, <1>3, <1>7, <1>8 DEF E

-----------------------------------------------------------------------------
(* The facts: whatever they say, the records say.                          *)

LEMMA CutItems ==
  ASSUME NEW T, NEW list \in Seq(T), NEW n \in Nat
  PROVE  /\ Cut(list, n) \in Seq(T) /\ ToSet(Cut(list, n)) \subseteq ToSet(list)
         /\ Len(Cut(list, n)) < n \/ Len(list) <= n => Cut(list, n) = list
         /\ Len(Cut(list, n)) <= Len(list)
         /\ \A k \in 1 .. Len(Cut(list, n)) : Cut(list, n)[k] = list[k]
  <1> DEFINE L == Len(list)
             m == Min({n, L})
             x == SubSeq(list, 1, m)
  <1>1. L \in Nat /\ DOMAIN list = 1 .. L /\ \A k \in 1 .. L : list[k] \in T
    OBVIOUS
  <1>2. Cut(list, n) = x
    BY DEF Cut
  <1> HIDE DEF L
  <1>3. m \in Nat /\ m <= L /\ m <= n /\ (m = n \/ m = L)
    <2> DEFINE S == {n, L}
    <2>1. S # {} /\ \A y \in S : y \in Int /\ 0 <= y
      BY <1>1
    <2>2. Min(S) \in S /\ \A y \in S : Min(S) <= y
      <3> HIDE DEF S
      <3> QED BY <2>1, MinOf
    <2> QED BY <1>1, <2>2
  <1> HIDE DEF m
  <1>4. \A k \in 1 .. m : k \in 1 .. L
    BY ONLY <1>1, <1>3
  <1>5. /\ x \in Seq(T) /\ Len(x) = m /\ \A k \in 1 .. m : x[k] = list[k]
    <2>1. \A k \in 1 .. m : list[k] \in T
      BY ONLY <1>1, <1>4
    <2>2. /\ x \in Seq(T) /\ Len(x) = IF 1 <= m THEN m - 1 + 1 ELSE 0
          /\ \A k \in 1 .. m - 1 + 1 : x[k] = list[1 + k - 1]
      BY <1>3, <2>1, SubSeqProperties
    <2>3. m - 1 + 1 = m /\ \A k \in 1 .. m : 1 + k - 1 = k
      BY <1>3
    <2> HIDE DEF x
    <2>4. Len(x) = m
      BY <1>3, <2>2, <2>3
    <2> QED BY <2>2, <2>3, <2>4
  <1> HIDE DEF x
  <1>6. ToSet(x) \subseteq ToSet(list)
    <2>1. DOMAIN x = 1 .. m
      BY <1>5
    <2> QED BY <1>1, <1>4, <1>5, <2>1 DEF ToSet
  <1>7. Len(x) < n \/ L <= n => x = list
    <2> SUFFICES ASSUME m < n \/ L <= n PROVE x = list
      BY <1>5
    <2>1. m = L
      BY ONLY <1>1, <1>3, m < n \/ L <= n, n \in Nat
    <2>2. list \in Seq(T) /\ Len(list) = m
      BY <2>1 DEF L
    <2> QED BY <1>5, <2>2, SeqEqual
  <1> QED BY <1>2, <1>3, <1>5, <1>6, <1>7 DEF L

\* What is picked from a list is in it.
LEMMA PickedOf ==
  ASSUME NEW T, NEW list \in Seq(T), NEW P \in SUBSET DOMAIN list
  PROVE  /\ Picked(list, P) \in Seq(T)
         /\ ToSet(Picked(list, P)) = {list[i] : i \in P}
  <1>1. /\ Picked(list, P) \in Seq(T) /\ DOMAIN Picked(list, P) = 1 .. Cardinality(P)
        /\ \E order : PicksBy(order, list, P)
    BY PickedList
  <1>2. PICK order : PicksBy(order, list, P)
    BY <1>1
  <1>3. \A k \in 1 .. Cardinality(P) : order[k] \in P /\ Picked(list, P)[k] = list[order[k]]
    BY <1>2 DEF PicksBy
  <1>4. \A p \in P : \E k \in 1 .. Cardinality(P) : order[k] = p
    BY <1>2 DEF PicksBy
  <1> DEFINE n == Cardinality(P)
             x == Picked(list, P)
  <1>5. ToSet(x) = {x[k] : k \in 1 .. n}
    <2> HIDE DEF x
    <2> QED BY <1>1 DEF ToSet, x
  <1> HIDE DEF n, x
  <1>6. {x[k] : k \in 1 .. n} = {list[i] : i \in P}
    BY <1>3, <1>4 DEF n, x
  <1> QED BY <1>1, <1>5, <1>6 DEF x

\* The facts of a pack.
FactsOf(s) == FactPack(s, ScreenMaterial(s), Snippets(ScreenMaterial(s)),
                       GroupEvidence(Snippets(ScreenMaterial(s))))

LEMMA PackOf ==
  ASSUME NEW for, NEW s, ExtractFacts(for, s).status = "ok"
  PROVE  /\ ExtractFacts(for, s).facts = FactsOf(s) /\ Screened(s) # {}
         /\ ExtractFacts(for, s).charts = BuildCharts(for, FactsOf(s))
  <1>1. ExtractFacts(for, s) =
            IF s = << >> THEN [status |-> "no-records"]
            ELSE IF Screened(s) = {} THEN [status |-> "no-material"]
            ELSE Illustrated(for, FactsOf(s))
    BY DEF ExtractFacts, FactsOf
  <1>2. Screened(s) # {} /\ ExtractFacts(for, s) = Illustrated(for, FactsOf(s))
    BY <1>1
  <1> QED BY <1>2 DEF Illustrated

LEMMA SnippetsTyped ==
  ASSUME NEW s \in Sources
  PROVE  AreSnippets(Snippets(ScreenMaterial(s)))
  <1> DEFINE m == ScreenMaterial(s)
  <1>1. ToSet(m) = Screened(s) /\ IsFiniteSet(ToSet(m)) /\ ToSet(m) \subseteq ToSet(s)
    BY MaterialOf
  <1>2. \A r \in ToSet(m) : r.texts \in Seq(Text)
    BY <1>1, RecordsOf
  <1> HIDE DEF m
  <1>3. IsFiniteSet(Snippets(m))
    BY <1>1, <1>2, SnippetsAreFew
  <1>4. ASSUME NEW p \in Snippets(m) PROVE p.kind \in Snippable /\ p.text \in Text
    <2>1. PICK r \in ToSet(m) : \E i \in 1 .. Len(r.texts) :
             \E x \in ExtractSnippets(r.texts[i]) :
                 p = [kind |-> x.kind, text |-> x.text, section |-> i, record |-> r.id]
      BY SnippetsOf
    <2>2. PICK i \in 1 .. Len(r.texts) : \E x \in ExtractSnippets(r.texts[i]) :
                 p = [kind |-> x.kind, text |-> x.text, section |-> i, record |-> r.id]
      BY <2>1
    <2>3. PICK x \in ExtractSnippets(r.texts[i]) :
                 p = [kind |-> x.kind, text |-> x.text, section |-> i, record |-> r.id]
      BY <2>2
    <2>4. r.texts[i] \in Text
      BY <1>2, ItemsOf
    <2>5. IsExtract(r.texts[i], x)
      BY <2>4, ExtractedSnippets
    <2> QED BY <2>3, <2>5 DEF IsExtract, IsSnippet
  <1> QED BY <1>3, <1>4 DEF m, AreSnippets

\* What is cited and signalled is evidence, all of it when there is room.
LEMMA EvidenceIn ==
  ASSUME NEW s \in Sources
  PROVE  LET f == FactsOf(s)
             snippets == Snippets(ScreenMaterial(s))
             S == {EvidenceOf(snippets, p) : p \in snippets}
         IN  /\ ToSet(f.citations) \cup ToSet(f.signals) \subseteq S
             /\ Len(f.citations) < MaxCitations /\ Len(f.signals) < MaxSignals
                   => ToSet(f.citations) \cup ToSet(f.signals) = S
             /\ f.citations \in Seq(S) /\ f.signals \in Seq(S)
  <1> DEFINE f == FactsOf(s)
             snippets == Snippets(ScreenMaterial(s))
             S == {EvidenceOf(snippets, p) : p \in snippets}
             evidence == GroupEvidence(snippets)
             C == Cited(evidence)
             cited == Picked(evidence, C)
             signs == Picked(evidence, DOMAIN evidence \ C)
  <1>1. evidence \in Seq(S) /\ ToSet(evidence) = S
    <2>1. AreSnippets(snippets)
      BY SnippetsTyped
    <2> HIDE DEF snippets
    <2> QED BY <2>1, EvidenceGrouped
  <1>2. f.citations = Cut(cited, MaxCitations) /\ f.signals = Cut(signs, MaxSignals)
    BY DEF FactsOf, FactPack
  <1> HIDE DEF f, evidence, S
  <1>3. C \in SUBSET DOMAIN evidence
    BY DEF Cited
  <1> HIDE DEF C
  <1>4. /\ cited \in Seq(S) /\ ToSet(cited) = {evidence[i] : i \in C}
        /\ signs \in Seq(S) /\ ToSet(signs) = {evidence[i] : i \in DOMAIN evidence \ C}
    BY <1>1, <1>3, PickedOf
  <1>5. ToSet(cited) \cup ToSet(signs) = S
    BY <1>1, <1>3, <1>4 DEF ToSet
  <1> HIDE DEF cited, signs
  <1>6. MaxCitations \in Nat /\ MaxSignals \in Nat
    BY FactsAssumption
  <1>7. /\ f.citations \in Seq(S) /\ ToSet(f.citations) \subseteq ToSet(cited)
        /\ Len(f.citations) < MaxCitations => f.citations = cited
    BY <1>2, <1>4, <1>6, CutItems
  <1>8. /\ f.signals \in Seq(S) /\ ToSet(f.signals) \subseteq ToSet(signs)
        /\ Len(f.signals) < MaxSignals => f.signals = signs
    BY <1>2, <1>4, <1>6, CutItems
  <1> QED BY <1>5, <1>7, <1>8 DEF f, S

-----------------------------------------------------------------------------
(* The facts: what is counted in parts is counted in all.                  *)

Adding == INSTANCE Folding WITH Op <- LAMBDA given, acc, x : acc + x
AddingCounts == INSTANCE Folding WITH Op <- LAMBDA given, acc, x : acc + x.count
AddingValues == INSTANCE Folding WITH Op <- LAMBDA given, acc, x : acc + x.value

LEMMA TotalOf ==
  ASSUME NEW seq \in Seq(Nat), NEW A, Apart(1 .. Len(seq), A),
         \A k \in 1 .. Len(seq) : IsFiniteSet(A[k]) /\ seq[k] = Cardinality(A[k])
  PROVE  Total(seq) = Cardinality(AllOf(1 .. Len(seq), A))
  <1>1. Total(seq) = Adding!Folded(0, 0, seq)
    BY DEF Total, Adding!Folded, FoldLeft, MapThenFoldSet, Max,
           Adding!FoldLeft, Adding!MapThenFoldSet, Adding!Max
  <1>2. PICK f : Adding!Along(0, 0, seq, f)
    BY Adding!FoldGoesAlong
  <1>3. /\ f[0] = 0 /\ \A k \in 1 .. Len(seq) : f[k] = f[k - 1] + seq[k]
        /\ Adding!Folded(0, 0, seq) = f[Len(seq)]
    BY <1>2 DEF Adding!Along
  <1>4. \A k \in 1 .. Len(seq) : f[k] = f[k - 1] + Cardinality(A[k])
    BY <1>3
  <1>5. f[Len(seq)] = Cardinality(AllOf(1 .. Len(seq), A))
    <2> DEFINE n == Len(seq)
    <2>1. n \in Nat
      OBVIOUS
    <2> QED BY <1>3, <1>4, <2>1, SumsAlong
  <1> QED BY <1>1, <1>3, <1>5

LEMMA CountsOver ==
  ASSUME NEW S, IsFiniteSet(S), NEW A, Apart(S, A),
         \A x \in S : IsFiniteSet(A[x]) /\ x.count = Cardinality(A[x])
  PROVE  FoldSet(LAMBDA c, sum : sum + c.count, 0, S) = Cardinality(AllOf(S, A))
  <1>1. FoldSet(LAMBDA c, sum : sum + c.count, 0, S) = AddingCounts!FoldedSet(0, 0, S)
    BY DEF AddingCounts!FoldedSet, FoldSet, MapThenFoldSet,
           AddingCounts!FoldSet, AddingCounts!MapThenFoldSet
  <1>2. AddingCounts!IsFiniteSet(S)
    BY DEF IsFiniteSet, AddingCounts!IsFiniteSet
  <1>3. PICK f : AddingCounts!AlongSets(0, 0, S, f)
    BY <1>2, AddingCounts!SetFoldGoesAlong
  <1>4. /\ f[{}] = 0 /\ \A s \in SUBSET S : s # {} => \E x \in s : f[s] = f[s \ {x}] + x.count
        /\ AddingCounts!FoldedSet(0, 0, S) = f[S]
    BY <1>3 DEF AddingCounts!AlongSets
  <1>5. \A s \in SUBSET S : s # {} => \E x \in s : f[s] = f[s \ {x}] + Cardinality(A[x])
    BY <1>4
  <1> QED BY <1>1, <1>4, <1>5, SumsOver

LEMMA ValuesOver ==
  ASSUME NEW S, IsFiniteSet(S), NEW A, Apart(S, A),
         \A x \in S : IsFiniteSet(A[x]) /\ x.value = Cardinality(A[x])
  PROVE  ValuesOf(S) = Cardinality(AllOf(S, A))
  <1>1. ValuesOf(S) = AddingValues!FoldedSet(0, 0, S)
    BY DEF ValuesOf, AddingValues!FoldedSet, FoldSet, MapThenFoldSet,
           AddingValues!FoldSet, AddingValues!MapThenFoldSet
  <1>2. AddingValues!IsFiniteSet(S)
    BY DEF IsFiniteSet, AddingValues!IsFiniteSet
  <1>3. PICK f : AddingValues!AlongSets(0, 0, S, f)
    BY <1>2, AddingValues!SetFoldGoesAlong
  <1>4. /\ f[{}] = 0 /\ \A s \in SUBSET S : s # {} => \E x \in s : f[s] = f[s \ {x}] + x.value
        /\ AddingValues!FoldedSet(0, 0, S) = f[S]
    BY <1>3 DEF AddingValues!AlongSets
  <1>5. \A s \in SUBSET S : s # {} => \E x \in s : f[s] = f[s \ {x}] + Cardinality(A[x])
    BY <1>4
  <1> QED BY <1>1, <1>4, <1>5, SumsOver

ByCount == INSTANCE Folding WITH Op <- LAMBDA given, a, b : CountBefore(a, b)

KeptLabels(labels) == {i \in DOMAIN labels : IsPublishableLabel(labels[i])}

\* tally: its keys are labels that may be published, its counts no more than
\* there are of them, and all of them unless there are too many keys.
LEMMA TallyTotals ==
  ASSUME NEW labels, IsFiniteSet(DOMAIN labels),
         \A i \in KeptLabels(labels) : labels[i].name \in Nat
  PROVE  LET kept == KeptLabels(labels)
             total == Total(Counts(Tally(labels)))
         IN  /\ IsFiniteSet(kept) /\ total \in Nat /\ total <= Cardinality(kept)
             /\ Cardinality({labels[i].name : i \in kept}) <= MaxDistributionKeys =>
                   total = Cardinality(kept)
             /\ \A e \in ToSet(Tally(labels)) : \E i \in kept : e.key = labels[i].name
  <1> DEFINE kept == KeptLabels(labels)
             Of(name) == {i \in kept : labels[i].name = name}
             Entry(i) == [key |-> labels[i].name, count |-> Cardinality(Of(labels[i].name))]
             S == {Entry(i) : i \in kept}
             list == ByCount!Ranked(0, S)
             names == {labels[i].name : i \in kept}
  <1>1. IsFiniteSet(kept)
    BY FS_Subset DEF KeptLabels
  <1>2. \A name : IsFiniteSet(Of(name)) /\ Cardinality(Of(name)) \in Nat
    <2> SUFFICES ASSUME NEW name PROVE IsFiniteSet(Of(name)) /\ Cardinality(Of(name)) \in Nat
      OBVIOUS
    <2>1. Of(name) \subseteq kept
      OBVIOUS
    <2> HIDE DEF kept, Of
    <2> QED BY <1>1, <2>1, FS_Subset, FS_CardinalityType
  <1>3. Tally(labels) = Cut(list, MaxDistributionKeys)
    BY DEF Tally, KeptLabels, ByCount!Ranked, Sorted, ByCount!Sorted, Cardinality, ByCount!Cardinality
  <1> HIDE DEF kept
  <1>4. \A e \in S : /\ e.key \in Nat /\ e.count = Cardinality(Of(e.key)) /\ e.count \in Nat
                     /\ \E i \in kept : e.key = labels[i].name
    <2> SUFFICES ASSUME NEW i \in kept
                 PROVE  /\ Entry(i).key \in Nat /\ Entry(i).count = Cardinality(Of(Entry(i).key))
                        /\ Entry(i).count \in Nat /\ Entry(i).key = labels[i].name
      BY Zenon
    <2>1. Entry(i).key = labels[i].name /\ Entry(i).count = Cardinality(Of(labels[i].name))
      BY Zenon
    <2>2. labels[i].name \in Nat
      BY DEF kept
    <2> HIDE DEF Entry, Of
    <2> QED BY <1>2, <2>1, <2>2
  <1>5. \A i \in kept : \E e \in S : e.key = labels[i].name
    <2> SUFFICES ASSUME NEW i \in kept PROVE \E e \in S : e.key = labels[i].name
      OBVIOUS
    <2>1. Entry(i).key = labels[i].name
      BY Zenon
    <2> HIDE DEF Entry
    <2> QED BY <2>1
  <1>6. \A e, d \in S : e.key = d.key => e = d
    <2> SUFFICES ASSUME NEW i \in kept, NEW j \in kept, Entry(i).key = Entry(j).key
                 PROVE  Entry(i) = Entry(j)
      BY Zenon
    <2>1. labels[i].name = labels[j].name
      OBVIOUS
    <2> QED BY <2>1
  <1>7. IsFiniteSet(S)
    <2> DEFINE f == [i \in kept |-> Entry(i)]
    <2>1. \A i \in kept : f[i] = Entry(i)
      OBVIOUS
    <2>2. DOMAIN f = kept /\ f = [i \in kept |-> f[i]]
      OBVIOUS
    <2>3. S = {f[i] : i \in kept}
      BY <2>1
    <2> HIDE DEF f, Entry, S
    <2> QED BY <1>1, <2>2, <2>3, ValuesAreFew
  <1>20. Cardinality(names) = Cardinality(S)
    <2> DEFINE g == [e \in S |-> e.key]
    <2>1. \A e \in S : g[e] = e.key
      OBVIOUS
    <2>2. g = [e \in S |-> g[e]] /\ \A e, d \in S : g[e] = g[d] => e = d
      BY <1>6, <2>1
    <2> HIDE DEF g, S
    <2>3. {g[e] : e \in S} = {e.key : e \in S}
      BY <2>1
    <2>4. {e.key : e \in S} = names
      <3>1. \A e \in S : e.key \in names
        BY <1>4
      <3>2. \A i \in kept : labels[i].name \in {e.key : e \in S}
        <4>1. ASSUME NEW i \in kept PROVE \E e \in S : e.key = labels[i].name
          BY <1>5
        <4> QED BY <4>1
      <3> QED BY <3>1, <3>2
    <2>5. Cardinality({g[e] : e \in S}) = Cardinality(S)
      BY <1>7, <2>2, AsMany
    <2> HIDE DEF names
    <2> QED BY <2>3, <2>4, <2>5
  <1> HIDE DEF S, Of, names
  <1>8. ByCount!Ranks(0, S)
    <2>1. \A a \in S : ~CountBefore(a, a)
      BY <1>4 DEF CountBefore
    <2>2. \A a, b \in S : a # b => CountBefore(a, b) \/ CountBefore(b, a)
      BY <1>4, <1>6 DEF CountBefore
    <2>3. \A a, b, c \in S : CountBefore(a, b) /\ CountBefore(b, c) => CountBefore(a, c)
      BY <1>4 DEF CountBefore
    <2> QED BY <2>1, <2>2, <2>3 DEF ByCount!Ranks
  <1>9. ByCount!IsFiniteSet(S) /\ ByCount!Cardinality(S) = Cardinality(S)
    BY <1>7 DEF IsFiniteSet, ByCount!IsFiniteSet, Cardinality, ByCount!Cardinality
  <1>10. ByCount!InRank(0, S, list)
    BY <1>8, <1>9, ByCount!SortingOrders
  <1> HIDE DEF list
  <1>11. /\ list \in Seq(S) /\ \A e \in S : \E k \in 1 .. Len(list) : list[k] = e
         /\ \A j, k \in 1 .. Len(list) : j < k <=> CountBefore(list[j], list[k])
         /\ Len(list) = Cardinality(S)
    BY <1>9, <1>10 DEF ByCount!InRank
  <1> DEFINE all == Len(list)
             cut == Cut(list, MaxDistributionKeys)
             n == Len(cut)
             A == [k \in 1 .. n |-> Of(list[k].key)]
             seq == Counts(cut)
  <1>21. /\ cut \in Seq(S) /\ n <= all /\ \A k \in 1 .. n : cut[k] = list[k]
         /\ all <= MaxDistributionKeys => cut = list
    <2>1. MaxDistributionKeys \in Nat
      BY FactsAssumption
    <2> QED BY <1>11, <2>1, CutItems
  <1>13. seq = [k \in 1 .. n |-> cut[k].count]
    BY DEF Counts
  <1>22. ToSet(cut) = {cut[k] : k \in 1 .. n}
    <2>1. DOMAIN cut = 1 .. n
      BY <1>21
    <2> HIDE DEF cut
    <2> QED BY <2>1 DEF ToSet
  <1> HIDE DEF cut
  <1>12. /\ n \in Nat /\ all \in Nat
         /\ \A k \in 1 .. n : list[k] \in S /\ cut[k] = list[k] /\ k \in 1 .. all
    BY <1>11, <1>21
  <1> HIDE DEF n, seq, all
  <1>14. seq \in Seq(Nat) /\ Len(seq) = n /\ \A k \in 1 .. n : seq[k] = list[k].count
    BY <1>4, <1>12, <1>13
  <1>15. \A k \in 1 .. n : A[k] = Of(list[k].key)
    OBVIOUS
  <1> HIDE DEF A
  <1>16. \A k \in 1 .. n : IsFiniteSet(A[k]) /\ seq[k] = Cardinality(A[k])
    BY <1>2, <1>4, <1>12, <1>14, <1>15
  <1>17. Apart(1 .. n, A)
    <2> SUFFICES ASSUME NEW j \in 1 .. n, NEW k \in 1 .. n, j # k, NEW i \in A[j], i \in A[k]
                 PROVE  FALSE
      BY DEF Apart
    <2>1. list[j].key = list[k].key
      BY <1>15 DEF Of
    <2>2. list[j] = list[k]
      BY <1>6, <1>12, <2>1
    <2>3. j < k \/ k < j
      BY <1>12
    <2>4. CountBefore(list[j], list[j])
      BY <1>11, <1>12, <2>2, <2>3 DEF all
    <2> QED BY <1>4, <1>12, <2>4 DEF CountBefore
  <1>18. AllOf(1 .. n, A) \subseteq kept
    BY <1>15 DEF AllOf, Of
  <1>23. ASSUME Cardinality(names) <= MaxDistributionKeys PROVE kept \subseteq AllOf(1 .. n, A)
    <2>1. n = all
      <3>1. all <= MaxDistributionKeys
        BY <1>11, <1>20, <1>23 DEF all
      <3> QED BY <1>21, <3>1 DEF n, all
    <2>2. ASSUME NEW i \in kept PROVE i \in AllOf(1 .. n, A)
      <3>1. PICK e \in S : e.key = labels[i].name
        BY <1>5
      <3>2. PICK k \in 1 .. n : list[k] = e
        BY <1>11, <2>1 DEF all
      <3>3. i \in A[k]
        BY <1>15, <3>1, <3>2 DEF Of
      <3> QED BY <3>3 DEF AllOf
    <2> QED BY <2>2
  <1>19. Total(seq) = Cardinality(AllOf(1 .. n, A))
    BY <1>14, <1>16, <1>17, TotalOf
  <1>24. /\ Cardinality(AllOf(1 .. n, A)) \in Nat
         /\ Cardinality(AllOf(1 .. n, A)) <= Cardinality(kept)
    BY <1>1, <1>18, FS_Subset, FS_CardinalityType
  <1>25. Cardinality(names) <= MaxDistributionKeys => AllOf(1 .. n, A) = kept
    BY <1>18, <1>23
  <1>26. \A e \in ToSet(cut) : \E i \in kept : e.key = labels[i].name
    BY <1>4, <1>12, <1>22
  <1> QED BY <1>1, <1>3, <1>19, <1>24, <1>25, <1>26 DEF seq, kept, cut, names

\* The places of a list, counted by what stands at them.
LEMMA PlacesTotal ==
  ASSUME NEW P, IsFiniteSet(P), NEW n \in Nat, NEW seq, Len(seq) = n, NEW A, Apart(1 .. n, A),
         \A k \in 1 .. n : A[k] \in SUBSET P /\ seq[k].count = Cardinality(A[k]),
         \A p \in P : \E k \in 1 .. n : p \in A[k]
  PROVE  Total(Counts(seq)) = Cardinality(P)
  <1> DEFINE c == Counts(seq)
  <1>1. \A k \in 1 .. n : IsFiniteSet(A[k]) /\ Cardinality(A[k]) \in Nat
    BY FS_Subset, FS_CardinalityType
  <1>2. c = [k \in 1 .. n |-> seq[k].count]
    BY DEF Counts
  <1> HIDE DEF c
  <1>3. c \in Seq(Nat) /\ Len(c) = n /\ \A k \in 1 .. n : c[k] = Cardinality(A[k])
    BY <1>1, <1>2
  <1>4. AllOf(1 .. n, A) = P
    BY DEF AllOf
  <1>5. Total(c) = Cardinality(AllOf(1 .. n, A))
    BY <1>1, <1>3, TotalOf
  <1> QED BY <1>4, <1>5 DEF c

\* screenMaterial: every record is kept or left out with a reason, once.
LEMMA RecordsCounted ==
  ASSUME NEW s \in Sources
  PROVE  LET excluded == {[record |-> r.id, reason |-> ExclusionReason(r)] :
                             r \in {x \in ToSet(s) : ExclusionReason(x) # "none"}}
         IN  Cardinality(Screened(s)) + Cardinality(excluded) = Len(s)
  <1> DEFINE all == ToSet(s)
             kept == Screened(s)
             rest == {x \in all : ExclusionReason(x) # "none"}
             Out(r) == [record |-> r.id, reason |-> ExclusionReason(r)]
             f == [r \in rest |-> Out(r)]
  <1>1. s = [i \in DOMAIN s |-> s[i]] /\ IsFiniteSet(DOMAIN s) /\ Cardinality(DOMAIN s) = Len(s)
    <2>1. s \in Seq(all) /\ Len(s) \in Nat
      BY RecordsOf
    <2>2. DOMAIN s = 1 .. Len(s) /\ s = [i \in DOMAIN s |-> s[i]]
      BY <2>1
    <2> DEFINE n == Len(s)
    <2>3. n \in Nat
      BY <2>1
    <2> HIDE DEF n
    <2>4. IsFiniteSet(1 .. n) /\ Cardinality(1 .. n) = n
      BY <2>3, FS_Interval
    <2> QED BY <2>2, <2>4 DEF n
  <1>2. \A i, j \in DOMAIN s : s[i] = s[j] => i = j
    BY FactsAssumption
  <1>3. all = {s[i] : i \in DOMAIN s}
    BY DEF ToSet
  <1>4. IsFiniteSet(all) /\ Cardinality(all) = Len(s)
    <2> HIDE DEF all
    <2> QED BY <1>1, <1>2, <1>3, AsMany
  <1>5. kept = all \ rest /\ rest \subseteq all
    BY DEF Screened
  <1>6. \A r, q \in all : r.id = q.id => r = q
    BY RecordsOf
  <1> HIDE DEF kept, rest, all
  <1>7. IsFiniteSet(kept) /\ IsFiniteSet(rest)
    BY <1>4, <1>5, FS_Subset
  <1>8. Cardinality(kept) + Cardinality(rest) = Len(s)
    <2>1. kept \cup rest = all /\ kept \cap rest = {}
      BY <1>5
    <2>2. Cardinality(kept \cup rest) = Cardinality(kept) + Cardinality(rest)
      BY <1>7, <2>1, TwoParts
    <2> QED BY <1>4, <2>1, <2>2
  <1>9. \A r \in rest : f[r] = Out(r)
    OBVIOUS
  <1>10. f = [r \in rest |-> f[r]]
    OBVIOUS
  <1> HIDE DEF f
  <1>11. \A r, q \in rest : f[r] = f[q] => r = q
    <2>1. ASSUME NEW r PROVE Out(r).record = r.id
      OBVIOUS
    <2> HIDE DEF Out
    <2> QED BY <1>5, <1>6, <1>9, <2>1
  <1>12. Cardinality({f[r] : r \in rest}) = Cardinality(rest)
    BY <1>7, <1>10, <1>11, AsMany
  <1>13. {f[r] : r \in rest} = {[record |-> r.id, reason |-> ExclusionReason(r)] : r \in rest}
    BY <1>9
  <1> QED BY <1>8, <1>12, <1>13 DEF kept, rest, all

\* What a record of the material is.
IsMaterial(r) ==
    /\ r.id \in Nat /\ r.created \in Nat /\ r.updated \in Nat
    /\ \A l \in LabelsOf(r) : l.name \in Nat
    /\ IsFiniteSet(r.tags)
    /\ r.type \in {"incident", "divergence"} /\ r.severity \in ToSet(Severities)

\* Every record is an incident or a divergence.
LEMMA TypesCounted ==
  ASSUME NEW S, NEW m \in Seq(S), \A r \in S : IsMaterial(r)
  PROVE  /\ Cardinality(OfType(m, "incident")) + Cardinality(OfType(m, "divergence")) = Len(m)
         /\ OfType(m, "divergence") \in SUBSET DOMAIN m /\ IsFiniteSet(OfType(m, "divergence"))
  <1> DEFINE n == Len(m)
             a == OfType(m, "incident")
             b == OfType(m, "divergence")
  <1>1. n \in Nat /\ DOMAIN m = 1 .. n /\ \A i \in 1 .. n : m[i] \in S
    OBVIOUS
  <1>2. a \cup b = 1 .. n /\ a \cap b = {}
    <2>1. \A i \in 1 .. n : m[i].type \in {"incident", "divergence"}
      BY <1>1 DEF IsMaterial
    <2> HIDE DEF n
    <2> QED BY <1>1, <2>1 DEF OfType
  <1> HIDE DEF n, a, b
  <1>3. IsFiniteSet(1 .. n) /\ Cardinality(1 .. n) = n
    BY <1>1, FS_Interval
  <1>4. IsFiniteSet(a) /\ IsFiniteSet(b) /\ b \subseteq 1 .. n
    <2>1. a \subseteq 1 .. n /\ b \subseteq 1 .. n
      BY <1>2
    <2> QED BY <1>3, <2>1, FS_Subset
  <1>5. Cardinality(a \cup b) = Cardinality(a) + Cardinality(b)
    BY <1>2, <1>4, TwoParts
  <1>6. Cardinality(a) + Cardinality(b) = n
    BY <1>2, <1>3, <1>5
  <1> QED BY <1>1, <1>4, <1>6 DEF n, a, b

LEMMA SeveritiesCounted ==
  ASSUME NEW S, NEW m \in Seq(S), \A r \in S : IsMaterial(r)
  PROVE  Total(Counts(SeverityDistribution(m))) = Len(m)
  <1> DEFINE n == Len(m)
             P == DOMAIN m
             A == [k \in 1 .. 4 |-> {i \in P : m[i].severity = Severities[k]}]
             seq == SeverityDistribution(m)
             four == 4
  <1>1. n \in Nat /\ P = 1 .. n /\ \A i \in P : m[i] \in S
    OBVIOUS
  <1>2. DOMAIN Severities = 1 .. 4 /\ Len(Severities) = 4
    BY DEF Severities
  <1>3. \A j, k \in 1 .. 4 : Severities[j] = Severities[k] => j = k
    BY DEF Severities
  <1>4. \A k \in 1 .. 4 : A[k] = {i \in P : m[i].severity = Severities[k]}
    OBVIOUS
  <1>5. Len(seq) = 4 /\ \A k \in 1 .. 4 : seq[k].count = Cardinality(A[k])
    BY <1>2 DEF SeverityDistribution
  <1>6. ASSUME NEW p \in P PROVE \E k \in 1 .. 4 : p \in A[k]
    <2>1. m[p].severity \in ToSet(Severities)
      BY <1>1 DEF IsMaterial
    <2>2. PICK k \in 1 .. 4 : m[p].severity = Severities[k]
      BY <1>2, <2>1 DEF ToSet
    <2> QED BY <1>4, <2>2
  <1>7. IsFiniteSet(P) /\ Cardinality(P) = n
    <2> HIDE DEF n, P
    <2> QED BY <1>1, FS_Interval
  <1> HIDE DEF P, A, seq
  <1>8. Apart(1 .. four, A)
    BY <1>3, <1>4 DEF Apart
  <1>9. /\ four \in Nat /\ Len(seq) = four
        /\ \A k \in 1 .. four : A[k] \in SUBSET P /\ seq[k].count = Cardinality(A[k])
        /\ \A p \in P : \E k \in 1 .. four : p \in A[k]
    BY <1>4, <1>5, <1>6
  <1> HIDE DEF four
  <1>10. Total(Counts(seq)) = Cardinality(P)
    BY <1>7, <1>8, <1>9, PlacesTotal
  <1> QED BY <1>7, <1>10 DEF seq

LEMMA ProjectsCounted ==
  ASSUME NEW S, NEW m \in Seq(S), \A r \in S : IsMaterial(r)
  PROVE  Total(Counts(ProjectDistribution(m))) <= Len(m)
  <1> DEFINE n == Len(m)
             labels == [i \in 1 .. n |-> m[i].project]
             kept == KeptLabels(labels)
  <1>1. n \in Nat /\ \A i \in 1 .. n : m[i] \in S
    OBVIOUS
  <1>2. ProjectDistribution(m) = Tally(labels)
    BY DEF ProjectDistribution
  <1>3. DOMAIN labels = 1 .. n /\ \A i \in 1 .. n : labels[i].name \in Nat
    BY <1>1 DEF IsMaterial, LabelsOf
  <1> HIDE DEF n, labels
  <1>4. IsFiniteSet(1 .. n) /\ Cardinality(1 .. n) = n
    BY <1>1, FS_Interval
  <1>5. kept \subseteq 1 .. n
    BY <1>3 DEF KeptLabels
  <1>6. /\ Total(Counts(Tally(labels))) \in Nat
        /\ Total(Counts(Tally(labels))) <= Cardinality(kept)
    BY <1>3, <1>4, <1>5, TallyTotals
  <1>7. Cardinality(kept) <= n /\ Cardinality(kept) \in Nat
    BY <1>4, <1>5, FS_Subset, FS_CardinalityType
  <1> QED BY <1>1, <1>2, <1>6, <1>7 DEF n



\* classifyCorrection: every divergence falls in one of the categories.
LEMMA CategoryKnown ==
  ASSUME NEW r
  PROVE  \E k \in 1 .. 5 : ClassifyCorrection(r).category = Categories[k]
  <1> DEFINE usable == {c \in 1 .. 4 : {i \in Starting(Last(r.texts), "path") :
                                           Last(r.texts)[i][2] = c} # {}}
  <1>1. ClassifyCorrection(r).category =
            IF usable = {} THEN "unclassified" ELSE Categories[Min(usable)]
    BY DEF ClassifyCorrection
  <1>2. Categories[5] = "unclassified"
    BY DEF Categories
  <1>3. \A c \in usable : c \in Int /\ 1 <= c /\ c <= 4
    OBVIOUS
  <1> HIDE DEF usable
  <1>4. CASE usable = {}
    BY <1>1, <1>2, <1>4
  <1>5. CASE usable # {}
    <2>1. Min(usable) \in usable
      BY <1>3, <1>5, MinOf
    <2>2. Min(usable) \in 1 .. 5
      BY <1>3, <2>1
    <2> QED BY <1>1, <1>5, <2>2
  <1> QED BY <1>4, <1>5

Divergences(m) == Picked(m, OfType(m, "divergence"))

LEMMA DivergencesOf ==
  ASSUME NEW S, NEW m \in Seq(S), \A r \in S : IsMaterial(r)
  PROVE  /\ Divergences(m) \in Seq(S)
         /\ Len(Divergences(m)) = Cardinality(OfType(m, "divergence"))
  <1>1. OfType(m, "divergence") \in SUBSET DOMAIN m
    BY DEF OfType
  <1> QED BY <1>1, PickedList DEF Divergences

\* The divergences of a category, by the places of their corrections.
InCategory(m, category) ==
    {k \in 1 .. Len(Divergences(m)) : ClassifyCorrection(Divergences(m)[k]).category = category}

LEMMA CategoriesAre ==
  ASSUME NEW S, NEW m \in Seq(S), \A r \in S : IsMaterial(r)
  PROVE  LET c == DivergenceFacts(m).categories
             n == Len(Divergences(m))
         IN  /\ Len(c) = 5 /\ DOMAIN c = 1 .. 5 /\ n \in Nat
             /\ \A k \in 1 .. 5 : /\ c[k].count = Cardinality(InCategory(m, Categories[k]))
                                  /\ c[k].key = Categories[k]
                                  /\ InCategory(m, Categories[k]) \in SUBSET (1 .. n)
             /\ \A p \in 1 .. n : \E k \in 1 .. 5 : p \in InCategory(m, Categories[k])
             /\ \A j, k \in 1 .. 5 : Categories[j] = Categories[k] => j = k
  <1> DEFINE c == DivergenceFacts(m).categories
             div == Divergences(m)
             n == Len(div)
             made == Corrections(div)
  <1>1. n \in Nat
    BY DivergencesOf
  <1>2. DOMAIN made = 1 .. n /\ \A k \in 1 .. n : made[k] = ClassifyCorrection(div[k])
    BY DEF Corrections
  <1>3. Len(Categories) = 5
    BY DEF Categories
  <1>4. c = [i \in 1 .. 5 |-> [key |-> Categories[i],
                               count |-> Cardinality({k \in DOMAIN made : made[k].category = Categories[i]})]]
    BY <1>3 DEF DivergenceFacts, Divergences
  <1>5. \A x : {k \in DOMAIN made : made[k].category = x} = InCategory(m, x)
    BY <1>2 DEF InCategory
  <1>6. c = [i \in 1 .. 5 |-> [key |-> Categories[i], count |-> Cardinality(InCategory(m, Categories[i]))]]
    BY <1>4, <1>5
  <1> HIDE DEF c, made
  <1>7. /\ Len(c) = 5 /\ DOMAIN c = 1 .. 5
        /\ \A k \in 1 .. 5 : /\ c[k].count = Cardinality(InCategory(m, Categories[k]))
                             /\ c[k].key = Categories[k]
    BY <1>6
  <1>8. \A x : InCategory(m, x) \in SUBSET (1 .. n)
    BY DEF InCategory
  <1>9. ASSUME NEW p \in 1 .. n PROVE \E k \in 1 .. 5 : p \in InCategory(m, Categories[k])
    <2>1. PICK k \in 1 .. 5 : ClassifyCorrection(div[p]).category = Categories[k]
      BY CategoryKnown
    <2>2. p \in InCategory(m, Categories[k])
      BY <2>1 DEF InCategory
    <2> QED BY <2>2
  <1>10. \A j, k \in 1 .. 5 : Categories[j] = Categories[k] => j = k
    BY DEF Categories
  <1> QED BY <1>1, <1>7, <1>8, <1>9, <1>10 DEF c

LEMMA CategoriesCounted ==
  ASSUME NEW S, NEW m \in Seq(S), \A r \in S : IsMaterial(r)
  PROVE  LET d == DivergenceFacts(m)
         IN  /\ Total(Counts(d.categories)) = Len(Divergences(m))
             /\ FoldSet(LAMBDA p, sum : sum + p.count, 0, ToSet(d.categories)) = Len(Divergences(m))
             /\ d.count = Len(Divergences(m))
  <1> DEFINE c == DivergenceFacts(m).categories
             n == Len(Divergences(m))
             P == 1 .. n
             five == 5
             A == [k \in 1 .. five |-> InCategory(m, Categories[k])]
             T == ToSet(c)
             B == [x \in T |-> InCategory(m, x.key)]
  <1>1. n \in Nat /\ IsFiniteSet(P) /\ Cardinality(P) = n
    <2>1. n \in Nat
      BY CategoriesAre
    <2> HIDE DEF n
    <2> QED BY <2>1, FS_Interval
  <1>2. /\ Len(c) = five /\ DOMAIN c = 1 .. five
        /\ \A k \in 1 .. five : /\ c[k].count = Cardinality(InCategory(m, Categories[k]))
                                /\ c[k].key = Categories[k]
                                /\ InCategory(m, Categories[k]) \in SUBSET P
        /\ \A p \in P : \E k \in 1 .. five : p \in InCategory(m, Categories[k])
        /\ \A j, k \in 1 .. five : Categories[j] = Categories[k] => j = k
    BY CategoriesAre
  <1>3. five \in Nat
    OBVIOUS
  <1>4. \A k \in 1 .. five : A[k] = InCategory(m, Categories[k])
    OBVIOUS
  <1>5. \A x \in T : B[x] = InCategory(m, x.key)
    OBVIOUS
  <1>6. \A x, y : \A p \in InCategory(m, x) : p \in InCategory(m, y) => x = y
    BY DEF InCategory
  <1> HIDE DEF c, P, five, A, T, B
  <1>7. Total(Counts(c)) = n
    <2>1. Apart(1 .. five, A)
      <3> SUFFICES ASSUME NEW j \in 1 .. five, NEW k \in 1 .. five, j # k, NEW p \in A[j], p \in A[k]
                   PROVE  FALSE
        BY DEF Apart
      <3>1. Categories[j] = Categories[k]
        BY <1>4, <1>6
      <3> QED BY <1>2, <3>1
    <2>2. /\ \A k \in 1 .. five : A[k] \in SUBSET P /\ c[k].count = Cardinality(A[k])
          /\ \A p \in P : \E k \in 1 .. five : p \in A[k]
      BY <1>2, <1>4
    <2>3. Total(Counts(c)) = Cardinality(P)
      BY <1>1, <1>2, <1>3, <2>1, <2>2, PlacesTotal
    <2> QED BY <1>1, <2>3
  <1>8. \A x \in T : \E k \in 1 .. five : x = c[k]
    BY <1>2 DEF T, ToSet
  <1>9. \A k \in 1 .. five : c[k] \in T
    BY <1>2 DEF T, ToSet
  <1>10. FoldSet(LAMBDA p, sum : sum + p.count, 0, T) = n
    <2>1. IsFiniteSet(T)
      <3> DEFINE K == 1 .. five
      <3>1. c = [k \in K |-> c[k]] /\ DOMAIN c = K
        BY <1>2 DEF c, DivergenceFacts
      <3>2. IsFiniteSet(K)
        BY <1>3, FS_Interval
      <3>3. T = {c[k] : k \in K}
        BY <1>8, <1>9
      <3> HIDE DEF K
      <3> QED BY <3>1, <3>2, <3>3, ValuesAreFew
    <2>2. Apart(T, B)
      <3> SUFFICES ASSUME NEW x \in T, NEW y \in T, x # y, NEW p \in B[x], p \in B[y]
                   PROVE  FALSE
        BY DEF Apart
      <3>1. x.key = y.key
        BY <1>5, <1>6
      <3>2. PICK j \in 1 .. five : x = c[j]
        BY <1>8
      <3>3. PICK k \in 1 .. five : y = c[k]
        BY <1>8
      <3>4. Categories[j] = Categories[k]
        BY <1>2, <3>1, <3>2, <3>3
      <3>5. j = k
        BY <1>2, <3>4
      <3> QED BY <3>2, <3>3, <3>5
    <2>3. \A x \in T : IsFiniteSet(B[x]) /\ x.count = Cardinality(B[x])
      <3> SUFFICES ASSUME NEW x \in T PROVE IsFiniteSet(B[x]) /\ x.count = Cardinality(B[x])
        OBVIOUS
      <3>1. PICK k \in 1 .. five : x = c[k]
        BY <1>8
      <3>2. B[x] = InCategory(m, Categories[k]) /\ x.count = Cardinality(B[x]) /\ B[x] \in SUBSET P
        BY <1>2, <1>5, <3>1
      <3> QED BY <1>1, <3>2, FS_Subset
    <2>4. AllOf(T, B) = P
      <3>1. ASSUME NEW p \in P PROVE p \in AllOf(T, B)
        <4>1. PICK k \in 1 .. five : p \in InCategory(m, Categories[k])
          BY <1>2
        <4>2. p \in B[c[k]] /\ c[k] \in T
          BY <1>2, <1>5, <1>9, <4>1
        <4> QED BY <4>2 DEF AllOf
      <3>2. ASSUME NEW p \in AllOf(T, B) PROVE p \in P
        <4>1. PICK x \in T : p \in B[x]
          BY DEF AllOf
        <4>2. PICK k \in 1 .. five : x = c[k]
          BY <1>8
        <4> QED BY <1>2, <1>5, <4>1, <4>2
      <3> QED BY <3>1, <3>2
    <2>5. FoldSet(LAMBDA p, sum : sum + p.count, 0, T) = Cardinality(AllOf(T, B))
      BY <2>1, <2>2, <2>3, CountsOver
    <2> QED BY <1>1, <2>4, <2>5
  <1>11. DivergenceFacts(m).count = n
    BY DEF DivergenceFacts, Divergences
  <1> QED BY <1>7, <1>10, <1>11 DEF c, T

\* The divergences of the models that may be named, in cells and by model.
LEMMA ModelsCounted ==
  ASSUME NEW S, NEW m \in Seq(S), \A r \in S : IsMaterial(r)
  PROVE  LET d == DivergenceFacts(m)
             celled == FoldSet(LAMBDA c, sum : sum + c.count, 0, d.cells)
         IN  /\ Total(Counts(d.byModel)) <= celled
             /\ Cardinality({c.row : c \in d.cells}) <= MaxDistributionKeys =>
                    celled = Total(Counts(d.byModel))
  <1> DEFINE div == Divergences(m)
             n == Len(div)
             labels == [i \in 1 .. n |-> div[i].model]
             made == Corrections(div)
             modelled == {i \in DOMAIN div : IsPublishableLabel(div[i].model)}
             Cell(i) == <<div[i].model.name, made[i].category>>
             Of(c) == {i \in modelled : Cell(i) = c}
             Entry(c) == [row |-> c[1], column |-> c[2], count |-> Cardinality(Of(c))]
             T == DivergenceFacts(m).cells
             B == [x \in T |-> Of(<<x.row, x.column>>)]
  <1>1. /\ n \in Nat /\ DOMAIN div = 1 .. n /\ \A i \in 1 .. n : div[i].model.name \in Nat
    <2>1. div \in Seq(S)
      BY DivergencesOf
    <2> HIDE DEF div
    <2>2. n \in Nat /\ DOMAIN div = 1 .. n /\ \A i \in 1 .. n : div[i] \in S
      BY <2>1
    <2> QED BY <2>2 DEF IsMaterial, LabelsOf
  <1>2. T = {Entry(c) : c \in {Cell(i) : i \in modelled}}
    BY DEF DivergenceFacts, Divergences
  <1>3. DivergenceFacts(m).byModel = Tally(labels)
    BY DEF DivergenceFacts, Divergences
  <1> HIDE DEF div
  <1>4. DOMAIN labels = 1 .. n /\ \A i \in 1 .. n : labels[i] = div[i].model
    OBVIOUS
  <1>5. KeptLabels(labels) = modelled
    BY <1>1, <1>4 DEF KeptLabels
  <1>6. IsFiniteSet(1 .. n)
    <2> HIDE DEF n
    <2> QED BY <1>1, FS_Interval
  <1> DEFINE total == Total(Counts(Tally(labels)))
             names == {labels[i].name : i \in modelled}
  <1>7. /\ total \in Nat /\ total <= Cardinality(modelled) /\ IsFiniteSet(modelled)
        /\ Cardinality(names) <= MaxDistributionKeys => total = Cardinality(modelled)
    <2>1. \A i \in KeptLabels(labels) : labels[i].name \in Nat
      BY <1>1, <1>4 DEF KeptLabels
    <2> HIDE DEF labels, modelled
    <2> QED BY <1>4, <1>5, <1>6, <2>1, TallyTotals
  <1>16. names = {div[i].model.name : i \in modelled}
    BY <1>1, <1>4
  <1> HIDE DEF labels, modelled, made, T, total, names
  <1>8. \A x \in T : B[x] = Of(<<x.row, x.column>>)
    OBVIOUS
  <1> HIDE DEF B
  <1>9. ASSUME NEW x \in T
        PROVE  \E i \in modelled : /\ x.row = Cell(i)[1] /\ x.column = Cell(i)[2]
                                   /\ x.count = Cardinality(Of(Cell(i))) /\ x = Entry(Cell(i))
                                   /\ <<x.row, x.column>> = Cell(i)
    <2>1. PICK i \in modelled : x = Entry(Cell(i))
      BY <1>2
    <2>2. \A c : Entry(c).row = c[1] /\ Entry(c).column = c[2] /\ Entry(c).count = Cardinality(Of(c))
      OBVIOUS
    <2> HIDE DEF Entry, Of
    <2>3. x.row = Cell(i)[1] /\ x.column = Cell(i)[2] /\ x.count = Cardinality(Of(Cell(i)))
      BY <2>1, <2>2
    <2>4. Cell(i) = <<x.row, x.column>>
      BY <2>3
    <2> QED BY <2>1, <2>3, <2>4
  <1>10. \A i \in modelled : Entry(Cell(i)) \in T
    <2> HIDE DEF Entry, Cell
    <2> QED BY <1>2
  <1>11. IsFiniteSet(T)
    <2> DEFINE f == [i \in modelled |-> Entry(Cell(i))]
    <2>1. DOMAIN f = modelled /\ f = [i \in modelled |-> f[i]] /\ \A i \in modelled : f[i] = Entry(Cell(i))
      BY Zenon
    <2> HIDE DEF f, Entry, Cell
    <2>2. T = {f[i] : i \in modelled}
      BY <1>2, <2>1
    <2> QED BY <1>7, <2>1, <2>2, ValuesAreFew
  <1>17. {x.row : x \in T} = names
    <2>1. \A i \in modelled : Entry(Cell(i)).row = div[i].model.name /\ Cell(i)[1] = div[i].model.name
      BY Zenon
    <2> HIDE DEF Entry, Cell
    <2>2. \A x \in T : x.row \in {div[i].model.name : i \in modelled}
      BY <1>9, <2>1
    <2>3. \A i \in modelled : div[i].model.name \in {x.row : x \in T}
      <3>1. ASSUME NEW i \in modelled PROVE \E x \in T : x.row = div[i].model.name
        BY <1>10, <2>1
      <3> QED BY <3>1
    <2> QED BY <1>16, <2>2, <2>3
  <1> HIDE DEF Entry, Cell
  <1>12. \A x \in T : IsFiniteSet(B[x]) /\ x.count = Cardinality(B[x]) /\ B[x] \subseteq modelled
    <2> SUFFICES ASSUME NEW x \in T
                 PROVE  IsFiniteSet(B[x]) /\ x.count = Cardinality(B[x]) /\ B[x] \subseteq modelled
      OBVIOUS
    <2>1. PICK i \in modelled : /\ x.count = Cardinality(Of(Cell(i)))
                                /\ <<x.row, x.column>> = Cell(i)
      BY <1>9
    <2>2. B[x] = Of(Cell(i))
      BY <1>8, <2>1
    <2>3. Of(Cell(i)) \subseteq modelled
      OBVIOUS
    <2> HIDE DEF Of
    <2> QED BY <1>7, <2>1, <2>2, <2>3, FS_Subset
  <1>13. Apart(T, B)
    <2> SUFFICES ASSUME NEW x \in T, NEW y \in T, x # y, NEW p \in B[x], p \in B[y] PROVE FALSE
      BY DEF Apart
    <2>1. <<x.row, x.column>> = <<y.row, y.column>>
      BY <1>8
    <2>2. PICK i \in modelled : x = Entry(Cell(i)) /\ <<x.row, x.column>> = Cell(i)
      BY <1>9
    <2>3. PICK j \in modelled : y = Entry(Cell(j)) /\ <<y.row, y.column>> = Cell(j)
      BY <1>9
    <2> QED BY <2>1, <2>2, <2>3
  <1>14. AllOf(T, B) = modelled
    <2>1. ASSUME NEW p \in modelled PROVE p \in AllOf(T, B)
      <3> DEFINE x == Entry(Cell(p))
      <3>1. x \in T
        BY <1>10
      <3>2. x.row = Cell(p)[1] /\ x.column = Cell(p)[2] /\ <<Cell(p)[1], Cell(p)[2]>> = Cell(p)
        BY DEF Entry, Cell
      <3> HIDE DEF x
      <3>3. B[x] = Of(Cell(p))
        BY <1>8, <3>1, <3>2
      <3>4. p \in B[x]
        BY <3>3
      <3> QED BY <3>1, <3>4 DEF AllOf
    <2>2. ASSUME NEW p \in AllOf(T, B) PROVE p \in modelled
      BY <1>12 DEF AllOf
    <2> QED BY <2>1, <2>2
  <1>15. FoldSet(LAMBDA c, sum : sum + c.count, 0, T) = Cardinality(AllOf(T, B))
    BY <1>11, <1>12, <1>13, CountsOver
  <1> DEFINE celled == FoldSet(LAMBDA c, sum : sum + c.count, 0, T)
  <1>18. celled = Cardinality(modelled)
    BY <1>14, <1>15
  <1> HIDE DEF celled
  <1>19. /\ total <= celled
         /\ Cardinality({x.row : x \in T}) <= MaxDistributionKeys => celled = total
    BY <1>7, <1>17, <1>18
  <1> QED BY <1>3, <1>19 DEF T, total, celled

\* buildCharts: every record was created in one day, or week, and is counted there.
LEMMA PeriodsCounted ==
  ASSUME NEW f, NEW length, IsFiniteSet(ToSet(f.timeline))
  PROVE  ValuesOf(PerPeriod(f, length)) =
             Cardinality({e \in ToSet(f.timeline) : e.event = "created"})
  <1> DEFINE created == {e \in ToSet(f.timeline) : e.event = "created"}
             When(e) == e.at \div length
             Of(p) == {e \in created : When(e) = p}
             Entry(p) == [label |-> p, value |-> Cardinality(Of(p))]
             T == PerPeriod(f, length)
             B == [x \in T |-> Of(x.label)]
  <1>1. T = {Entry(p) : p \in {When(e) : e \in created}}
    BY DEF PerPeriod
  <1>2. IsFiniteSet(created)
    BY FS_Subset
  <1> HIDE DEF created, When, T
  <1>3. \A x \in T : B[x] = Of(x.label)
    OBVIOUS
  <1> HIDE DEF B
  <1>4. \A p : Entry(p).label = p /\ Entry(p).value = Cardinality(Of(p))
    OBVIOUS
  <1>5. \A p : Of(p) \subseteq created
    OBVIOUS
  <1>6. \A p : \A e \in created : e \in Of(p) <=> p = When(e)
    OBVIOUS
  <1> HIDE DEF Entry, Of
  <1>7. \A x \in T : x = Entry(x.label) /\ x.value = Cardinality(Of(x.label))
    <2> SUFFICES ASSUME NEW x \in T PROVE x = Entry(x.label) /\ x.value = Cardinality(Of(x.label))
      OBVIOUS
    <2>1. PICK e \in created : x = Entry(When(e))
      BY <1>1
    <2> QED BY <1>4, <2>1
  <1>8. \A e \in created : Entry(When(e)) \in T
    BY <1>1
  <1>9. IsFiniteSet(T)
    <2> DEFINE g == [e \in created |-> Entry(When(e))]
    <2>1. DOMAIN g = created /\ g = [e \in created |-> g[e]] /\ \A e \in created : g[e] = Entry(When(e))
      BY Zenon
    <2> HIDE DEF g
    <2>2. T = {g[e] : e \in created}
      BY <1>1, <2>1
    <2> QED BY <1>2, <2>1, <2>2, ValuesAreFew
  <1>10. \A x \in T : IsFiniteSet(B[x]) /\ x.value = Cardinality(B[x]) /\ B[x] \subseteq created
    BY <1>2, <1>3, <1>5, <1>7, FS_Subset
  <1>11. Apart(T, B)
    <2> SUFFICES ASSUME NEW x \in T, NEW y \in T, x # y, NEW e \in B[x], e \in B[y] PROVE FALSE
      BY DEF Apart
    <2>1. e \in created
      BY <1>10
    <2>2. x.label = When(e) /\ y.label = When(e)
      BY <1>3, <1>6, <2>1
    <2> QED BY <1>7, <2>2
  <1>12. AllOf(T, B) = created
    <2>1. ASSUME NEW e \in created PROVE e \in AllOf(T, B)
      <3>1. e \in B[Entry(When(e))] /\ Entry(When(e)) \in T
        BY <1>3, <1>4, <1>6, <1>8
      <3> QED BY <3>1 DEF AllOf
    <2>2. ASSUME NEW e \in AllOf(T, B) PROVE e \in created
      BY <1>10 DEF AllOf
    <2> QED BY <2>1, <2>2
  <1>13. ValuesOf(T) = Cardinality(AllOf(T, B))
    BY <1>9, <1>10, <1>11, ValuesOver
  <1> QED BY <1>12, <1>13 DEF T, created

\* round: to half a hundredth of a day.
LEMMA RoundedNear ==
  ASSUME NEW x \in Nat
  PROVE  /\ Rounded(x) \in Nat
         /\ 2 * (Ticks * Rounded(x)) <= 200 * x + Ticks
         /\ 200 * x <= 2 * (Ticks * Rounded(x)) + Ticks
  <1> DEFINE a == 200 * x + Ticks
             b == 2 * Ticks
             q == Rounded(x)
  <1>1. Ticks \in Nat \ {0}
    BY FactsAssumption
  <1>2. a \in Nat /\ b \in Nat \ {0} /\ q = a \div b
    BY <1>1 DEF Rounded
  <1>3. a = 200 * x + Ticks /\ b = 2 * Ticks
    OBVIOUS
  <1> HIDE DEF a, b, q
  <1>4. q \in Nat /\ b * q <= a /\ a < b * q + b
    BY <1>2
  <1>5. b * q = 2 * (Ticks * q) /\ Ticks * q \in Nat
    BY <1>1, <1>3, <1>4
  <1>6. 2 * (Ticks * q) <= a /\ a < 2 * (Ticks * q) + 2 * Ticks
    BY <1>3, <1>4, <1>5
  <1>7. 2 * (Ticks * q) <= 200 * x + Ticks /\ 200 * x <= 2 * (Ticks * q) + Ticks
    BY <1>1, <1>3, <1>5, <1>6
  <1> QED BY <1>4, <1>7 DEF q

\* Instants, and the days between them, rounded one by one: what they add up to.
LEMMA DaysAddUp ==
  ASSUME NEW t \in Seq(Nat), NEW e \in Nat, Len(t) = e + 1,
         \A j, k \in 1 .. Len(t) : j < k => t[j] <= t[k],
         NEW days \in Seq(Nat), Len(days) = e,
         \A i \in 1 .. e : days[i] = Rounded(t[i + 1] - t[i])
  PROVE  /\ Total(days) \in Nat
         /\ 2 * (Ticks * Total(days)) <= 200 * (t[e + 1] - t[1]) + Ticks * e
         /\ 200 * (t[e + 1] - t[1]) <= 2 * (Ticks * Total(days)) + Ticks * e
  <1> DEFINE Near(k, sum) ==
                /\ sum \in Nat
                /\ 2 * (Ticks * sum) <= 200 * (t[k + 1] - t[1]) + Ticks * k
                /\ 200 * (t[k + 1] - t[1]) <= 2 * (Ticks * sum) + Ticks * k
  <1>1. Total(days) = Adding!Folded(0, 0, days)
    BY DEF Total, Adding!Folded, FoldLeft, MapThenFoldSet, Max,
           Adding!FoldLeft, Adding!MapThenFoldSet, Adding!Max
  <1>2. PICK f : Adding!Along(0, 0, days, f)
    BY Adding!FoldGoesAlong
  <1>3. /\ f[0] = 0 /\ \A k \in 1 .. Len(days) : f[k] = f[k - 1] + days[k]
        /\ Adding!Folded(0, 0, days) = f[Len(days)]
    BY <1>2 DEF Adding!Along
  <1>4. Ticks \in Nat \ {0} /\ \A k \in 1 .. e + 1 : t[k] \in Nat
    BY FactsAssumption
  <1>5. Near(0, f[0])
    <2>1. t[0 + 1] \in Nat /\ t[0 + 1] = t[1] /\ t[1] \in Nat
      BY <1>4
    <2>2. Ticks * 0 = 0 /\ 2 * 0 = 0
      BY <1>4
    <2>3. t[1] - t[1] = 0
      BY <2>1
    <2> QED BY <1>3, <2>1, <2>2, <2>3
  <1>6. ASSUME NEW k \in 1 .. e, Near(k - 1, f[k - 1]) PROVE Near(k, f[k])
    <2> DEFINE a == t[1]  b == t[k]  c == t[k + 1]  d == days[k]
               u == f[k - 1]  v == f[k]
    <2>1. /\ k \in Nat \ {0} /\ k - 1 + 1 = k /\ k \in 1 .. Len(t) /\ k + 1 \in 1 .. Len(t)
          /\ 1 \in 1 .. Len(t) /\ k < k + 1
      OBVIOUS
    <2>2. a \in Nat /\ b \in Nat /\ c \in Nat /\ b <= c
      <3>1. 1 \in 1 .. e + 1 /\ k \in 1 .. e + 1 /\ k + 1 \in 1 .. e + 1
        BY ONLY k \in 1 .. e, e \in Nat
      <3>2. a \in Nat /\ b \in Nat /\ c \in Nat
        BY <1>4, <3>1
      <3>3. b <= c
        BY <2>1
      <3> QED BY <3>2, <3>3
    <2>3. d = Rounded(c - b) /\ v = u + d /\ c - b \in Nat
      <3>1. k \in 1 .. Len(days)
        OBVIOUS
      <3>2. v = u + d
        BY <1>3, <3>1
      <3>3. d = Rounded(c - b)
        OBVIOUS
      <3> HIDE DEF a, b, c
      <3>4. c - b \in Nat
        BY <2>2
      <3> QED BY <3>2, <3>3, <3>4
    <2>4. /\ u \in Nat /\ 2 * (Ticks * u) <= 200 * (b - a) + Ticks * (k - 1)
          /\ 200 * (b - a) <= 2 * (Ticks * u) + Ticks * (k - 1)
      BY <1>6, <2>1
    <2> HIDE DEF a, b, c, d, u, v
    <2>5. /\ d \in Nat /\ 2 * (Ticks * d) <= 200 * (c - b) + Ticks
          /\ 200 * (c - b) <= 2 * (Ticks * d) + Ticks
      BY <2>3, RoundedNear
    <2> DEFINE Tu == Ticks * u  Td == Ticks * d  Tv == Ticks * v
               To == Ticks * (k - 1)  Tk == Ticks * k
    <2>6. v \in Nat /\ Tv = Tu + Td /\ Tu \in Nat /\ Td \in Nat
      <3>1. u \in Nat /\ d \in Nat /\ v = u + d /\ Ticks \in Nat
        BY <1>4, <2>3, <2>4, <2>5
      <3> QED BY ONLY <3>1
    <2>7. Tk = To + Ticks /\ To \in Nat
      BY <1>4, <2>1
    <2>8. /\ 2 * Tu <= 200 * (b - a) + To /\ 200 * (b - a) <= 2 * Tu + To
          /\ 2 * Td <= 200 * (c - b) + Ticks /\ 200 * (c - b) <= 2 * Td + Ticks
      BY <2>4, <2>5
    <2> HIDE DEF Tu, Td, Tv, To, Tk
    <2>9. 2 * Tv <= 200 * (c - a) + Tk /\ 200 * (c - a) <= 2 * Tv + Tk
      BY ONLY <1>4, <2>2, <2>6, <2>7, <2>8
    <2> QED BY <2>6, <2>9 DEF Tv, Tk, a, c, v
  <1> HIDE DEF Near
  <1>7. ASSUME ~Near(e, f[e]) PROVE FALSE
    <2> DEFINE U == {k \in Nat : k <= e /\ ~Near(k, f[k])}
    <2>1. U \in SUBSET Nat /\ e \in U
      BY <1>7
    <2>2. PICK k \in U : \A j \in U : k <= j
      <3> HIDE DEF U
      <3> QED BY <2>1, LeastOf
    <2>3. k # 0
      BY <1>5, <2>2
    <2>4. k - 1 \in Nat /\ k - 1 <= e /\ k \in 1 .. e /\ k - 1 < k
      BY <2>2, <2>3
    <2>5. Near(k - 1, f[k - 1])
      BY <2>2, <2>4
    <2> QED BY <1>6, <2>2, <2>4, <2>5
  <1>8. Near(e, Total(days))
    BY <1>1, <1>3, <1>7
  <1> QED BY <1>8 DEF Near

\* Listed with their places, the values of a list add up to what the list does.
LEMMA ListedValues ==
  ASSUME NEW days \in Seq(Nat)
  PROVE  ValuesOf({[label |-> i, value |-> days[i]] : i \in 1 .. Len(days)}) = Total(days)
  <1> DEFINE e == Len(days)
             A == [i \in 1 .. e |-> {i} \X (1 .. days[i])]
             Entry(i) == [label |-> i, value |-> days[i]]
             T == {Entry(i) : i \in 1 .. e}
             B == [x \in T |-> A[x.label]]
  <1>1. e \in Nat /\ \A i \in 1 .. e : days[i] \in Nat
    OBVIOUS
  <1>2. \A i \in 1 .. e : A[i] = {i} \X (1 .. days[i])
    OBVIOUS
  <1> HIDE DEF A, e
  <1>3. ASSUME NEW i \in 1 .. e PROVE IsFiniteSet(A[i]) /\ days[i] = Cardinality(A[i])
    <2> DEFINE K == 1 .. days[i]
               g == [x \in K |-> <<i, x>>]
    <2>1. IsFiniteSet(K) /\ Cardinality(K) = days[i]
      <3> DEFINE d == days[i]
      <3>1. d \in Nat
        BY <1>1
      <3> HIDE DEF d
      <3>2. IsFiniteSet(1 .. d) /\ Cardinality(1 .. d) = d
        BY <3>1, FS_Interval
      <3> QED BY <3>2 DEF d
    <2>3. \A x \in K : g[x] = <<i, x>>
      OBVIOUS
    <2>4. g = [x \in K |-> g[x]] /\ DOMAIN g = K
      OBVIOUS
    <2>5. A[i] = {i} \X K
      BY <1>2
    <2> HIDE DEF K, g
    <2>2. A[i] = {g[x] : x \in K} /\ g = [x \in K |-> g[x]] /\ \A x, y \in K : g[x] = g[y] => x = y
      <3>1. \A x, y \in K : g[x] = g[y] => x = y
        BY <2>3
      <3>2. {i} \X K = {g[x] : x \in K}
        <4>1. ASSUME NEW p \in {i} \X K PROVE p \in {g[x] : x \in K}
          <5>1. PICK x \in K : p = <<i, x>>
            OBVIOUS
          <5>2. p = g[x]
            BY <2>3, <5>1
          <5> QED BY <5>2
        <4>2. \A x \in K : g[x] \in {i} \X K
          <5> SUFFICES ASSUME NEW x \in K PROVE <<i, x>> \in {i} \X K
            BY <2>3
          <5> QED OBVIOUS
        <4> DEFINE P == {i} \X K
        <4>3. (\A p \in P : p \in {g[x] : x \in K}) /\ \A x \in K : g[x] \in P
          BY <4>1, <4>2
        <4> HIDE DEF P
        <4>4. P = {g[x] : x \in K}
          BY <4>3
        <4> QED BY <4>4 DEF P
      <3> QED BY <2>4, <2>5, <3>1, <3>2
    <2> HIDE DEF K, g
    <2> QED BY <2>1, <2>2, AsMany
  <1>4. Apart(1 .. e, A)
    BY <1>2 DEF Apart
  <1>5. Total(days) = Cardinality(AllOf(1 .. e, A))
    BY <1>3, <1>4, TotalOf DEF e
  <1>13. \A i : Entry(i).label = i /\ Entry(i).value = days[i]
    OBVIOUS
  <1>14. \A x \in T : B[x] = A[x.label]
    OBVIOUS
  <1> HIDE DEF B, Entry
  <1>15. \A x \in T : x.label \in 1 .. e /\ x = Entry(x.label) /\ x.value = days[x.label]
    <2> SUFFICES ASSUME NEW i \in 1 .. e
                 PROVE  LET x == Entry(i)
                        IN  x.label \in 1 .. e /\ x = Entry(x.label) /\ x.value = days[x.label]
      OBVIOUS
    <2> QED BY <1>13
  <1>16. IsFiniteSet(T)
    <2> DEFINE K == 1 .. e
               g == [i \in K |-> Entry(i)]
    <2>1. DOMAIN g = K /\ g = [i \in K |-> g[i]] /\ T = {g[i] : i \in K}
      OBVIOUS
    <2>2. IsFiniteSet(K)
      BY <1>1, FS_Interval
    <2> HIDE DEF K, g, T
    <2> QED BY <2>1, <2>2, ValuesAreFew
  <1>17. AllOf(T, B) = AllOf(1 .. e, A)
    <2>1. ASSUME NEW p \in AllOf(T, B) PROVE p \in AllOf(1 .. e, A)
      <3>1. PICK x \in T : p \in B[x]
        BY DEF AllOf
      <3> QED BY <1>14, <1>15, <3>1 DEF AllOf
    <2>2. ASSUME NEW p \in AllOf(1 .. e, A) PROVE p \in AllOf(T, B)
      <3>1. PICK i \in 1 .. e : p \in A[i]
        BY DEF AllOf
      <3>2. Entry(i) \in T /\ p \in B[Entry(i)]
        BY <1>13, <1>14, <3>1
      <3> QED BY <3>2 DEF AllOf
    <2> QED BY <2>1, <2>2
  <1> HIDE DEF T
  <1>18. \A x \in T : IsFiniteSet(B[x]) /\ x.value = Cardinality(B[x])
    BY <1>3, <1>14, <1>15
  <1>19. Apart(T, B)
    <2> SUFFICES ASSUME NEW x \in T, NEW y \in T, x # y PROVE B[x] \cap B[y] = {}
      BY DEF Apart
    <2>1. x.label # y.label
      BY <1>15
    <2> QED BY <1>4, <1>14, <1>15, <2>1 DEF Apart
  <1>20. ValuesOf(T) = Cardinality(AllOf(T, B))
    BY <1>16, <1>18, <1>19, ValuesOver
  <1> QED BY <1>5, <1>17, <1>20 DEF T, Entry, e

\* What is rounded e + 1 times, e of them in parts.
LEMMA SpanNear ==
  ASSUME NEW x \in Nat, NEW e \in Nat, NEW sum \in Nat,
         2 * (Ticks * sum) <= 200 * x + Ticks * e, 200 * x <= 2 * (Ticks * sum) + Ticks * e
  PROVE  Spans(sum, Rounded(x), e)
  <1> DEFINE S == Rounded(x)
             Ts == Ticks * sum  TS == Ticks * S  Te == Ticks * e
  <1>1. Ticks \in Nat \ {0} /\ S \in Nat
    BY FactsAssumption, RoundedNear
  <1>2. 2 * TS <= 200 * x + Ticks /\ 200 * x <= 2 * TS + Ticks
    BY RoundedNear
  <1> HIDE DEF S
  <1>3. Ts \in Nat /\ TS \in Nat /\ Te \in Nat
    BY <1>1
  <1>4. 2 * Ts - 2 * TS <= Te + Ticks /\ 2 * TS - 2 * Ts <= Te + Ticks
    <2>1. 2 * Ts <= 200 * x + Te /\ 200 * x <= 2 * Ts + Te
      OBVIOUS
    <2> HIDE DEF Ts, TS, Te
    <2> QED BY ONLY <1>1, <1>2, <1>3, <2>1, x \in Nat
  <1>5. /\ Ticks * (2 * (sum - S)) = 2 * Ts - 2 * TS
        /\ Ticks * (2 * (S - sum)) = 2 * TS - 2 * Ts
        /\ Ticks * (e + 1) = Te + Ticks
    BY <1>1
  <1>6. /\ Ticks * (2 * (sum - S)) <= Ticks * (e + 1)
        /\ Ticks * (2 * (S - sum)) <= Ticks * (e + 1)
    BY <1>4, <1>5
  <1>7. ASSUME NEW a \in Int, NEW b \in Int, Ticks * a <= Ticks * b PROVE a <= b
    BY ONLY <1>1, <1>7
  <1>8. 2 * (sum - S) \in Int /\ 2 * (S - sum) \in Int /\ e + 1 \in Int
    BY <1>1
  <1>9. 2 * (sum - S) <= e + 1 /\ 2 * (S - sum) <= e + 1
    BY <1>6, <1>7, <1>8
  <1> QED BY <1>9 DEF Spans, S

\* recurrence: the days between the records make up the period, as far as they
\* are rounded.
LEMMA IntervalsCounted ==
  ASSUME NEW S, NEW m \in Seq(S), m # << >>, \A r \in S : IsMaterial(r)
  PROVE  LET days == Recurrence(m).intervals
             span == Period(m).span
         IN  /\ Spans(Total(days), span, Len(days)) /\ Len(days) = Len(m) - 1
             /\ Spans(ValuesOf({[label |-> i, value |-> days[i]] : i \in 1 .. Len(days)}),
                      span, Len(days))
  <1> DEFINE t == Instants(m)
             n == Len(t)
             e == n - 1
             days == Recurrence(m).intervals
             x == t[n] - t[1]
  <1>1. /\ t \in Seq(Nat) /\ n = Len(m) /\ n \in Nat \ {0} /\ t # << >>
        /\ \A j, k \in 1 .. n : j < k => t[j] <= t[k]
    <2>1. /\ t \in Seq(Nat) /\ Len(t) = Len(m)
          /\ \A j, k \in 1 .. Len(m) : j < k => t[j] <= t[k]
      BY InstantsOf DEF IsMaterial
    <2>2. Len(m) \in Nat /\ Len(m) # 0
      BY EmptySeq
    <2> HIDE DEF t
    <2>3. Len(t) # 0
      BY <2>1, <2>2
    <2>4. t # << >>
      BY <2>3
    <2> QED BY <2>1, <2>2, <2>4
  <1>2. days = [i \in 1 .. Len(t) - 1 |-> Rounded(t[i + 1] - t[i])]
    BY DEF Recurrence
  <1>3. Period(m).span = Rounded(Last(t) - Head(t))
    BY DEF Period
  <1> HIDE DEF t
  <1>4. Period(m).span = Rounded(x)
    <2>1. Head(t) = t[1] /\ Last(t) = t[n]
      BY <1>1 DEF Last
    <2> QED BY <1>3, <2>1
  <1>5. \A j, k \in 1 .. n : j <= k => t[k] - t[j] \in Nat
    <2> SUFFICES ASSUME NEW j \in 1 .. n, NEW k \in 1 .. n, j <= k PROVE t[k] - t[j] \in Nat
      OBVIOUS
    <2>1. t[j] \in Nat /\ t[k] \in Nat
      BY <1>1
    <2>2. j = k \/ j < k
      BY <1>1
    <2> QED BY <1>1, <2>1, <2>2
  <1>6. x \in Nat
    BY <1>1, <1>5
  <1>7. e \in Nat /\ n = e + 1 /\ \A i \in 1 .. e : days[i] = Rounded(t[i + 1] - t[i])
    BY <1>1, <1>2
  <1>8. days \in Seq(Nat) /\ Len(days) = e
    <2>1. \A i \in 1 .. e : days[i] \in Nat
      <3> SUFFICES ASSUME NEW i \in 1 .. e PROVE days[i] \in Nat
        OBVIOUS
      <3>1. t[i + 1] - t[i] \in Nat
        BY <1>5, <1>7
      <3> HIDE DEF days, x
      <3> QED BY <1>7, <3>1, RoundedNear
    <2>2. days = [i \in 1 .. e |-> days[i]]
      BY <1>2
    <2> HIDE DEF days, e
    <2> QED BY <1>7, <2>1, <2>2
  <1> HIDE DEF days
  <1>9. /\ Total(days) \in Nat
        /\ 2 * (Ticks * Total(days)) <= 200 * x + Ticks * e
        /\ 200 * x <= 2 * (Ticks * Total(days)) + Ticks * e
    <2>1. Len(t) = e + 1
      BY <1>7
    <2>2. x = t[e + 1] - t[1]
      BY <1>7
    <2>3. \A j, k \in 1 .. Len(t) : j < k => t[j] <= t[k]
      BY <1>1
    <2> HIDE DEF n, e, x
    <2> QED BY <1>1, <1>7, <1>8, <2>1, <2>2, <2>3, DaysAddUp
  <1> HIDE DEF x, n, e
  <1>10. Spans(Total(days), Rounded(x), e)
    BY <1>6, <1>7, <1>9, SpanNear
  <1>11. ValuesOf({[label |-> i, value |-> days[i]] : i \in 1 .. Len(days)}) = Total(days)
    BY <1>8, ListedValues
  <1>12. Len(days) = Len(m) - 1
    BY <1>1, <1>8 DEF e
  <1> QED BY <1>4, <1>8, <1>10, <1>11, <1>12 DEF days

\* The material of a pack: records that are known, each once.
LEMMA MaterialKnown ==
  ASSUME NEW s \in Sources
  PROVE  LET m == ScreenMaterial(s)
         IN  /\ m \in Seq(Screened(s)) /\ ToSet(m) = Screened(s) /\ IsFiniteSet(Screened(s))
             /\ Len(m) = Cardinality(Screened(s)) /\ Len(m) \in Nat
             /\ \A r \in Screened(s) : IsMaterial(r) /\ r \in ToSet(s)
             /\ \A r, q \in Screened(s) : r.id = q.id => r = q
             /\ Screened(s) # {} => m # << >>
  <1> DEFINE m == ScreenMaterial(s)
  <1>1. /\ m \in Seq(Screened(s)) /\ ToSet(m) = Screened(s) /\ Screened(s) \subseteq ToSet(s)
        /\ IsFiniteSet(Screened(s)) /\ Len(m) = Cardinality(Screened(s))
    BY MaterialOf
  <1>2. \A r \in Screened(s) : IsMaterial(r) /\ r \in ToSet(s)
    BY <1>1, RecordsOf DEF IsMaterial
  <1>3. \A r, q \in Screened(s) : r.id = q.id => r = q
    BY <1>1, RecordsOf
  <1> HIDE DEF m
  <1>4. Screened(s) # {} => m # << >>
    <2> SUFFICES ASSUME m = << >>, Screened(s) # {} PROVE FALSE
      OBVIOUS
    <2>1. ToSet(m) = {}
      BY DEF ToSet
    <2> QED BY <1>1, <2>1
  <1>5. Len(m) \in Nat
    BY <1>1
  <1> QED BY <1>1, <1>2, <1>3, <1>4, <1>5 DEF m

\* timeline: every record was created once.
LEMMA CreatedCounted ==
  ASSUME NEW s \in Sources
  PROVE  LET m == ScreenMaterial(s)
         IN  /\ IsFiniteSet(ToSet(Timeline(m)))
             /\ Cardinality({e \in ToSet(Timeline(m)) : e.event = "created"}) = Len(m)
  <1> DEFINE m == ScreenMaterial(s)
             S == Screened(s)
             g == [r \in S |-> EntryOf(r, "created", r.created)]
  <1>1. /\ ToSet(m) = S /\ IsFiniteSet(S) /\ Len(m) = Cardinality(S)
        /\ \A r \in S : IsMaterial(r)
        /\ \A r, q \in S : r.id = q.id => r = q
    BY MaterialKnown
  <1> HIDE DEF m, S
  <1>2. /\ ToSet(Timeline(m)) = CreatedEntries(S) \cup UpdatedEntries(S)
        /\ IsFiniteSet(CreatedEntries(S) \cup UpdatedEntries(S))
    <2>1. \A r \in ToSet(m) : r.id \in Nat /\ r.created \in Nat /\ r.updated \in Nat
      BY <1>1 DEF IsMaterial
    <2> QED BY <1>1, <2>1, TimelineOf
  <1>3. /\ \A e \in CreatedEntries(S) : e.event = "created"
        /\ \A e \in UpdatedEntries(S) : e.event = "updated"
    BY DEF CreatedEntries, UpdatedEntries, EntryOf
  <1>4. {e \in ToSet(Timeline(m)) : e.event = "created"} = CreatedEntries(S)
    BY <1>2, <1>3
  <1>5. CreatedEntries(S) = {g[r] : r \in S} /\ g = [r \in S |-> g[r]]
    BY DEF CreatedEntries
  <1>6. \A r \in S : g[r].record = r.id
    BY DEF EntryOf
  <1> HIDE DEF g
  <1>7. \A r, q \in S : g[r] = g[q] => r = q
    BY <1>1, <1>6
  <1>8. Cardinality(CreatedEntries(S)) = Cardinality(S)
    BY <1>1, <1>5, <1>7, AsMany
  <1> QED BY <1>1, <1>2, <1>4, <1>8 DEF m

\* buildCharts: the charts of a pack, none without data.
LEMMA ChartsOf ==
  ASSUME NEW for \in ArticleKinds, NEW f, NEW c \in ToSet(BuildCharts(for, f))
  PROVE  /\ c \in {TimelineChart(f), TagChart(f), OccurrenceChart(f), IntervalChart(f),
                   ModelHeatmap(f), CorrectionChart(f), WeeklyChart(f), ProjectChart(f)}
         /\ c.data # {}
  <1> DEFINE C == {TimelineChart(f), TagChart(f), OccurrenceChart(f), IntervalChart(f),
                   ModelHeatmap(f), CorrectionChart(f), WeeklyChart(f), ProjectChart(f)}
             charts ==
                CASE for = "case" -> <<TimelineChart(f)>>
                  [] for = "pattern" -> <<TagChart(f), OccurrenceChart(f), IntervalChart(f)>>
                  [] for = "divergence-report" -> <<ModelHeatmap(f), CorrectionChart(f)>>
                  [] for = "digest" -> <<WeeklyChart(f), ProjectChart(f)>>
             P == {i \in DOMAIN charts : charts[i].data # {}}
  <1>1. BuildCharts(for, f) = Picked(charts, P)
    BY DEF BuildCharts
  <1>2. charts \in Seq(C)
    <2>5. /\ TimelineChart(f) \in C /\ TagChart(f) \in C /\ OccurrenceChart(f) \in C
          /\ IntervalChart(f) \in C /\ ModelHeatmap(f) \in C /\ CorrectionChart(f) \in C
          /\ WeeklyChart(f) \in C /\ ProjectChart(f) \in C
      OBVIOUS
    <2>1. CASE for = "case"
      <3>1. charts = <<TimelineChart(f)>>
        BY <2>1
      <3> HIDE DEF charts, C
      <3> QED BY ONLY <2>5, <3>1
    <2>2. CASE for = "pattern"
      <3>1. charts = <<TagChart(f), OccurrenceChart(f), IntervalChart(f)>>
        BY <2>2
      <3> HIDE DEF charts, C
      <3> QED BY ONLY <2>5, <3>1
    <2>3. CASE for = "divergence-report"
      <3>1. charts = <<ModelHeatmap(f), CorrectionChart(f)>>
        BY <2>3
      <3> HIDE DEF charts, C
      <3> QED BY ONLY <2>5, <3>1
    <2>4. CASE for = "digest"
      <3>1. charts = <<WeeklyChart(f), ProjectChart(f)>>
        BY <2>4
      <3> HIDE DEF charts, C
      <3> QED BY ONLY <2>5, <3>1
    <2> QED BY <2>1, <2>2, <2>3, <2>4 DEF ArticleKinds
  <1> HIDE DEF charts, C
  <1>3. ToSet(Picked(charts, P)) = {charts[i] : i \in P}
    <2>1. P \in SUBSET DOMAIN charts
      OBVIOUS
    <2> HIDE DEF P
    <2> QED BY <1>2, <2>1, PickedOf
  <1>4. PICK i \in P : c = charts[i]
    BY <1>1, <1>3
  <1>5. charts[i] \in C /\ charts[i].data # {}
    BY <1>2
  <1> QED BY <1>4, <1>5 DEF C

LEMMA ChartsAddUp ==
  ASSUME NEW s \in Sources, Screened(s) # {}, NEW for \in ArticleKinds,
         NEW c \in ToSet(BuildCharts(for, FactsOf(s)))
  PROVE  LET f == FactsOf(s)
         IN  /\ c.type \in {"occurrences", "weekly"} => ValuesOf(c.data) = f.records
             /\ c.type = "intervals" =>
                    Spans(ValuesOf(c.data), f.period.span, Len(f.recurrence.intervals))
             /\ c.type = "corrections" =>
                    FoldSet(LAMBDA p, sum : sum + p.count, 0, c.data) = f.divergence.count
  <1> DEFINE f == FactsOf(s)
             m == ScreenMaterial(s)
  <1>1. /\ f.records = Len(m) /\ f.timeline = Timeline(m) /\ f.period = Period(m)
        /\ f.recurrence = Recurrence(m) /\ f.divergence = DivergenceFacts(m)
    BY DEF FactsOf, FactPack
  <1> HIDE DEF f
  <1>2. /\ c \in {TimelineChart(f), TagChart(f), OccurrenceChart(f), IntervalChart(f),
                  ModelHeatmap(f), CorrectionChart(f), WeeklyChart(f), ProjectChart(f)}
        /\ c.data # {}
    BY ChartsOf DEF f
  <1>3. /\ m \in Seq(Screened(s)) /\ m # << >> /\ \A r \in Screened(s) : IsMaterial(r)
    BY MaterialKnown
  <1>4. /\ IsFiniteSet(ToSet(Timeline(m)))
        /\ Cardinality({e \in ToSet(Timeline(m)) : e.event = "created"}) = Len(m)
    BY CreatedCounted
  <1> HIDE DEF m
  <1>5. \A length : ValuesOf(PerPeriod(f, length)) = f.records
    BY <1>1, <1>4, PeriodsCounted
  <1>6. c.type \in {"occurrences", "weekly"} =>
            c.data = PerPeriod(f, Ticks) \/ c.data = PerPeriod(f, 7 * Ticks)
    BY <1>2 DEF TimelineChart, TagChart, OccurrenceChart, IntervalChart, ModelHeatmap,
                CorrectionChart, WeeklyChart, ProjectChart
  <1>7. c.type = "intervals" => c.data = IntervalChart(f).data
    BY <1>2 DEF TimelineChart, TagChart, OccurrenceChart, IntervalChart, ModelHeatmap,
                CorrectionChart, WeeklyChart, ProjectChart
  <1>8. c.type = "corrections" => c.data = ToSet(f.divergence.categories)
    BY <1>2 DEF TimelineChart, TagChart, OccurrenceChart, IntervalChart, ModelHeatmap,
                CorrectionChart, WeeklyChart, ProjectChart
  <1>9. Spans(ValuesOf(IntervalChart(f).data), f.period.span, Len(f.recurrence.intervals))
    BY <1>1, <1>3, IntervalsCounted DEF IntervalChart
  <1>10. FoldSet(LAMBDA p, sum : sum + p.count, 0, ToSet(f.divergence.categories))
            = f.divergence.count
    BY <1>1, <1>3, CategoriesCounted
  <1> QED BY <1>5, <1>6, <1>7, <1>8, <1>9, <1>10 DEF f

\* The records that give no evidence, when none of it is cut.
LEMMA UnquotedCounted ==
  ASSUME NEW s \in Sources,
         Len(FactsOf(s).citations) < MaxCitations, Len(FactsOf(s).signals) < MaxSignals
  PROVE  LET f == FactsOf(s)
         IN  f.withoutEvidence = Cardinality({id \in f.ids :
                 \A e \in ToSet(f.citations \o f.signals) : id \notin e.records})
  <1> DEFINE f == FactsOf(s)
             m == ScreenMaterial(s)
             snippets == Snippets(m)
             S == {EvidenceOf(snippets, p) : p \in snippets}
             W == {r \in ToSet(m) : \A o \in snippets : o.record # r.id}
             U == {id \in f.ids : \A e \in ToSet(f.citations \o f.signals) : id \notin e.records}
             g == [r \in W |-> r.id]
  <1>1. f.withoutEvidence = Cardinality(W) /\ f.ids = {r.id : r \in Screened(s)}
    BY DEF FactsOf, FactPack
  <1>2. /\ f.citations \in Seq(S) /\ f.signals \in Seq(S)
        /\ ToSet(f.citations) \cup ToSet(f.signals) = S
    BY EvidenceIn
  <1>3. /\ ToSet(m) = Screened(s) /\ IsFiniteSet(Screened(s))
        /\ \A r, q \in Screened(s) : r.id = q.id => r = q
    BY MaterialKnown
  <1> HIDE DEF f, m
  <1>4. ToSet(f.citations \o f.signals) = S
    <2> DEFINE a == f.citations  b == f.signals
    <2>1. a \in Seq(S) /\ b \in Seq(S) /\ ToSet(a) \cup ToSet(b) = S
      BY <1>2
    <2> HIDE DEF a, b, S
    <2>2. ToSet(a \o b) = ToSet(a) \cup ToSet(b)
      BY <2>1, JoinedSets
    <2> QED BY <2>1, <2>2 DEF a, b
  <1>5. ASSUME NEW id
        PROVE  (\A e \in S : id \notin e.records) <=> \A o \in snippets : o.record # id
    <2> HIDE DEF snippets
    <2>1. ASSUME NEW o \in snippets, o.record = id PROVE \E e \in S : id \in e.records
      <3>1. id \in EvidenceOf(snippets, o).records
        BY <2>1 DEF EvidenceOf
      <3> QED BY <3>1
    <2>2. ASSUME NEW e \in S, id \in e.records PROVE \E o \in snippets : o.record = id
      <3>1. PICK p \in snippets : e = EvidenceOf(snippets, p)
        OBVIOUS
      <3> QED BY <2>2, <3>1 DEF EvidenceOf
    <2> QED BY <2>1, <2>2
  <1> HIDE DEF S, snippets
  <1>6. U = {g[r] : r \in W}
    <2>1. U = {id \in f.ids : \A o \in snippets : o.record # id}
      BY <1>4, <1>5
    <2>2. {g[r] : r \in W} = {r.id : r \in W}
      OBVIOUS
    <2>3. W = {r \in Screened(s) : \A o \in snippets : o.record # r.id}
      BY <1>3
    <2> HIDE DEF U, W, g
    <2>4. {id \in f.ids : \A o \in snippets : o.record # id} = {r.id : r \in W}
      BY <1>1, <2>3
    <2> QED BY <2>1, <2>2, <2>4
  <1>7. IsFiniteSet(W) /\ \A r, q \in W : r.id = q.id => r = q
    <2>1. W \subseteq Screened(s)
      BY <1>3
    <2> QED BY <1>3, <2>1, FS_Subset
  <1>8. g = [r \in W |-> g[r]] /\ \A r, q \in W : g[r] = g[q] => r = q
    BY <1>7
  <1> HIDE DEF W, g
  <1>9. Cardinality({g[r] : r \in W}) = Cardinality(W)
    BY <1>7, <1>8, AsMany
  <1> QED BY <1>1, <1>6, <1>9 DEF f

\* extractSnippets, groupEvidence: what is cited stands where it says, and is told by all.
LEMMA EvidenceIsSourced ==
  ASSUME NEW s \in Sources,
         NEW e \in ToSet(FactsOf(s).citations) \cup ToSet(FactsOf(s).signals)
  PROVE  /\ e.records # {}
         /\ \A i \in 1 .. Len(e.text) :
                e.text[i][1] \notin {"secret", "inject", "prose", "script", "break"}
         /\ \A r \in ToSet(s) :
                LET quotable == r.status = "published" /\ r.flags = {}
                    where == {i \in 1 .. Len(r.texts) : Includes(r.texts[i], e.text)}
                IN  /\ r.id \in e.records => quotable /\ where \cap e.sections # {}
                    /\ r.id \in FactsOf(s).ids /\ quotable /\ r.id \notin e.records =>
                           \A i \in where : \A x \in ExtractSnippets(r.texts[i]) :
                               x.kind # e.kind \/ x.text # e.text
  <1> DEFINE m == ScreenMaterial(s)
             snippets == Snippets(m)
             same == {o \in snippets : o.kind = e.kind /\ o.text = e.text}
  <1>1. PICK p \in snippets : e = EvidenceOf(snippets, p)
    BY EvidenceIn
  <1>2. /\ e.kind = p.kind /\ e.text = p.text /\ p \in same
        /\ e.records = {o.record : o \in same} /\ e.sections = {o.section : o \in same}
    <2> HIDE DEF snippets
    <2>1. e.kind = p.kind /\ e.text = p.text
      BY <1>1 DEF EvidenceOf
    <2> QED BY <1>1, <2>1 DEF EvidenceOf
  <1>3. /\ ToSet(m) = Screened(s) /\ \A r \in Screened(s) : r \in ToSet(s)
    BY MaterialKnown
  <1>4. FactsOf(s).ids = {r.id : r \in Screened(s)}
    BY DEF FactsOf, FactPack
  <1> HIDE DEF m
  <1>5. ASSUME NEW o \in snippets
        PROVE  \E r \in ToSet(s), i \in Nat :
                  /\ i \in 1 .. Len(r.texts) /\ r.status = "published" /\ r.flags = {}
                  /\ o.record = r.id /\ o.section = i /\ Includes(r.texts[i], o.text)
                  /\ \A k \in 1 .. Len(o.text) :
                         o.text[k][1] \notin {"secret", "inject", "prose", "script", "break"}
    <2>1. PICK r \in ToSet(m) : IsQuotable(r) /\ \E i \in 1 .. Len(r.texts) :
             \E x \in ExtractSnippets(r.texts[i]) :
                 o = [kind |-> x.kind, text |-> x.text, section |-> i, record |-> r.id]
      BY SnippetsOf
    <2>2. PICK i \in 1 .. Len(r.texts) : \E x \in ExtractSnippets(r.texts[i]) :
                 o = [kind |-> x.kind, text |-> x.text, section |-> i, record |-> r.id]
      BY <2>1
    <2>3. PICK x \in ExtractSnippets(r.texts[i]) :
                 o = [kind |-> x.kind, text |-> x.text, section |-> i, record |-> r.id]
      BY <2>2
    <2>4. o.text = x.text /\ o.section = i /\ o.record = r.id
      BY <2>3
    <2>5. r \in ToSet(s) /\ ExclusionReason(r) = "none"
      BY <1>3 DEF Screened
    <2>6. r.status = "published" /\ r.flags = {}
      BY <2>1, <2>5 DEF ExclusionReason, IsQuotable
    <2>7. r.texts \in Seq(Text)
      BY <2>5, RecordsOf
    <2>8. r.texts[i] \in Text
      BY <2>7, ItemsOf
    <2>9. IsExtract(r.texts[i], x)
      BY <2>8, ExtractedSnippets
    <2>10. Includes(r.texts[i], x.text) /\
           \A k \in 1 .. Len(x.text) :
               x.text[k][1] \notin {"secret", "inject", "prose", "script", "break"}
      BY <2>9 DEF IsExtract, IsSnippet
    <2>11. i \in Nat
      OBVIOUS
    <2> QED BY <2>4, <2>5, <2>6, <2>10, <2>11
  <1>6. ASSUME NEW r \in Screened(s), IsQuotable(r), NEW i \in 1 .. Len(r.texts),
               NEW x \in ExtractSnippets(r.texts[i])
        PROVE  \E o \in snippets : o.kind = x.kind /\ o.text = x.text /\ o.record = r.id
    <2> DEFINE o == [kind |-> x.kind, text |-> x.text, section |-> i, record |-> r.id]
    <2>1. o \in snippets
      BY <1>3, <1>6, SnippetsOf
    <2> QED BY <2>1
  <1> HIDE DEF snippets
  <1>7. e.records # {}
    BY <1>2
  <1>8. \A i \in 1 .. Len(e.text) : e.text[i][1] \notin {"secret", "inject", "prose", "script", "break"}
    BY <1>2, <1>5
  <1>9. \A r, q \in ToSet(s) : r.id = q.id => r = q
    BY RecordsOf
  <1>10. ASSUME NEW r \in ToSet(s), r.id \in e.records
         PROVE  /\ r.status = "published" /\ r.flags = {}
                /\ \E i \in 1 .. Len(r.texts) : Includes(r.texts[i], e.text) /\ i \in e.sections
    <2>1. PICK o \in same : o.record = r.id
      BY <1>2, <1>10
    <2>2. o \in snippets /\ o.text = e.text /\ o.section \in e.sections
      BY <1>2
    <2>3. PICK q \in ToSet(s) : \E i \in Nat :
                  /\ i \in 1 .. Len(q.texts) /\ q.status = "published" /\ q.flags = {}
                  /\ o.record = q.id /\ o.section = i /\ Includes(q.texts[i], o.text)
      BY <1>5, <2>2
    <2>4. q = r
      BY <1>9, <2>1, <2>3
    <2> QED BY <2>2, <2>3, <2>4
  <1>11. ASSUME NEW r \in ToSet(s), r.id \in FactsOf(s).ids, r.flags = {},
                r.id \notin e.records, NEW i \in 1 .. Len(r.texts),
                NEW x \in ExtractSnippets(r.texts[i])
         PROVE  x.kind # e.kind \/ x.text # e.text
    <2> SUFFICES ASSUME x.kind = e.kind, x.text = e.text PROVE FALSE
      OBVIOUS
    <2>1. r \in Screened(s)
      BY <1>3, <1>4, <1>9, <1>11
    <2>2. PICK o \in snippets : o.kind = x.kind /\ o.text = x.text /\ o.record = r.id
      BY <1>6, <1>11, <2>1 DEF IsQuotable
    <2> QED BY <1>2, <1>11, <2>2
  <1> QED BY <1>7, <1>8, <1>10, <1>11

\* The counts of a pack agree with each other and with its charts.
LEMMA PackAddsUp ==
  ASSUME sources \in Sources, Screened(sources) # {}, NEW for \in ArticleKinds
  PROVE  AddsUp(FactsOf(sources), BuildCharts(for, FactsOf(sources)))
  <1> DEFINE f == FactsOf(sources)
             m == ScreenMaterial(sources)
             d == f.divergence
             excluded == {[record |-> r.id, reason |-> ExclusionReason(r)] :
                             r \in {x \in ToSet(sources) : ExclusionReason(x) # "none"}}
  <1>1. /\ f.records = Len(m) /\ f.period = Period(m) /\ f.severity = SeverityDistribution(m)
        /\ f.project = ProjectDistribution(m) /\ f.recurrence = Recurrence(m)
        /\ d = DivergenceFacts(m) /\ f.excluded = excluded
        /\ f.incidents = Cardinality(OfType(m, "incident"))
        /\ f.divergences = Cardinality(OfType(m, "divergence"))
    BY DEF FactsOf, FactPack
  <1>2. Cardinality(Screened(sources)) + Cardinality(excluded) = Len(sources)
    BY RecordsCounted
  <1>3. /\ m \in Seq(Screened(sources)) /\ Len(m) = Cardinality(Screened(sources))
        /\ m # << >> /\ \A r \in Screened(sources) : IsMaterial(r)
    BY MaterialKnown
  <1>4. \A c \in ToSet(BuildCharts(for, f)) :
            /\ c.type \in {"occurrences", "weekly"} => ValuesOf(c.data) = f.records
            /\ c.type = "intervals" =>
                   Spans(ValuesOf(c.data), f.period.span, Len(f.recurrence.intervals))
            /\ c.type = "corrections" =>
                   FoldSet(LAMBDA p, sum : sum + p.count, 0, c.data) = d.count
    BY ChartsAddUp
  <1>5. Len(f.citations) < MaxCitations /\ Len(f.signals) < MaxSignals =>
            f.withoutEvidence = Cardinality({id \in f.ids :
                \A e \in ToSet(f.citations \o f.signals) : id \notin e.records})
    BY UnquotedCounted
  <1> HIDE DEF f, m, excluded
  <1>6. f.records + Cardinality(f.excluded) = Len(sources)
    BY <1>1, <1>2, <1>3
  <1>7. f.incidents + f.divergences = f.records
    BY <1>1, <1>3, TypesCounted
  <1>8. f.divergences = d.count /\ Total(Counts(d.categories)) = d.count
    <2> DEFINE g == DivergenceFacts(m)
    <2>1. /\ Total(Counts(g.categories)) = Len(Divergences(m)) /\ g.count = Len(Divergences(m))
          /\ Len(Divergences(m)) = Cardinality(OfType(m, "divergence"))
      BY <1>3, DivergencesOf, CategoriesCounted
    <2>2. d = g
      BY <1>1
    <2> HIDE DEF g, d
    <2> QED BY <1>1, <2>1, <2>2
  <1>9. Total(Counts(f.severity)) = f.records /\ Total(Counts(f.project)) <= f.records
    BY <1>1, <1>3, SeveritiesCounted, ProjectsCounted
  <1>10. LET celled == FoldSet(LAMBDA c, sum : sum + c.count, 0, d.cells)
         IN  /\ Total(Counts(d.byModel)) <= celled
             /\ Cardinality({c.row : c \in d.cells}) <= MaxDistributionKeys =>
                    celled = Total(Counts(d.byModel))
    BY <1>1, <1>3, ModelsCounted
  <1>11. /\ Spans(Total(f.recurrence.intervals), f.period.span, Len(f.recurrence.intervals))
         /\ Len(f.recurrence.intervals) = f.records - 1
    BY <1>1, <1>3, IntervalsCounted
  <1> QED BY <1>4, <1>5, <1>6, <1>7, <1>8, <1>9, <1>10, <1>11 DEF AddsUp, f

-----------------------------------------------------------------------------
(* The facts: what the machine keeps.                                      *)

\* What a pack holds is what its sources give for its kind of article.
PackKept ==
    pack.status = "ok" => /\ kind \in ArticleKinds /\ sources \in Sources
                          /\ Screened(sources) # {} /\ pack.facts = FactsOf(sources)
                          /\ pack.charts = BuildCharts(kind, FactsOf(sources))

LEMMA KeptIsSourced ==
  ASSUME PackKept
  PROVE  FactsAreSourced
  <1> SUFFICES ASSUME pack.status = "ok" PROVE FactsAreSourced
    BY DEF FactsAreSourced
  <1> DEFINE f == FactsOf(sources)
             IsEvidence(e) ==
                /\ e.records # {}
                /\ \A i \in 1 .. Len(e.text) :
                       e.text[i][1] \notin {"secret", "inject", "prose", "script", "break"}
                /\ \A r \in ToSet(sources) :
                       LET quotable == r.status = "published" /\ r.flags = {}
                           where == {i \in 1 .. Len(r.texts) : Includes(r.texts[i], e.text)}
                       IN  /\ r.id \in e.records => quotable /\ where \cap e.sections # {}
                           /\ r.id \in f.ids /\ quotable /\ r.id \notin e.records =>
                                  \A i \in where : \A s \in ExtractSnippets(r.texts[i]) :
                                      s.kind # e.kind \/ s.text # e.text
  <1>1. /\ kind \in ArticleKinds /\ sources \in Sources /\ Screened(sources) # {}
        /\ pack.facts = f /\ pack.charts = BuildCharts(kind, f)
    BY DEF PackKept
  <1>2. AddsUp(f, BuildCharts(kind, f))
    BY <1>1, PackAddsUp
  <1>3. \A e \in ToSet(f.citations) \cup ToSet(f.signals) : IsEvidence(e)
    BY <1>1, EvidenceIsSourced
  <1> HIDE DEF f
  <1>4. AddsUp(pack.facts, pack.charts)
    BY <1>1, <1>2
  <1>5. \A e \in ToSet(pack.facts.citations) \cup ToSet(pack.facts.signals) : IsEvidence(e)
    BY <1>1, <1>3
  <1> QED BY <1>1, <1>4, <1>5 DEF FactsAreSourced

\* aggregate.ts:31-44, 58-63, 83-92, 136-173, 191-254, charts.ts:92-224,
\* extract.ts:139-141, 188-206, 246-286: whatever records an article is about, its
\* facts add up, in every count and in every chart, the models when there are no
\* more of them than are listed and the days as far as they are rounded; and every
\* piece of evidence stands in a section of each published and unflagged record
\* it names, free of secrets, orders, prose and foreign script.
THEOREM FactsStaySourced == DraftingSpec => []FactsAreSourced
  <1>1. DraftingInit => PackKept
    BY DEF DraftingInit, FactsInit, NoPack, PackKept
  <1>2. PackKept /\ [DraftingNext]_draftingVars => PackKept'
    <2> SUFFICES ASSUME PackKept, [DraftingNext]_draftingVars PROVE PackKept'
      OBVIOUS
    <2>1. CASE Extract
      <3>1. /\ kind' \in ArticleKinds /\ sources' \in Sources
            /\ pack' = ExtractFacts(kind', sources')
        BY <2>1 DEF Extract
      <3> QED BY <3>1, PackOf DEF PackKept
    <2>2. CASE UNCHANGED factsVars
      BY <2>2 DEF factsVars, PackKept
    <2> QED BY <2>1, <2>2 DEF DraftingNext, draftingVars
  <1>3. PackKept => FactsAreSourced
    BY KeptIsSourced
  <1> QED BY <1>1, <1>2, <1>3, PTL DEF DraftingSpec

-----------------------------------------------------------------------------
(* The drafts: what the facts allow is true of the records.                *)

QuotableIn(s) == {r \in ToSet(s) : r.status = "published" /\ r.flags = {}}

ToldIn(s, tokenKind) ==
    {t[2] : t \in {x \in UNION {UNION {ToSet(r.texts[i]) : i \in 1 .. Len(r.texts)} :
                                      r \in QuotableIn(s)} : x[1] = tokenKind}}

DaysIn(s) == {Day(r.created) : r \in ToSet(s)} \cup {Day(r.updated) : r \in ToSet(s)}
             \cup ToldIn(s, "date")
IdsIn(s) == {r.id : r \in ToSet(s)}
            \cup (UNION {{l.target : l \in r.relations} : r \in ToSet(s)}) \cup ToldIn(s, "id")

\* A token that names no other day or record than the records do.
IsTrueIn(s, t) ==
    /\ t[1] = "date" => t[2] \in DaysIn(s)
    /\ t[1] = "id" => t[2] \in IdsIn(s)

Standing == {"id", "word", "date", "term", "severity", "path"}

StandsIn(s, text) ==
    \/ Len(text) = 1 /\ text[1][1] \in Standing
    \/ \E r \in QuotableIn(s) : \E i \in 1 .. Len(r.texts) : Includes(r.texts[i], text)

\* What is shown is true, and stands in the records.
IsSourced(s, text) == StandsIn(s, text) /\ \A k \in 1 .. Len(text) : IsTrueIn(s, text[k])

\* A text of a record that may be quoted is sourced.
LEMMA TextIsSourced ==
  ASSUME NEW s \in Sources, NEW r \in QuotableIn(s), NEW i \in 1 .. Len(r.texts), NEW x \in Text,
         Includes(r.texts[i], x)
  PROVE  IsSourced(s, x)
  <1>1. r \in ToSet(s) /\ r.texts[i] \in Text
    <2>1. r \in ToSet(s) /\ r.texts \in Seq(Text)
      BY RecordsOf DEF QuotableIn
    <2> QED BY <2>1, ItemsOf
  <1>2. StandsIn(s, x)
    BY DEF StandsIn
  <1>3. ASSUME NEW k \in 1 .. Len(x) PROVE IsTrueIn(s, x[k])
    <2> DEFINE All == UNION {UNION {ToSet(q.texts[j]) : j \in 1 .. Len(q.texts)} :
                                q \in QuotableIn(s)}
    <2>1. PICK j \in 1 .. Len(r.texts[i]) : r.texts[i][j] = x[k]
      BY <1>1, TokenIncluded
    <2>2. x[k] \in ToSet(r.texts[i])
      <3>1. DOMAIN r.texts[i] = 1 .. Len(r.texts[i])
        BY <1>1 DEF Text
      <3> QED BY <2>1, <3>1 DEF ToSet
    <2>3. x[k] \in All
      <3>1. ToSet(r.texts[i]) \in {ToSet(r.texts[n]) : n \in 1 .. Len(r.texts)}
        OBVIOUS
      <3>2. x[k] \in UNION {ToSet(r.texts[n]) : n \in 1 .. Len(r.texts)}
        BY <2>2, <3>1
      <3> QED BY <3>2
    <2>4. ASSUME NEW kd, x[k][1] = kd PROVE x[k][2] \in ToldIn(s, kd)
      <3>1. ToldIn(s, kd) = {t[2] : t \in {y \in All : y[1] = kd}}
        BY DEF ToldIn
      <3> HIDE DEF All
      <3> QED BY <2>3, <2>4, <3>1
    <2>5. x[k][1] = "date" => x[k][2] \in ToldIn(s, "date")
      BY <2>4
    <2>6. x[k][1] = "id" => x[k][2] \in ToldIn(s, "id")
      BY <2>4
    <2>7. x[k][1] = "date" => x[k][2] \in DaysIn(s)
      BY <2>5 DEF DaysIn
    <2>8. x[k][1] = "id" => x[k][2] \in IdsIn(s)
      BY <2>6 DEF IdsIn
    <2> HIDE DEF All
    <2> QED BY <2>7, <2>8 DEF IsTrueIn
  <1> QED BY <1>2, <1>3 DEF IsSourced

\* The times a pack names are those of its records.
LEMMA TimesAreTold ==
  ASSUME NEW s \in Sources, Screened(s) # {}, NEW at \in Instances(FactsOf(s))
  PROVE  \E r \in ToSet(s) : at = r.created \/ at = r.updated
  <1> DEFINE m == ScreenMaterial(s)
             f == FactsOf(s)
  <1>1. /\ m \in Seq(Screened(s)) /\ ToSet(m) = Screened(s) /\ Screened(s) \subseteq ToSet(s)
        /\ IsFiniteSet(ToSet(m))
    BY MaterialOf
  <1>2. f.period = Period(m) /\ f.timeline = Timeline(m)
    BY DEF FactsOf, FactPack
  <1>3. \A r \in Screened(s) : /\ r \in ToSet(s) /\ r.id \in Nat /\ r.created \in Nat
                               /\ r.updated \in Nat
    BY <1>1, RecordsOf
  <1> HIDE DEF m, f
  <1>4. /\ Instants(m) \in Seq(Nat) /\ Len(Instants(m)) = Len(m)
        /\ \A k \in 1 .. Len(m) : \E i \in 1 .. Len(m) : Instants(m)[k] = m[i].created
    BY <1>1, <1>3, InstantsOf
  <1>5. Len(m) \in Nat /\ Len(m) # 0 /\ \A i \in 1 .. Len(m) : m[i] \in Screened(s)
    <2>1. Len(m) \in Nat /\ DOMAIN m = 1 .. Len(m) /\ \A i \in 1 .. Len(m) : m[i] \in Screened(s)
      BY <1>1, ItemsOf
    <2>2. PICK r : r \in ToSet(m)
      BY <1>1
    <2>3. PICK i \in DOMAIN m : r = m[i]
      BY <2>2 DEF ToSet
    <2> QED BY <2>1, <2>3
  <1>6. \A k \in 1 .. Len(m) : \E r \in ToSet(s) : Instants(m)[k] = r.created
    BY <1>3, <1>4, <1>5
  <1>7. f.period.first = Instants(m)[1] /\ f.period.last = Instants(m)[Len(m)]
    <2>1. Period(m).first = Head(Instants(m)) /\ Period(m).last = Last(Instants(m))
      BY DEF Period
    <2>2. Head(Instants(m)) = Instants(m)[1]
      BY <1>4, <1>5
    <2>3. Last(Instants(m)) = Instants(m)[Len(m)]
      BY <1>4 DEF Last
    <2> QED BY <1>2, <2>1, <2>2, <2>3
  <1>8. CASE at \in {f.period.first, f.period.last}
    <2>1. 1 \in 1 .. Len(m) /\ Len(m) \in 1 .. Len(m)
      BY <1>5
    <2> QED BY <1>6, <1>7, <1>8, <2>1
  <1>9. CASE \E e \in ToSet(f.timeline) : at = e.at
    <2>1. PICK e \in ToSet(Timeline(m)) : at = e.at
      BY <1>2, <1>9
    <2>2. e \in CreatedEntries(ToSet(m)) \cup UpdatedEntries(ToSet(m))
      BY <1>1, <1>3, TimelineOf
    <2>3. \E r \in ToSet(m) : e.at = r.created \/ e.at = r.updated
      BY <2>2 DEF CreatedEntries, UpdatedEntries, EntryOf
    <2> QED BY <1>1, <2>1, <2>3
  <1> QED BY <1>8, <1>9 DEF Instances, f

\* The record ids a pack names are of its records, or of those they are related to.
LEMMA IdsAreTold ==
  ASSUME NEW s \in Sources, NEW id \in NamedIds(FactsOf(s))
  PROVE  id \in IdsIn(s)
  <1> DEFINE m == ScreenMaterial(s)
             f == FactsOf(s)
  <1>1. ToSet(m) = Screened(s) /\ Screened(s) \subseteq ToSet(s)
    BY MaterialOf
  <1>2. /\ f.ids = {r.id : r \in Screened(s)} /\ f.recurrence = Recurrence(m)
        /\ f.excluded = {[record |-> r.id, reason |-> ExclusionReason(r)] :
                            r \in {x \in ToSet(s) : ExclusionReason(x) # "none"}}
    BY DEF FactsOf, FactPack
  <1> HIDE DEF f
  <1>3. CASE id \in f.ids
    BY <1>1, <1>2, <1>3 DEF IdsIn
  <1>4. CASE id \in {x.record : x \in f.excluded}
    BY <1>2, <1>4 DEF IdsIn
  <1>5. CASE id \in UNION {{l.record, l.target} : l \in f.recurrence.links}
    <2> DEFINE ids == {r.id : r \in ToSet(m)}
               Of(r) == {[record |-> r.id, type |-> l.type, target |-> l.target,
                          within |-> l.target \in ids] :
                            l \in {x \in r.relations : x.type \in RecurrenceRelations}}
    <2>1. f.recurrence.links = UNION {Of(r) : r \in ToSet(m)}
      BY <1>2 DEF Recurrence
    <2>2. PICK l \in f.recurrence.links : id \in {l.record, l.target}
      BY <1>5
    <2>3. PICK r \in ToSet(m) : l \in Of(r)
      <3> HIDE DEF Of, m
      <3> QED BY <2>1, <2>2
    <2>4. PICK k \in r.relations : l.record = r.id /\ l.target = k.target
      BY <2>3
    <2>5. r \in ToSet(s)
      BY <1>1
    <2>6. l.target \in UNION {{x.target : x \in q.relations} : q \in ToSet(s)}
      <3>1. l.target \in {x.target : x \in r.relations}
        BY <2>4
      <3> QED BY <2>5, <3>1
    <2> QED BY <2>2, <2>4, <2>5, <2>6 DEF IdsIn
  <1> QED BY <1>3, <1>4, <1>5 DEF NamedIds, f

\* What stands alone for one thing.
Alone(f) ==
    Vocabulary \cup ({"id"} \X NamedIds(f)) \cup ({"word"} \X NamedLabels(f))
    \cup ({"date"} \X {Day(at) : at \in Instances(f)})
    \cup {c.marker : c \in ToSet(f.divergence.corrections)}

LEMMA AloneIsTrue ==
  ASSUME NEW s \in Sources, Screened(s) # {}, NEW t \in Alone(FactsOf(s))
  PROVE  t[1] \in Standing /\ IsTrueIn(s, t)
  <1> DEFINE f == FactsOf(s)
  <1> HIDE DEF f
  <1>1. CASE t \in Vocabulary
    BY <1>1 DEF Vocabulary, Standing, IsTrueIn
  <1>2. CASE t \in {"id"} \X NamedIds(f)
    <2>1. t[1] = "id" /\ t[2] \in NamedIds(f)
      BY <1>2
    <2>2. t[2] \in IdsIn(s)
      BY <2>1, IdsAreTold DEF f
    <2> QED BY <2>1, <2>2 DEF Standing, IsTrueIn
  <1>3. CASE t \in {"word"} \X NamedLabels(f)
    BY <1>3 DEF Standing, IsTrueIn
  <1>4. CASE t \in {"date"} \X {Day(at) : at \in Instances(f)}
    <2>1. PICK at \in Instances(f) : t[1] = "date" /\ t[2] = Day(at)
      BY <1>4
    <2>2. PICK r \in ToSet(s) : at = r.created \/ at = r.updated
      BY TimesAreTold DEF f
    <2>3. t[2] \in DaysIn(s)
      BY <2>1, <2>2 DEF DaysIn
    <2> QED BY <2>1, <2>3 DEF Standing, IsTrueIn
  <1>5. CASE t \in {c.marker : c \in ToSet(f.divergence.corrections)}
    <2>1. PICK c \in ToSet(f.divergence.corrections) : t = c.marker
      BY <1>5
    <2> DEFINE m == ScreenMaterial(s)
               d == Picked(m, OfType(m, "divergence"))
    <2>2. f.divergence.corrections = Corrections(d)
      <3>1. f.divergence = DivergenceFacts(m)
        BY DEF f, FactsOf, FactPack
      <3> QED BY <3>1 DEF DivergenceFacts
    <2> HIDE DEF d
    <2>3. \E i \in 1 .. Len(d) : c = ClassifyCorrection(d[i])
      BY <2>1, <2>2 DEF Corrections, ToSet
    <2>4. PICK r : c = ClassifyCorrection(r)
      BY <2>3
    <2>5. t[1] \in {"term", "path"}
      BY <2>1, <2>4 DEF ClassifyCorrection, NoMarker
    <2> QED BY <2>5 DEF Standing, IsTrueIn
  <1> QED BY <1>1, <1>2, <1>3, <1>4, <1>5 DEF Alone, f

\* Where a fact was found: in a record that may be quoted.
LEMMA EvidenceStands ==
  ASSUME NEW s \in Sources, NEW e \in Evidence(FactsOf(s))
  PROVE  \E r \in QuotableIn(s) : \E i \in 1 .. Len(r.texts) :
             r.texts[i] \in Text /\ e.text \in Text /\ Includes(r.texts[i], e.text)
  <1> DEFINE m == ScreenMaterial(s)
             snippets == Snippets(m)
             S == {EvidenceOf(snippets, p) : p \in snippets}
  <1>1. e \in S
    <2>1. ToSet(FactsOf(s).citations) \cup ToSet(FactsOf(s).signals) \subseteq S
      BY EvidenceIn
    <2> QED BY <2>1 DEF Evidence
  <1>2. PICK p \in snippets : e.text = p.text
    <2>1. PICK p \in snippets : e = EvidenceOf(snippets, p)
      BY <1>1
    <2> QED BY <2>1 DEF EvidenceOf
  <1>3. ToSet(m) = Screened(s) /\ Screened(s) \subseteq ToSet(s)
    BY MaterialOf
  <1> HIDE DEF m
  <1>4. PICK r \in ToSet(m) : IsQuotable(r) /\ \E i \in 1 .. Len(r.texts) :
             \E x \in ExtractSnippets(r.texts[i]) :
                 p = [kind |-> x.kind, text |-> x.text, section |-> i, record |-> r.id]
    BY SnippetsOf
  <1>5. PICK i \in 1 .. Len(r.texts) : \E x \in ExtractSnippets(r.texts[i]) :
                 p = [kind |-> x.kind, text |-> x.text, section |-> i, record |-> r.id]
    BY <1>4
  <1>6. PICK x \in ExtractSnippets(r.texts[i]) : p.text = x.text
    BY <1>5
  <1>7. r \in QuotableIn(s) /\ r.texts \in Seq(Text)
    <2>1. r \in ToSet(s) /\ ExclusionReason(r) = "none"
      BY <1>3 DEF Screened
    <2>2. r.status = "published"
      BY <2>1 DEF ExclusionReason
    <2> QED BY <1>4, <2>1, <2>2, RecordsOf DEF QuotableIn, IsQuotable
  <1>8. r.texts[i] \in Text
    BY <1>7, ItemsOf
  <1>9. x.text \in Text /\ Includes(r.texts[i], x.text)
    BY <1>8, ExtractedSnippets DEF IsExtract, IsSnippet
  <1> QED BY <1>2, <1>6, <1>7, <1>8, <1>9

\* buildAllowedFacts and isGroundedString: what is grounded is sourced.
LEMMA AllowedIsTrue ==
  ASSUME NEW s \in Sources, Screened(s) # {}
  PROVE  LET allowed == AllowedFacts(FactsOf(s))
         IN  /\ allowed.dates \subseteq DaysIn(s) /\ allowed.ids \subseteq IdsIn(s)
             /\ \A x \in Text : x # << >> /\ IsGrounded(x, allowed) => IsSourced(s, x)
  <1> DEFINE f == FactsOf(s)
             allowed == AllowedFacts(f)
  <1>1. allowed.dates = {Day(at) : at \in Instances(f)} /\ allowed.ids = f.ids
        /\ allowed.strings = FactStrings(f)
    BY DEF AllowedFacts
  <1>2. FactStrings(f) = {<<t>> : t \in Alone(f)} \cup {e.text : e \in Evidence(f)}
    BY DEF FactStrings, Alone
  <1> HIDE DEF f, allowed
  <1>3. allowed.dates \subseteq DaysIn(s)
    BY <1>1, TimesAreTold DEF DaysIn, f
  <1>4. allowed.ids \subseteq IdsIn(s)
    <2>1. f.ids \subseteq NamedIds(f)
      BY DEF NamedIds
    <2> QED BY <1>1, <2>1, IdsAreTold DEF f
  <1>5. ASSUME NEW x \in Text, x # << >>, IsGrounded(x, allowed) PROVE IsSourced(s, x)
    <2>1. Len(x) \in Nat \ {0}
      BY <1>5 DEF Text
    <2>2. PICK g \in FactStrings(f) : Includes(g, x)
      BY <1>1, <1>5 DEF IsGrounded
    <2>3. CASE g \in {<<t>> : t \in Alone(f)}
      <3>1. PICK t \in Alone(f) : g = <<t>>
        BY <2>3
      <3>2. Len(g) = 1 /\ g[1] = t
        BY <3>1
      <3>3. PICK i \in 1 .. Len(g) - Len(x) + 1 : SubSeq(g, i, i + Len(x) - 1) = x
        BY <2>2 DEF Includes
      <3>4. Len(x) = 1 /\ i = 1
        BY <2>1, <3>2, <3>3
      <3>5. x = <<t>>
        BY <3>1, <3>3, <3>4
      <3>6. t[1] \in Standing /\ IsTrueIn(s, t)
        BY AloneIsTrue DEF f
      <3>7. x[1] = t
        BY <3>5
      <3>8. \A k \in 1 .. Len(x) : k = 1
        BY <3>4
      <3> QED BY <3>4, <3>6, <3>7, <3>8 DEF IsSourced, StandsIn
    <2>4. CASE g \in {e.text : e \in Evidence(f)}
      <3>1. PICK e \in Evidence(f) : g = e.text
        BY <2>4
      <3>4. PICK r \in QuotableIn(s) : \E i \in 1 .. Len(r.texts) :
               r.texts[i] \in Text /\ g \in Text /\ Includes(r.texts[i], g)
        BY <3>1, EvidenceStands DEF f
      <3>2. PICK i \in 1 .. Len(r.texts) :
               r.texts[i] \in Text /\ g \in Text /\ Includes(r.texts[i], g)
        BY <3>4
      <3>3. Includes(r.texts[i], x)
        BY <2>2, <3>2, IncludesChain
      <3> QED BY <3>3, TextIsSourced
    <2> QED BY <1>2, <2>2, <2>3, <2>4
  <1> QED BY <1>3, <1>4, <1>5 DEF allowed, f

-----------------------------------------------------------------------------
(* The drafts: the lines of a text.                                        *)

LEMMA LastReplaced ==
  ASSUME NEW S, NEW list \in Seq(S), list # << >>, NEW x \in S
  PROVE  LET new == Append(Front(list), x)
         IN  /\ new \in Seq(S) /\ Len(new) = Len(list) /\ new[Len(list)] = x
             /\ \A i \in 1 .. Len(list) - 1 : new[i] = list[i]
  <1> DEFINE n == Len(list) - 1
             front == SubSeq(list, 1, n)
             new == Append(front, x)
  <1>1. n \in Nat /\ Len(list) = n + 1 /\ \A i \in 1 .. n : list[i] \in S
    BY ItemsOf
  <1>2. Front(list) = front
    BY DEF Front
  <1> HIDE DEF n
  <1>3. front \in Seq(S) /\ Len(front) = n /\ \A i \in 1 .. n : front[i] = list[i]
    <2>1. /\ front \in Seq(S) /\ Len(front) = IF 1 <= n THEN n - 1 + 1 ELSE 0
          /\ \A i \in 1 .. n - 1 + 1 : front[i] = list[1 + i - 1]
      BY <1>1, SubSeqProperties
    <2>2. n - 1 + 1 = n /\ \A i \in 1 .. n : 1 + i - 1 = i
      BY <1>1
    <2> HIDE DEF front
    <2>3. Len(front) = n
      BY <1>1, <2>1, <2>2
    <2> QED BY <2>1, <2>2, <2>3
  <1> HIDE DEF front
  <1>4. /\ new \in Seq(S) /\ Len(new) = n + 1 /\ new[n + 1] = x
        /\ \A i \in 1 .. n : new[i] = front[i]
    BY <1>1, <1>3, AppendProperties
  <1>5. \A i \in 1 .. Len(list) - 1 : i \in 1 .. n
    BY <1>1
  <1> HIDE DEF new
  <1> QED BY <1>1, <1>2, <1>3, <1>4, <1>5 DEF new

Split(tokenKind, parts, t) ==
    IF t[1] = tokenKind THEN Append(parts, << >>) ELSE Append(Front(parts), Append(Last(parts), t))

Splitting == INSTANCE Folding WITH Op <- LAMBDA given, parts, t : Split(given, parts, t)

\* The parts hold the first n tokens of a text, but for those they are split at.
InPart(parts, t) == \E i \in 1 .. Len(parts) : \E c \in 1 .. Len(parts[i]) : parts[i][c] = t

PartsHold(text, tokenKind, n, parts) ==
    /\ parts \in Seq(Text) /\ parts # << >>
    /\ \A j \in 1 .. n : text[j][1] # tokenKind => InPart(parts, text[j])
    /\ \A i \in 1 .. Len(parts) : \A c \in 1 .. Len(parts[i]) :
           \E j \in 1 .. n : parts[i][c] = text[j] /\ text[j][1] # tokenKind

LEMMA SplitHolds ==
  ASSUME NEW text \in Text, NEW tokenKind, NEW n \in Nat, n + 1 <= Len(text), NEW parts,
         PartsHold(text, tokenKind, n, parts)
  PROVE  PartsHold(text, tokenKind, n + 1, Split(tokenKind, parts, text[n + 1]))
  <1> DEFINE t == text[n + 1]
             L == Len(parts)
             new == Split(tokenKind, parts, t)
  <1>1. /\ parts \in Seq(Text) /\ parts # << >> /\ L \in Nat \ {0}
        /\ \A i \in 1 .. L : parts[i] \in Text
        /\ \A j \in 1 .. n : text[j][1] # tokenKind => InPart(parts, text[j])
        /\ \A i \in 1 .. L : \A c \in 1 .. Len(parts[i]) :
              \E j \in 1 .. n : parts[i][c] = text[j] /\ text[j][1] # tokenKind
    BY ItemsOf DEF PartsHold
  <1>2. t \in Token /\ \A j \in 1 .. n + 1 : j \in 1 .. n \/ j = n + 1
    BY DEF Text
  <1>3. \A j \in 1 .. n : j \in 1 .. n + 1
    OBVIOUS
  <1>4. CASE t[1] = tokenKind
    <2>1. new = Append(parts, << >>) /\ << >> \in Text
      BY <1>4 DEF Split, Text
    <2>2. /\ new \in Seq(Text) /\ Len(new) = L + 1 /\ new[L + 1] = << >>
          /\ \A i \in 1 .. L : new[i] = parts[i]
      BY <1>1, <2>1, AppendProperties
    <2> HIDE DEF new, t, L
    <2>3. new # << >> /\ \A i \in 1 .. L : i \in 1 .. L + 1
      BY <1>1, <2>2
    <2>7. ASSUME NEW u, InPart(parts, u) PROVE InPart(new, u)
      <3>1. PICK i \in 1 .. L : \E c \in 1 .. Len(parts[i]) : parts[i][c] = u
        BY <2>7 DEF InPart, L
      <3>2. i \in 1 .. Len(new) /\ new[i] = parts[i]
        BY <2>2, <2>3
      <3> QED BY <3>1, <3>2 DEF InPart
    <2>4. \A j \in 1 .. n : text[j][1] # tokenKind => InPart(new, text[j])
      BY <1>1, <2>7
    <2>5. \A j \in 1 .. n + 1 : text[j][1] # tokenKind => InPart(new, text[j])
      BY <1>2, <1>4, <2>4 DEF t
    <2>6. ASSUME NEW i \in 1 .. Len(new), NEW c \in 1 .. Len(new[i])
          PROVE  \E j \in 1 .. n + 1 : new[i][c] = text[j] /\ text[j][1] # tokenKind
      <3>1. i # L + 1
        <4>1. Len(<< >>) = 0
          OBVIOUS
        <4> QED BY <2>2, <4>1
      <3>2. i \in 1 .. L /\ new[i] = parts[i]
        BY <1>1, <2>2, <3>1
      <3>3. PICK j \in 1 .. n : parts[i][c] = text[j] /\ text[j][1] # tokenKind
        BY <1>1, <3>2
      <3> QED BY <1>3, <3>2, <3>3
    <2> QED BY <2>2, <2>3, <2>5, <2>6 DEF PartsHold, new, t
  <1>5. CASE t[1] # tokenKind
    <2> DEFINE line == Append(parts[L], t)
               m == Len(parts[L])
    <2>1. /\ line \in Text /\ Len(line) = m + 1 /\ line[m + 1] = t /\ m \in Nat
          /\ \A c \in 1 .. m : line[c] = parts[L][c]
      <3>1. parts[L] \in Seq(Token) /\ t \in Token
        BY <1>1, <1>2 DEF Text
      <3> QED BY <3>1, AppendProperties DEF Text
    <2>2. new = Append(Front(parts), line)
      BY <1>5 DEF Split, Last
    <2> HIDE DEF line, m
    <2>3. /\ new \in Seq(Text) /\ Len(new) = L /\ new[L] = line
          /\ \A i \in 1 .. L - 1 : new[i] = parts[i]
      BY <1>1, <2>1, <2>2, LastReplaced
    <2> HIDE DEF new, t, L
    <2>4. new # << >>
      BY <1>1, <2>3
    <2>5. \A i \in 1 .. L : i \in 1 .. L - 1 \/ i = L
      BY <1>1
    <2>6. ASSUME NEW u, InPart(parts, u) PROVE InPart(new, u)
      <3>1. PICK i \in 1 .. L : \E c \in 1 .. Len(parts[i]) : parts[i][c] = u
        BY <2>6 DEF InPart, L
      <3>2. PICK c \in 1 .. Len(parts[i]) : parts[i][c] = u
        BY <3>1
      <3>3. CASE i = L
        <4>1. c \in 1 .. m /\ c \in 1 .. m + 1
          BY <2>1, <3>3 DEF m
        <4>2. new[L][c] = u /\ c \in 1 .. Len(new[L]) /\ L \in 1 .. Len(new)
          BY <1>1, <2>1, <2>3, <3>2, <3>3, <4>1
        <4> QED BY <4>2 DEF InPart
      <3>4. CASE i # L
        <4>1. new[i] = parts[i] /\ i \in 1 .. Len(new)
          BY <2>3, <2>5, <3>4
        <4> QED BY <3>2, <4>1 DEF InPart
      <3> QED BY <3>3, <3>4
    <2>7. InPart(new, t)
      <3>1. new[L][m + 1] = t /\ m + 1 \in 1 .. Len(new[L]) /\ L \in 1 .. Len(new)
        BY <1>1, <2>1, <2>3
      <3> QED BY <3>1 DEF InPart
    <2>8. \A j \in 1 .. n + 1 : text[j][1] # tokenKind => InPart(new, text[j])
      BY <1>1, <1>2, <2>6, <2>7 DEF t
    <2>9. ASSUME NEW i \in 1 .. Len(new), NEW c \in 1 .. Len(new[i])
          PROVE  \E j \in 1 .. n + 1 : new[i][c] = text[j] /\ text[j][1] # tokenKind
      <3>1. CASE i \in 1 .. L - 1
        <4>1. new[i] = parts[i] /\ i \in 1 .. L
          BY <1>1, <2>3, <3>1
        <4>2. PICK j \in 1 .. n : parts[i][c] = text[j] /\ text[j][1] # tokenKind
          BY <1>1, <4>1
        <4> QED BY <1>3, <4>1, <4>2
      <3>2. CASE i = L /\ c = m + 1
        <4>1. new[i][c] = t /\ n + 1 \in 1 .. n + 1
          BY <2>1, <2>3, <3>2
        <4> QED BY <1>5, <4>1 DEF t
      <3>3. CASE i = L /\ c # m + 1
        <4>1. c \in 1 .. m /\ new[i][c] = parts[L][c]
          BY <2>1, <2>3, <3>3
        <4>2. L \in 1 .. L /\ c \in 1 .. Len(parts[L])
          BY <1>1, <4>1 DEF m
        <4> QED BY <1>1, <1>3, <4>1, <4>2
      <3> QED BY <2>3, <2>5, <3>1, <3>2, <3>3
    <2> QED BY <2>3, <2>4, <2>8, <2>9 DEF PartsHold, new, t
  <1> QED BY <1>4, <1>5 DEF new, t

\* The parts of a text hold all of its tokens but those it is split at.
LEMMA PartsOfText ==
  ASSUME NEW text \in Text, NEW tokenKind
  PROVE  PartsHold(text, tokenKind, Len(text), SplitAt(text, tokenKind))
  <1> DEFINE base == << << >> >>
  <1>1. text \in Seq(Token) /\ Len(text) \in Nat
    BY DEF Text
  <1>2. SplitAt(text, tokenKind) = Splitting!Folded(tokenKind, base, text)
    BY DEF SplitAt, Split, Splitting!Folded, FoldLeft, MapThenFoldSet, Max,
           Splitting!FoldLeft, Splitting!MapThenFoldSet, Splitting!Max
  <1>3. PICK f : Splitting!Along(tokenKind, base, text, f)
    BY <1>1, Splitting!FoldGoesAlong
  <1>4. /\ f[0] = base /\ Splitting!Folded(tokenKind, base, text) = f[Len(text)]
        /\ \A k \in 1 .. Len(text) : f[k] = Split(tokenKind, f[k - 1], text[k])
    BY <1>3 DEF Splitting!Along
  <1> DEFINE T == {n \in Nat : n <= Len(text) => PartsHold(text, tokenKind, n, f[n])}
  <1>5. 0 \in T
    <2>1. base \in Seq(Text) /\ base # << >> /\ Len(base) = 1 /\ base[1] = << >>
      BY DEF Text
    <2> HIDE DEF base
    <2>2. PartsHold(text, tokenKind, 0, base)
      BY <2>1 DEF PartsHold
    <2> QED BY <1>4, <2>2
  <1>6. ASSUME NEW n \in Nat, n \in T PROVE n + 1 \in T
    <2> SUFFICES ASSUME n + 1 <= Len(text) PROVE PartsHold(text, tokenKind, n + 1, f[n + 1])
      OBVIOUS
    <2>1. PartsHold(text, tokenKind, n, f[n])
      BY <1>1, <1>6
    <2>2. n + 1 \in 1 .. Len(text) /\ n + 1 - 1 = n
      BY <1>1
    <2>3. f[n + 1] = Split(tokenKind, f[n], text[n + 1])
      BY <1>4, <2>2
    <2> QED BY <2>1, <2>3, SplitHolds
  <1>7. \A n \in Nat : n \in T
    <2> HIDE DEF T
    <2> QED BY <1>5, <1>6, CountingUp
  <1> HIDE DEF base
  <1> QED BY <1>1, <1>2, <1>4, <1>7

-----------------------------------------------------------------------------
(* The drafts: what is quoted in a line.                                   *)

Upward == INSTANCE Folding WITH Op <- LAMBDA given, i, j : i < j

LEMMA MarksInOrder ==
  ASSUME NEW n \in Nat, NEW P \in SUBSET (1 .. n)
  PROVE  LET order == Sorted(P, LAMBDA i, j : i < j)
         IN  order \in Seq(P) /\ \A j, k \in 1 .. Len(order) : j < k <=> order[j] < order[k]
  <1> DEFINE order == Upward!Ranked(0, P)
  <1>1. IsFiniteSet(P)
    <2>1. IsFiniteSet(1 .. n)
      BY FS_Interval
    <2> HIDE DEF order
    <2> QED BY <2>1, FS_Subset
  <1>2. Upward!IsFiniteSet(P)
    BY <1>1 DEF IsFiniteSet, Upward!IsFiniteSet
  <1>3. \A k \in P : k \in Nat
    OBVIOUS
  <1>4. Sorted(P, LAMBDA i, j : i < j) = order
    BY DEF Upward!Ranked, Sorted, Upward!Sorted, Cardinality, Upward!Cardinality
  <1>5. Upward!Ranks(0, P)
    BY <1>3 DEF Upward!Ranks
  <1>6. Upward!InRank(0, P, order)
    BY <1>2, <1>5, Upward!SortingOrders
  <1> HIDE DEF order
  <1> QED BY <1>4, <1>6 DEF Upward!InRank

Quote(s, p) ==
    IF s.open = 0 \/ p = s.open + 1 THEN [s EXCEPT !.open = p]
    ELSE [open |-> 0, found |-> s.found \cup {<<s.open, p>>}]

Quoting == INSTANCE Folding WITH Op <- LAMBDA given, s, p : Quote(s, p)

\* Two marks with something between them.
IsQuoted(P, q) == q \in P \X P /\ q[1] + 1 < q[2]

QuotedSoFar(P, order, n, s) ==
    /\ s = [open |-> s.open, found |-> s.found]
    /\ s.open = 0 \/ \E j \in 1 .. n : s.open = order[j]
    /\ \A q \in s.found : IsQuoted(P, q)

LEMMA QuoteKeeps ==
  ASSUME NEW P \in SUBSET (Nat \ {0}), NEW order \in Seq(P), NEW n \in Nat, n + 1 <= Len(order),
         \A j, k \in 1 .. Len(order) : j < k <=> order[j] < order[k],
         NEW s, QuotedSoFar(P, order, n, s)
  PROVE  QuotedSoFar(P, order, n + 1, Quote(s, order[n + 1]))
  <1> DEFINE p == order[n + 1]
             new == Quote(s, p)
  <1>1. /\ s = [open |-> s.open, found |-> s.found]
        /\ s.open = 0 \/ \E j \in 1 .. n : s.open = order[j]
        /\ \A q \in s.found : IsQuoted(P, q)
    BY DEF QuotedSoFar
  <1>2. n + 1 \in 1 .. Len(order) /\ n + 1 \in 1 .. n + 1 /\ p \in P /\ p \in Nat
        /\ \A j \in 1 .. n : j \in 1 .. n + 1 /\ j \in 1 .. Len(order) /\ j < n + 1
    BY ItemsOf
  <1>3. CASE s.open = 0 \/ p = s.open + 1
    <2>1. new = [open |-> p, found |-> s.found]
      BY <1>1, <1>3 DEF Quote
    <2> HIDE DEF new
    <2> QED BY <1>1, <1>2, <2>1 DEF QuotedSoFar, new, p
  <1>4. CASE ~(s.open = 0 \/ p = s.open + 1)
    <2>1. new = [open |-> 0, found |-> s.found \cup {<<s.open, p>>}]
      BY <1>4 DEF Quote
    <2>2. PICK j \in 1 .. n : s.open = order[j]
      BY <1>1, <1>4
    <2>3. s.open \in P /\ s.open < p
      BY <1>2, <2>2, ItemsOf
    <2>4. s.open + 1 < p
      <3> DEFINE o == s.open
      <3>1. o \in Nat /\ p \in Nat /\ o < p /\ p # o + 1
        BY <1>2, <1>4, <2>3
      <3> HIDE DEF o, p
      <3>2. o + 1 < p
        BY ONLY <3>1
      <3> QED BY <3>2 DEF o
    <2>5. IsQuoted(P, <<s.open, p>>)
      BY <1>2, <2>3, <2>4 DEF IsQuoted
    <2> HIDE DEF new
    <2>6. new.open = 0 /\ \A q \in new.found : IsQuoted(P, q)
      BY <1>1, <2>1, <2>5
    <2>7. new = [open |-> new.open, found |-> new.found]
      BY <2>1
    <2> QED BY <2>6, <2>7 DEF QuotedSoFar, new, p
  <1> QED BY <1>3, <1>4

LEMMA QuotationsOf ==
  ASSUME NEW line \in Text, NEW mark, NEW q \in Quotations(line, mark)
  PROVE  /\ q[1] \in 1 .. Len(line) /\ q[2] \in 1 .. Len(line) /\ q[1] + 1 < q[2]
         /\ line[q[1]][1] = mark /\ line[q[2]][1] = mark
  <1> DEFINE P == Starting(line, mark)
             order == Sorted(P, LAMBDA i, j : i < j)
             base == [open |-> 0, found |-> {}]
  <1>1. Len(line) \in Nat /\ P \in SUBSET (1 .. Len(line)) /\ \A k \in P : line[k][1] = mark
    BY DEF Starting, Text
  <1>2. order \in Seq(P) /\ \A j, k \in 1 .. Len(order) : j < k <=> order[j] < order[k]
    <2> HIDE DEF P
    <2> QED BY <1>1, MarksInOrder
  <1>3. Quotations(line, mark) = Quoting!Folded(0, base, order).found
    BY DEF Quotations, Quote, Quoting!Folded, FoldLeft, MapThenFoldSet, Max,
           Quoting!FoldLeft, Quoting!MapThenFoldSet, Quoting!Max
  <1> HIDE DEF order, P
  <1>4. PICK f : Quoting!Along(0, base, order, f)
    BY <1>2, Quoting!FoldGoesAlong
  <1>5. /\ f[0] = base /\ Quoting!Folded(0, base, order) = f[Len(order)]
        /\ \A k \in 1 .. Len(order) : f[k] = Quote(f[k - 1], order[k])
    BY <1>4 DEF Quoting!Along
  <1> DEFINE T == {n \in Nat : n <= Len(order) => QuotedSoFar(P, order, n, f[n])}
  <1>6. 0 \in T
    <2>1. QuotedSoFar(P, order, 0, base)
      BY DEF QuotedSoFar
    <2> QED BY <1>5, <2>1
  <1>7. Len(order) \in Nat /\ P \in SUBSET (Nat \ {0})
    BY <1>1, <1>2
  <1>8. ASSUME NEW n \in Nat, n \in T PROVE n + 1 \in T
    <2> SUFFICES ASSUME n + 1 <= Len(order) PROVE QuotedSoFar(P, order, n + 1, f[n + 1])
      OBVIOUS
    <2>1. QuotedSoFar(P, order, n, f[n])
      BY <1>7, <1>8
    <2>2. n + 1 \in 1 .. Len(order) /\ n + 1 - 1 = n
      BY <1>7
    <2>3. f[n + 1] = Quote(f[n], order[n + 1])
      BY <1>5, <2>2
    <2> HIDE DEF T, base
    <2> QED BY <1>2, <1>7, <2>1, <2>3, QuoteKeeps
  <1>9. \A n \in Nat : n \in T
    <2> HIDE DEF T
    <2> QED BY <1>6, <1>8, CountingUp
  <1>10. QuotedSoFar(P, order, Len(order), f[Len(order)])
    BY <1>7, <1>9
  <1>11. IsQuoted(P, q)
    BY <1>3, <1>5, <1>10 DEF QuotedSoFar
  <1> QED BY <1>1, <1>11 DEF IsQuoted

\* What stands between two marks, and what is left besides.
QuotesAll(line, mark, q, x) ==
    /\ x \in Text /\ x # << >>
    /\ \A k \in q[1] .. q[2] : line[k][1] # mark => \E c \in 1 .. Len(x) : x[c] = line[k]

LEMMA InsideOf ==
  ASSUME NEW line \in Text, NEW mark, NEW q \in Quotations(line, mark)
  PROVE  QuotesAll(line, mark, q, SubSeq(line, q[1] + 1, q[2] - 1))
  <1> DEFINE x == SubSeq(line, q[1] + 1, q[2] - 1)
  <1>1. /\ q[1] \in 1 .. Len(line) /\ q[2] \in 1 .. Len(line) /\ q[1] + 1 < q[2]
        /\ line[q[1]][1] = mark /\ line[q[2]][1] = mark
    BY QuotationsOf
  <1>2. q[1] \in Nat /\ q[2] \in Nat /\ q[1] < q[2] /\ q[2] - q[1] - 1 \in Nat \ {0}
    BY <1>1
  <1>3. /\ x \in Text /\ Len(x) = q[2] - q[1] - 1
        /\ \A k \in 1 .. Len(x) : x[k] = line[q[1] + k]
    BY <1>1, <1>2, InnerText
  <1> HIDE DEF x
  <1>5. x # << >>
    BY <1>2, <1>3 DEF Text
  <1>6. ASSUME NEW k \in q[1] .. q[2], line[k][1] # mark PROVE \E c \in 1 .. Len(x) : x[c] = line[k]
    <2> DEFINE c == k - q[1]
    <2>1. k \in Nat /\ k # q[1] /\ k # q[2]
      BY <1>1, <1>2, <1>6
    <2>2. c \in 1 .. Len(x) /\ q[1] + c = k
      BY <1>2, <1>3, <2>1
    <2> HIDE DEF c
    <2> QED BY <1>3, <2>2
  <1> QED BY <1>3, <1>5, <1>6 DEF QuotesAll, x

\* Every token of a line is quoted, stands outside, or is a mark.
LEMMA OutsideOf ==
  ASSUME NEW line \in Text, NEW mark
  PROVE  /\ Outside(line, mark) \in Text
         /\ \A k \in 1 .. Len(line) :
               \/ line[k][1] = mark
               \/ \E c \in 1 .. Len(Outside(line, mark)) : Outside(line, mark)[c] = line[k]
               \/ \E x \in Inside(line, mark) : x \in Text /\ x # << >> /\ \E c \in 1 .. Len(x) : x[c] = line[k]
         /\ \A x \in Inside(line, mark) : x \in Text /\ x # << >>
  <1> DEFINE P == {i \in DOMAIN line : \A q \in Quotations(line, mark) : i \notin q[1] .. q[2]}
             x == Outside(line, mark)
  <1>1. x = Picked(line, P) /\ line \in Seq(Token) /\ P \in SUBSET DOMAIN line
        /\ DOMAIN line = 1 .. Len(line)
    BY DEF Outside, Text
  <1>2. x \in Seq(Token) /\ ToSet(x) = {line[i] : i \in P}
    <2> HIDE DEF P, x
    <2> QED BY <1>1, PickedOf
  <1>3. ASSUME NEW k \in 1 .. Len(line), line[k][1] # mark, k \notin P
        PROVE  \E y \in Inside(line, mark) : y \in Text /\ y # << >> /\ \E c \in 1 .. Len(y) : y[c] = line[k]
    <2>1. PICK q \in Quotations(line, mark) : k \in q[1] .. q[2]
      BY <1>1, <1>3
    <2> DEFINE y == SubSeq(line, q[1] + 1, q[2] - 1)
    <2>2. y \in Inside(line, mark)
      BY DEF Inside
    <2>3. QuotesAll(line, mark, q, y)
      BY InsideOf
    <2> HIDE DEF y
    <2> QED BY <1>3, <2>1, <2>2, <2>3 DEF QuotesAll
  <1>4. ASSUME NEW k \in P PROVE \E c \in 1 .. Len(x) : x[c] = line[k]
    <2>1. line[k] \in ToSet(x)
      BY <1>2
    <2>2. DOMAIN x = 1 .. Len(x)
      BY <1>2
    <2> HIDE DEF P, x
    <2> QED BY <2>1, <2>2 DEF ToSet
  <1>5. \A y \in Inside(line, mark) : y \in Text /\ y # << >>
    <2> SUFFICES ASSUME NEW y \in Inside(line, mark) PROVE y \in Text /\ y # << >>
      OBVIOUS
    <2>1. PICK q \in Quotations(line, mark) : y = SubSeq(line, q[1] + 1, q[2] - 1)
      BY DEF Inside
    <2> QED BY <2>1, InsideOf DEF QuotesAll
  <1> HIDE DEF P, x
  <1> QED BY <1>2, <1>3, <1>4, <1>5 DEF Text, x

-----------------------------------------------------------------------------
(* The drafts: what is held against the facts.                             *)

LEMMA NoViolations ==
  ASSUME NEW prose, NEW codeLines, NEW allowed, LineViolations(prose, codeLines, allowed) = {}
  PROVE  /\ \A l \in codeLines : Unprompted(l) # << >> => IsGrounded(Unprompted(l), allowed)
         /\ \A l \in prose : \A q \in Inside(l, "tick") : IsGrounded(q, allowed)
         /\ \A l \in prose : \A q \in Inside(Outside(l, "tick"), "quote") : IsGrounded(q, allowed)
         /\ \A l \in prose : \A t \in ToSet(Outside(Outside(l, "tick"), "quote")) :
               /\ t[1] \in Dated => HasDate(t, allowed)
               /\ t[1] = "id" => t[2] \in allowed.ids
  <1> DEFINE spoken == {Outside(l, "tick") : l \in prose}
             plain == {Outside(l, "quote") : l \in spoken}
             tokens == UNION {ToSet(l) : l \in plain}
             code == {Unprompted(l) : l \in codeLines} \ {<< >>}
             quotes == (UNION {Inside(l, "tick") : l \in prose})
                       \cup (UNION {Inside(l, "quote") : l \in spoken})
             A == {"code-line"} \X {l \in code : ~IsGrounded(l, allowed)}
             B == {"quote"} \X {q \in quotes : ~IsGrounded(q, allowed)}
             C == {"date"} \X {t \in tokens : t[1] \in Dated /\ ~HasDate(t, allowed)}
             D == {"record-id"} \X {t \in tokens : t[1] = "id" /\ t[2] \notin allowed.ids}
  <1>1. A \subseteq {} /\ B \subseteq {} /\ C \subseteq {} /\ D \subseteq {}
    <2>1. \E E : LineViolations(prose, codeLines, allowed) = A \cup B \cup C \cup D \cup E
      BY DEF LineViolations
    <2> HIDE DEF A, B, C, D
    <2> QED BY <2>1
  <1> HIDE DEF spoken, plain, tokens, code, quotes
  <1>2. ASSUME NEW l \in code PROVE IsGrounded(l, allowed)
    <2>1. ~IsGrounded(l, allowed) => <<"code-line", l>> \in A
      OBVIOUS
    <2> HIDE DEF A
    <2> QED BY <1>1, <2>1
  <1>3. ASSUME NEW q \in quotes PROVE IsGrounded(q, allowed)
    <2>1. ~IsGrounded(q, allowed) => <<"quote", q>> \in B
      OBVIOUS
    <2> HIDE DEF B
    <2> QED BY <1>1, <2>1
  <1>4. ASSUME NEW t \in tokens
        PROVE  (t[1] \in Dated => HasDate(t, allowed)) /\ (t[1] = "id" => t[2] \in allowed.ids)
    <2>1. t[1] \in Dated /\ ~HasDate(t, allowed) => <<"date", t>> \in C
      OBVIOUS
    <2>2. t[1] = "id" /\ t[2] \notin allowed.ids => <<"record-id", t>> \in D
      OBVIOUS
    <2> HIDE DEF C, D
    <2> QED BY <1>1, <2>1, <2>2
  <1> HIDE DEF A, B, C, D
  <1>5. \A l \in codeLines : Unprompted(l) # << >> => Unprompted(l) \in code
    BY DEF code
  <1>6. \A l \in prose : Outside(l, "tick") \in spoken
    BY DEF spoken
  <1>7. \A l \in prose : \A q \in Inside(l, "tick") : q \in quotes
    BY DEF quotes
  <1>8. \A l \in spoken : \A q \in Inside(l, "quote") : q \in quotes
    BY DEF quotes
  <1>9. \A l \in spoken : Outside(l, "quote") \in plain
    BY DEF plain
  <1>10. \A l \in plain : \A t \in ToSet(l) : t \in tokens
    BY DEF tokens
  <1> QED BY <1>2, <1>3, <1>4, <1>5, <1>6, <1>7, <1>8, <1>9, <1>10

\* A line that is not code: what it quotes is sourced, and all it says is true.
LEMMA SpokenIsTrue ==
  ASSUME NEW s \in Sources, Screened(s) # {}, NEW line \in Text,
         LET allowed == AllowedFacts(FactsOf(s))
         IN  /\ \A q \in Inside(line, "tick") : IsGrounded(q, allowed)
             /\ \A q \in Inside(Outside(line, "tick"), "quote") : IsGrounded(q, allowed)
             /\ \A t \in ToSet(Outside(Outside(line, "tick"), "quote")) :
                   /\ t[1] \in Dated => HasDate(t, allowed)
                   /\ t[1] = "id" => t[2] \in allowed.ids
  PROVE  /\ \A k \in 1 .. Len(line) : IsTrueIn(s, line[k])
         /\ \A q \in Inside(line, "tick") : StandsIn(s, q)
  <1> DEFINE allowed == AllowedFacts(FactsOf(s))
             spoken == Outside(line, "tick")
             plain == Outside(spoken, "quote")
  <1>1. /\ allowed.dates \subseteq DaysIn(s) /\ allowed.ids \subseteq IdsIn(s)
        /\ \A x \in Text : x # << >> /\ IsGrounded(x, allowed) => IsSourced(s, x)
    BY AllowedIsTrue
  <1> HIDE DEF allowed
  <1>2. /\ \A q \in Inside(line, "tick") : IsGrounded(q, allowed)
        /\ \A q \in Inside(spoken, "quote") : IsGrounded(q, allowed)
        /\ \A t \in ToSet(plain) : /\ t[1] \in Dated => HasDate(t, allowed)
                                   /\ t[1] = "id" => t[2] \in allowed.ids
    BY DEF allowed
  <1>3. /\ spoken \in Text
        /\ \A k \in 1 .. Len(line) :
               \/ line[k][1] = "tick"
               \/ \E c \in 1 .. Len(spoken) : spoken[c] = line[k]
               \/ \E x \in Inside(line, "tick") : x \in Text /\ x # << >> /\ \E c \in 1 .. Len(x) : x[c] = line[k]
        /\ \A x \in Inside(line, "tick") : x \in Text /\ x # << >>
    BY OutsideOf
  <1> HIDE DEF spoken
  <1>4. /\ plain \in Text
        /\ \A k \in 1 .. Len(spoken) :
               \/ spoken[k][1] = "quote"
               \/ \E c \in 1 .. Len(plain) : plain[c] = spoken[k]
               \/ \E x \in Inside(spoken, "quote") : x \in Text /\ x # << >> /\ \E c \in 1 .. Len(x) : x[c] = spoken[k]
        /\ \A x \in Inside(spoken, "quote") : x \in Text /\ x # << >>
    BY <1>3, OutsideOf
  <1> HIDE DEF plain
  <1>5. \A q \in Inside(line, "tick") \cup Inside(spoken, "quote") : IsSourced(s, q)
    BY <1>1, <1>2, <1>3, <1>4
  <1>6. ASSUME NEW x \in Inside(line, "tick") \cup Inside(spoken, "quote"), NEW c \in 1 .. Len(x)
        PROVE  IsTrueIn(s, x[c])
    BY <1>5 DEF IsSourced
  <1>7. ASSUME NEW c \in 1 .. Len(plain) PROVE IsTrueIn(s, plain[c])
    <2>1. plain[c] \in ToSet(plain)
      BY <1>4 DEF ToSet, Text
    <2>2. plain[c][1] = "date" => plain[c][2] \in allowed.dates
      BY <1>2, <2>1 DEF HasDate, Dated
    <2>3. plain[c][1] = "id" => plain[c][2] \in allowed.ids
      BY <1>2, <2>1
    <2> QED BY <1>1, <2>2, <2>3 DEF IsTrueIn
  <1>8. \A t : t[1] = "tick" \/ t[1] = "quote" => IsTrueIn(s, t)
    BY DEF IsTrueIn
  <1>9. ASSUME NEW k \in 1 .. Len(spoken) PROVE IsTrueIn(s, spoken[k])
    BY <1>4, <1>6, <1>7, <1>8
  <1>10. ASSUME NEW k \in 1 .. Len(line) PROVE IsTrueIn(s, line[k])
    BY <1>3, <1>6, <1>8, <1>9
  <1>11. \A q \in Inside(line, "tick") : StandsIn(s, q)
    BY <1>5 DEF IsSourced
  <1> QED BY <1>10, <1>11

\* A line of code: but for the mark of a shell it is sourced.
LEMMA CodeIsTrue ==
  ASSUME NEW s \in Sources, Screened(s) # {}, NEW line \in Text,
         Unprompted(line) # << >> => IsGrounded(Unprompted(line), AllowedFacts(FactsOf(s)))
  PROVE  /\ \A k \in 1 .. Len(line) : IsTrueIn(s, line[k])
         /\ line = << >> \/ StandsIn(s, Unprompted(line))
  <1>1. \A x \in Text : x # << >> /\ IsGrounded(x, AllowedFacts(FactsOf(s))) => IsSourced(s, x)
    BY AllowedIsTrue
  <1>2. Len(line) \in Nat /\ line \in Seq(Token) /\ (line = << >> <=> Len(line) = 0)
    BY DEF Text
  <1>3. CASE Len(line) > 1 /\ line[1][1] = "shell"
    <2> DEFINE x == Tail(line)
    <2>1. Unprompted(line) = x
      BY <1>3 DEF Unprompted
    <2>2. line # << >>
      BY <1>2, <1>3
    <2>3. x \in Seq(Token) /\ Len(x) = Len(line) - 1 /\ \A k \in 1 .. Len(x) : x[k] = line[k + 1]
      BY <1>2, <2>2, HeadTailProperties
    <2> HIDE DEF x
    <2>4. x \in Text /\ x # << >>
      <3>1. Len(x) # 0
        BY <1>2, <1>3, <2>3
      <3> QED BY <2>3, <3>1 DEF Text
    <2>5. IsSourced(s, x)
      BY <1>1, <2>1, <2>4
    <2>6. ASSUME NEW k \in 1 .. Len(line) PROVE IsTrueIn(s, line[k])
      <3>1. CASE k = 1
        BY <1>3, <3>1 DEF IsTrueIn
      <3>2. CASE k # 1
        <4> DEFINE j == k - 1
        <4>1. j \in 1 .. Len(x) /\ j + 1 = k
          BY <1>2, <2>3, <3>2
        <4> HIDE DEF j
        <4>2. line[k] = x[j] /\ IsTrueIn(s, x[j])
          BY <2>3, <2>5, <4>1 DEF IsSourced
        <4> QED BY <4>2
      <3> QED BY <3>1, <3>2
    <2> QED BY <2>1, <2>5, <2>6 DEF IsSourced
  <1>4. CASE ~(Len(line) > 1 /\ line[1][1] = "shell")
    <2>1. Unprompted(line) = line
      BY <1>4 DEF Unprompted
    <2>2. CASE line = << >>
      BY <1>2, <2>2
    <2>3. CASE line # << >>
      <3>1. IsSourced(s, line)
        BY <1>1, <2>1, <2>3
      <3> QED BY <2>1, <3>1 DEF IsSourced
    <2> QED BY <2>2, <2>3
  <1> QED BY <1>3, <1>4

\* crossCheckFacts: in a text without violations every line that marks no fence is true.
LEMMA CheckedIsTrue ==
  ASSUME NEW s \in Sources, Screened(s) # {}, NEW body \in Text,
         FactViolations(body, AllowedFacts(FactsOf(s))) = {}, NEW i \in 1 .. Len(Lines(body)),
         ~IsFence(Lines(body)[i])
  PROVE  LET line == Lines(body)[i]
         IN  /\ \A k \in 1 .. Len(line) : IsTrueIn(s, line[k])
             /\ IF Fenced(Lines(body), i) THEN line = << >> \/ StandsIn(s, Unprompted(line))
                ELSE \A q \in Inside(line, "tick") : StandsIn(s, q)
  <1> DEFINE allowed == AllowedFacts(FactsOf(s))
             lines == Lines(body)
             P == {j \in DOMAIN lines : ~IsFence(lines[j]) /\ ~Fenced(lines, j)}
             prose == ToSet(ProseLines(body))
             code == CodeLines(body)
  <1>1. lines \in Seq(Text) /\ lines[i] \in Text /\ DOMAIN lines = 1 .. Len(lines)
    <2>1. lines \in Seq(Text)
      BY PartsOfText DEF Lines, PartsHold
    <2> HIDE DEF lines
    <2> QED BY <2>1, ItemsOf DEF lines
  <1>2. LineViolations(prose, code, allowed) = {}
    BY DEF FactViolations
  <1>3. CASE Fenced(lines, i)
    <2>1. lines[i] \in code
      BY <1>3 DEF CodeLines
    <2> HIDE DEF code, prose, allowed, lines, P
    <2>2. Unprompted(lines[i]) # << >> => IsGrounded(Unprompted(lines[i]), allowed)
      BY <1>2, <2>1, NoViolations
    <2> QED BY <1>1, <1>3, <2>2, CodeIsTrue DEF allowed, lines
  <1>4. CASE ~Fenced(lines, i)
    <2>1. lines[i] \in prose
      <3>1. ProseLines(body) = Picked(lines, P)
        BY DEF ProseLines
      <3> HIDE DEF lines
      <3>2. ToSet(Picked(lines, P)) = {lines[j] : j \in P}
        BY <1>1, PickedOf
      <3>3. i \in P
        BY <1>1, <1>4 DEF lines
      <3> HIDE DEF P
      <3> QED BY <3>1, <3>2, <3>3
    <2> DEFINE line == lines[i]
    <2> HIDE DEF code, prose, allowed, lines, P
    <2>2. /\ \A q \in Inside(line, "tick") : IsGrounded(q, allowed)
          /\ \A q \in Inside(Outside(line, "tick"), "quote") : IsGrounded(q, allowed)
          /\ \A t \in ToSet(Outside(Outside(line, "tick"), "quote")) :
                /\ t[1] \in Dated => HasDate(t, allowed)
                /\ t[1] = "id" => t[2] \in allowed.ids
      BY <1>2, <2>1, NoViolations
    <2> HIDE DEF line
    <2>3. /\ \A k \in 1 .. Len(line) : IsTrueIn(s, line[k])
          /\ \A q \in Inside(line, "tick") : StandsIn(s, q)
      BY <1>1, <2>2, SpokenIsTrue DEF allowed, line
    <2> QED BY <1>4, <2>3 DEF line, lines
  <1> QED BY <1>3, <1>4

-----------------------------------------------------------------------------
(* The drafts: the diagrams.                                               *)

Break == <<"break", 0>>

\* A token stands in a text.
Among(text, t) == \E k \in 1 .. Len(text) : text[k] = t

LEMMA BrokenLines ==
  ASSUME NEW lines \in Seq(Text)
  PROVE  /\ LinesBroken(lines) \in Text
         /\ \A i \in 1 .. Len(lines) : \A k \in 1 .. Len(lines[i]) : Among(LinesBroken(lines), lines[i][k])
         /\ \A j \in 1 .. Len(LinesBroken(lines)) :
               \/ LinesBroken(lines)[j] = Break
               \/ \E i \in 1 .. Len(lines) : Among(lines[i], LinesBroken(lines)[j])
  <1> DEFINE rows == [i \in DOMAIN lines |-> Append(lines[i], Break)]
             n == Len(lines)
             flat == LinesBroken(lines)
  <1>1. Break \in Token
    <2>1. TokenKinds[13] = "break" /\ 13 \in DOMAIN TokenKinds
      BY DEF TokenKinds
    <2>2. "break" \in ToSet(TokenKinds)
      BY <2>1 DEF ToSet
    <2> QED BY <2>2 DEF Break, Token
  <1>2. n \in Nat /\ DOMAIN lines = 1 .. n /\ \A i \in 1 .. n : lines[i] \in Seq(Token)
    BY ItemsOf DEF Text
  <1>3. flat = FlattenSeq(rows)
    BY DEF LinesBroken, Break
  <1> HIDE DEF flat, n
  <1>4. ASSUME NEW i \in 1 .. n
        PROVE  /\ rows[i] \in Seq(Token) /\ Len(rows[i]) = Len(lines[i]) + 1
               /\ rows[i][Len(lines[i]) + 1] = Break
               /\ \A k \in 1 .. Len(lines[i]) : rows[i][k] = lines[i][k]
    <2>1. rows[i] = Append(lines[i], Break)
      BY <1>2
    <2> HIDE DEF rows
    <2> QED BY <1>1, <1>2, <2>1, AppendProperties
  <1>5. DOMAIN rows = 1 .. n
    BY <1>2
  <1>6. rows \in Seq(Seq(Token)) /\ Len(rows) = n
    <2>1. rows = [i \in 1 .. n |-> rows[i]]
      BY <1>2
    <2> HIDE DEF rows
    <2> QED BY <1>2, <1>4, <1>5, <2>1
  <1> HIDE DEF rows
  <1>7. PICK row : FlatOf(rows, Token, FlattenSeq(rows), row, n)
    BY <1>6, FlattenedRows
  <1>8. /\ flat \in Seq(Token) /\ row \in [1 .. Len(flat) -> 1 .. n]
        /\ \A a \in 1 .. Len(flat) : \E m \in 1 .. Len(rows[row[a]]) : flat[a] = rows[row[a]][m]
        /\ \A i \in 1 .. n : \A m \in 1 .. Len(rows[i]) : \E a \in 1 .. Len(flat) : flat[a] = rows[i][m]
    BY <1>3, <1>7 DEF FlatOf
  <1>9. ASSUME NEW i \in 1 .. n, NEW k \in 1 .. Len(lines[i]) PROVE Among(flat, lines[i][k])
    <2>1. Len(lines[i]) \in Nat
      BY <1>2
    <2>2. k \in 1 .. Len(rows[i]) /\ rows[i][k] = lines[i][k]
      BY <1>4, <2>1
    <2> QED BY <1>8, <2>2 DEF Among
  <1>10. ASSUME NEW j \in 1 .. Len(flat)
         PROVE  flat[j] = Break \/ \E i \in 1 .. n : Among(lines[i], flat[j])
    <2> DEFINE i == row[j]
    <2>1. i \in 1 .. n
      BY <1>8
    <2>2. PICK m \in 1 .. Len(rows[i]) : flat[j] = rows[i][m]
      BY <1>8
    <2> HIDE DEF i
    <2>3. Len(lines[i]) \in Nat
      BY <1>2, <2>1
    <2>4. m = Len(lines[i]) + 1 \/ m \in 1 .. Len(lines[i])
      BY <1>4, <2>1, <2>3
    <2>5. CASE m = Len(lines[i]) + 1
      BY <1>4, <2>1, <2>2, <2>5
    <2>6. CASE m \in 1 .. Len(lines[i])
      <3>1. flat[j] = lines[i][m]
        BY <1>4, <2>1, <2>2, <2>6
      <3> QED BY <2>1, <2>6, <3>1 DEF Among
    <2> QED BY <2>4, <2>5, <2>6
  <1> QED BY <1>8, <1>9, <1>10 DEF flat, n, Text

LEMMA StrippedText ==
  ASSUME NEW code \in Text
  PROVE  StripFence(code) \in Text
  <1> DEFINE lines == Lines(code)
             n == Len(lines)
             closing == {i \in 2 .. n : IsFence(lines[i])}
             all == closing \cup {n + 1}
             m == Min(all)
             inner == SubSeq(lines, 2, m - 1)
             broken == LinesBroken(inner)
  <1>1. lines \in Seq(Text) /\ lines # << >>
    BY PartsOfText DEF Lines, PartsHold
  <1>2. StripFence(code) = IF ~IsFence(lines[1]) THEN code
                           ELSE IF inner = << >> THEN << >> ELSE Front(broken)
    BY DEF StripFence
  <1> HIDE DEF lines
  <1>3. n \in Nat \ {0} /\ \A k \in 1 .. n : lines[k] \in Text
    BY <1>1
  <1> HIDE DEF n
  <1>4. all # {} /\ \A e \in all : e \in Int /\ 2 <= e /\ e <= n + 1
    BY <1>3
  <1> HIDE DEF all
  <1>5. m \in Int /\ 2 <= m /\ m <= n + 1
    <2>1. m \in all
      BY <1>4, MinOf
    <2> QED BY <1>4, <2>1
  <1> HIDE DEF m
  <1>6. inner \in Seq(Text)
    <2> DEFINE e == m - 1
    <2>1. e \in Int /\ \A k \in 2 .. e : k \in 1 .. n
      BY <1>3, <1>5
    <2> HIDE DEF e
    <2>2. SubSeq(lines, 2, e) \in Seq(Text)
      BY <1>3, <2>1, SubSeqProperties
    <2> QED BY <2>2 DEF e
  <1> HIDE DEF inner
  <1>7. broken \in Text
    BY <1>6, BrokenLines
  <1> HIDE DEF broken
  <1>8. Front(broken) \in Text
    <2> DEFINE e == Len(broken) - 1
    <2>1. e \in Int /\ \A k \in 1 .. e : broken[k] \in Token
      BY <1>7 DEF Text
    <2>2. Front(broken) = SubSeq(broken, 1, e)
      BY DEF Front
    <2> HIDE DEF e
    <2> QED BY <2>1, <2>2, SubSeqProperties DEF Text
  <1>9. << >> \in Text
    BY DEF Text
  <1> QED BY <1>2, <1>8, <1>9

\* diagramClaimText: all that is read of the lines that are no comments.
LEMMA ClaimedText ==
  ASSUME NEW code \in Text
  PROVE  LET claim == ClaimText(code)
             lines == Lines(code)
         IN  /\ claim \in Text
             /\ \A j \in 1 .. Len(claim) : claim[j][1] \notin Grammar
             /\ \A i \in 2 .. Len(lines) : ~IsComment(lines[i]) =>
                   \A k \in 1 .. Len(lines[i]) :
                       lines[i][k][1] \notin Grammar => Among(claim, lines[i][k])
  <1> DEFINE lines == Lines(code)
             tail == Tail(lines)
             P == {i \in DOMAIN tail : ~IsComment(tail[i])}
             shown == Picked(tail, P)
             Kept(l) == {i \in DOMAIN l : l[i][1] \notin Grammar}
             Read(l) == Picked(l, Kept(l))
             read == [i \in DOMAIN shown |-> Read(shown[i])]
             claim == LinesBroken(read)
  <1>1. lines \in Seq(Text) /\ lines # << >>
    BY PartsOfText DEF Lines, PartsHold
  <1>2. ClaimText(code) = claim
    BY DEF ClaimText
  <1> HIDE DEF lines
  <1>3. tail \in Seq(Text) /\ Len(tail) = Len(lines) - 1 /\ \A i \in 1 .. Len(tail) : tail[i] = lines[i + 1]
    BY <1>1, HeadTailProperties
  <1> HIDE DEF tail
  <1>4. shown \in Seq(Text) /\ ToSet(shown) = {tail[i] : i \in P}
    <2>1. P \in SUBSET DOMAIN tail
      OBVIOUS
    <2> HIDE DEF P
    <2> QED BY <1>3, <2>1, PickedOf
  <1> HIDE DEF shown, P
  <1>5. ASSUME NEW l \in Text
        PROVE  Read(l) \in Text /\ ToSet(Read(l)) = {l[i] : i \in Kept(l)}
    <2>1. l \in Seq(Token) /\ Kept(l) \in SUBSET DOMAIN l
      BY DEF Text
    <2> HIDE DEF Kept
    <2> QED BY <2>1, PickedOf DEF Text
  <1> DEFINE n == Len(shown)
  <1>6. n \in Nat /\ DOMAIN shown = 1 .. n /\ \A i \in 1 .. n : shown[i] \in Text
    BY <1>4, ItemsOf
  <1> HIDE DEF n, Read
  <1>7. read \in Seq(Text) /\ Len(read) = n /\ \A i \in 1 .. n : read[i] = Read(shown[i])
    BY <1>5, <1>6
  <1> HIDE DEF read
  <1>8. /\ claim \in Text
        /\ \A i \in 1 .. Len(read) : \A k \in 1 .. Len(read[i]) : Among(claim, read[i][k])
        /\ \A j \in 1 .. Len(claim) :
              claim[j] = Break \/ \E i \in 1 .. Len(read) : Among(read[i], claim[j])
    BY <1>7, BrokenLines
  <1> HIDE DEF claim
  <1>9. ASSUME NEW l \in Text, NEW t
        PROVE  Among(Read(l), t) <=> \E k \in 1 .. Len(l) : l[k] = t /\ t[1] \notin Grammar
    <2>1. DOMAIN Read(l) = 1 .. Len(Read(l)) /\ DOMAIN l = 1 .. Len(l)
      BY <1>5 DEF Text
    <2>2. Among(Read(l), t) <=> t \in ToSet(Read(l))
      BY <2>1 DEF Among, ToSet
    <2> QED BY <1>5, <2>1, <2>2
  <1>10. ASSUME NEW j \in 1 .. Len(claim) PROVE claim[j][1] \notin Grammar
    <2>1. Break[1] \notin Grammar
      BY DEF Break, Grammar
    <2>2. CASE \E i \in 1 .. Len(read) : Among(read[i], claim[j])
      <3>1. PICK i \in 1 .. n : Among(Read(shown[i]), claim[j])
        BY <1>7, <2>2
      <3> QED BY <1>6, <1>9, <3>1
    <2> QED BY <1>8, <2>1, <2>2
  <1>11. ASSUME NEW i \in 2 .. Len(lines), ~IsComment(lines[i]), NEW k \in 1 .. Len(lines[i]),
                lines[i][k][1] \notin Grammar
         PROVE  Among(claim, lines[i][k])
    <2> DEFINE h == i - 1
               l == lines[i]
    <2>1. Len(lines) \in Nat /\ h \in 1 .. Len(tail) /\ h + 1 = i
      BY <1>1, <1>3
    <2> HIDE DEF h
    <2>2. tail[h] = l /\ h \in DOMAIN tail
      BY <1>3, <2>1
    <2>3. l \in Text
      BY <1>1, <2>1, ItemsOf
    <2>4. l \in ToSet(shown)
      <3>1. h \in P
        BY <1>11, <2>2 DEF P
      <3> QED BY <1>4, <2>2, <3>1
    <2>5. PICK c \in 1 .. n : shown[c] = l
      BY <1>6, <2>4 DEF ToSet
    <2>6. Among(read[c], l[k])
      <3>1. Among(Read(l), l[k])
        BY <1>9, <1>11, <2>3
      <3> QED BY <1>7, <2>5, <3>1
    <2>7. PICK m \in 1 .. Len(read[c]) : read[c][m] = l[k]
      BY <2>6 DEF Among
    <2> QED BY <1>7, <1>8, <2>7
  <1> QED BY <1>2, <1>8, <1>10, <1>11 DEF lines

\* verifyDiagram: a diagram that is drawn says nothing the records do not say.
LEMMA DrawnIsTrue ==
  ASSUME NEW s \in Sources, Screened(s) # {}, NEW code \in Text, NEW spec,
         DiagramVerdict(spec, code, AllowedFacts(FactsOf(s))) = "ok",
         NEW l \in ToSet(Lines(code)), ~IsComment(l), NEW k \in 1 .. Len(l)
  PROVE  IsTrueIn(s, l[k])
  <1> DEFINE allowed == AllowedFacts(FactsOf(s))
             lines == Lines(code)
             claim == ClaimText(code)
  <1>1. /\ Head(lines) = <<<<"header", IndexIn(spec, DiagramKinds)>>>>
        /\ FactViolations(claim, allowed) = {}
    BY DEF DiagramVerdict
  <1>2. /\ lines \in Seq(Text) /\ lines # << >>
        /\ \A i \in 1 .. Len(lines) : \A c \in 1 .. Len(lines[i]) : lines[i][c][1] # "break"
    <2>1. PartsHold(code, "break", Len(code), lines)
      BY PartsOfText DEF Lines
    <2> HIDE DEF lines
    <2> QED BY <2>1 DEF PartsHold
  <1>3. /\ claim \in Text
        /\ \A j \in 1 .. Len(claim) : claim[j][1] \notin Grammar
        /\ \A i \in 2 .. Len(lines) : ~IsComment(lines[i]) =>
              \A c \in 1 .. Len(lines[i]) : lines[i][c][1] \notin Grammar => Among(claim, lines[i][c])
    BY ClaimedText
  <1> HIDE DEF lines, claim, allowed
  <1>4. PICK i \in 1 .. Len(lines) : l = lines[i]
    BY <1>2 DEF lines, ToSet
  <1> DEFINE t == l[k]
  <1>5. CASE i = 1
    <2>1. l = Head(lines)
      BY <1>2, <1>4, <1>5
    <2> DEFINE h == IndexIn(spec, DiagramKinds)
    <2>2. l = <<<<"header", h>>>>
      BY <1>1, <2>1
    <2> HIDE DEF h
    <2>3. k = 1
      BY <2>2
    <2>4. l[k][1] = "header"
      BY <2>2, <2>3
    <2> QED BY <2>4 DEF IsTrueIn
  <1>6. CASE t[1] \in Grammar
    BY <1>6 DEF Grammar, IsTrueIn
  <1>7. CASE i # 1 /\ t[1] \notin Grammar
    <2>1. i \in 2 .. Len(lines) /\ t[1] # "break"
      BY <1>2, <1>4, <1>7
    <2>2. Among(claim, t)
      BY <1>3, <1>4, <1>7, <2>1
    <2> DEFINE told == Lines(claim)
    <2>3. PartsHold(claim, "break", Len(claim), told)
      BY <1>3, PartsOfText DEF Lines
    <2> HIDE DEF t, told
    <2>4. InPart(told, t)
      <3>1. PICK j \in 1 .. Len(claim) : claim[j] = t
        BY <2>2 DEF Among
      <3> QED BY <2>1, <2>3, <3>1 DEF PartsHold
    <2>5. PICK c \in 1 .. Len(told) : \E m \in 1 .. Len(told[c]) : told[c][m] = t
      BY <2>4 DEF InPart
    <2>6. PICK m \in 1 .. Len(told[c]) : told[c][m] = t
      BY <2>5
    <2>7. ~IsFence(told[c])
      <3> SUFFICES ASSUME told[c] # << >>, told[c][1][1] = "fence" PROVE FALSE
        BY DEF IsFence
      <3>1. told[c] \in Seq(Token)
        BY <2>3, ItemsOf DEF PartsHold, Text
      <3>2. 1 \in 1 .. Len(told[c])
        BY <3>1
      <3>3. PICK j \in 1 .. Len(claim) : told[c][1] = claim[j]
        BY <2>3, <3>2 DEF PartsHold
      <3>4. "fence" \in Grammar
        BY DEF Grammar
      <3> QED BY <1>3, <3>3, <3>4
    <2>8. \A j \in 1 .. Len(told[c]) : IsTrueIn(s, told[c][j])
      BY <1>1, <1>3, <2>7, CheckedIsTrue DEF told, allowed
    <2> QED BY <2>6, <2>8 DEF t
  <1> QED BY <1>5, <1>6, <1>7

-----------------------------------------------------------------------------
(* The drafts: what the machine keeps.                                     *)

\* A block that was drawn was verified.
IsVerified(s, code) ==
    /\ code \in Text
    /\ \E spec : DiagramVerdict(spec, code, AllowedFacts(FactsOf(s))) = "ok"

BodyHolds(s, body) == body \in Text /\ FactViolations(body, AllowedFacts(FactsOf(s))) = {}

\* The body and the blocks of a patch passed every gate.
PatchHolds(s, result) ==
    /\ BodyHolds(s, result.body)
    /\ \A b \in ToSet(result.blocks) : IsVerified(s, b.code)

IsDrawn(s, d) == d.omitted = "none" => IsVerified(s, d.code)

\* A draft that is begun is judged by the facts of its sources.
AssignmentKept ==
    draft.stage # "none" => /\ pack.status = "ok"
                            /\ assignment.allowed = AllowedFacts(FactsOf(sources))

DraftTyped == draft \in [stage : {"none", "writing", "drawing", "done"}, body : Text,
                         rewrites : Int, calls : Int]

DrawingKept ==
    /\ draft.stage = "drawing" => BodyHolds(sources, draft.body)
    /\ diagrams \in Seq(ToSet(diagrams))
    /\ \A d \in ToSet(diagrams) : IsDrawn(sources, d)
    /\ diagrams # << >> => draft.stage # "none"

OutcomeKept ==
    outcome.status = "accepted" => draft.stage # "none" /\ PatchHolds(sources, outcome)

DraftKept == PackKept /\ AssignmentKept /\ DraftTyped /\ DrawingKept /\ OutcomeKept

\* The blocks of a patch are the diagrams that were drawn.
LEMMA PatchIsSound ==
  ASSUME NEW d, NEW drawn, drawn \in Seq(ToSet(drawn)), NEW specs,
         BodyHolds(sources, d.body), \A o \in ToSet(drawn) : IsDrawn(sources, o)
  PROVE  PatchHolds(sources, Patch(d, drawn, specs))
  <1> DEFINE P == {i \in DOMAIN drawn : drawn[i].omitted = "none"}
             kept == Picked(drawn, P)
             blocks == [i \in 1 .. Len(kept) |-> [spec |-> kept[i].spec, code |-> kept[i].code]]
             patch == Patch(d, drawn, specs)
  <1>1. patch.body = d.body /\ patch.blocks = blocks
    BY DEF Patch
  <1> HIDE DEF patch
  <1>2. kept \in Seq(ToSet(drawn)) /\ ToSet(kept) = {drawn[i] : i \in P}
    <2>1. P \in SUBSET DOMAIN drawn
      OBVIOUS
    <2> HIDE DEF P
    <2> QED BY <2>1, PickedOf
  <1>3. \A o \in ToSet(kept) : o \in ToSet(drawn) /\ o.omitted = "none"
    BY <1>2 DEF ToSet
  <1> HIDE DEF kept, P
  <1>4. DOMAIN kept = 1 .. Len(kept)
    BY <1>2
  <1>5. ASSUME NEW b \in ToSet(blocks) PROVE IsVerified(sources, b.code)
    <2>1. PICK i \in 1 .. Len(kept) : b = [spec |-> kept[i].spec, code |-> kept[i].code]
      BY <1>5 DEF ToSet
    <2>2. kept[i] \in ToSet(kept)
      BY <1>4 DEF ToSet
    <2>3. IsVerified(sources, kept[i].code)
      BY <1>3, <2>2 DEF IsDrawn
    <2> QED BY <2>1, <2>3
  <1> HIDE DEF blocks
  <1>6. BodyHolds(sources, patch.body) /\ \A b \in ToSet(patch.blocks) : IsVerified(sources, b.code)
    BY <1>1, <1>5
  <1>7. PatchHolds(sources, patch)
    BY <1>6 DEF PatchHolds
  <1> QED BY <1>7 DEF patch

LEMMA AssignIsGrounded ==
  ASSUME DraftKept, Assign, UNCHANGED factsVars
  PROVE  DraftKept'
  <1>1. /\ draft.stage = "none" /\ pack.status = "ok" /\ UNCHANGED diagrams
        /\ assignment'.allowed = AllowedFacts(pack.facts)
    BY DEF Assign
  <1>2. \/ draft' = [draft EXCEPT !.stage = "done"] /\ outcome' = Rejected("no-narrative")
        \/ draft' = [draft EXCEPT !.stage = "writing"] /\ UNCHANGED outcome
    BY DEF Assign
  <1>3. UNCHANGED <<kind, sources, pack>>
    BY DEF factsVars
  <1>4. PackKept' /\ pack.facts = FactsOf(sources)
    BY <1>1, <1>3 DEF DraftKept, PackKept
  <1>5. DraftTyped' /\ draft'.stage \in {"done", "writing"}
    BY <1>2 DEF DraftKept, DraftTyped
  <1>6. AssignmentKept'
    BY <1>1, <1>3, <1>4 DEF AssignmentKept
  <1>7. DrawingKept'
    BY <1>1, <1>3, <1>5 DEF DraftKept, DrawingKept
  <1>8. OutcomeKept'
    BY <1>1, <1>2 DEF DraftKept, OutcomeKept, Rejected
  <1> QED BY <1>4, <1>5, <1>6, <1>7, <1>8 DEF DraftKept

LEMMA WriteIsGrounded ==
  ASSUME DraftKept, Write, UNCHANGED factsVars
  PROVE  DraftKept'
  <1>1. PICK text \in Bodies \cup Rewrites :
            Judge([draft EXCEPT !.body = text, !.calls = @ + 1],
                  LintViolations(text) = {}, FactViolations(text, assignment.allowed) = {})
    BY DEF Write
  <1> DEFINE written == [draft EXCEPT !.body = text, !.calls = @ + 1]
             isStyled == LintViolations(text) = {}
             isTrue == FactViolations(text, assignment.allowed) = {}
  <1>2. draft.stage = "writing" /\ UNCHANGED <<assignment, diagrams, kind, sources, pack>>
    BY DEF Write, factsVars
  <1>3. text \in Text
    BY DraftingAssumption DEF Text
  <1>4. /\ written \in [stage : {"none", "writing", "drawing", "done"}, body : Text,
                        rewrites : Int, calls : Int]
        /\ written.body = text /\ written.stage = "writing"
    <2>1. draft \in [stage : {"none", "writing", "drawing", "done"}, body : Text,
                     rewrites : Int, calls : Int]
      BY DEF DraftKept, DraftTyped
    <2>2. draft.calls + 1 \in Int
      BY <2>1
    <2> QED BY ONLY <1>2, <1>3, <2>1, <2>2
  <1>5. isTrue => BodyHolds(sources, text)
    BY <1>2, <1>3 DEF DraftKept, AssignmentKept, BodyHolds
  <1> HIDE DEF isTrue, isStyled, written
  <1>6. \/ draft' = [written EXCEPT !.rewrites = @ + 1] /\ UNCHANGED outcome
        \/ draft' = [written EXCEPT !.stage = "done"] /\ outcome'.status = "rejected"
        \/ draft' = [written EXCEPT !.stage = "drawing"] /\ UNCHANGED outcome /\ isTrue
        \/ /\ draft' = [written EXCEPT !.stage = "done"] /\ isTrue
           /\ outcome' = Patch(written, << >>, assignment.specs)
    <2>1. Judge(written, isStyled, isTrue)
      BY <1>1 DEF written, isTrue, isStyled
    <2>2. Rejected("lint").status = "rejected" /\ Rejected("fact-check").status = "rejected"
      BY DEF Rejected
    <2>3. isStyled \in BOOLEAN /\ isTrue \in BOOLEAN
      BY DEF isStyled, isTrue
    <2>4. CASE ~isTrue
      <3>1. draft.rewrites \in Int /\ MaxRewrites \in Int
        BY DraftingAssumption DEF DraftKept, DraftTyped
      <3>2. ~isStyled => draft.rewrites < MaxRewrites \/ draft.rewrites >= MaxRewrites
        BY <3>1
      <3> QED BY <2>1, <2>2, <2>3, <2>4, <3>2 DEF Judge
    <2>5. CASE isTrue
      BY <2>1, <2>2, <2>3, <2>5 DEF Judge
    <2> QED BY <2>4, <2>5
  <1>7. DraftTyped' /\ draft'.stage # "none"
    BY <1>4, <1>6 DEF DraftTyped
  <1>8. PackKept' /\ AssignmentKept'
    BY <1>2 DEF DraftKept, PackKept, AssignmentKept
  <1>9. DrawingKept'
    <2>1. draft'.stage = "drawing" => BodyHolds(sources, draft'.body)
      BY <1>4, <1>5, <1>6
    <2> QED BY <1>2, <1>7, <2>1 DEF DraftKept, DrawingKept
  <1>10. OutcomeKept'
    <2>1. CASE outcome' = Patch(written, << >>, assignment.specs) /\ isTrue
      <3>1. BodyHolds(sources, written.body)
        BY <1>4, <1>5, <2>1
      <3>2. << >> \in Seq(ToSet(<< >>)) /\ ToSet(<< >>) = {}
        BY DEF ToSet
      <3>3. PatchHolds(sources, Patch(written, << >>, assignment.specs))
        BY <3>1, <3>2, PatchIsSound
      <3> QED BY <1>2, <1>7, <2>1, <3>3 DEF OutcomeKept
    <2>2. CASE outcome' = outcome
      BY <1>2, <1>7, <2>2 DEF DraftKept, OutcomeKept
    <2>3. CASE outcome'.status = "rejected"
      BY <2>3 DEF OutcomeKept
    <2> QED BY <1>6, <2>1, <2>2, <2>3
  <1> QED BY <1>7, <1>8, <1>9, <1>10 DEF DraftKept

\* A diagram more, in the place of the last one or behind it.
LEMMA DiagramsGrow ==
  ASSUME NEW done, NEW new, diagrams \in Seq(ToSet(diagrams)),
         done = diagrams \/ (diagrams # << >> /\ done = Front(diagrams)),
         \A d \in ToSet(diagrams) : IsDrawn(sources, d), IsDrawn(sources, new)
  PROVE  LET all == Append(done, new)
         IN  all \in Seq(ToSet(all)) /\ all # << >> /\ \A d \in ToSet(all) : IsDrawn(sources, d)
  <1> DEFINE T == ToSet(diagrams) \cup {new}
             all == Append(done, new)
  <1>1. \A d \in T : IsDrawn(sources, d)
    OBVIOUS
  <1>2. done \in Seq(ToSet(diagrams))
    <2> DEFINE S == ToSet(diagrams)
               e == Len(diagrams) - 1
    <2> SUFFICES ASSUME diagrams # << >> PROVE SubSeq(diagrams, 1, e) \in Seq(S)
      BY DEF Front
    <2> HIDE DEF S
    <2>1. e \in Int /\ \A k \in 1 .. e : diagrams[k] \in S
      BY DEF S
    <2> HIDE DEF e
    <2> QED BY <2>1, SubSeqProperties
  <1>3. done \in Seq(T)
    BY <1>2
  <1>4. new \in T
    OBVIOUS
  <1> HIDE DEF T
  <1>5. all \in Seq(T) /\ all # << >>
    BY <1>3, <1>4, AppendProperties
  <1> HIDE DEF all
  <1>6. ToSet(all) \subseteq T /\ all \in Seq(ToSet(all))
    <2>1. /\ DOMAIN all = 1 .. Len(all) /\ \A c \in 1 .. Len(all) : all[c] \in T
          /\ Len(all) \in Nat /\ all = [c \in 1 .. Len(all) |-> all[c]]
      BY <1>5, ItemsOf
    <2>2. \A c \in 1 .. Len(all) : all[c] \in ToSet(all)
      BY <2>1 DEF ToSet
    <2>3. ToSet(all) \subseteq T
      BY <2>1 DEF ToSet
    <2> HIDE DEF all
    <2>4. all \in [1 .. Len(all) -> ToSet(all)]
      BY <2>1, <2>2
    <2> QED BY <2>1, <2>3, <2>4
  <1> QED BY <1>1, <1>5, <1>6 DEF all

LEMMA DrawIsGrounded ==
  ASSUME DraftKept, Draw, UNCHANGED factsVars
  PROVE  DraftKept'
  <1> DEFINE isNew == diagrams = << >> \/ Last(diagrams).omitted # "pending"
             done == IF isNew THEN diagrams ELSE Front(diagrams)
             attempts == IF isNew THEN 1 ELSE Last(diagrams).attempts + 1
             called == [draft EXCEPT !.calls = @ + 1]
             spec == assignment.specs[Len(done) + 1]
  <1>1. PICK code \in Codes : diagrams' = Append(done, Verified(spec, attempts, StripFence(code)))
    BY DEF Draw
  <1>2. draft.stage = "drawing" /\ UNCHANGED <<assignment, kind, sources, pack>>
    BY DEF Draw, factsVars
  <1>3. \/ /\ draft' = [called EXCEPT !.stage = "done"]
           /\ outcome' = Patch(called, diagrams', assignment.specs)
        \/ draft' = called /\ UNCHANGED outcome
    BY DEF Draw
  <1>4. done = diagrams \/ (diagrams # << >> /\ done = Front(diagrams))
    OBVIOUS
  <1>5. /\ called \in [stage : {"none", "writing", "drawing", "done"}, body : Text,
                       rewrites : Int, calls : Int]
        /\ called.body = draft.body /\ called.stage = "drawing"
    BY <1>2 DEF DraftKept, DraftTyped
  <1> HIDE DEF done, attempts, called, spec
  <1>6. IsDrawn(sources, Verified(spec, attempts, StripFence(code)))
    <2> DEFINE text == StripFence(code)
               verdict == DiagramVerdict(spec, text, AllowedFacts(FactsOf(sources)))
               drawn == Verified(spec, attempts, text)
    <2>1. text \in Text
      BY DraftingAssumption, StrippedText DEF Text
    <2> HIDE DEF text
    <2>2. drawn = Drawn(spec, attempts, text, verdict)
      BY <1>2 DEF Verified, DraftKept, AssignmentKept
    <2> HIDE DEF drawn
    <2>3. verdict = "ok" => IsVerified(sources, text)
      BY <2>1 DEF IsVerified
    <2>4. /\ drawn.omitted = "none" => verdict \in {"ok", "none"}
          /\ verdict = "ok" => drawn.code = text
      BY <2>2 DEF Drawn
    <2>5. verdict # "none"
      BY DEF DiagramVerdict
    <2> HIDE DEF verdict
    <2>6. IsDrawn(sources, drawn)
      BY <2>3, <2>4, <2>5 DEF IsDrawn
    <2> QED BY <2>6 DEF drawn, text
  <1>7. /\ diagrams' \in Seq(ToSet(diagrams')) /\ diagrams' # << >>
        /\ \A d \in ToSet(diagrams') : IsDrawn(sources, d)
    BY <1>1, <1>4, <1>6, DiagramsGrow DEF DraftKept, DrawingKept
  <1>8. DraftTyped' /\ draft'.stage # "none"
    BY <1>3, <1>5 DEF DraftTyped
  <1>9. PackKept' /\ AssignmentKept'
    BY <1>2 DEF DraftKept, PackKept, AssignmentKept
  <1>10. BodyHolds(sources, called.body)
    BY <1>2, <1>5 DEF DraftKept, DrawingKept
  <1>11. DrawingKept'
    BY <1>2, <1>3, <1>5, <1>7, <1>8, <1>10 DEF DrawingKept
  <1>12. OutcomeKept'
    <2>1. CASE outcome' = Patch(called, diagrams', assignment.specs)
      <3>1. PatchHolds(sources, Patch(called, diagrams', assignment.specs))
        BY <1>7, <1>10, PatchIsSound
      <3> QED BY <1>2, <1>8, <2>1, <3>1 DEF OutcomeKept
    <2>2. CASE outcome' = outcome
      BY <1>2, <1>8, <2>2 DEF DraftKept, OutcomeKept
    <2> QED BY <1>3, <2>1, <2>2
  <1> QED BY <1>8, <1>9, <1>11, <1>12 DEF DraftKept

\* Only what passed every gate is accepted, and that is true of the records.
LEMMA KeptIsGrounded ==
  ASSUME DraftKept
  PROVE  DraftsAreGrounded
  <1> SUFFICES ASSUME outcome.status = "accepted" PROVE DraftsAreGrounded
    BY DEF DraftsAreGrounded
  <1> DEFINE lines == Lines(outcome.body)
             fences == {i \in 1 .. Len(lines) : IsFence(lines[i])}
             IsCode(i) == Cardinality({f \in fences : f < i}) % 2 = 1
  <1>1. /\ sources \in Sources /\ Screened(sources) # {}
        /\ PatchHolds(sources, outcome)
    BY DEF DraftKept, OutcomeKept, AssignmentKept, PackKept
  <1>2. outcome.body \in Text /\ FactViolations(outcome.body, AllowedFacts(FactsOf(sources))) = {}
    BY <1>1 DEF PatchHolds, BodyHolds
  <1>3. lines \in Seq(Text)
    BY <1>2, PartsOfText DEF Lines, PartsHold
  <1>4. ASSUME NEW i \in 1 .. Len(lines), ~IsFence(lines[i])
        PROVE  /\ \A k \in 1 .. Len(lines[i]) : IsTrueIn(sources, lines[i][k])
               /\ IF Fenced(lines, i) THEN lines[i] = << >> \/ StandsIn(sources, Unprompted(lines[i]))
                  ELSE \A q \in Inside(lines[i], "tick") : StandsIn(sources, q)
    BY <1>1, <1>2, <1>4, CheckedIsTrue
  <1>5. ASSUME NEW b \in ToSet(outcome.blocks), NEW l \in ToSet(Lines(b.code)), ~IsComment(l),
               NEW k \in 1 .. Len(l)
        PROVE  IsTrueIn(sources, l[k])
    <2>1. IsVerified(sources, b.code)
      BY <1>1 DEF PatchHolds
    <2>2. PICK spec : DiagramVerdict(spec, b.code, AllowedFacts(FactsOf(sources))) = "ok"
      BY <2>1 DEF IsVerified
    <2>3. b.code \in Text
      BY <2>1 DEF IsVerified
    <2> QED BY <1>1, <1>5, <2>2, <2>3, DrawnIsTrue
  <1> HIDE DEF lines
  <1>6. DOMAIN lines = 1 .. Len(lines) /\ Len(lines) \in Nat
    BY <1>3
  <1>7. ASSUME NEW i \in DOMAIN lines \ fences PROVE i \in 1 .. Len(lines) /\ ~IsFence(lines[i])
    BY <1>6
  <1>8. ASSUME NEW i \in DOMAIN lines PROVE Fenced(lines, i) <=> IsCode(i)
    <2>1. {f \in fences : f < i} = {j \in 1 .. i - 1 : IsFence(lines[j])}
      BY <1>6
    <2> QED BY <2>1 DEF Fenced
  <1>9. /\ Quotable = QuotableIn(sources) /\ \A c : Told(c) = ToldIn(sources, c)
        /\ \A text : Stands(text) <=> StandsIn(sources, text)
    BY DEF Quotable, QuotableIn, Told, ToldIn, Stands, StandsIn, Standing
  <1> DEFINE all == ToSet(sources)
             days == {Day(r.created) : r \in all} \cup {Day(r.updated) : r \in all} \cup Told("date")
             ids == {r.id : r \in all}
                    \cup (UNION {{l.target : l \in r.relations} : r \in all})
                    \cup Told("id")
             IsTrue(t) == /\ t[1] = "date" => t[2] \in days
                          /\ t[1] = "id" => t[2] \in ids
  <1>10. days = DaysIn(sources) /\ ids = IdsIn(sources)
    BY <1>9 DEF DaysIn, IdsIn
  <1> HIDE DEF days, ids
  <1>11. ASSUME NEW t, IsTrueIn(sources, t) PROVE IsTrue(t)
    BY <1>10, <1>11 DEF IsTrueIn
  <1> HIDE DEF IsTrue
  <1>12. /\ \A i \in DOMAIN lines \ fences : \A k \in 1 .. Len(lines[i]) : IsTrue(lines[i][k])
         /\ \A i \in DOMAIN lines \ fences :
                IF IsCode(i) THEN lines[i] = << >> \/ Stands(Unprompted(lines[i]))
                ELSE \A q \in Inside(lines[i], "tick") : Stands(q)
    BY <1>4, <1>7, <1>8, <1>9, <1>11
  <1>13. \A b \in ToSet(outcome.blocks) : \A l \in ToSet(Lines(b.code)) :
             ~IsComment(l) => \A k \in 1 .. Len(l) : IsTrue(l[k])
    BY <1>5, <1>11
  <1> QED BY <1>12, <1>13 DEF DraftsAreGrounded, IsTrue, days, ids, lines

\* factcheck.ts:231-283, 336-357, diagram.ts:411-423, draft.ts:283-289: whatever
\* records an article is about and whatever a model writes, rewrites and draws, a
\* draft that is accepted names no day and no record its sources do not know, and
\* shows as code or quotes nothing that does not stand in a published record
\* without a flag.
THEOREM DraftsStayGrounded == DraftingSpec => []DraftsAreGrounded
  <1>1. DraftingInit => DraftKept
    <2> SUFFICES ASSUME DraftingInit PROVE DraftKept
      OBVIOUS
    <2>1. /\ pack.status = "none" /\ draft.stage = "none" /\ outcome.status = "none"
          /\ diagrams = << >>
      BY DEF DraftingInit, FactsInit, NoPack, NoDraft, NoOutcome
    <2>2. DraftTyped
      <3>1. << >> \in Text
        BY DEF Text
      <3>2. draft = [stage |-> "none", body |-> << >>, rewrites |-> 0, calls |-> 0]
        BY DEF DraftingInit, NoDraft
      <3> QED BY <3>1, <3>2 DEF DraftTyped
    <2>3. << >> \in Seq(ToSet(<< >>)) /\ ToSet(<< >>) = {}
      BY DEF ToSet
    <2> QED BY <2>1, <2>2, <2>3
              DEF DraftKept, PackKept, AssignmentKept, DrawingKept, OutcomeKept
  <1>2. DraftKept /\ [DraftingNext]_draftingVars => DraftKept'
    <2> SUFFICES ASSUME DraftKept, [DraftingNext]_draftingVars PROVE DraftKept'
      OBVIOUS
    <2>1. CASE Extract /\ UNCHANGED draftVars
      <3>1. /\ kind' \in ArticleKinds /\ sources' \in Sources
            /\ pack' = ExtractFacts(kind', sources') /\ pack = NoPack
        BY <2>1 DEF Extract
      <3>2. PackKept'
        BY <3>1, PackOf DEF PackKept
      <3>3. UNCHANGED <<assignment, draft, diagrams, outcome>> /\ draft.stage = "none"
        <4>1. UNCHANGED <<assignment, draft, diagrams, outcome>>
          BY <2>1 DEF draftVars
        <4>2. pack.status # "ok"
          BY <3>1 DEF NoPack
        <4>3. AssignmentKept
          BY DEF DraftKept
        <4>4. draft.stage = "none"
          BY ONLY <4>2, <4>3 DEF AssignmentKept
        <4> QED BY ONLY <4>1, <4>4
      <3>4. diagrams = << >> /\ outcome.status # "accepted"
        BY <3>3 DEF DraftKept, DrawingKept, OutcomeKept
      <3>5. AssignmentKept' /\ DraftTyped' /\ OutcomeKept'
        BY <3>3, <3>4 DEF DraftKept, AssignmentKept, DraftTyped, OutcomeKept
      <3>6. DrawingKept'
        <4>1. << >> \in Seq(ToSet(<< >>)) /\ ToSet(<< >>) = {}
          BY DEF ToSet
        <4> QED BY <3>3, <3>4, <4>1 DEF DrawingKept
      <3> QED BY <3>2, <3>5, <3>6 DEF DraftKept
    <2>2. CASE (Assign \/ Write \/ Draw) /\ UNCHANGED factsVars
      BY <2>2, AssignIsGrounded, WriteIsGrounded, DrawIsGrounded
    <2>3. CASE Fail /\ UNCHANGED factsVars
      <3>1. /\ draft.stage \in {"writing", "drawing"} /\ outcome'.status = "failed"
            /\ draft' = [draft EXCEPT !.stage = "done", !.calls = @ + 1]
            /\ UNCHANGED <<assignment, diagrams, kind, sources, pack>>
        BY <2>3 DEF Fail, factsVars
      <3>2. DraftTyped' /\ draft'.stage = "done"
        <4>1. draft \in [stage : {"none", "writing", "drawing", "done"}, body : Text,
                         rewrites : Int, calls : Int]
          BY DEF DraftKept, DraftTyped
        <4>2. draft.calls + 1 \in Int
          BY <4>1
        <4>3. /\ draft' \in [stage : {"none", "writing", "drawing", "done"}, body : Text,
                             rewrites : Int, calls : Int]
              /\ draft'.stage = "done"
          BY ONLY <3>1, <4>1, <4>2
        <4> QED BY <4>3 DEF DraftTyped
      <3>3. PackKept' /\ AssignmentKept' /\ DrawingKept' /\ OutcomeKept'
        BY <3>1, <3>2 DEF DraftKept, PackKept, AssignmentKept, DrawingKept, OutcomeKept
      <3> QED BY <3>2, <3>3 DEF DraftKept
    <2>4. CASE UNCHANGED draftingVars
      BY <2>4 DEF draftingVars, factsVars, draftVars, DraftKept, PackKept, AssignmentKept,
                  DraftTyped, DrawingKept, OutcomeKept
    <2> QED BY <2>1, <2>2, <2>3, <2>4 DEF DraftingNext
  <1>3. DraftKept => DraftsAreGrounded
    BY KeptIsGrounded
  <1> QED BY <1>1, <1>2, <1>3, PTL DEF DraftingSpec

-----------------------------------------------------------------------------
(* The prompts: nothing else is ever sent.                                 *)

\* The labels of a tally are those of the records it counts.
LEMMA TallyNames ==
  ASSUME NEW S, \A r \in S : IsMaterial(r), NEW labels, IsFiniteSet(DOMAIN labels),
         \A i \in DOMAIN labels : \E r \in S : labels[i] \in LabelsOf(r),
         NEW e \in ToSet(Tally(labels))
  PROVE  \E r \in S : \E l \in LabelsOf(r) : IsPublishableLabel(l) /\ l.name = e.key
  <1>1. \A i \in KeptLabels(labels) : labels[i].name \in Nat
    BY DEF KeptLabels, IsMaterial
  <1>2. PICK i \in KeptLabels(labels) : e.key = labels[i].name
    BY <1>1, TallyTotals
  <1>3. i \in DOMAIN labels /\ IsPublishableLabel(labels[i])
    BY DEF KeptLabels
  <1> QED BY <1>2, <1>3

\* The places of the tags of some records.
LEMMA TagPlaces ==
  ASSUME NEW S, NEW m \in Seq(S), \A r \in S : IsMaterial(r)
  PROVE  IsFiniteSet(UNION {{i} \X m[i].tags : i \in 1 .. Len(m)})
  <1> DEFINE n == Len(m)
             K == 1 .. n
             g == [i \in K |-> {i} \X m[i].tags]
             P == {{i} \X m[i].tags : i \in K}
  <1>1. n \in Nat /\ \A i \in K : m[i] \in S
    OBVIOUS
  <1>2. IsFiniteSet(K)
    <2> HIDE DEF n
    <2> QED BY <1>1, FS_Interval
  <1>3. DOMAIN g = K /\ g = [i \in K |-> g[i]] /\ P = {g[i] : i \in K}
    OBVIOUS
  <1>4. \A i \in K : IsFiniteSet({i} \X m[i].tags)
    <2> SUFFICES ASSUME NEW i \in K PROVE IsFiniteSet({i} \X m[i].tags)
      OBVIOUS
    <2>1. IsFiniteSet(m[i].tags) /\ IsFiniteSet({i})
      BY <1>1, FS_Singleton DEF IsMaterial
    <2> HIDE DEF K
    <2> QED BY <2>1, FS_Product
  <1> HIDE DEF K, g
  <1>5. IsFiniteSet(P)
    <2> HIDE DEF P
    <2> QED BY <1>2, <1>3, ValuesAreFew
  <1>6. \A p \in P : IsFiniteSet(p)
    BY <1>4
  <1> HIDE DEF P
  <1>7. IsFiniteSet(UNION P)
    BY <1>5, <1>6, FS_UNION
  <1> QED BY <1>7 DEF P, K, n

\* The labels of records, as a distribution counts them.
LEMMA LabelsCounted ==
  ASSUME NEW S, NEW m \in Seq(S), \A r \in S : IsMaterial(r)
  PROVE  LET d == DivergenceFacts(m)
         IN  \A t \in {TagDistribution(m), ProjectDistribution(m), d.byModel, d.byTool} :
                 \A e \in ToSet(t) :
                     \E r \in S : \E l \in LabelsOf(r) : IsPublishableLabel(l) /\ l.name = e.key
  <1> DEFINE Known(labels) == /\ IsFiniteSet(DOMAIN labels)
                              /\ \A i \in DOMAIN labels : \E r \in S : labels[i] \in LabelsOf(r)
             div == Divergences(m)
             tags == [p \in UNION {{i} \X m[i].tags : i \in 1 .. Len(m)} |-> p[2]]
             projects == [i \in 1 .. Len(m) |-> m[i].project]
             models == [i \in 1 .. Len(div) |-> div[i].model]
             tools == [i \in 1 .. Len(div) |-> div[i].tool]
  <1>1. /\ TagDistribution(m) = Tally(tags) /\ ProjectDistribution(m) = Tally(projects)
        /\ DivergenceFacts(m).byModel = Tally(models) /\ DivergenceFacts(m).byTool = Tally(tools)
    BY DEF TagDistribution, ProjectDistribution, DivergenceFacts, Divergences
  <1>2. /\ Len(m) \in Nat /\ \A i \in 1 .. Len(m) : m[i] \in S
        /\ Len(div) \in Nat /\ \A i \in 1 .. Len(div) : div[i] \in S
    <2>1. div \in Seq(S)
      BY DivergencesOf
    <2> HIDE DEF div
    <2> QED BY <2>1
  <1>3. \A n \in Nat : IsFiniteSet(1 .. n)
    BY FS_Interval
  <1>4. Known(tags)
    <2>1. IsFiniteSet(DOMAIN tags)
      BY TagPlaces
    <2>2. ASSUME NEW p \in DOMAIN tags PROVE \E r \in S : tags[p] \in LabelsOf(r)
      <3>1. PICK i \in 1 .. Len(m) : p \in {i} \X m[i].tags
        OBVIOUS
      <3>2. tags[p] = p[2] /\ p[2] \in m[i].tags
        BY <3>1
      <3>3. tags[p] \in LabelsOf(m[i])
        BY <3>2 DEF LabelsOf
      <3> QED BY <1>2, <3>3
    <2> QED BY <2>1, <2>2
  <1> HIDE DEF div
  <1>5. Known(projects)
    <2>1. DOMAIN projects = 1 .. Len(m) /\ \A i \in 1 .. Len(m) : projects[i] = m[i].project
      OBVIOUS
    <2>2. \A i \in 1 .. Len(m) : projects[i] \in LabelsOf(m[i])
      BY <2>1 DEF LabelsOf
    <2> HIDE DEF projects
    <2> QED BY <1>2, <1>3, <2>1, <2>2
  <1>6. Known(models)
    <2>1. DOMAIN models = 1 .. Len(div) /\ \A i \in 1 .. Len(div) : models[i] = div[i].model
      OBVIOUS
    <2>2. \A i \in 1 .. Len(div) : models[i] \in LabelsOf(div[i])
      BY <2>1 DEF LabelsOf
    <2> HIDE DEF models
    <2> QED BY <1>2, <1>3, <2>1, <2>2
  <1>7. Known(tools)
    <2>1. DOMAIN tools = 1 .. Len(div) /\ \A i \in 1 .. Len(div) : tools[i] = div[i].tool
      OBVIOUS
    <2>2. \A i \in 1 .. Len(div) : tools[i] \in LabelsOf(div[i])
      BY <2>1 DEF LabelsOf
    <2> HIDE DEF tools
    <2> QED BY <1>2, <1>3, <2>1, <2>2
  <1> HIDE DEF tags, projects, models, tools
  <1>8. \A labels \in {tags, projects, models, tools} : \A e \in ToSet(Tally(labels)) :
            \E r \in S : \E l \in LabelsOf(r) : IsPublishableLabel(l) /\ l.name = e.key
    <2>1. \A labels \in {tags, projects, models, tools} : Known(labels)
      BY <1>4, <1>5, <1>6, <1>7
    <2> QED BY <2>1, TallyNames
  <1> QED BY <1>1, <1>8

\* renderFactsBlock: what a model is told of the facts.
LEMMA FactsAreGiven ==
  ASSUME sources \in Sources, Screened(sources) # {}
  PROVE  FactsAreClean(FactsBlock(FactsOf(sources)))
  <1> DEFINE f == FactsOf(sources)
             b == FactsBlock(f)
             m == ScreenMaterial(sources)
             S == Screened(sources)
             Quoted(e) == [kind |-> e.kind, text |-> e.text]
             Clean(text) == /\ \E r \in Quotable : \E i \in 1 .. Len(r.texts) :
                                  Includes(r.texts[i], text)
                            /\ ~Holds(text, {"inject", "secret", "prose", "script"})
  <1>1. /\ f.tags = TagDistribution(m) /\ f.project = ProjectDistribution(m)
        /\ f.divergence = DivergenceFacts(m) /\ f.commonTags = CommonTags(m)
        /\ f.timeline = Timeline(m)
    BY DEF FactsOf, FactPack
  <1>2. /\ m \in Seq(S) /\ m # << >> /\ ToSet(m) = S /\ IsFiniteSet(S)
        /\ \A r \in S : IsMaterial(r)
    BY MaterialKnown
  <1> HIDE DEF f, m
  <1>3. /\ b.tags = f.tags /\ b.project = f.project /\ b.commonTags = f.commonTags
        /\ b.divergence.byModel = f.divergence.byModel /\ b.divergence.byTool = f.divergence.byTool
        /\ b.citations = [i \in DOMAIN f.citations |-> Quoted(f.citations[i])]
        /\ b.signals = [i \in DOMAIN f.signals |-> Quoted(f.signals[i])]
        /\ b.timeline = [i \in DOMAIN f.timeline |->
                            [day |-> Day(f.timeline[i].at), record |-> f.timeline[i].record,
                             event |-> f.timeline[i].event]]
    BY DEF FactsBlock
  <1> HIDE DEF b, S
  <1>4. ASSUME NEW e \in ToSet(f.citations) \cup ToSet(f.signals) PROVE Clean(e.text)
    <2>1. \E r \in Quotable : \E i \in 1 .. Len(r.texts) : Includes(r.texts[i], e.text)
      BY <1>4, EvidenceStands DEF Evidence, f, Quotable, QuotableIn
    <2>2. \A i \in 1 .. Len(e.text) :
              e.text[i][1] \notin {"secret", "inject", "prose", "script", "break"}
      BY <1>4, EvidenceIsSourced DEF f
    <2> QED BY <2>1, <2>2 DEF Holds
  <1>5. ASSUME NEW q \in ToSet(b.citations) \cup ToSet(b.signals) PROVE Clean(q.text)
    <2>1. PICK e \in ToSet(f.citations) \cup ToSet(f.signals) : q = Quoted(e)
      BY <1>3 DEF ToSet
    <2>2. q.text = e.text
      BY <2>1
    <2> HIDE DEF Clean
    <2> QED BY <1>4, <2>2
  <1>6. \A name : IsLabel(name) <=>
            \E r \in S : \E l \in LabelsOf(r) : IsPublishableLabel(l) /\ l.name = name
    BY DEF IsLabel, S
  <1>7. \A d \in {b.tags, b.project, b.divergence.byModel, b.divergence.byTool} :
            \A e \in ToSet(d) : IsLabel(e.key)
    <2>1. {b.tags, b.project, b.divergence.byModel, b.divergence.byTool} =
              {TagDistribution(m), ProjectDistribution(m),
               DivergenceFacts(m).byModel, DivergenceFacts(m).byTool}
      BY <1>1, <1>3
    <2>2. \A d \in {TagDistribution(m), ProjectDistribution(m),
                    DivergenceFacts(m).byModel, DivergenceFacts(m).byTool} :
              \A e \in ToSet(d) :
                  \E r \in S : \E l \in LabelsOf(r) : IsPublishableLabel(l) /\ l.name = e.key
      BY <1>2, LabelsCounted
    <2> QED BY <1>6, <2>1, <2>2
  <1>8. ASSUME NEW t \in b.commonTags PROVE IsLabel(t.name)
    <2>1. t \in m[1].tags /\ IsPublishableLabel(t)
      BY <1>1, <1>3 DEF CommonTags
    <2>2. m[1] \in S
      BY <1>2
    <2>3. t \in LabelsOf(m[1])
      BY <2>1 DEF LabelsOf
    <2> QED BY <1>6, <2>1, <2>2, <2>3
  <1>9. ASSUME NEW q \in ToSet(b.timeline)
        PROVE  \E r \in S : q.record = r.id /\ q.day \in {Day(r.created), Day(r.updated)}
    <2>1. PICK e \in ToSet(f.timeline) : q.day = Day(e.at) /\ q.record = e.record
      BY <1>3 DEF ToSet
    <2>2. ToSet(Timeline(m)) = CreatedEntries(S) \cup UpdatedEntries(S)
      BY <1>2, TimelineOf DEF IsMaterial
    <2>3. PICK r \in S : e = EntryOf(r, "created", r.created) \/ e = EntryOf(r, "updated", r.updated)
      BY <1>1, <2>1, <2>2 DEF CreatedEntries, UpdatedEntries
    <2>4. e.record = r.id /\ e.at \in {r.created, r.updated}
      BY <2>3 DEF EntryOf
    <2> QED BY <2>1, <2>4
  <1>10. FactsAreClean(b)
    BY <1>5, <1>7, <1>8, <1>9 DEF FactsAreClean, S
  <1> QED BY <1>10 DEF b, f

\* A prompt is sent once, for facts that were found.
PromptKept ==
    /\ PackKept
    /\ "stage" \in DOMAIN draft
    /\ prompt.status = "sent" => pack.status = "ok" /\ draft.stage # "none"
    /\ PromptsAreClean

\* A draft that is judged stays begun.
LEMMA JudgedIsBegun ==
  ASSUME NEW written, DOMAIN written = DOMAIN draft, "stage" \in DOMAIN draft,
         written = [k \in DOMAIN written |-> written[k]],
         written.stage # "none", NEW isStyled, NEW isTrue, Judge(written, isStyled, isTrue)
  PROVE  "stage" \in DOMAIN draft' /\ draft'.stage # "none"
  <1>1. \/ draft' = [written EXCEPT !.rewrites = @ + 1]
        \/ draft' = [written EXCEPT !.stage = "done"]
        \/ draft' = [written EXCEPT !.stage = "drawing"]
    BY DEF Judge
  <1>2. QED
    BY <1>1

\* What was sent was sent of these records.
LEMMA SentStaysClean ==
  ASSUME PromptsAreClean, UNCHANGED <<sources, prompt, assignment>>
  PROVE  PromptsAreClean'
  <1>1. Quotable' = Quotable
    BY DEF Quotable
  <1>2. ASSUME FactsAreClean(prompt.facts) PROVE FactsAreClean(prompt.facts)'
    BY <1>2 DEF FactsAreClean, IsLabel, Quotable
  <1>3. CASE prompt.status # "sent"
    BY <1>3 DEF PromptsAreClean
  <1>4. CASE prompt.status = "sent"
    <2>1. FactsAreClean(prompt.facts)'
      BY <1>2, <1>4 DEF PromptsAreClean
    <2> QED BY <1>1, <1>4, <2>1 DEF PromptsAreClean
  <1> QED BY <1>3, <1>4

LEMMA AssignKeepsPrompts ==
  ASSUME PromptKept, Assign, UNCHANGED factsVars
  PROVE  PromptKept'
  <1>1. PICK a \in Assignments :
            LET narrative == Narrative(sources, pack.facts.ids)
            IN  /\ assignment' = [samples |-> a.samples, diagrams |-> a.diagrams,
                                  allowed |-> AllowedFacts(pack.facts),
                                  specs |-> DiagramSpecs(pack.facts)]
                /\ IF narrative.parts = {}
                   THEN /\ draft' = [draft EXCEPT !.stage = "done"] /\ UNCHANGED prompt
                   ELSE /\ prompt' = [status |-> "sent", facts |-> FactsBlock(pack.facts),
                                      outline |-> Outline(pack.facts), narrative |-> narrative,
                                      style |-> StyleSamples(a.samples)]
                        /\ draft' = [draft EXCEPT !.stage = "writing"]
    BY DEF Assign
  <1> DEFINE narrative == Narrative(sources, pack.facts.ids)
             style == StyleSamples(a.samples)
             facts == FactsBlock(pack.facts)
             outline == Outline(pack.facts)
  <1>2. UNCHANGED <<sources, pack>> /\ pack.status = "ok" /\ draft.stage = "none"
    BY DEF Assign, factsVars
  <1>3. /\ PackKept' /\ sources \in Sources /\ Screened(sources) # {}
        /\ pack.facts = FactsOf(sources) /\ pack.facts.ids = {r.id : r \in Screened(sources)}
    <2>1. PackKept /\ PackKept'
      BY <1>2 DEF PromptKept, PackKept, factsVars
    <2>2. FactsOf(sources).ids = {r.id : r \in Screened(sources)}
      BY DEF FactsOf, FactPack
    <2> QED BY <1>2, <2>1, <2>2 DEF PackKept
  <1>4. "stage" \in DOMAIN draft' /\ draft'.stage # "none"
    BY <1>1 DEF PromptKept
  <1>5. CASE prompt' = prompt
    BY <1>2, <1>3, <1>4, <1>5 DEF PromptKept, PromptsAreClean
  <1>6. CASE prompt' = [status |-> "sent", facts |-> facts, outline |-> outline,
                        narrative |-> narrative, style |-> style]
    <2>1. /\ prompt'.narrative = narrative /\ prompt'.style = style /\ prompt'.facts = facts
          /\ assignment'.samples = a.samples
      BY <1>1, <1>6
    <2>2. /\ \A h \in narrative.heads : \E r \in ToSet(sources) :
                r.status = "published" /\ r.flags = {} /\ r.id = h.record
          /\ \A p \in narrative.parts :
                /\ \E r \in ToSet(sources) : /\ r.status = "published" /\ r.flags = {}
                                             /\ r.id = p.record
                                             /\ IsPrefix(p.text, Parts(r)[p.part])
                /\ ~Holds(p.text, Forbidden)
          /\ \A r \in ToSet(sources) : \A i \in 1 .. Len(Parts(r)) :
                Given(narrative, r, i) <=> ~Named(narrative, r, i)
      BY <1>3, NarrativeIsClean
    <2>3. a.samples \in Seq(Text)
      BY DraftingAssumption DEF Text
    <2>4. /\ \A t \in style.samples : t # << >> /\ ~Holds(t, {"inject", "secret"})
          /\ Cardinality(style.rejected) + Cardinality(style.samples) <= Len(a.samples)
      BY <2>3, StyleIsClean
    <2>7. FactsAreClean(facts)
      BY <1>3, FactsAreGiven
    <2> HIDE DEF narrative, style, facts, outline
    <2>5. PromptsAreClean'
      <3>1. \A p \in narrative.parts :
                \E r \in Quotable : r.id = p.record /\ IsPrefix(p.text, Parts(r)[p.part])
        BY <2>2 DEF Quotable
      <3>2. \A p \in narrative.parts : ~Holds(p.text, {"inject", "secret", "url", "script"})
        BY <2>2 DEF Forbidden
      <3>3. \A r \in ToSet(sources) : \A i \in 1 .. Len(Parts(r)) :
                (\E p \in narrative.parts : p.record = r.id /\ p.part = i)
                    # (\E x \in narrative.excluded : x.record = r.id /\ x.part \in {0, i})
        BY <2>2 DEF Given, Named
      <3>4. Quotable' = Quotable
        BY <1>2 DEF Quotable
      <3>5. FactsAreClean(prompt.facts)'
        <4>1. FactsAreClean(prompt'.facts)
          BY <2>1, <2>7
        <4>2. UNCHANGED sources
          BY <1>2
        <4> QED BY <4>1, <4>2 DEF FactsAreClean, IsLabel, Quotable
      <3>6. \A h \in narrative.heads : \E r \in Quotable : r.id = h.record
        BY <2>2 DEF Quotable
      <3>7. QED
        BY <1>2, <2>1, <2>4, <3>1, <3>2, <3>3, <3>4, <3>5, <3>6 DEF PromptsAreClean
    <2>6. QED
      BY <1>2, <1>3, <1>4, <2>5 DEF PromptKept
  <1>7. QED
    BY <1>1, <1>5, <1>6

\* draft.ts:224-229, 362-408, narrative.ts:184-263, style.ts:93-108: whatever
\* records an article is about and whatever files lie in the style directory,
\* no model is ever given the words of a record that is not published or has a
\* flag, in the facts or in the narrative, nor an instruction, a secret or a foreign
\* script of any, nor an address in its prose; each part not given is named with
\* a reason, and no label is named but one of a record that passed the screen.
THEOREM PromptsStayClean == DraftingSpec => []PromptsAreClean
  <1>1. DraftingInit => PromptKept
    BY DEF DraftingInit, FactsInit, NoPack, NoDraft, PromptKept, PackKept, PromptsAreClean
  <1>2. PromptKept /\ [DraftingNext]_draftingVars => PromptKept'
    <2> SUFFICES ASSUME PromptKept, [DraftingNext]_draftingVars PROVE PromptKept'
      OBVIOUS
    <2>1. CASE Extract /\ UNCHANGED draftVars
      <3>1. kind' \in ArticleKinds /\ sources' \in Sources /\ pack' = ExtractFacts(kind', sources')
        BY <2>1 DEF Extract
      <3>2. PackKept'
        BY <3>1, PackOf DEF PackKept
      <3>3. UNCHANGED <<prompt, draft>> /\ prompt.status # "sent"
        BY <2>1 DEF Extract, draftVars, NoPack, PromptKept
      <3>4. QED
        BY <3>2, <3>3 DEF PromptKept, PromptsAreClean
    <2>2. CASE Assign /\ UNCHANGED factsVars
      BY <2>2, AssignKeepsPrompts
    <2>3. ASSUME UNCHANGED factsVars, UNCHANGED <<assignment, prompt>>,
                 "stage" \in DOMAIN draft', draft'.stage # "none"
          PROVE  PromptKept'
      <3>1. UNCHANGED <<kind, sources, pack>>
        BY <2>3 DEF factsVars
      <3>2. PackKept'
        BY <3>1 DEF PromptKept, PackKept
      <3>3. PromptsAreClean'
        BY <2>3, <3>1, SentStaysClean DEF PromptKept
      <3>4. QED
        BY <2>3, <3>1, <3>2, <3>3 DEF PromptKept
    <2>4. CASE Write /\ UNCHANGED factsVars
      <3>1. PICK text : Judge([draft EXCEPT !.body = text, !.calls = @ + 1],
                              LintViolations(text) = {},
                              FactViolations(text, assignment.allowed) = {})
        BY <2>4 DEF Write
      <3> DEFINE written == [draft EXCEPT !.body = text, !.calls = @ + 1]
      <3>2. /\ DOMAIN written = DOMAIN draft /\ written = [k \in DOMAIN written |-> written[k]]
            /\ "stage" \in DOMAIN draft /\ written.stage # "none"
        BY <2>4 DEF Write, PromptKept
      <3> HIDE DEF written
      <3>3. "stage" \in DOMAIN draft' /\ draft'.stage # "none"
        BY <3>1, <3>2, JudgedIsBegun DEF written
      <3>4. QED
        BY <2>3, <2>4, <3>3 DEF Write
    <2>5. CASE (Draw \/ Fail) /\ UNCHANGED factsVars
      <3>1. "stage" \in DOMAIN draft /\ draft.stage # "none"
        BY <2>5 DEF Draw, Fail, PromptKept
      <3>2. \/ draft' = [[draft EXCEPT !.calls = @ + 1] EXCEPT !.stage = "done"]
            \/ draft' = [draft EXCEPT !.calls = @ + 1]
            \/ draft' = [draft EXCEPT !.stage = "done", !.calls = @ + 1]
        BY <2>5 DEF Draw, Fail
      <3>3. "stage" \in DOMAIN draft' /\ draft'.stage # "none"
        BY <3>1, <3>2
      <3>4. QED
        BY <2>3, <2>5, <3>3 DEF Draw, Fail
    <2>6. CASE UNCHANGED draftingVars
      <3>1. UNCHANGED <<kind, sources, pack, prompt, assignment, draft>>
        BY <2>6 DEF draftingVars, factsVars, draftVars
      <3>2. PackKept'
        BY <3>1 DEF PromptKept, PackKept
      <3>3. PromptsAreClean'
        BY <3>1, SentStaysClean DEF PromptKept
      <3>4. QED
        BY <3>1, <3>2, <3>3 DEF PromptKept
    <2>7. QED
      BY <2>1, <2>2, <2>4, <2>5, <2>6 DEF DraftingNext
  <1>3. PromptKept => PromptsAreClean
    BY DEF PromptKept
  <1>4. QED
    BY <1>1, <1>2, <1>3, PTL DEF DraftingSpec
=============================================================================
