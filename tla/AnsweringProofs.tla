--------------------------- MODULE AnsweringProofs ---------------------------
(***************************************************************************)
(* Proofs about searches and answers:                                      *)
(*   SlotsStayShared, BetterRankedAreFirst  what a search lists,           *)
(*   SuspectsAreKeptOut   what the model is shown,                         *)
(*   CallsAreEarned       what it is paid for,                             *)
(*   GroundedAsDelivered  what is delivered of its answer.                 *)
(***************************************************************************)
EXTENDS Answering, ListFacts

-----------------------------------------------------------------------------
(* The lists of the retriever.                                             *)

LEMMA CutList ==
  ASSUME NEW T, NEW list \in Seq(T), NEW k \in Nat
  PROVE  /\ Cut(list, k) \in Seq(T)
         /\ Len(Cut(list, k)) = IF Len(list) < k THEN Len(list) ELSE k
         /\ Len(Cut(list, k)) <= Len(list)
         /\ \A i \in 1 .. Len(Cut(list, k)) : Cut(list, k)[i] = list[i]
  BY DEF Cut

\* Hits and candidates are chunks in either case.
OfChunks(T) == \A x \in T : x.chunk \in Chunks

Earlier(list, i) == {j \in 1 .. i - 1 : RecordOf[list[j].chunk] = RecordOf[list[i].chunk]}
Kept(list) == {i \in DOMAIN list : Cardinality(Earlier(list, i)) < MaxChunksPerRecord}

LEMMA EarlierCounts ==
  ASSUME NEW list, NEW n \in Nat, NEW i \in 1 .. n
  PROVE  /\ IsFiniteSet(Earlier(list, i)) /\ Cardinality(Earlier(list, i)) \in Nat
         /\ \A j \in Earlier(list, i) : Cardinality(Earlier(list, j)) < Cardinality(Earlier(list, i))
  <1>1. ASSUME NEW j \in 1 .. n
        PROVE  IsFiniteSet(Earlier(list, j)) /\ Cardinality(Earlier(list, j)) \in Nat
    <2>1. IsFiniteSet(1 .. j - 1) /\ Earlier(list, j) \subseteq 1 .. j - 1
      BY FS_Interval DEF Earlier
    <2>2. QED
      BY <2>1, FS_Subset, FS_CardinalityType
  <1>2. ASSUME NEW j \in Earlier(list, i)
        PROVE  Cardinality(Earlier(list, j)) < Cardinality(Earlier(list, i))
    <2>1. j \in 1 .. n
      BY DEF Earlier
    <2>2. Earlier(list, j) \subseteq Earlier(list, i) /\ j \notin Earlier(list, j)
      BY DEF Earlier
    <2>3. /\ Cardinality(Earlier(list, j)) <= Cardinality(Earlier(list, i))
          /\ Cardinality(Earlier(list, j)) # Cardinality(Earlier(list, i))
      BY <1>1, <2>2, FS_Subset
    <2>4. Cardinality(Earlier(list, j)) \in Nat /\ Cardinality(Earlier(list, i)) \in Nat
      BY <1>1, <2>1
    <2>5. QED
      BY <2>3, <2>4
  <1>3. QED
    BY <1>1, <1>2

\* dedupeByRecordId keeps every record, and of each at most MaxChunksPerRecord
\* candidates, told apart by how many of their record come before them.
LEMMA DedupeList ==
  ASSUME NEW T, OfChunks(T), NEW list \in Seq(T)
  PROVE  /\ Dedupe(list) \in Seq(T)
         /\ ToSet(Dedupe(list)) \subseteq ToSet(list)
         /\ RecordsIn(Dedupe(list)) = RecordsIn(list)
         /\ \E slot \in [DOMAIN Dedupe(list) -> 0 .. MaxChunksPerRecord - 1] :
               \A i, j \in DOMAIN Dedupe(list) :
                   RecordOf[Dedupe(list)[i].chunk] = RecordOf[Dedupe(list)[j].chunk]
                       /\ slot[i] = slot[j] => i = j
  <1> DEFINE P == Kept(list)
             n == Cardinality(P)
             D == Dedupe(list)
             Rec(i) == RecordOf[list[i].chunk]
  <1>1. D = Picked(list, P)
    BY DEF Dedupe, Kept, Earlier
  <1>2. P \in SUBSET DOMAIN list
    BY DEF Kept
  <1>3. DOMAIN list = 1 .. Len(list) /\ Len(list) \in Nat
    OBVIOUS
  <1>4. /\ n \in Nat /\ D \in Seq(T) /\ DOMAIN D = 1 .. n
        /\ \E order : PicksBy(order, list, P)
    BY <1>1, <1>2, PickedList
  <1>5. PICK order : PicksBy(order, list, P)
    BY <1>4
  <1>6. /\ order \in [1 .. n -> P]
        /\ \A p \in P : \E k \in 1 .. n : order[k] = p
        /\ \A j, k \in 1 .. n : j < k <=> order[j] < order[k]
        /\ \A k \in 1 .. n : D[k] = list[order[k]]
    BY <1>1, <1>5 DEF PicksBy
  <1>7. MaxChunksPerRecord \in Nat \ {0}
    BY RetrievalAssumption
  <1>8. \A i \in DOMAIN list : /\ Cardinality(Earlier(list, i)) \in Nat
                               /\ \A j \in Earlier(list, i) :
                                     Cardinality(Earlier(list, j)) < Cardinality(Earlier(list, i))
    BY <1>3, EarlierCounts
  <1>9. RecordsIn(D) = {Rec(p) : p \in P} /\ RecordsIn(list) = {Rec(p) : p \in DOMAIN list}
    <2> HIDE DEF P, D, n
    <2>1. \A r : r \in RecordsIn(D) <=> \E k \in 1 .. n : r = RecordOf[D[k].chunk]
      BY <1>4 DEF RecordsIn, ChunksIn
    <2>2. \A r : r \in RecordsIn(list) <=> \E k \in DOMAIN list : r = RecordOf[list[k].chunk]
      BY DEF RecordsIn, ChunksIn
    <2>3. QED
      BY <1>6, <2>1, <2>2
  <1>10. ToSet(D) \subseteq ToSet(list)
    <2> HIDE DEF P, D, n
    <2>1. QED
      BY <1>2, <1>4, <1>6 DEF ToSet
  <1>11. ASSUME NEW q \in DOMAIN list PROVE \E p \in P : Rec(p) = Rec(q)
    <2> DEFINE Q == {i \in DOMAIN list : Rec(i) = Rec(q)}
    <2>1. Q \in SUBSET Nat /\ q \in Q
      BY <1>3
    <2>2. PICK p \in Q : \A i \in Q : p <= i
      BY <2>1, LeastOf
    <2>3. Earlier(list, p) = {}
      BY <1>3, <2>2 DEF Earlier
    <2>4. Cardinality(Earlier(list, p)) < MaxChunksPerRecord
      BY <1>7, <2>3, FS_EmptySet
    <2>5. QED
      BY <2>2, <2>4 DEF Kept
  <1>12. RecordsIn(D) = RecordsIn(list)
    <2> HIDE DEF D
    <2>1. \A p \in P : p \in DOMAIN list
      BY <1>2
    <2> HIDE DEF P, Rec
    <2>2. QED
      BY <1>9, <1>11, <2>1
  <1> DEFINE slot == [k \in 1 .. n |-> Cardinality(Earlier(list, order[k]))]
  <1>13. slot \in [1 .. n -> 0 .. MaxChunksPerRecord - 1]
    <2>1. \A p \in P : /\ Cardinality(Earlier(list, p)) \in Nat
                       /\ Cardinality(Earlier(list, p)) < MaxChunksPerRecord
      BY <1>8 DEF Kept
    <2> HIDE DEF P, n
    <2>2. QED
      BY <1>6, <1>7, <2>1
  <1>14. ASSUME NEW i \in 1 .. n, NEW j \in 1 .. n,
                RecordOf[D[i].chunk] = RecordOf[D[j].chunk], slot[i] = slot[j]
         PROVE  i = j
    <2>1. /\ order[i] \in P /\ order[j] \in P /\ order[i] \in DOMAIN list /\ order[j] \in DOMAIN list
          /\ Rec(order[i]) = Rec(order[j])
          /\ Cardinality(Earlier(list, order[i])) = Cardinality(Earlier(list, order[j]))
      BY <1>2, <1>6, <1>14
    <2>2. order[i] \notin Earlier(list, order[j]) /\ order[j] \notin Earlier(list, order[i])
      BY <1>8, <2>1
    <2>3. order[i] = order[j]
      <3>1. order[i] \in 1 .. Len(list) /\ order[j] \in 1 .. Len(list)
        BY <1>3, <2>1
      <3>2. ~(order[i] < order[j]) /\ ~(order[j] < order[i])
        BY <2>1, <2>2, <3>1 DEF Earlier
      <3>3. QED
        BY <3>1, <3>2
    <2>4. i \in Int /\ j \in Int /\ ~(i < j) /\ ~(j < i)
      <3>1. ~(order[i] < order[j]) /\ ~(order[j] < order[i])
        BY <1>3, <2>1, <2>3
      <3> HIDE DEF n
      <3>2. QED
        BY <1>4, <1>6, <3>1
    <2>5. QED
      BY <2>4
  <1>15. DOMAIN D = 1 .. n /\ D \in Seq(T)
    BY <1>4
  <1> HIDE DEF D, n, slot
  <1>16. QED
    <2>1. \A i, j \in DOMAIN D :
              RecordOf[D[i].chunk] = RecordOf[D[j].chunk] /\ slot[i] = slot[j] => i = j
      BY <1>14, <1>15
    <2>2. slot \in [DOMAIN D -> 0 .. MaxChunksPerRecord - 1]
      BY <1>13, <1>15
    <2>3. QED
      BY <1>10, <1>12, <1>15, <2>1, <2>2 DEF D

-----------------------------------------------------------------------------
(* Fractions in their order.                                               *)

LEMMA Times ==
  ASSUME NEW a \in Nat, NEW b \in Nat, NEW c \in Nat, c > 0
  PROVE  /\ a * c \in Nat
         /\ a * c > b * c <=> a > b
         /\ a * c = b * c <=> a = b
  OBVIOUS

LEMMA TimesAgain ==
  ASSUME NEW a \in Nat, NEW b \in Nat, NEW c \in Nat
  PROVE  /\ a * b \in Nat /\ a * b = b * a
         /\ a * b * c = a * c * b /\ a * b * c = b * c * a
  OBVIOUS

\* More than, and as much as, between fractions n/d whose denominators are positive.
LEMMA FractionsInOrder ==
  ASSUME NEW na \in Nat, NEW da \in Nat, NEW nb \in Nat, NEW db \in Nat,
         NEW nc \in Nat, NEW dc \in Nat, da > 0, db > 0, dc > 0
  PROVE  /\ na * db > nb * da /\ nb * dc > nc * db => na * dc > nc * da
         /\ na * db = nb * da /\ nb * dc > nc * db => na * dc > nc * da
         /\ na * db > nb * da /\ nb * dc = nc * db => na * dc > nc * da
         /\ na * db = nb * da /\ nb * dc = nc * db => na * dc = nc * da
  <1> DEFINE x == na * db * dc
             y == nb * da * dc
             z == nc * db * da
  <1>1. /\ na * db \in Nat /\ nb * da \in Nat /\ nb * dc \in Nat /\ nc * db \in Nat
        /\ na * dc \in Nat /\ nc * da \in Nat
    OBVIOUS
  <1>2. /\ na * db > nb * da <=> x > y
        /\ na * db = nb * da <=> x = y
    BY <1>1, Times
  <1>3. nb * dc * da = y /\ nc * da * db = z /\ na * dc * db = x
    BY TimesAgain
  <1>4. /\ nb * dc > nc * db <=> nb * dc * da > z
        /\ nb * dc = nc * db <=> nb * dc * da = z
    BY <1>1, Times
  <1>5. /\ na * dc > nc * da <=> na * dc * db > nc * da * db
        /\ na * dc = nc * da <=> na * dc * db = nc * da * db
    BY <1>1, Times
  <1>6. x \in Nat /\ y \in Nat /\ z \in Nat
    BY <1>1, TimesAgain
  <1> HIDE DEF x, y, z
  <1>7. QED
    BY <1>2, <1>3, <1>4, <1>5, <1>6

Fused(e) == /\ e.chunk \in Nat /\ e.best \in Nat
            /\ e.score.num \in Nat /\ e.score.den \in Nat /\ e.score.den > 0

\* The comparator of the fusion orders any two entries, whatever their scores.
LEMMA PrecedesOrders ==
  /\ \A a : Fused(a) => ~Precedes(a, a)
  /\ \A a, b : Fused(a) /\ Fused(b) /\ a.chunk # b.chunk => Precedes(a, b) \/ Precedes(b, a)
  /\ \A a, b, c : Fused(a) /\ Fused(b) /\ Fused(c) /\ Precedes(a, b) /\ Precedes(b, c)
                      => Precedes(a, c)
  <1>1. ASSUME NEW a, Fused(a) PROVE ~Precedes(a, a)
    BY <1>1, TimesAgain DEF Fused, Precedes
  <1>2. ASSUME NEW a, NEW b, Fused(a), Fused(b), a.chunk # b.chunk
        PROVE  Precedes(a, b) \/ Precedes(b, a)
    <2>1. a.score.num * b.score.den \in Nat /\ b.score.num * a.score.den \in Nat
      BY <1>2, TimesAgain DEF Fused
    <2>2. a.chunk \in Nat /\ b.chunk \in Nat /\ a.best \in Nat /\ b.best \in Nat
      BY <1>2 DEF Fused
    <2>3. QED
      BY <1>2, <2>1, <2>2 DEF Precedes
  <1>3. ASSUME NEW a, NEW b, NEW c, Fused(a), Fused(b), Fused(c), Precedes(a, b), Precedes(b, c)
        PROVE  Precedes(a, c)
    <2> DEFINE ab == a.score.num * b.score.den
               ba == b.score.num * a.score.den
               bc == b.score.num * c.score.den
               cb == c.score.num * b.score.den
               ac == a.score.num * c.score.den
               ca == c.score.num * a.score.den
    <2>1. /\ ab > ba /\ bc > cb => ac > ca
          /\ ab = ba /\ bc > cb => ac > ca
          /\ ab > ba /\ bc = cb => ac > ca
          /\ ab = ba /\ bc = cb => ac = ca
      <3> DEFINE na == a.score.num  da == a.score.den
                 nb == b.score.num  db == b.score.den
                 nc == c.score.num  dc == c.score.den
      <3>1. /\ na \in Nat /\ da \in Nat /\ da > 0
            /\ nb \in Nat /\ db \in Nat /\ db > 0
            /\ nc \in Nat /\ dc \in Nat /\ dc > 0
        BY <1>3 DEF Fused
      <3> HIDE DEF na, da, nb, db, nc, dc
      <3>2. /\ na * db > nb * da /\ nb * dc > nc * db => na * dc > nc * da
            /\ na * db = nb * da /\ nb * dc > nc * db => na * dc > nc * da
            /\ na * db > nb * da /\ nb * dc = nc * db => na * dc > nc * da
            /\ na * db = nb * da /\ nb * dc = nc * db => na * dc = nc * da
        BY <3>1, FractionsInOrder
      <3>3. QED
        BY <3>2 DEF na, da, nb, db, nc, dc
    <2>2. /\ ab > ba \/ (ab = ba /\ (a.best < b.best \/ (a.best = b.best /\ a.chunk < b.chunk)))
          /\ bc > cb \/ (bc = cb /\ (b.best < c.best \/ (b.best = c.best /\ b.chunk < c.chunk)))
      BY <1>3 DEF Precedes
    <2>3. /\ a.chunk \in Nat /\ b.chunk \in Nat /\ c.chunk \in Nat
          /\ a.best \in Nat /\ b.best \in Nat /\ c.best \in Nat
      BY <1>3 DEF Fused
    <2> HIDE DEF ab, ba, bc, cb, ac, ca
    <2>4. ac > ca \/ (ac = ca /\ (a.best < c.best \/ (a.best = c.best /\ a.chunk < c.chunk)))
      BY <2>1, <2>2, <2>3
    <2>5. QED
      BY <2>4 DEF Precedes, ac, ca
  <1>4. QED
    BY <1>1, <1>2, <1>3

\* The rank of a chunk is the place it has in a list, or 0.
LEMMA RankPlaces ==
  ASSUME NEW T, OfChunks(T), NEW list \in Seq(T), NEW c
  PROVE  /\ Rank(list, c) \in Nat
         /\ Rank(list, c) # 0 <=> c \in ChunksIn(list)
         /\ Rank(list, c) # 0 => Rank(list, c) \in DOMAIN list /\ list[Rank(list, c)].chunk = c
  <1>1. DOMAIN list = 1 .. Len(list) /\ Len(list) \in Nat
    OBVIOUS
  <1>2. CASE c \in ChunksIn(list)
    <2>1. \E i \in DOMAIN list : list[i].chunk = c
      BY <1>2 DEF ChunksIn
    <2>2. Rank(list, c) \in DOMAIN list /\ list[Rank(list, c)].chunk = c
      BY <1>2, <2>1 DEF Rank
    <2>3. QED
      BY <1>1, <1>2, <2>2
  <1>3. CASE c \notin ChunksIn(list)
    BY <1>3 DEF Rank
  <1>4. QED
    BY <1>2, <1>3

\* The chunks of a list, and those of two, are finitely many of Chunks.
LEMMA ChunksOfLists ==
  ASSUME NEW T, OfChunks(T), NEW list \in Seq(T)
  PROVE  /\ ChunksIn(list) \subseteq Chunks
         /\ \A i \in DOMAIN list : list[i].chunk \in ChunksIn(list)
         /\ \A c \in ChunksIn(list) : \E i \in DOMAIN list : list[i].chunk = c
  <1>1. \A i \in DOMAIN list : list[i] \in T
    OBVIOUS
  <1>2. QED
    BY <1>1 DEF ChunksIn, OfChunks

LEMMA EntriesFused ==
  ASSUME NEW T, OfChunks(T), NEW v \in Seq(T), NEW t \in Seq(T), NEW c \in Chunks
  PROVE  Fused(Entry(v, t, c)) /\ Entry(v, t, c).chunk = c
  <1> DEFINE x == Rank(v, c)
             y == Rank(t, c)
             e == Entry(v, t, c)
  <1>1. x \in Nat /\ y \in Nat
    BY RankPlaces
  <1>2. e.chunk = c /\ e.score = Score(x, y) /\ e.best = BestRank(x, y)
    BY DEF Entry
  <1> HIDE DEF x, y, e
  <1>3. c \in Nat
    BY RetrievalAssumption
  <1>4. RrfK \in Nat /\ RrfK > 0
    <2>1. RrfK \in Nat \ {0}
      BY RetrievalAssumption
    <2>2. QED
      BY <2>1
  <1>5. BestRank(x, y) \in Nat
    BY <1>1 DEF BestRank
  <1>6. Score(x, y).num \in Nat /\ Score(x, y).den \in Nat /\ Score(x, y).den > 0
    <2>1. (RrfK + x) * (RrfK + y) \in Nat /\ (RrfK + x) * (RrfK + y) > 0
      BY <1>1, <1>4
    <2>2. QED
      BY <1>1, <1>4, <2>1 DEF Score
  <1>7. QED
    BY <1>2, <1>3, <1>5, <1>6 DEF Fused, e

\* fuseRrf: the chunks of both lists, each as one of the lists has it, in the
\* order of the comparator.
LEMMA FuseList ==
  ASSUME NEW T, OfChunks(T), NEW v \in Seq(T), NEW t \in Seq(T)
  PROVE  /\ Fuse(v, t) \in Seq(T)
         /\ ToSet(Fuse(v, t)) \subseteq ToSet(v) \cup ToSet(t)
         /\ ChunksIn(Fuse(v, t)) = ChunksIn(v) \cup ChunksIn(t)
         /\ \A i, j \in DOMAIN Fuse(v, t) :
                i < j <=> Precedes(Entry(v, t, Fuse(v, t)[i].chunk),
                                   Entry(v, t, Fuse(v, t)[j].chunk))
  <1> DEFINE C == ChunksIn(v) \cup ChunksIn(t)
             E == {Entry(v, t, c) : c \in C}
             R == {q \in E \X E : Precedes(q[1], q[2])}
             n == Cardinality(E)
             order == Sorted(E, Precedes)
             Copy(c) == IF c \in ChunksIn(v) THEN v[Rank(v, c)] ELSE t[Rank(t, c)]
             F == Fuse(v, t)
  <1>1. C \subseteq Chunks
    BY ChunksOfLists
  <1>2. \A c \in C : Fused(Entry(v, t, c)) /\ Entry(v, t, c).chunk = c
    BY <1>1, EntriesFused
  <1>3. /\ \A e \in E : Fused(e) /\ e.chunk \in C /\ e = Entry(v, t, e.chunk)
        /\ \A a, b \in E : a.chunk = b.chunk => a = b
        /\ \A c \in C : \E e \in E : e.chunk = c
    BY <1>2
  <1>4. IsFiniteSet(E)
    <2> DEFINE f == [c \in C |-> Entry(v, t, c)]
    <2>1. IsFiniteSet(C)
      BY <1>1, RetrievalAssumption, FS_Subset
    <2>2. f \in Surjection(C, E)
      BY DEF Surjection
    <2> HIDE DEF C, E, f
    <2>3. QED
      BY <2>1, <2>2, FS_Surjection
  <1>5. \A a, b \in E : <<a, b>> \in R <=> Precedes(a, b)
    <2> HIDE DEF E
    <2>1. QED
      OBVIOUS
  <1> HIDE DEF C
  <1>6. F = <<>> \o [i \in 1 .. n |-> Copy(order[i].chunk)]
    BY DEF Fuse, C
  <1> HIDE DEF E, R
  <1>7. StrictOrder(E, R)
    BY <1>3, <1>5, PrecedesOrders DEF StrictOrder
  <1>8. IsOrdered(order, E, R)
    <2> DEFINE Count(e) == Cardinality({d \in E : Precedes(d, e)})
               At(k) == CHOOSE e \in E : Count(e) = k - 1
    <2>1. \A e \in E : InFront(E, R, e) = {d \in E : Precedes(d, e)}
      BY <1>5 DEF InFront
    <2>2. order = [k \in 1 .. n |-> At(k)]
      BY DEF Sorted
    <2>3. \A k \in 1 .. n : order[k] = At(k)
      BY <2>2
    <2> HIDE DEF order
    <2>4. ASSUME NEW k \in 1 .. n, \E e \in E : Cardinality(InFront(E, R, e)) = k - 1
          PROVE  order[k] \in E /\ Cardinality(InFront(E, R, order[k])) = k - 1
      <3>1. \E e \in E : Count(e) = k - 1
        BY <2>1, <2>4
      <3>2. At(k) \in E /\ Count(At(k)) = k - 1
        <4> HIDE DEF Count
        <4>1. QED
          BY <3>1
      <3> HIDE DEF At
      <3>3. QED
        BY <2>1, <2>3, <3>2
    <2>5. order = [k \in 1 .. n |-> order[k]]
      BY <2>2, <2>3
    <2>6. QED
      BY <1>4, <1>7, <2>4, <2>5, OrderedPlaces DEF AsPlaced
  <1> HIDE DEF order
  <1>9. /\ n \in Nat /\ order \in [1 .. n -> E]
        /\ \A e \in E : \E k \in 1 .. n : order[k] = e
        /\ \A j, k \in 1 .. n : j < k <=> Precedes(order[j], order[k])
    BY <1>5, <1>8 DEF IsOrdered
  <1>10. \A c \in C : Copy(c) \in T /\ Copy(c).chunk = c /\ Copy(c) \in ToSet(v) \cup ToSet(t)
    <2>1. ASSUME NEW list \in Seq(T), NEW c \in ChunksIn(list)
          PROVE  /\ list[Rank(list, c)] \in T /\ list[Rank(list, c)].chunk = c
                 /\ list[Rank(list, c)] \in ToSet(list)
      <3>1. Rank(list, c) \in DOMAIN list /\ list[Rank(list, c)].chunk = c
        BY RankPlaces
      <3>2. QED
        BY <3>1 DEF ToSet
    <2>2. QED
      BY <2>1 DEF C
  <1>11. \A k \in 1 .. n : order[k].chunk \in C /\ order[k] = Entry(v, t, order[k].chunk)
    BY <1>3, <1>9
  <1> HIDE DEF Copy, n
  <1>12. /\ F \in Seq(T) /\ Len(F) = n /\ DOMAIN F = 1 .. n
         /\ \A k \in 1 .. n : F[k] = Copy(order[k].chunk)
    <2> DEFINE G == [i \in 1 .. n |-> Copy(order[i].chunk)]
    <2>1. G \in [1 .. n -> T] /\ \A k \in 1 .. n : G[k] = Copy(order[k].chunk)
      BY <1>10, <1>11
    <2> HIDE DEF G
    <2>2. G \in Seq(T) /\ Len(G) = n
      BY <1>9, <2>1
    <2>3. <<>> \o G = G
      BY <2>2
    <2>4. F = G
      BY <1>6, <2>3 DEF G
    <2>5. QED
      BY <2>1, <2>2, <2>4
  <1>13. \A k \in 1 .. n : F[k].chunk = order[k].chunk /\ order[k] = Entry(v, t, F[k].chunk)
    BY <1>10, <1>11, <1>12
  <1> HIDE DEF F
  <1>14. ToSet(F) \subseteq ToSet(v) \cup ToSet(t)
    BY <1>10, <1>11, <1>12 DEF ToSet
  <1>15. ChunksIn(F) = C
    <2>1. \A c \in ChunksIn(F) : c \in C
      BY <1>11, <1>12, <1>13 DEF ChunksIn
    <2>2. ASSUME NEW c \in C PROVE c \in ChunksIn(F)
      <3>1. PICK k \in 1 .. n : order[k].chunk = c
        BY <1>3, <1>9
      <3>2. QED
        BY <1>12, <1>13, <3>1 DEF ChunksIn
    <2>3. QED
      BY <2>1, <2>2
  <1>16. \A i, j \in DOMAIN F :
             i < j <=> Precedes(Entry(v, t, F[i].chunk), Entry(v, t, F[j].chunk))
    BY <1>9, <1>12, <1>13
  <1>17. QED
    BY <1>12, <1>14, <1>15, <1>16 DEF F, C

\* A path that ranks one chunk above another gives it more.
LEMMA ScoresFollowRanks ==
  ASSUME NEW x \in Nat, NEW y \in Nat, NEW u \in Nat, NEW w \in Nat,
         u # 0 \/ w # 0, u # 0 => x # 0 /\ x < u, w # 0 => y # 0 /\ y < w
  PROVE  Score(x, y).num * Score(u, w).den > Score(u, w).num * Score(x, y).den
  <1> DEFINE p == RrfK + x  q == RrfK + y  g == RrfK + u  h == RrfK + w
  <1>1. RrfK \in Nat /\ RrfK > 0
    <2>1. RrfK \in Nat \ {0}
      BY RetrievalAssumption
    <2>2. QED
      BY <2>1
  <1>2. /\ p \in Nat /\ q \in Nat /\ g \in Nat /\ h \in Nat /\ p > 0 /\ q > 0 /\ g > 0 /\ h > 0
        /\ u # 0 => g > p
        /\ w # 0 => h > q
    BY <1>1
  <1>3. /\ x = 0 => Score(x, y).num = 1 /\ Score(x, y).den = q
        /\ x # 0 /\ y = 0 => Score(x, y).num = 1 /\ Score(x, y).den = p
        /\ x # 0 /\ y # 0 => Score(x, y).num = p + q /\ Score(x, y).den = p * q
    BY DEF Score
  <1>4. /\ u = 0 => Score(u, w).num = 1 /\ Score(u, w).den = h
        /\ u # 0 /\ w = 0 => Score(u, w).num = 1 /\ Score(u, w).den = g
        /\ u # 0 /\ w # 0 => Score(u, w).num = g + h /\ Score(u, w).den = g * h
    BY DEF Score
  <1> HIDE DEF p, q, g, h
  <1>5. CASE u = 0
    <2>1. w # 0 /\ y # 0 /\ h > q
      BY <1>2, <1>5
    <2>2. CASE x = 0
      BY <1>2, <1>3, <1>4, <1>5, <2>1, <2>2
    <2>3. CASE x # 0
      <3>1. h * p > q * p /\ h * q > q * q /\ q * q \in Nat /\ h * p \in Nat /\ q * p \in Nat
            /\ h * q \in Nat
        BY <1>2, <2>1, Times
      <3>2. (p + q) * h = h * p + h * q /\ 1 * (p * q) = q * p
        BY <1>2
      <3>3. (p + q) * h > 1 * (p * q)
        BY <3>1, <3>2
      <3>4. QED
        BY <1>3, <1>4, <1>5, <2>1, <2>3, <3>3
    <2>4. QED
      BY <2>2, <2>3
  <1>6. CASE u # 0 /\ w = 0
    <2>1. x # 0 /\ g > p
      BY <1>2, <1>6
    <2>2. CASE y = 0
      BY <1>2, <1>3, <1>4, <1>6, <2>1, <2>2
    <2>3. CASE y # 0
      <3>1. g * q > p * q /\ g * p > p * p /\ p * p \in Nat /\ g * q \in Nat /\ p * q \in Nat
            /\ g * p \in Nat
        BY <1>2, <2>1, Times
      <3>2. (p + q) * g = g * p + g * q /\ 1 * (p * q) = p * q
        BY <1>2
      <3>3. (p + q) * g > 1 * (p * q)
        BY <3>1, <3>2
      <3>4. QED
        BY <1>3, <1>4, <1>6, <2>1, <2>3, <3>3
    <2>4. QED
      BY <2>2, <2>3
  <1>7. CASE u # 0 /\ w # 0
    <2>1. x # 0 /\ y # 0 /\ g > p /\ h > q
      BY <1>2, <1>7
    <2> DEFINE pg == p * g  qh == q * h
    <2>2. pg \in Nat /\ qh \in Nat /\ pg > 0 /\ qh > 0
      BY <1>2
    <2>3. /\ (p + q) * (g * h) = h * pg + g * qh
          /\ (g + h) * (p * q) = q * pg + p * qh
      BY <1>2
    <2> HIDE DEF pg, qh
    <2>4. /\ h * pg > q * pg /\ g * qh > p * qh
          /\ h * pg \in Nat /\ q * pg \in Nat /\ g * qh \in Nat /\ p * qh \in Nat
      BY <1>2, <2>1, <2>2, Times
    <2>5. (p + q) * (g * h) > (g + h) * (p * q)
      BY <2>3, <2>4
    <2>6. QED
      BY <1>3, <1>4, <1>7, <2>1, <2>5
  <1>8. QED
    BY <1>5, <1>6, <1>7

\* What no path ranks below another chunk that a path found comes before it.
LEMMA BetterComesFirst ==
  ASSUME NEW T, OfChunks(T), NEW v \in Seq(T), NEW t \in Seq(T),
         NEW a \in Chunks, NEW b \in ChunksIn(v) \cup ChunksIn(t), a # b,
         Rank(v, b) # 0 => Rank(v, a) \in 1 .. Rank(v, b),
         Rank(t, b) # 0 => Rank(t, a) \in 1 .. Rank(t, b)
  PROVE  Precedes(Entry(v, t, a), Entry(v, t, b))
  <1> DEFINE x == Rank(v, a)  y == Rank(t, a)  u == Rank(v, b)  w == Rank(t, b)
             ea == Entry(v, t, a)  eb == Entry(v, t, b)
  <1>1. x \in Nat /\ y \in Nat /\ u \in Nat /\ w \in Nat
    BY RankPlaces
  <1>2. u # 0 \/ w # 0
    BY RankPlaces
  <1>3. ASSUME NEW list \in Seq(T), Rank(list, b) # 0, Rank(list, a) \in 1 .. Rank(list, b)
        PROVE  Rank(list, a) # 0 /\ Rank(list, a) < Rank(list, b)
    <2>1. Rank(list, a) # 0 /\ Rank(list, a) \in Nat /\ Rank(list, b) \in Nat
      BY <1>3, RankPlaces
    <2>2. list[Rank(list, a)].chunk = a /\ list[Rank(list, b)].chunk = b
      BY <1>3, <2>1, RankPlaces
    <2>3. Rank(list, a) # Rank(list, b)
      BY <2>2
    <2>4. QED
      BY <1>3, <2>1, <2>3
  <1>4. (u # 0 => x # 0 /\ x < u) /\ (w # 0 => y # 0 /\ y < w)
    BY <1>3
  <1>5. ea.score = Score(x, y) /\ eb.score = Score(u, w)
    BY DEF Entry
  <1> HIDE DEF x, y, u, w, ea, eb
  <1>6. Score(x, y).num * Score(u, w).den > Score(u, w).num * Score(x, y).den
    BY <1>1, <1>2, <1>4, ScoresFollowRanks
  <1>7. ea.score.num * eb.score.den > eb.score.num * ea.score.den
    BY <1>5, <1>6
  <1>8. Precedes(ea, eb)
    BY <1>7 DEF Precedes
  <1>9. QED
    BY <1>8 DEF ea, eb

\* How many records k slots have to show.
Slots(k) == (k + MaxChunksPerRecord - 1) \div MaxChunksPerRecord

LEMMA SlotsNeeded ==
  ASSUME NEW k \in Nat, NEW r \in Nat, k <= r * MaxChunksPerRecord
  PROVE  Slots(k) \in Nat /\ Slots(k) <= r
  <1> DEFINE M == MaxChunksPerRecord
             q == Slots(k)
  <1>1. M \in Nat /\ M > 0
    <2>1. M \in Nat \ {0}
      BY RetrievalAssumption
    <2>2. QED
      BY <2>1
  <1>2. q = (k + M - 1) \div M
    BY DEF Slots
  <1>3. k <= r * M
    OBVIOUS
  <1> HIDE DEF M, q
  <1>4. k + M - 1 \in Nat
    BY <1>1
  <1>5. q \in Nat /\ q * M <= k + M - 1
    BY <1>1, <1>2, <1>4
  <1>6. (r + 1) * M = r * M + M /\ (r + 1) * M \in Nat /\ q * M \in Nat /\ r * M \in Nat
    BY <1>1, <1>5
  <1>7. (r + 1) * M > q * M
    BY <1>1, <1>3, <1>5, <1>6
  <1>8. r + 1 > q
    BY <1>1, <1>5, <1>7, Times
  <1>9. QED
    BY <1>5, <1>8 DEF q

LEMMA RecordsOfLists ==
  ASSUME NEW T, OfChunks(T), NEW list \in Seq(T)
  PROVE  /\ IsFiniteSet(RecordsIn(list)) /\ Cardinality(RecordsIn(list)) \in Nat
         /\ \A i \in DOMAIN list : RecordOf[list[i].chunk] \in RecordsIn(list)
         /\ \A r \in RecordsIn(list) : \E i \in DOMAIN list : r = RecordOf[list[i].chunk]
  <1> DEFINE f == [c \in ChunksIn(list) |-> RecordOf[c]]
  <1>1. IsFiniteSet(ChunksIn(list))
    BY ChunksOfLists, RetrievalAssumption, FS_Subset
  <1>2. f \in Surjection(ChunksIn(list), RecordsIn(list))
    BY DEF Surjection, RecordsIn
  <1> HIDE DEF f
  <1>3. IsFiniteSet(RecordsIn(list))
    BY <1>1, <1>2, FS_Surjection
  <1>4. QED
    BY <1>3, FS_CardinalityType DEF RecordsIn, ChunksIn

\* capByRecordId: the slots show as many records as fit, or all there are.
LEMMA CapKeepsRecords ==
  ASSUME NEW T, OfChunks(T), NEW list \in Seq(T), NEW k \in Nat \ {0}
  PROVE  /\ Cap(list, k) \in Seq(T)
         /\ ToSet(Cap(list, k)) \subseteq ToSet(list)
         /\ Slots(k) \in Nat
         /\ \/ Cardinality(RecordsIn(Cap(list, k))) >= Slots(k)
            \/ RecordsIn(Cap(list, k)) = RecordsIn(list)
  <1> DEFINE D == Dedupe(list)
             K == Cap(list, k)
             M == MaxChunksPerRecord
  <1>1. /\ D \in Seq(T) /\ ToSet(D) \subseteq ToSet(list) /\ RecordsIn(D) = RecordsIn(list)
    BY DedupeList
  <1>2. PICK slot \in [DOMAIN D -> 0 .. M - 1] :
           \A i, j \in DOMAIN D :
               RecordOf[D[i].chunk] = RecordOf[D[j].chunk] /\ slot[i] = slot[j] => i = j
    BY DedupeList
  <1>3. K = Cut(D, k) /\ k \in Nat /\ k > 0
    BY DEF Cap
  <1>4. M \in Nat /\ M > 0
    <2>1. M \in Nat \ {0}
      BY RetrievalAssumption
    <2>2. QED
      BY <2>1
  <1> HIDE DEF D, K
  <1>5. /\ K \in Seq(T) /\ Len(K) = IF Len(D) < k THEN Len(D) ELSE k
        /\ Len(K) <= Len(D)
        /\ \A i \in 1 .. Len(K) : K[i] = D[i]
    BY <1>1, <1>3, CutList
  <1>6. /\ DOMAIN D = 1 .. Len(D) /\ Len(D) \in Nat
        /\ DOMAIN K = 1 .. Len(K) /\ Len(K) \in Nat
    BY <1>1, <1>5
  <1>7. DOMAIN K \subseteq DOMAIN D /\ \A i \in DOMAIN K : K[i] = D[i]
    BY <1>5, <1>6
  <1>8. ToSet(K) \subseteq ToSet(list)
    BY <1>1, <1>7 DEF ToSet
  <1>9. Slots(k) \in Nat
    BY <1>3, <1>4 DEF Slots
  <1>10. CASE Len(D) < k
    <2>1. DOMAIN K = DOMAIN D
      BY <1>5, <1>6, <1>10
    <2>2. RecordsIn(K) = RecordsIn(D)
      BY <1>7, <2>1 DEF RecordsIn, ChunksIn
    <2>3. QED
      BY <1>1, <1>5, <1>8, <1>9, <2>2 DEF K
  <1>11. CASE ~(Len(D) < k)
    <2> DEFINE R == RecordsIn(K)
               B == R \X (0 .. M - 1)
               f == [i \in 1 .. k |-> <<RecordOf[K[i].chunk], slot[i]>>]
    <2>1. DOMAIN K = 1 .. k
      BY <1>5, <1>6, <1>11
    <2>2. IsFiniteSet(R) /\ Cardinality(R) \in Nat
      BY <1>5, RecordsOfLists
    <2>3. \A i \in 1 .. k : RecordOf[K[i].chunk] \in R /\ slot[i] \in 0 .. M - 1 /\ i \in DOMAIN D
      BY <1>2, <1>5, <1>7, <2>1, RecordsOfLists
    <2> HIDE DEF R
    <2>4. f \in [1 .. k -> B]
      BY <2>3
    <2>5. \A i, j \in 1 .. k : f[i] = f[j] => i = j
      BY <1>2, <1>7, <2>1, <2>3
    <2>6. IsFiniteSet(0 .. M - 1) /\ Cardinality(0 .. M - 1) = M
      <3> HIDE DEF M
      <3>1. /\ IsFiniteSet(0 .. M - 1)
            /\ Cardinality(0 .. M - 1) = IF 0 > M - 1 THEN 0 ELSE M - 1 - 0 + 1
        BY <1>4, FS_Interval
      <3>2. QED
        BY <1>4, <3>1
    <2>7. IsFiniteSet(B) /\ Cardinality(B) = Cardinality(R) * M
      BY <2>2, <2>6, FS_Product
    <2>8. Cardinality(1 .. k) = k
      <3>1. Cardinality(1 .. k) = IF 1 > k THEN 0 ELSE k - 1 + 1
        BY <1>3, FS_Interval
      <3>2. QED
        BY <1>3, <3>1
    <2>9. f \in Injection(1 .. k, B)
      <3> HIDE DEF f, B
      <3>1. QED
        BY <2>4, <2>5 DEF Injection, IsInjective
    <2>10. k <= Cardinality(R) * M
      <3> HIDE DEF f, B
      <3>1. Cardinality(1 .. k) <= Cardinality(B)
        BY <2>7, <2>9, FS_Injection
      <3>2. QED
        BY <2>7, <2>8, <3>1
    <2>11. Slots(k) <= Cardinality(R)
      BY <1>3, <2>2, <2>10, SlotsNeeded
    <2>12. QED
      BY <1>5, <1>8, <1>9, <2>2, <2>11 DEF K, R
  <1>12. QED
    BY <1>10, <1>11

\* The search hits of two lists: their elements, and records as many as fit.
LEMMA TopHitsList ==
  ASSUME NEW T, OfChunks(T), NEW v \in Seq(T), NEW t \in Seq(T), NEW k \in Nat \ {0}
  PROVE  /\ TopHits(v, t, k) = Cap(Fuse(Cap(v, VectorK), Cap(t, TextK)), k)
         /\ TopHits(v, t, k) \in Seq(T)
         /\ ToSet(TopHits(v, t, k)) \subseteq ToSet(v) \cup ToSet(t)
         /\ \/ Cardinality(RecordsIn(TopHits(v, t, k))) >= Slots(k)
            \/ Cardinality(RecordsIn(TopHits(v, t, k))) >= Slots(VectorK)
            \/ Cardinality(RecordsIn(TopHits(v, t, k))) >= Cardinality(RecordsIn(v))
  <1> DEFINE V == Cap(v, VectorK)
             X == Cap(t, TextK)
             F == Fuse(V, X)
             H == TopHits(v, t, k)
  <1>1. VectorK \in Nat \ {0} /\ TextK \in Nat \ {0}
    BY RetrievalAssumption
  <1>2. H = Cap(F, k)
    BY DEF TopHits, Cap
  <1>3. /\ V \in Seq(T) /\ ToSet(V) \subseteq ToSet(v) /\ Slots(VectorK) \in Nat
        /\ Cardinality(RecordsIn(V)) >= Slots(VectorK) \/ RecordsIn(V) = RecordsIn(v)
    BY <1>1, CapKeepsRecords
  <1>4. X \in Seq(T) /\ ToSet(X) \subseteq ToSet(t)
    BY <1>1, CapKeepsRecords
  <1> HIDE DEF V, X
  <1>5. /\ F \in Seq(T) /\ ToSet(F) \subseteq ToSet(V) \cup ToSet(X)
        /\ ChunksIn(F) = ChunksIn(V) \cup ChunksIn(X)
    BY <1>3, <1>4, FuseList
  <1> HIDE DEF F
  <1>6. /\ Cap(F, k) \in Seq(T) /\ ToSet(Cap(F, k)) \subseteq ToSet(F) /\ Slots(k) \in Nat
        /\ Cardinality(RecordsIn(Cap(F, k))) >= Slots(k) \/ RecordsIn(Cap(F, k)) = RecordsIn(F)
    BY <1>5, CapKeepsRecords
  <1> HIDE DEF H
  <1>7. H \in Seq(T) /\ ToSet(H) \subseteq ToSet(v) \cup ToSet(t)
    BY <1>2, <1>3, <1>4, <1>5, <1>6
  <1>8. RecordsIn(V) \subseteq RecordsIn(F)
    BY <1>5 DEF RecordsIn
  <1>9. /\ Cardinality(RecordsIn(V)) \in Nat /\ Cardinality(RecordsIn(F)) \in Nat
        /\ Cardinality(RecordsIn(H)) \in Nat /\ Cardinality(RecordsIn(v)) \in Nat
        /\ IsFiniteSet(RecordsIn(F))
    BY <1>3, <1>5, <1>7, RecordsOfLists
  <1>10. Cardinality(RecordsIn(V)) <= Cardinality(RecordsIn(F))
    BY <1>8, <1>9, FS_Subset
  <1>11. CASE RecordsIn(H) = RecordsIn(F)
    <2>1. Cardinality(RecordsIn(H)) >= Cardinality(RecordsIn(V))
      BY <1>9, <1>10, <1>11
    <2>2. QED
      BY <1>2, <1>3, <1>7, <1>9, <2>1 DEF H, F, V, X
  <1>12. CASE Cardinality(RecordsIn(H)) >= Slots(k)
    BY <1>2, <1>7, <1>12 DEF H, F, V, X
  <1>13. QED
    BY <1>2, <1>6, <1>11, <1>12

\* The order of the expansion: by target, by section, by place in the record.
PositionOf(targets, c) ==
    CHOOSE i \in DOMAIN targets : /\ targets[i].to = RecordOf[c]
                                  /\ \A j \in 1 .. i - 1 : targets[j].to # RecordOf[c]
Follows(targets, a, b) ==
    \/ PositionOf(targets, a) < PositionOf(targets, b)
    \/ /\ PositionOf(targets, a) = PositionOf(targets, b)
       /\ \/ SectionRank(SectionOf[a]) < SectionRank(SectionOf[b])
          \/ SectionRank(SectionOf[a]) = SectionRank(SectionOf[b]) /\ a < b

LEMMA ExpansionPlaces ==
  ASSUME NEW n \in Nat, NEW targets, DOMAIN targets = 1 .. n,
         NEW c, \E i \in DOMAIN targets : targets[i].to = RecordOf[c],
         SectionOf[c] \in ToSet(ExpandedSections)
  PROVE  PositionOf(targets, c) \in Nat /\ SectionRank(SectionOf[c]) \in Nat
  <1> DEFINE Q == {i \in DOMAIN targets : targets[i].to = RecordOf[c]}
  <1>1. Q \in SUBSET Nat /\ Q # {}
    OBVIOUS
  <1>2. PICK m \in Q : \A i \in Q : m <= i
    BY <1>1, LeastOf
  <1>3. \A j \in 1 .. m - 1 : targets[j].to # RecordOf[c]
    BY <1>2
  <1>4. PositionOf(targets, c) \in DOMAIN targets
    BY <1>2, <1>3 DEF PositionOf
  <1>5. \E i \in DOMAIN ExpandedSections : ExpandedSections[i] = SectionOf[c]
    BY DEF ToSet
  <1>6. SectionRank(SectionOf[c]) \in DOMAIN ExpandedSections
    BY <1>5 DEF SectionRank
  <1>7. DOMAIN ExpandedSections \subseteq Nat
    BY DEF ExpandedSections
  <1>8. QED
    BY <1>4, <1>6, <1>7

\* selectExpansionChunks takes of what was found, and nothing it was to leave out.
LEMMA ExpansionList ==
  ASSUME NEW n \in Nat, NEW targets, DOMAIN targets = 1 .. n,
         NEW held \in SUBSET Chunks, NEW found \in SUBSET Expandable(targets, held), NEW exclude
  PROVE  /\ SelectExpansion(found, targets, exclude) \in Seq(Chunks)
         /\ \A i \in DOMAIN SelectExpansion(found, targets, exclude) :
                SelectExpansion(found, targets, exclude)[i] \in found \ exclude
  <1> DEFINE F == found \ exclude
             R == {q \in F \X F : Follows(targets, q[1], q[2])}
             m == Cardinality(F)
             order == ExpansionOrder(targets, F)
             Count(e) == Cardinality({d \in F : Follows(targets, d, e)})
             At(k) == CHOOSE e \in F : Count(e) = k - 1
  <1>1. F \subseteq Chunks /\ F \subseteq Nat /\ IsFiniteSet(F)
    <2>1. F \subseteq Chunks
      BY DEF Expandable
    <2>2. QED
      BY <2>1, RetrievalAssumption, FS_Subset
  <1>2. \A c \in F : /\ \E i \in DOMAIN targets : targets[i].to = RecordOf[c]
                     /\ SectionOf[c] \in ToSet(ExpandedSections)
    BY DEF Expandable
  <1>3. order = [k \in 1 .. m |-> At(k)]
    BY DEF ExpansionOrder, Sorted, Follows, PositionOf
  <1> HIDE DEF F
  <1>4. \A a, b \in F : <<a, b>> \in R <=> Follows(targets, a, b)
    OBVIOUS
  <1> HIDE DEF R
  <1>5. StrictOrder(F, R)
    <2>1. \A c \in F : /\ PositionOf(targets, c) \in Nat /\ SectionRank(SectionOf[c]) \in Nat
                       /\ c \in Nat
      BY <1>1, <1>2, ExpansionPlaces
    <2>2. \A a \in F : ~Follows(targets, a, a)
      BY <2>1 DEF Follows
    <2>3. \A a, b \in F : a # b => Follows(targets, a, b) \/ Follows(targets, b, a)
      BY <2>1 DEF Follows
    <2>4. \A a, b, c \in F : Follows(targets, a, b) /\ Follows(targets, b, c)
                                 => Follows(targets, a, c)
      BY <2>1 DEF Follows
    <2>5. QED
      BY <1>4, <2>2, <2>3, <2>4 DEF StrictOrder
  <1>6. \A e \in F : InFront(F, R, e) = {d \in F : Follows(targets, d, e)}
    BY <1>4 DEF InFront
  <1>7. \A k \in 1 .. m : order[k] = At(k)
    BY <1>3
  <1>8. order = [k \in 1 .. m |-> order[k]]
    BY <1>3, <1>7
  <1> HIDE DEF order
  <1>9. ASSUME NEW k \in 1 .. m, \E e \in F : Cardinality(InFront(F, R, e)) = k - 1
        PROVE  order[k] \in F /\ Cardinality(InFront(F, R, order[k])) = k - 1
    <2>1. \E e \in F : Count(e) = k - 1
      BY <1>6, <1>9
    <2>2. At(k) \in F /\ Count(At(k)) = k - 1
      <3> HIDE DEF Count
      <3>1. QED
        BY <2>1
    <2> HIDE DEF At
    <2>3. QED
      BY <1>6, <1>7, <2>2
  <1>10. IsOrdered(order, F, R)
    BY <1>1, <1>5, <1>8, <1>9, OrderedPlaces DEF AsPlaced
  <1>11. order \in Seq(F)
    <2>1. order \in [1 .. m -> F] /\ m \in Nat
      BY <1>10 DEF IsOrdered
    <2> HIDE DEF m
    <2>2. QED
      BY <2>1
  <1>12. MaxRelationChunks \in Nat
    BY RetrievalAssumption
  <1>13. Cut(order, MaxRelationChunks) \in Seq(F)
    BY <1>11, <1>12, CutList
  <1>14. SelectExpansion(found, targets, exclude) = Cut(order, MaxRelationChunks)
    BY DEF SelectExpansion, order, F
  <1>15. QED
    <2> DEFINE L == Cut(order, MaxRelationChunks)
    <2> HIDE DEF L
    <2>1. L \in Seq(F)
      BY <1>13 DEF L
    <2>2. L \in Seq(Chunks)
      BY <1>1, <2>1, SeqMonotonic
    <2>3. \A i \in DOMAIN L : L[i] \in F
      BY <2>1, ElementOfSeq, LenProperties
    <2>4. QED
      BY <1>14, <2>2, <2>3 DEF L, F

-----------------------------------------------------------------------------
(* The model's calls.                                                      *)

Early == {"idle", "embedding", "querying", "relating", "expanding", "loading"}

\* Nothing is paid for before the context is there; a request whose answer was
\* rejected once is generating its last one.
EarnedInv ==
    /\ pc \in Early \cup {"generating", "done"} /\ kind \in {"search", "answer"} /\ calls \in Nat
    /\ pc \in Early => calls = 0
    /\ pc = "generating" => calls <= MaxRegenerations
    /\ pc # "done" => outcome = "none"
    /\ ModelCallsAreEarned

\* generate.ts:4-15: the model is called for an answer only, above the threshold
\* or without a score, with a chunk to show; and once more after a rejection.
THEOREM CallsAreEarned == AnsweringSpec => []ModelCallsAreEarned
  <1>1. AnsweringInit => EarnedInv
    BY DEF AnsweringInit, EarnedInv, Early, ModelCallsAreEarned
  <1>2. EarnedInv /\ [AnsweringNext]_answeringVars => EarnedInv'
    <2> SUFFICES ASSUME EarnedInv, [AnsweringNext]_answeringVars PROVE EarnedInv'
      OBVIOUS
    <2>1. ASSUME UNCHANGED <<pc, kind, best, hits, calls, outcome>> PROVE EarnedInv'
      BY <2>1 DEF EarnedInv, ModelCallsAreEarned
    <2>2. ASSUME NEW c \in Chunks, ChangeIndex(c) \/ ChangeFlag(c) PROVE EarnedInv'
      BY <2>1, <2>2 DEF ChangeIndex, ChangeFlag, generation, lists
    <2>3. ASSUME NEW r \in Records, RemoveRecord(r) PROVE EarnedInv'
      BY <2>1, <2>3 DEF RemoveRecord, generation, lists
    <2>4. ASSUME NEW k \in {"search", "answer"}, Accept(k) PROVE EarnedInv'
      BY <2>4 DEF Accept, EarnedInv, ModelCallsAreEarned, Early
    <2>5. ASSUME UNCHANGED <<kind, calls, outcome>>, pc \in Early, pc' \in Early PROVE EarnedInv'
      BY <2>5 DEF EarnedInv, ModelCallsAreEarned, Early
    <2>6. CASE EmbedQuery
      BY <2>5, <2>6 DEF EmbedQuery, generation, Early
    <2>7. ASSUME NEW v, NEW t, AfterReading(v, t), pc = "querying", UNCHANGED <<kind, generation>>
          PROVE  EarnedInv'
      BY <2>5, <2>7 DEF AfterReading, generation, Early
    <2>8. CASE SearchVector
      BY <2>7, <2>8 DEF SearchVector
    <2>9. CASE SearchText
      BY <2>7, <2>9 DEF SearchText
    <2>10. CASE FollowRelations
      BY <2>5, <2>10 DEF FollowRelations, generation, Early
    <2>11. CASE ExpandHits
      BY <2>5, <2>11 DEF ExpandHits, generation, Early
    <2>12. CASE LoadRecordMeta
      <3>1. /\ pc = "loading" /\ calls = 0 /\ calls' = 0 /\ UNCHANGED <<kind, best>>
            /\ outcome' = IF kind = "search" THEN "listed"
                          ELSE IF Verdict(best, hits') = "generate" THEN "none"
                          ELSE Verdict(best, hits')
            /\ pc' = IF outcome' = "none" THEN "generating" ELSE "done"
        BY <2>12 DEF LoadRecordMeta, EarnedInv, Early
      <3>2. CASE outcome' = "none"
        <4>1. kind # "search" /\ Verdict(best, hits') = "generate"
          BY <3>1, <3>2 DEF Verdict
        <4>2. GatePasses(best) /\ Context(hits') # {}
          BY <4>1 DEF Verdict
        <4>3. \E i \in DOMAIN hits' : ~hits'[i].suspect
          BY <4>2 DEF Context
        <4>4. kind \in {"search", "answer"}
          BY DEF EarnedInv
        <4>5. QED
          BY <3>1, <3>2, <4>1, <4>2, <4>3, <4>4 DEF EarnedInv, ModelCallsAreEarned, GatePasses,
             MaxRegenerations, Early
      <3>3. CASE outcome' # "none"
        BY <3>1, <3>3 DEF EarnedInv, ModelCallsAreEarned, Verdict, Early
      <3>4. QED
        BY <3>2, <3>3
    <2>13. CASE ModelAnswers
      <3>1. /\ pc = "generating" /\ calls \in Nat /\ calls <= 1 /\ calls' = calls + 1
            /\ UNCHANGED <<kind, best, hits>>
        BY <2>13 DEF ModelAnswers, lists, EarnedInv, MaxRegenerations
      <3>2. \/ pc' = "generating" /\ calls < 1 /\ outcome' = "none"
            \/ pc' = "done" /\ outcome' = "found"
            \/ pc' = "done" /\ outcome' = "grounding-violation" /\ ~(calls < 1)
        BY <2>13 DEF ModelAnswers, MaxRegenerations
      <3>3. QED
        BY <3>1, <3>2 DEF EarnedInv, ModelCallsAreEarned, MaxRegenerations, Early
    <2>14. CASE Throws
      BY <2>14 DEF Throws, EarnedInv, ModelCallsAreEarned, Early
    <2>15. CASE UNCHANGED answeringVars
      BY <2>1, <2>15 DEF answeringVars, lists, generation
    <2>16. QED
      BY <2>2, <2>3, <2>4, <2>6, <2>8, <2>9, <2>10, <2>11, <2>12, <2>13, <2>14, <2>15
         DEF AnsweringNext, Proceeds
  <1>3. EarnedInv => ModelCallsAreEarned
    BY DEF EarnedInv
  <1>4. QED
    BY <1>1, <1>2, <1>3, PTL DEF AnsweringSpec

-----------------------------------------------------------------------------
(* What a request has found.                                               *)

\* What of a list is not suspect was seen without its flag by this request.
SeenClean(list) == \A i \in DOMAIN list : ~list[i].suspect => list[i].chunk \in seenClean

\* The lists hold what they should; a chunk that is without its flag now, or was
\* when it was read, is known to have been; and the hits of the search are among
\* the hits as long as the lists they were made of are there.
SearchInv ==
    /\ indexed \subseteq Chunks /\ seenClean \subseteq Chunks
    /\ pc \in Early \cup {"generating", "done"} /\ kind \in {"search", "answer"}
    /\ vector # NotRead => vector \in Seq(Candidates) /\ SeenClean(vector)
    /\ text # NotRead => text \in Seq(Candidates) /\ SeenClean(text)
    /\ hits \in Seq(Hits) /\ SeenClean(hits)
    /\ \E n \in 0 .. Cardinality(Relations) : DOMAIN picks = 1 .. n
    /\ pc # "idle" => Chunks \ flagged \subseteq seenClean
    /\ ListsAreThere => /\ pc \in {"relating", "expanding", "loading"}
                        /\ ChunksIn(TopHits(vector, text, Limit)) \subseteq ChunksIn(hits)

LEMMA Typed ==
  /\ OfChunks(Candidates) /\ OfChunks(Hits)
  /\ \A c : c \in Candidates <=> \E d \in Chunks, s \in BOOLEAN : c = [chunk |-> d, suspect |-> s]
  /\ Limit \in Nat \ {0}
  /\ Cardinality(Relations) \in Nat
  <1>1. Cardinality(Relations) \in Nat
    BY RetrievalAssumption, FS_CardinalityType
  <1>2. Limit \in Nat \ {0}
    BY AnsweringAssumption DEF Limit
  <1>3. QED
    BY <1>1, <1>2 DEF OfChunks, Candidates, Hits

\* What an index answers.
LEMMA AnswerList ==
  ASSUME indexed \subseteq Chunks, NEW k, NEW list \in Answers(k)
  PROVE  list \in Seq(Chunks)
  <1>1. PICK s \in SUBSET indexed : list \in SetToSeqs(s)
    BY DEF Answers, SetToAllKPermutations
  <1>2. list \in [1 .. Cardinality(s) -> s]
    BY <1>1 DEF SetToSeqs
  <1>3. s \subseteq Chunks /\ Cardinality(s) \in Nat
    BY RetrievalAssumption, FS_Subset, FS_CardinalityType
  <1>4. list \in [1 .. Cardinality(s) -> Chunks]
    BY <1>2, <1>3
  <1>5. QED
    BY <1>3, <1>4

\* A chunk that is read without its flag is without it then.
LEMMA ReadList ==
  ASSUME NEW list \in Seq(Chunks), Chunks \ flagged \subseteq seenClean
  PROVE  AsRead(list) \in Seq(Candidates) /\ SeenClean(AsRead(list))
  <1> DEFINE L == AsRead(list)
             n == Len(list)
  <1>1. n \in Nat /\ DOMAIN list = 1 .. n /\ \A i \in 1 .. n : list[i] \in Chunks
    OBVIOUS
  <1>2. L = [i \in 1 .. n |-> [chunk |-> list[i], suspect |-> list[i] \in flagged]]
    BY <1>1 DEF AsRead
  <1>3. \A i \in 1 .. n : L[i] = [chunk |-> list[i], suspect |-> list[i] \in flagged]
    BY <1>2
  <1> HIDE DEF L, n
  <1>4. ASSUME NEW i \in 1 .. n
        PROVE  L[i] \in Candidates /\ (~L[i].suspect => L[i].chunk \in seenClean)
    <2> DEFINE f == list[i] \in flagged
    <2>1. L[i] = [chunk |-> list[i], suspect |-> f] /\ list[i] \in Chunks /\ f \in BOOLEAN
      BY <1>1, <1>3
    <2>2. ~f => list[i] \in seenClean
      BY <2>1
    <2> HIDE DEF f
    <2>3. L[i].suspect = f /\ L[i].chunk = list[i]
      BY <2>1
    <2>4. L[i] \in Candidates
      BY <2>1 DEF Candidates
    <2>5. QED
      BY <2>2, <2>3, <2>4
  <1>5. L \in [1 .. n -> Candidates]
    BY <1>2, <1>4
  <1>6. L \in Seq(Candidates) /\ DOMAIN L = 1 .. n
    BY <1>1, <1>5
  <1>7. QED
    BY <1>4, <1>6 DEF L, SeenClean

\* Candidates that become hits keep their chunks and flags.
LEMMA HitsList ==
  ASSUME NEW list \in Seq(Candidates), NEW via \in {"search", "relation"}
  PROVE  /\ AsHits(list, via) \in Seq(Hits)
         /\ ChunksIn(AsHits(list, via)) = ChunksIn(list)
         /\ SeenClean(list) => SeenClean(AsHits(list, via))
  <1> DEFINE L == AsHits(list, via)
             n == Len(list)
  <1>1. n \in Nat /\ DOMAIN list = 1 .. n /\ \A i \in 1 .. n : list[i] \in Candidates
    OBVIOUS
  <1>2. L = [i \in 1 .. n |-> [chunk |-> list[i].chunk, via |-> via, suspect |-> list[i].suspect]]
    BY <1>1 DEF AsHits
  <1>3. \A i \in 1 .. n : /\ L[i] = [chunk |-> list[i].chunk, via |-> via,
                                     suspect |-> list[i].suspect]
                          /\ L[i] \in Hits
    BY <1>1, <1>2 DEF Hits, Candidates
  <1> HIDE DEF L, n
  <1>4. L \in [1 .. n -> Hits]
    BY <1>2, <1>3
  <1>5. L \in Seq(Hits) /\ DOMAIN L = 1 .. n
    BY <1>1, <1>4
  <1>6. ASSUME NEW i \in 1 .. n
        PROVE  L[i].chunk = list[i].chunk /\ L[i].suspect = list[i].suspect
    <2> DEFINE c == list[i].chunk
               f == list[i].suspect
    <2>1. L[i] = [chunk |-> c, via |-> via, suspect |-> f]
      BY <1>3
    <2> HIDE DEF c, f
    <2>2. L[i].chunk = c /\ L[i].suspect = f
      BY <2>1
    <2>3. QED
      BY <2>2 DEF c, f
  <1>7. ChunksIn(L) = ChunksIn(list)
    BY <1>1, <1>5, <1>6 DEF ChunksIn
  <1>8. SeenClean(list) => SeenClean(L)
    BY <1>1, <1>5, <1>6 DEF SeenClean
  <1>9. QED
    BY <1>5, <1>7, <1>8 DEF L

\* The search hits come from the two lists.
LEMMA TopHitsSeen ==
  ASSUME NEW v \in Seq(Candidates), NEW t \in Seq(Candidates), SeenClean(v), SeenClean(t),
         NEW k \in Nat \ {0}
  PROVE  TopHits(v, t, k) \in Seq(Candidates) /\ SeenClean(TopHits(v, t, k))
  <1> DEFINE H == TopHits(v, t, k)
  <1>1. H \in Seq(Candidates) /\ ToSet(H) \subseteq ToSet(v) \cup ToSet(t)
    BY Typed, TopHitsList
  <1> HIDE DEF H
  <1>2. ASSUME NEW i \in DOMAIN H, ~H[i].suspect PROVE H[i].chunk \in seenClean
    <2>1. \/ \E j \in DOMAIN v : H[i] = v[j]
          \/ \E j \in DOMAIN t : H[i] = t[j]
      BY <1>1 DEF ToSet
    <2>2. QED
      BY <1>2, <2>1 DEF SeenClean
  <1>3. QED
    BY <1>1, <1>2 DEF H, SeenClean

\* Two lists of hits after each other.
LEMMA JoinedHits ==
  ASSUME NEW one \in Seq(Hits), NEW two \in Seq(Hits), SeenClean(one), SeenClean(two)
  PROVE  /\ one \o two \in Seq(Hits) /\ SeenClean(one \o two)
         /\ ChunksIn(one) \subseteq ChunksIn(one \o two)
  <1> DEFINE J == one \o two
  <1>1. /\ J \in Seq(Hits) /\ Len(J) = Len(one) + Len(two) /\ DOMAIN J = 1 .. Len(J)
        /\ Len(one) \in Nat /\ Len(two) \in Nat
        /\ DOMAIN one = 1 .. Len(one) /\ DOMAIN two = 1 .. Len(two)
        /\ \A i \in 1 .. Len(J) : J[i] = IF i <= Len(one) THEN one[i] ELSE two[i - Len(one)]
    BY ConcatProperties, LenProperties
  <1> HIDE DEF J
  <1>2. \A i \in DOMAIN J : \/ i \in DOMAIN one /\ J[i] = one[i]
                            \/ i - Len(one) \in DOMAIN two /\ J[i] = two[i - Len(one)]
    BY <1>1
  <1>3. SeenClean(J)
    BY <1>2 DEF SeenClean
  <1>4. \A i \in DOMAIN one : i \in DOMAIN J /\ J[i] = one[i]
    BY <1>1
  <1>5. ChunksIn(one) \subseteq ChunksIn(J)
    BY <1>4 DEF ChunksIn
  <1>6. QED
    BY <1>1, <1>3, <1>5 DEF J

LEMMA PickedHits ==
  ASSUME NEW list \in Seq(Hits), SeenClean(list), NEW P \in SUBSET DOMAIN list
  PROVE  Picked(list, P) \in Seq(Hits) /\ SeenClean(Picked(list, P))
  <1>1. /\ Picked(list, P) \in Seq(Hits) /\ DOMAIN Picked(list, P) = 1 .. Cardinality(P)
        /\ \E order : PicksBy(order, list, P)
    BY PickedList
  <1>2. PICK order : PicksBy(order, list, P)
    BY <1>1
  <1>3. \A k \in DOMAIN Picked(list, P) : \E i \in DOMAIN list : Picked(list, P)[k] = list[i]
    BY <1>1, <1>2 DEF PicksBy
  <1>4. QED
    BY <1>1, <1>3 DEF SeenClean

\* A search has come back.  With the other list there too, the hits are made.
LEMMA ReadingKeeps ==
  ASSUME SearchInv, pc = "querying", NEW v, NEW t,
         v # NotRead => v \in Seq(Candidates) /\ SeenClean(v),
         t # NotRead => t \in Seq(Candidates) /\ SeenClean(t),
         vector' = v, text' = t, AfterReading(v, t),
         UNCHANGED <<collections, kind, picks, seenClean>>
  PROVE  SearchInv'
  <1>1. /\ indexed' \subseteq Chunks /\ seenClean' \subseteq Chunks /\ kind' \in {"search", "answer"}
        /\ \E n \in 0 .. Cardinality(Relations) : DOMAIN picks' = 1 .. n
        /\ Chunks \ flagged' \subseteq seenClean' /\ Limit' = Limit
    BY DEF SearchInv, collections, Limit
  <1>2. /\ v # NotRead => v \in Seq(Candidates) /\ SeenClean(v)'
        /\ t # NotRead => t \in Seq(Candidates) /\ SeenClean(t)'
    BY DEF SeenClean
  <1>3. CASE NotRead \in {v, t}
    <2>1. UNCHANGED <<pc, hits>>
      BY <1>3 DEF AfterReading
    <2>2. ~ListsAreThere'
      BY <1>3 DEF ListsAreThere
    <2>3. hits' \in Seq(Hits) /\ SeenClean(hits)' /\ pc' \in Early
      BY <2>1 DEF SearchInv, SeenClean, Early
    <2>4. QED
      BY <1>1, <1>2, <2>2, <2>3 DEF SearchInv, SeenClean
  <1>4. CASE NotRead \notin {v, t}
    <2>1. /\ hits' = AsHits(TopHits(v, t, Limit), "search")
          /\ pc' \in {"relating", "loading"}
      BY <1>4 DEF AfterReading
    <2>2. v \in Seq(Candidates) /\ SeenClean(v) /\ t \in Seq(Candidates) /\ SeenClean(t)
      BY <1>4
    <2>3. TopHits(v, t, Limit) \in Seq(Candidates) /\ SeenClean(TopHits(v, t, Limit))
      BY <2>2, Typed, TopHitsSeen
    <2>4. /\ hits' \in Seq(Hits) /\ ChunksIn(hits') = ChunksIn(TopHits(v, t, Limit))
          /\ SeenClean(hits')
      BY <2>1, <2>3, HitsList
    <2>5. SeenClean(hits)'
      BY <2>4 DEF SeenClean
    <2>6. pc' \in Early
      BY <2>1 DEF Early
    <2>7. QED
      BY <1>1, <1>2, <2>1, <2>4, <2>5, <2>6 DEF SearchInv, SeenClean
  <1>5. QED
    BY <1>3, <1>4

LEMMA SearchStep ==
  SearchInv /\ [AnsweringNext]_answeringVars => SearchInv'
  <1> SUFFICES ASSUME SearchInv, [AnsweringNext]_answeringVars PROVE SearchInv'
    OBVIOUS
  <1> USE DEF ListsAreThere
  <1>1. ASSUME UNCHANGED <<pc, kind, vector, text, hits, picks>>,
               indexed' \subseteq Chunks, seenClean \subseteq seenClean', seenClean' \subseteq Chunks,
               pc # "idle" => Chunks \ flagged' \subseteq seenClean'
        PROVE  SearchInv'
    BY <1>1 DEF SearchInv, SeenClean, Limit
  <1>2. ASSUME NEW c \in Chunks, ChangeIndex(c) PROVE SearchInv'
    BY <1>1, <1>2 DEF ChangeIndex, lists, SearchInv
  <1>3. ASSUME NEW c \in Chunks, ChangeFlag(c) PROVE SearchInv'
    <2>1. /\ UNCHANGED <<pc, kind, vector, text, hits, picks, indexed>>
          /\ flagged' = IF c \in flagged THEN flagged \ {c} ELSE flagged \cup {c}
          /\ seenClean' = IF c \in flagged THEN seenClean \cup {c} ELSE seenClean
      BY <1>3 DEF ChangeFlag, lists
    <2>2. indexed' \subseteq Chunks /\ seenClean \subseteq seenClean' /\ seenClean' \subseteq Chunks
      BY <2>1 DEF SearchInv
    <2>3. pc # "idle" => Chunks \ flagged' \subseteq seenClean'
      BY <2>1 DEF SearchInv
    <2>4. QED
      BY <1>1, <2>1, <2>2, <2>3
  <1>4. ASSUME NEW r \in Records, RemoveRecord(r) PROVE SearchInv'
    BY <1>1, <1>4 DEF RemoveRecord, lists, SearchInv
  <1>5. ASSUME NEW k \in {"search", "answer"}, Accept(k) PROVE SearchInv'
    <2>1. /\ pc' = "embedding" /\ kind' = k /\ vector' = NotRead /\ text' = NotRead
          /\ picks' = <<>> /\ hits' = <<>> /\ seenClean' = Chunks \ flagged
          /\ UNCHANGED <<indexed, flagged>>
      BY <1>5 DEF Accept, collections
    <2>2. <<>> \in Seq(Hits) /\ DOMAIN <<>> = 1 .. 0 /\ 0 \in 0 .. Cardinality(Relations)
      BY Typed
    <2>3. hits' \in Seq(Hits) /\ SeenClean(hits)'
      BY <2>1, <2>2 DEF SeenClean
    <2>4. \E n \in 0 .. Cardinality(Relations) : DOMAIN picks' = 1 .. n
      BY <2>1, <2>2
    <2>5. QED
      BY <2>1, <2>3, <2>4 DEF SearchInv, Early
  <1>6. ASSUME UNCHANGED <<collections, kind, vector, text, hits, seenClean>>, pc # "idle",
               \E n \in 0 .. Cardinality(Relations) : DOMAIN picks' = 1 .. n,
               pc' \in Early, ListsAreThere => pc' \in {"relating", "expanding", "loading"}
        PROVE  SearchInv'
    BY <1>6 DEF SearchInv, SeenClean, Limit, collections
  <1>7. CASE EmbedQuery
    <2>1. /\ pc = "embedding" /\ pc' = "querying"
          /\ UNCHANGED <<collections, kind, vector, text, hits, picks, seenClean>>
      BY <1>7 DEF EmbedQuery, lists
    <2>2. ~ListsAreThere
      BY <2>1 DEF SearchInv
    <2>3. QED
      BY <1>6, <2>1, <2>2 DEF SearchInv, Early
  <1>8. CASE SearchVector
    <2>1. PICK list \in Answers(VectorK) : vector' = AsRead(list)
      BY <1>8 DEF SearchVector
    <2>2. /\ pc = "querying" /\ AfterReading(vector', text)
          /\ UNCHANGED <<collections, kind, text, picks, seenClean>>
      BY <1>8 DEF SearchVector
    <2>3. vector' \in Seq(Candidates) /\ SeenClean(AsRead(list))
      BY <2>1, <2>2, AnswerList, ReadList DEF SearchInv
    <2>4. SeenClean(vector')
      BY <2>1, <2>3
    <2>5. text # NotRead => text \in Seq(Candidates) /\ SeenClean(text)
      BY DEF SearchInv
    <2>6. PICK v, t : v = vector' /\ t = text
      OBVIOUS
    <2>7. /\ v # NotRead => v \in Seq(Candidates) /\ SeenClean(v)
          /\ t # NotRead => t \in Seq(Candidates) /\ SeenClean(t)
          /\ vector' = v /\ text' = t /\ AfterReading(v, t)
      BY <2>2, <2>3, <2>4, <2>5, <2>6
    <2>8. QED
      BY <2>2, <2>7, ReadingKeeps
  <1>9. CASE SearchText
    <2>1. PICK list \in Answers(TextK) : text' = AsRead(list)
      BY <1>9 DEF SearchText
    <2>2. /\ pc = "querying" /\ AfterReading(vector, text')
          /\ UNCHANGED <<collections, kind, vector, picks, seenClean>>
      BY <1>9 DEF SearchText
    <2>3. text' \in Seq(Candidates) /\ SeenClean(AsRead(list))
      BY <2>1, <2>2, AnswerList, ReadList DEF SearchInv
    <2>4. SeenClean(text')
      BY <2>1, <2>3
    <2>5. vector # NotRead => vector \in Seq(Candidates) /\ SeenClean(vector)
      BY DEF SearchInv
    <2>6. PICK v, t : v = vector /\ t = text'
      OBVIOUS
    <2>7. /\ v # NotRead => v \in Seq(Candidates) /\ SeenClean(v)
          /\ t # NotRead => t \in Seq(Candidates) /\ SeenClean(t)
          /\ vector' = v /\ text' = t /\ AfterReading(v, t)
      BY <2>2, <2>3, <2>4, <2>5, <2>6
    <2>8. QED
      BY <2>2, <2>7, ReadingKeeps
  <1>10. CASE FollowRelations
    <2>1. /\ pc = "relating" /\ picks' = RelationTargets(hits, present)
          /\ pc' \in {"loading", "expanding"}
          /\ UNCHANGED <<collections, kind, vector, text, hits, seenClean>>
      BY <1>10 DEF FollowRelations, lists
    <2> DEFINE edges == {e \in Relations : /\ e.from \in RecordsIn(hits) \cap present
                                           /\ e.type \in ExpandableTypes
                                           /\ e.to \in present \ {e.from}}
    <2>2. DOMAIN picks' = 1 .. Cardinality(edges)
      BY <2>1 DEF RelationTargets, Sorted
    <2>3. edges \subseteq Relations
      OBVIOUS
    <2> HIDE DEF edges
    <2>4. Cardinality(edges) \in 0 .. Cardinality(Relations)
      <3>1. Cardinality(edges) <= Cardinality(Relations) /\ Cardinality(edges) \in Nat
        BY <2>3, RetrievalAssumption, FS_Subset, FS_CardinalityType
      <3>2. QED
        BY <3>1, Typed
    <2>5. QED
      BY <1>6, <2>1, <2>2, <2>4 DEF Early
  <1>11. CASE ExpandHits
    <2> DEFINE found == Expandable(picks, indexed)
               chosen == SelectExpansion(found, picks, ChunksIn(hits))
               more == AsHits(AsRead(chosen), "relation")
    <2>1. /\ pc = "expanding" /\ hits' = hits \o more /\ picks' = <<>> /\ pc' = "loading"
          /\ UNCHANGED <<collections, kind, vector, text, seenClean>>
      BY <1>11 DEF ExpandHits, lists
    <2>2. PICK n \in 0 .. Cardinality(Relations) : DOMAIN picks = 1 .. n
      BY DEF SearchInv
    <2>3. n \in Nat /\ indexed \in SUBSET Chunks /\ found \in SUBSET Expandable(picks, indexed)
      BY DEF SearchInv
    <2> HIDE DEF found
    <2>4. chosen \in Seq(Chunks)
      BY <2>2, <2>3, ExpansionList
    <2> HIDE DEF chosen
    <2>5. AsRead(chosen) \in Seq(Candidates) /\ SeenClean(AsRead(chosen))
      BY <2>1, <2>4, ReadList DEF SearchInv
    <2>6. more \in Seq(Hits) /\ SeenClean(more)
      BY <2>5, HitsList
    <2> HIDE DEF more
    <2>7. /\ hits' \in Seq(Hits) /\ SeenClean(hits \o more)
          /\ ChunksIn(hits) \subseteq ChunksIn(hits \o more)
      BY <2>1, <2>6, JoinedHits DEF SearchInv
    <2>8. SeenClean(hits)' /\ ChunksIn(hits) \subseteq ChunksIn(hits')
      BY <2>1, <2>7 DEF SeenClean
    <2>9. \E m \in 0 .. Cardinality(Relations) : DOMAIN picks' = 1 .. m
      <3>1. DOMAIN <<>> = 1 .. 0 /\ 0 \in 0 .. Cardinality(Relations)
        BY Typed
      <3>2. QED
        BY <2>1, <3>1
    <2>10. QED
      BY <2>1, <2>7, <2>8, <2>9 DEF SearchInv, SeenClean, Limit, collections, Early
  <1>12. ASSUME vector' = NotRead, UNCHANGED <<collections, kind, seenClean>>,
                pc # "idle", pc' \in {"generating", "done"},
                text' = NotRead, hits' \in Seq(Hits), SeenClean(hits)',
                \E n \in 0 .. Cardinality(Relations) : DOMAIN picks' = 1 .. n
         PROVE  SearchInv'
    BY <1>12 DEF SearchInv, collections
  <1>13. CASE LoadRecordMeta
    <2> DEFINE P == {i \in DOMAIN hits : RecordOf[hits[i].chunk] \in present}
    <2>1. /\ pc = "loading" /\ hits' = Picked(hits, P) /\ pc' \in {"generating", "done"}
          /\ vector' = NotRead /\ text' = NotRead
          /\ UNCHANGED <<collections, kind, picks, seenClean>>
      BY <1>13 DEF LoadRecordMeta
    <2>2. P \in SUBSET DOMAIN hits
      OBVIOUS
    <2> HIDE DEF P
    <2>3. hits' \in Seq(Hits) /\ SeenClean(Picked(hits, P))
      BY <2>1, <2>2, PickedHits DEF SearchInv
    <2>4. SeenClean(hits)'
      BY <2>1, <2>3 DEF SeenClean
    <2>5. QED
      BY <1>12, <2>1, <2>3, <2>4 DEF SearchInv
  <1>14. CASE ModelAnswers
    <2>1. /\ pc = "generating" /\ pc' \in {"generating", "done"}
          /\ UNCHANGED <<collections, kind, vector, text, picks, hits, seenClean>>
      BY <1>14 DEF ModelAnswers, lists
    <2>2. ~ListsAreThere
      BY <2>1 DEF SearchInv
    <2>3. QED
      BY <2>1, <2>2 DEF SearchInv, SeenClean, collections
  <1>15. CASE Throws
    <2>1. /\ pc # "idle" /\ pc' = "done" /\ vector' = NotRead /\ text' = NotRead
          /\ picks' = <<>> /\ hits' = <<>> /\ UNCHANGED <<collections, kind, seenClean>>
      BY <1>15 DEF Throws
    <2>2. <<>> \in Seq(Hits) /\ DOMAIN <<>> = 1 .. 0 /\ 0 \in 0 .. Cardinality(Relations)
      BY Typed
    <2>3. hits' \in Seq(Hits) /\ SeenClean(hits)'
      BY <2>1, <2>2 DEF SeenClean
    <2>4. \E n \in 0 .. Cardinality(Relations) : DOMAIN picks' = 1 .. n
      BY <2>1, <2>2
    <2>5. QED
      BY <1>12, <2>1, <2>3, <2>4
  <1>16. CASE UNCHANGED answeringVars
    BY <1>1, <1>16 DEF answeringVars, lists, collections, SearchInv
  <1>17. QED
    BY <1>2, <1>3, <1>4, <1>5, <1>7, <1>8, <1>9, <1>10, <1>11, <1>13, <1>14, <1>15, <1>16
       DEF AnsweringNext, Proceeds

LEMMA SearchStart == AnsweringInit => SearchInv
  <1> SUFFICES ASSUME AnsweringInit PROVE SearchInv
    OBVIOUS
  <1>1. /\ indexed = Chunks /\ pc = "idle" /\ kind = "search" /\ seenClean = {}
        /\ vector = NotRead /\ text = NotRead /\ picks = <<>> /\ hits = <<>>
    BY DEF AnsweringInit
  <1>2. <<>> \in Seq(Hits) /\ DOMAIN <<>> = 1 .. 0 /\ 0 \in 0 .. Cardinality(Relations)
    BY Typed
  <1>3. hits \in Seq(Hits) /\ SeenClean(hits)
    BY <1>1, <1>2 DEF SeenClean
  <1>4. \E n \in 0 .. Cardinality(Relations) : DOMAIN picks = 1 .. n
    BY <1>1, <1>2
  <1>5. QED
    BY <1>1, <1>3, <1>4 DEF SearchInv, ListsAreThere, Early

\* rrf.ts:115-128: however long a record is and however it ranks, the hits show as
\* many records as fit beside each other, or as the vector search has found.
THEOREM SlotsStayShared == AnsweringSpec => []SlotsAreShared
  <1>1. SearchInv => SlotsAreShared
    <2> SUFFICES ASSUME SearchInv, ListsAreThere PROVE SlotsAreShared
      BY DEF SlotsAreShared
    <2> DEFINE H == TopHits(vector, text, Limit)
               r == Cardinality(RecordsIn(hits))
               h == Cardinality(RecordsIn(H))
               w == Cardinality(RecordsIn(vector))
    <2>1. /\ vector \in Seq(Candidates) /\ text \in Seq(Candidates) /\ hits \in Seq(Hits)
          /\ ChunksIn(H) \subseteq ChunksIn(hits)
      BY DEF SearchInv, ListsAreThere
    <2>2. /\ H \in Seq(Candidates)
          /\ h >= Slots(Limit) \/ h >= Slots(VectorK) \/ h >= w
      BY <2>1, Typed, TopHitsList
    <2> HIDE DEF H
    <2>3. RecordsIn(H) \subseteq RecordsIn(hits)
      BY <2>1 DEF RecordsIn
    <2>4. /\ IsFiniteSet(RecordsIn(hits)) /\ r \in Nat /\ h \in Nat /\ w \in Nat
      BY <2>1, <2>2, Typed, RecordsOfLists
    <2>5. h <= r
      BY <2>3, <2>4, FS_Subset
    <2>6. Slots(Limit) \in Nat /\ Slots(VectorK) \in Nat
      BY <2>1, Typed, CapKeepsRecords, RetrievalAssumption
    <2> HIDE DEF r, h, w
    <2>7. r >= Slots(Limit) \/ r >= Slots(VectorK) \/ r >= w
      BY <2>2, <2>4, <2>5, <2>6
    <2> DEFINE Fewest(a, b) == IF a < b THEN a ELSE b
    <2>8. r >= Fewest(Slots(Limit), Fewest(Slots(VectorK), w))
      BY <2>4, <2>6, <2>7
    <2>9. QED
      BY <2>8 DEF SlotsAreShared, Slots, r, w
  <1>2. QED
    BY <1>1, SearchStart, SearchStep, PTL DEF AnsweringSpec

\* rrf.ts:27-37: among what is fused, a chunk that no path ranks below another
\* comes before it; that one path only has found it is no advantage.
THEOREM BetterRankedAreFirst == AnsweringSpec => []BetterRankedComesFirst
  <1>1. SearchInv => BetterRankedComesFirst
    <2> SUFFICES ASSUME SearchInv, ListsAreThere,
                        NEW v \in {Cap(vector, VectorK)}, NEW t \in {Cap(text, TextK)},
                        NEW fused \in {Fuse(v, t)},
                        NEW i \in DOMAIN fused, NEW j \in DOMAIN fused,
                        fused[i].chunk # fused[j].chunk,
                        Rank(v, fused[j].chunk) # 0 =>
                            Rank(v, fused[i].chunk) \in 1 .. Rank(v, fused[j].chunk),
                        Rank(t, fused[j].chunk) # 0 =>
                            Rank(t, fused[i].chunk) \in 1 .. Rank(t, fused[j].chunk)
                 PROVE  i < j
      BY DEF BetterRankedComesFirst
    <2>1. vector \in Seq(Candidates) /\ text \in Seq(Candidates)
      BY DEF SearchInv, ListsAreThere
    <2>2. VectorK \in Nat \ {0} /\ TextK \in Nat \ {0}
      BY RetrievalAssumption
    <2>3. v \in Seq(Candidates) /\ t \in Seq(Candidates)
      BY <2>1, <2>2, Typed, CapKeepsRecords
    <2>4. fused = Fuse(v, t)
      OBVIOUS
    <2>5. /\ fused \in Seq(Candidates) /\ ChunksIn(fused) = ChunksIn(v) \cup ChunksIn(t)
          /\ i < j <=> Precedes(Entry(v, t, fused[i].chunk), Entry(v, t, fused[j].chunk))
      BY <2>3, <2>4, Typed, FuseList
    <2>6. fused[i].chunk \in Chunks /\ fused[j].chunk \in ChunksIn(v) \cup ChunksIn(t)
      BY <2>5, Typed, ChunksOfLists
    <2>7. Precedes(Entry(v, t, fused[i].chunk), Entry(v, t, fused[j].chunk))
      BY <2>3, <2>6, Typed, BetterComesFirst
    <2>8. QED
      BY <2>5, <2>7
  <1>2. QED
    BY <1>1, SearchStart, SearchStep, PTL DEF AnsweringSpec

\* context.ts: whatever path finds it and whatever copy of it is read, a chunk that
\* was suspect as long as the request was served is neither shown nor cited.
THEOREM SuspectsAreKeptOut == AnsweringSpec => []SuspectsStayOut
  <1>1. SearchInv => SuspectsStayOut
    <2> SUFFICES ASSUME SearchInv PROVE SuspectsStayOut
      OBVIOUS
    <2>1. Context(hits) \subseteq seenClean
      BY DEF SearchInv, SeenClean, Context
    <2>2. QED
      BY <2>1 DEF SuspectsStayOut, ResponseCitations
  <1>2. QED
    BY <1>1, SearchStart, SearchStep, PTL DEF AnsweringSpec

-----------------------------------------------------------------------------
(* What is delivered.                                                      *)

\* How many members of X come before i.
Ahead(X, i) == {j \in 1 .. i - 1 : j \in X}
Count(X, i) == Cardinality(Ahead(X, i))

LEMMA CountSteps ==
  ASSUME NEW X, NEW i \in Nat \ {0}
  PROVE  /\ IsFiniteSet(Ahead(X, i)) /\ Count(X, i) \in Nat
         /\ Count(X, 1) = 0
         /\ Count(X, i + 1) = IF i \in X THEN Count(X, i) + 1 ELSE Count(X, i)
  <1>1. IsFiniteSet(Ahead(X, i))
    <2>1. IsFiniteSet(1 .. i - 1)
      BY FS_Interval
    <2>2. QED
      BY <2>1, FS_Subset DEF Ahead
  <1>2. Count(X, i) \in Nat
    BY <1>1, FS_CardinalityType DEF Count
  <1>3. Count(X, 1) = 0
    <2>1. Ahead(X, 1) = {}
      BY DEF Ahead
    <2>2. QED
      BY <2>1, FS_EmptySet DEF Count
  <1>4. CASE i \in X
    <2>1. Ahead(X, i + 1) = Ahead(X, i) \cup {i} /\ i \notin Ahead(X, i)
      BY <1>4 DEF Ahead
    <2>2. QED
      BY <1>1, <1>2, <1>3, <1>4, <2>1, FS_AddElement DEF Count
  <1>5. CASE i \notin X
    <2>1. Ahead(X, i + 1) = Ahead(X, i)
      BY <1>5 DEF Ahead
    <2>2. QED
      BY <1>1, <1>2, <1>3, <1>5, <2>1 DEF Count
  <1>6. QED
    BY <1>4, <1>5

\* Those of X that come before i are those in Y and those that are not.
Parted(X, Y, i) == Count(X, i) = Count(X \cap Y, i) + Count(X \ Y, i)

LEMMA Parities ==
  \A a, b \in Nat : /\ b % 2 = 0 => (a + b) % 2 = a % 2
                    /\ (a + b) % 2 # 1 /\ b % 2 = 0 => a % 2 = 0
                    /\ (a + b) % 2 = 0 /\ a % 2 = 0 => b % 2 = 0
                    /\ a % 2 = 0 => (a + b) % 2 = b % 2
  OBVIOUS

LEMMA CountParts ==
  ASSUME NEW X, NEW Y, NEW i \in Nat \ {0}
  PROVE  Parted(X, Y, i)
  <1>1. IsFiniteSet(Ahead(X, i)) /\ Count(X, i) \in Nat /\ Count(X \cap Y, i) \in Nat
        /\ Count(X \ Y, i) \in Nat
    BY CountSteps
  <1>2. /\ Ahead(X, i) \ Ahead(X \cap Y, i) = Ahead(X \ Y, i)
        /\ Ahead(X, i) \cap Ahead(X \cap Y, i) = Ahead(X \cap Y, i)
    BY DEF Ahead
  <1>3. Count(X \ Y, i) = Count(X, i) - Count(X \cap Y, i)
    BY <1>1, <1>2, FS_Difference DEF Count
  <1>4. QED
    BY <1>1, <1>3 DEF Parted

Fences(answer) == {i \in DOMAIN answer : FenceLine(answer, i)}
IsCode(answer, i) == FenceLine(answer, i) \/ InFence(answer, i)

\* In an answer whose code blocks have no blank line, the code is what is in a
\* fence, and the fences; a line's fence is told by the fences before it.
LEMMA PiecesOf ==
  ASSUME NEW answer \in Seq(Pieces), NEW i \in DOMAIN answer
  PROVE  /\ InFence(answer, i) <=> Count(Fences(answer), i) % 2 = 1
         /\ ~SplitsCode(answer) => (Piece(answer, i) = "code" <=> IsCode(answer, i))
         /\ Piece(answer, i) = "text" <=> /\ answer[i].kind \in {"text", "fence"}
                                          /\ ~FenceLine(answer, i) /\ ~InFence(answer, i)
         /\ Piece(answer, i) = "code" => answer[i].kind # "blank" /\ IsCode(answer, i)
  <1>1. DOMAIN answer = 1 .. Len(answer) /\ Len(answer) \in Nat /\ answer[i] \in Pieces
    OBVIOUS
  <1>2. answer[i].kind \in {"fence", "blank", "label", "text"}
    BY <1>1, AnsweringAssumption
  <1>3. Ahead(Fences(answer), i) = {j \in 1 .. i - 1 : FenceLine(answer, j)}
    BY <1>1 DEF Ahead, Fences
  <1>4. InFence(answer, i) <=> Count(Fences(answer), i) % 2 = 1
    BY <1>3 DEF InFence, Count
  <1>5. CASE answer[i].kind = "blank"
    <2>1. Piece(answer, i) = "blank" /\ ~FenceLine(answer, i)
      BY <1>5 DEF Piece, FenceLine
    <2>2. ~SplitsCode(answer) => ~InFence(answer, i)
      BY <1>5 DEF SplitsCode
    <2>3. QED
      BY <1>4, <1>5, <2>1, <2>2 DEF IsCode
  <1>6. CASE answer[i].kind # "blank" /\ (FenceLine(answer, i) \/ InFence(answer, i))
    BY <1>4, <1>6 DEF Piece, IsCode
  <1>7. CASE answer[i].kind # "blank" /\ ~(FenceLine(answer, i) \/ InFence(answer, i))
    BY <1>2, <1>4, <1>7 DEF Piece, IsCode
  <1>8. QED
    BY <1>5, <1>6, <1>7

\* Code that is removed is removed as far as it is joined.
LEMMA BlocksGoWhole ==
  ASSUME NEW answer \in Seq(Pieces), NEW allowed, NEW texts,
         NEW i \in DOMAIN answer, i + 1 \in DOMAIN answer,
         Piece(answer, i) = "code", Piece(answer, i + 1) = "code"
  PROVE  i \in UngroundedCode(answer, allowed, texts)
            <=> i + 1 \in UngroundedCode(answer, allowed, texts)
  <1>1. DOMAIN answer = 1 .. Len(answer) /\ Len(answer) \in Nat
    OBVIOUS
  <1>2. Block(answer, i) = Block(answer, i + 1)
    <2>1. ASSUME NEW j \in DOMAIN answer
          PROVE  (\A k \in DOMAIN answer :
                      (i <= k /\ k <= j) \/ (j <= k /\ k <= i) => Piece(answer, k) = "code")
                 <=>
                 (\A k \in DOMAIN answer :
                      (i + 1 <= k /\ k <= j) \/ (j <= k /\ k <= i + 1) => Piece(answer, k) = "code")
      <3>1. ASSUME NEW k \in DOMAIN answer, (i <= k /\ k <= j) \/ (j <= k /\ k <= i)
            PROVE  k = i \/ ((i + 1 <= k /\ k <= j) \/ (j <= k /\ k <= i + 1))
        BY <1>1, <3>1
      <3>2. ASSUME NEW k \in DOMAIN answer, (i + 1 <= k /\ k <= j) \/ (j <= k /\ k <= i + 1)
            PROVE  k = i + 1 \/ ((i <= k /\ k <= j) \/ (j <= k /\ k <= i))
        BY <1>1, <3>2
      <3>3. QED
        BY <3>1, <3>2
    <2>2. QED
      BY <2>1 DEF Block
  <1>3. QED
    BY <1>2 DEF UngroundedCode

\* Of the fences before a line that stays, as many as go are even: code goes whole,
\* and without a blank line within it ends where its fence is closed.
LEMMA FencesStayPaired ==
  ASSUME NEW answer \in Seq(Pieces), ~SplitsCode(answer), NEW allowed, NEW texts,
         NEW p \in DOMAIN answer, p \notin UngroundedCode(answer, allowed, texts)
  PROVE  Count(Fences(answer) \ UngroundedCode(answer, allowed, texts), p) % 2
             = Count(Fences(answer), p) % 2
  <1> DEFINE F == Fences(answer)
             R == UngroundedCode(answer, allowed, texts)
             n == Len(answer)
             Code(i) == FenceLine(answer, i) \/ InFence(answer, i)
             Holds(i) == /\ i = 1 \/ i - 1 \notin R => Count(F \cap R, i) % 2 = 0
                         /\ i # 1 /\ i - 1 \in R => Count(F \ R, i) % 2 = 0
  <1>1. DOMAIN answer = 1 .. n /\ n \in Nat
    OBVIOUS
  <1>2. \A i \in 1 .. n : /\ InFence(answer, i) <=> Count(F, i) % 2 = 1
                          /\ Piece(answer, i) = "code" <=> Code(i)
    BY <1>1, PiecesOf DEF IsCode
  <1>3. \A i \in 1 .. n : i \in F <=> FenceLine(answer, i)
    BY <1>1 DEF Fences
  <1>4. R \subseteq 1 .. n /\ \A i \in R : Code(i)
    BY <1>1, <1>2 DEF UngroundedCode
  <1>5. \A i \in 1 .. n : i + 1 \in 1 .. n /\ Code(i) /\ Code(i + 1) => (i \in R <=> i + 1 \in R)
    BY <1>1, <1>2, BlocksGoWhole
  <1> HIDE DEF F, R, n
  <1>6. \A i \in Nat \ {0} :
            /\ Count(F, i) \in Nat /\ Count(F \cap R, i) \in Nat /\ Count(F \ R, i) \in Nat
            /\ Count(F, i) = Count(F \cap R, i) + Count(F \ R, i)
            /\ Count(F, i + 1) = IF i \in F THEN Count(F, i) + 1 ELSE Count(F, i)
            /\ Count(F \cap R, i + 1) = IF i \in F \cap R THEN Count(F \cap R, i) + 1
                                        ELSE Count(F \cap R, i)
            /\ Count(F \ R, i + 1) = IF i \in F \ R THEN Count(F \ R, i) + 1
                                     ELSE Count(F \ R, i)
    <2> TAKE i \in Nat \ {0}
    <2>1. /\ Count(F, i) \in Nat
          /\ Count(F, i + 1) = IF i \in F THEN Count(F, i) + 1 ELSE Count(F, i)
      BY CountSteps
    <2>2. /\ Count(F \cap R, i) \in Nat
          /\ Count(F \cap R, i + 1) = IF i \in F \cap R THEN Count(F \cap R, i) + 1
                                      ELSE Count(F \cap R, i)
      BY CountSteps
    <2>3. /\ Count(F \ R, i) \in Nat
          /\ Count(F \ R, i + 1) = IF i \in F \ R THEN Count(F \ R, i) + 1
                                   ELSE Count(F \ R, i)
      BY CountSteps
    <2>4. Count(F, i) = Count(F \cap R, i) + Count(F \ R, i)
      <3>1. Parted(F, R, i)
        BY CountParts
      <3>2. QED
        BY <3>1 DEF Parted
    <2>5. QED
      BY <2>1, <2>2, <2>3, <2>4
  <1>7. Count(F, 1) = 0 /\ Count(F \cap R, 1) = 0 /\ Count(F \ R, 1) = 0
    BY CountSteps
  <1>8. Holds(1)
    BY <1>7
  <1>9. ASSUME NEW i \in 1 .. n, Holds(i) PROVE Holds(i + 1)
    <2>1. i \in Nat \ {0} /\ i + 1 # 1 /\ i + 1 - 1 = i
      BY <1>1
    <2>2. CASE i \notin R
      <3>1. Count(F \cap R, i + 1) = Count(F \cap R, i)
        BY <1>6, <2>1, <2>2
      <3>2. CASE i = 1 \/ i - 1 \notin R
        BY <1>9, <2>1, <2>2, <3>1, <3>2
      <3>3. CASE ~(i = 1 \/ i - 1 \notin R)
        <4>1. i - 1 \in R /\ i - 1 \in 1 .. n /\ i - 1 + 1 = i /\ Code(i - 1)
          BY <1>1, <1>4, <3>3
        <4>2. ~Code(i)
          BY <1>5, <2>2, <4>1
        <4>3. Count(F, i) % 2 # 1
          BY <1>2, <4>2
        <4>4. Count(F \ R, i) % 2 = 0
          BY <1>9, <3>3
        <4>5. Count(F \cap R, i) % 2 = 0
          BY ZenonT(40), <1>6, <2>1, <4>3, <4>4, Parities
        <4>6. QED
          BY <2>1, <2>2, <3>1, <4>5
      <3>4. QED
        BY <3>2, <3>3
    <2>3. CASE i \in R
      <3>1. Count(F \ R, i + 1) = Count(F \ R, i)
        BY <1>6, <2>1, <2>3
      <3>2. CASE i # 1 /\ i - 1 \in R
        BY <1>9, <2>1, <2>3, <3>1, <3>2
      <3>3. CASE ~(i # 1 /\ i - 1 \in R)
        <4>1. Count(F \cap R, i) % 2 = 0
          BY <1>9, <3>3
        <4>2. Count(F, i) % 2 = 0
          <5>1. CASE i = 1
            BY <1>7, <5>1
          <5>2. CASE i # 1
            <6>1. i - 1 \in 1 .. n /\ i - 1 \notin R /\ i - 1 + 1 = i /\ i - 1 \in Nat \ {0}
              BY <1>1, <3>3, <5>2
            <6>2. ~Code(i - 1)
              BY <1>4, <1>5, <2>3, <6>1
            <6>3. i - 1 \notin F /\ Count(F, i - 1) % 2 # 1
              BY <1>2, <1>3, <6>1, <6>2
            <6>4. Count(F, i) = Count(F, i - 1) /\ Count(F, i - 1) \in Nat
              BY <1>6, <6>1, <6>3
            <6>5. QED
              BY <6>3, <6>4
          <5>3. QED
            BY <5>1, <5>2
        <4>3. Count(F \ R, i) % 2 = 0
          <5> DEFINE g == Count(F \cap R, i)  k == Count(F \ R, i)
          <5>1. g \in Nat /\ k \in Nat /\ Count(F, i) = g + k
            BY <1>6, <2>1
          <5> HIDE DEF g, k
          <5>2. (g + k) % 2 = 0 /\ g % 2 = 0
            BY <4>1, <4>2, <5>1 DEF g
          <5>3. k % 2 = 0
            BY <5>1, <5>2, Parities
          <5>4. QED
            BY <5>3 DEF k
        <4>4. QED
          BY <2>1, <2>3, <3>1, <4>3
      <3>4. QED
        BY <3>2, <3>3
    <2>4. QED
      BY <2>2, <2>3
  <1>10. \A i \in 1 .. n + 1 : Holds(i)
    <2> DEFINE Q == {i \in 1 .. n + 1 : ~Holds(i)}
    <2>1. SUFFICES ASSUME Q # {} PROVE FALSE
      OBVIOUS
    <2> HIDE DEF Holds
    <2>2. PICK m \in Q : \A i \in Q : m <= i
      <3>1. Q \in SUBSET Nat
        BY <1>1
      <3>2. QED
        BY <2>1, <3>1, LeastOf
    <2>3. m - 1 \in 1 .. n /\ m - 1 + 1 = m
      BY <1>1, <1>8, <2>2
    <2>4. m - 1 \notin Q
      BY <1>1, <2>2, <2>3
    <2>5. Holds(m - 1)
      BY <1>1, <2>3, <2>4
    <2>6. Holds(m)
      BY <1>9, <2>3, <2>5
    <2>7. QED
      BY <2>2, <2>6
  <1>11. p \in 1 .. n /\ p + 1 \in 1 .. n + 1 /\ p + 1 # 1 /\ p + 1 - 1 = p /\ p \in Nat \ {0}
         /\ p \notin R
    BY <1>1 DEF R
  <1>12. Count(F \cap R, p + 1) % 2 = 0
    <2>1. Holds(p + 1)
      <3> HIDE DEF Holds
      <3>1. QED
        BY <1>10, <1>11
    <2>2. QED
      BY <1>11, <2>1
  <1>13. Count(F \cap R, p) % 2 = 0
    BY <1>6, <1>11, <1>12
  <1>14. Count(F \ R, p) % 2 = Count(F, p) % 2
    <2> DEFINE g == Count(F \cap R, p)  k == Count(F \ R, p)
    <2>1. g \in Nat /\ k \in Nat /\ Count(F, p) = g + k /\ g % 2 = 0
      BY <1>6, <1>11, <1>13
    <2> HIDE DEF g, k
    <2>2. (g + k) % 2 = k % 2
      BY <2>1, Parities
    <2>3. QED
      BY <2>1, <2>2 DEF k
  <1>15. QED
    BY <1>14 DEF F, R

\* The places of a picked list whose elements were picked from X.
PickedFrom(order, n, X) == {m \in 1 .. n : order[m] \in X}

Rises(order, n, P) ==
    /\ n \in Nat /\ P \subseteq Nat \ {0} /\ order \in [1 .. n -> P]
    /\ \A p \in P : \E k \in 1 .. n : order[k] = p
    /\ \A j, k \in 1 .. n : j < k <=> order[j] < order[k]

PartOf(Z, X, P) == \A i : i \in Z <=> i \in X /\ i \in P

CountsAlong(order, n, X, Z, k) == Count(PickedFrom(order, n, X), k) = Count(Z, order[k])

\* Counting along an order: as many members of X come before a place of the picked
\* list as come, among the picked, before the place it was picked from.
LEMMA CountsPicked ==
  ASSUME NEW P, NEW n, NEW order, Rises(order, n, P), NEW X,
         NEW Z, PartOf(Z, X, P), NEW k \in 1 .. n
  PROVE  CountsAlong(order, n, X, Z, k)
  <1> DEFINE A == Ahead(PickedFrom(order, n, X), k)
             B == Ahead(Z, order[k])
             f == [m \in A |-> order[m]]
  <1> USE DEF Rises, PartOf
  <1>1. \A m : m \in A <=> m \in 1 .. n /\ m < k /\ order[m] \in X
    BY DEF Ahead, PickedFrom
  <1>2. order[k] \in P /\ order[k] \in Nat \ {0}
    OBVIOUS
  <1>3. \A p : p \in B <=> p \in P /\ p < order[k] /\ p \in X
    <2> DEFINE q == order[k]
    <2>1. q \in Nat /\ B = {j \in 1 .. q - 1 : j \in Z}
      BY <1>2 DEF Ahead
    <2> HIDE DEF q, B
    <2>2. \A p \in P : p \in 1 .. q - 1 <=> p < q
      BY <2>1
    <2>3. \A p : p \in B <=> p \in P /\ p < q /\ p \in X
      BY <2>1, <2>2
    <2>4. QED
      BY <2>3 DEF q
  <1>4. IsFiniteSet(A)
    BY CountSteps
  <1> HIDE DEF A, B
  <1>5. f \in [A -> B] /\ \A m \in A : f[m] = order[m]
    <2>1. \A m \in A : order[m] \in B
      BY <1>1, <1>3
    <2>2. QED
      BY <2>1
  <1> HIDE DEF f
  <1>6. \A a, b \in A : f[a] = f[b] => a = b
    <2> SUFFICES ASSUME NEW a \in A, NEW b \in A, f[a] = f[b] PROVE a = b
      OBVIOUS
    <2>1. a \in 1 .. n /\ b \in 1 .. n /\ order[a] = order[b] /\ order[a] \in Nat
      BY <1>1, <1>5
    <2>2. ~(a < b) /\ ~(b < a)
      BY <2>1
    <2>3. QED
      BY <2>1, <2>2
  <1>7. ASSUME NEW p \in B PROVE \E m \in A : f[m] = p
    <2>1. p \in P /\ p < order[k] /\ p \in X
      BY <1>3
    <2>2. PICK m \in 1 .. n : order[m] = p
      BY <2>1
    <2>3. m < k
      BY <2>1, <2>2
    <2>4. QED
      BY <1>1, <1>5, <2>1, <2>2, <2>3
  <1>8. f \in Bijection(A, B)
    BY <1>5, <1>6, <1>7 DEF Bijection, Injection, Surjection, IsInjective
  <1>9. Cardinality(A) = Cardinality(B)
    BY <1>4, <1>8, FS_Bijection DEF ExistsBijection
  <1>10. QED
    BY <1>9 DEF A, B, Count, CountsAlong

\* Where what is removed joins no lines, a fence that stays begins a line of what
\* is left exactly when it began one before.
LEMMA FencesStayLines ==
  ASSUME NEW answer \in Seq(Pieces), NEW bad, ~Rejoins(answer, bad),
         NEW P, P = DOMAIN answer \ bad,
         NEW n, NEW order, Rises(order, n, P),
         NEW S, \A k \in 1 .. n : S[k] = answer[order[k]],
         NEW k \in 1 .. n, answer[order[k]].kind = "fence"
  PROVE  StartsLine(S, k) <=> StartsLine(answer, order[k])
  <1> DEFINE p == order[k]
             Same(i, j) == \A m \in i .. j - 1 : answer[m].inner
  <1>1. /\ DOMAIN answer = 1 .. Len(answer) /\ Len(answer) \in Nat /\ n \in Nat
        /\ p \in P /\ p \in 1 .. Len(answer)
        /\ \A j \in 1 .. n : order[j] \in P /\ order[j] \in 1 .. Len(answer)
    BY DEF Rises
  <1>2. \A i, m \in P : \A j \in bad \cap DOMAIN answer :
            ~(i < j /\ j < m /\ Same(i, j) /\ ~answer[j].inner)
    BY DEF Rejoins
  <1>3. ~StartsLine(answer, p) => \E i \in 1 .. p - 1 : Same(i, p) /\ i \notin bad
    BY <1>1 DEF Rejoins
  <1>4. k # 1 => /\ k - 1 \in 1 .. n /\ order[k - 1] \in P /\ order[k - 1] < p
                 /\ order[k - 1] \in 1 .. Len(answer)
                 /\ S[k - 1] = answer[order[k - 1]]
                 /\ \A q \in P : q < p => q <= order[k - 1]
    <2> SUFFICES ASSUME k # 1
                 PROVE  /\ k - 1 \in 1 .. n /\ order[k - 1] \in P /\ order[k - 1] < p
                        /\ order[k - 1] \in 1 .. Len(answer)
                        /\ S[k - 1] = answer[order[k - 1]]
                        /\ \A q \in P : q < p => q <= order[k - 1]
      OBVIOUS
    <2>1. k - 1 \in 1 .. n /\ k - 1 < k
      BY <1>1
    <2>2. order[k - 1] \in P /\ order[k - 1] < p /\ order[k - 1] \in 1 .. Len(answer)
      BY <1>1, <2>1 DEF Rises
    <2>3. ASSUME NEW q \in P, q < p PROVE q <= order[k - 1]
      <3>1. PICK m \in 1 .. n : order[m] = q
        BY DEF Rises
      <3>2. m < k
        BY <2>3, <3>1 DEF Rises
      <3>3. m = k - 1 \/ m < k - 1
        BY <1>1, <3>2
      <3>4. m < k - 1 => order[m] < order[k - 1]
        BY <2>1, <3>1 DEF Rises
      <3>5. order[m] \in Nat /\ order[k - 1] \in Nat
        BY <1>1, <2>1
      <3>6. QED
        BY <3>1, <3>3, <3>4, <3>5
    <2>4. QED
      BY <2>1, <2>2, <2>3
  <1> HIDE DEF p
  <1>5. ASSUME ~StartsLine(answer, p) PROVE ~StartsLine(S, k)
    <2>1. PICK i \in 1 .. p - 1 : Same(i, p) /\ i \notin bad
      BY <1>3, <1>5
    <2>2. i \in P /\ i < p /\ i \in Nat /\ p \in Nat
      BY <1>1, <2>1
    <2>3. k # 1
      <3>1. PICK m \in 1 .. n : order[m] = i
        BY <2>2 DEF Rises
      <3>2. m < k
        BY <2>2, <3>1 DEF Rises, p
      <3>3. QED
        BY <1>1, <3>1, <3>2
    <2>4. order[k - 1] \in i .. p - 1
      BY <1>4, <2>2, <2>3
    <2>5. S[k - 1].inner
      BY <1>4, <2>1, <2>3, <2>4
    <2>6. QED
      BY <2>3, <2>5 DEF StartsLine
  <1>6. ASSUME StartsLine(answer, p), ~StartsLine(S, k) PROVE FALSE
    <2>1. k # 1 /\ S[k - 1].inner
      BY <1>6 DEF StartsLine
    <2> DEFINE q == order[k - 1]
               E == {m \in q .. p - 1 : ~answer[m].inner}
    <2>2. q \in P /\ q < p /\ q \in Nat /\ p \in Nat /\ q \in 1 .. Len(answer)
          /\ answer[q].inner
      BY <1>1, <1>4, <2>1
    <2>7. \A m \in P : m < p => m <= q
      BY <1>4, <2>1
    <2> HIDE DEF q
    <2>3. p - 1 \in E
      BY <1>6, <2>2 DEF StartsLine
    <2>4. PICK j \in E : \A m \in E : j <= m
      <3>1. E \in SUBSET Nat /\ E # {}
        BY <2>2, <2>3
      <3> HIDE DEF E
      <3>2. QED
        BY <3>1, LeastOf
    <2>5. /\ j \in q .. p - 1 /\ ~answer[j].inner /\ j # q
          /\ Same(q, j)
      BY <2>2, <2>4
    <2>6. j \in bad \cap DOMAIN answer /\ q < j /\ j < p
      <3>1. q < j /\ j < p /\ j \in DOMAIN answer
        BY <1>1, <2>2, <2>5
      <3>2. j \notin P
        BY <2>2, <2>5, <2>7, <3>1
      <3>3. QED
        BY <3>1, <3>2
    <2>8. QED
      BY <1>1, <1>2, <2>2, <2>5, <2>6
  <1>7. QED
    BY <1>5, <1>6 DEF p

\* stripUngroundedSentences: without a blank line in a code block, and where no
\* lines are joined, each piece that stays is read as it was.
LEMMA StrippedReadsSame ==
  ASSUME NEW answer \in Seq(Pieces), ~SplitsCode(answer), NEW allowed, NEW texts,
         NEW bad, bad = Violations(answer, allowed, texts), ~Rejoins(answer, bad)
  PROVE  /\ Stripped(answer, bad) \in Seq(Pieces)
         /\ \A k \in DOMAIN Stripped(answer, bad) :
                k \in Claims(Stripped(answer, bad)) =>
                    \E i \in Claims(answer) \ bad : Stripped(answer, bad)[k] = answer[i]
         /\ \A i \in Claims(answer) \ bad : \E k \in DOMAIN Stripped(answer, bad) :
                k \in Claims(Stripped(answer, bad))
  <1> DEFINE P == DOMAIN answer \ bad
             S == Stripped(answer, bad)
             n == Cardinality(P)
             F == Fences(answer)
             R == UngroundedCode(answer, allowed, texts)
  <1>1. DOMAIN answer = 1 .. Len(answer) /\ Len(answer) \in Nat
    OBVIOUS
  <1>2. /\ S = Picked(answer, P) /\ P \in SUBSET DOMAIN answer
    BY DEF Stripped
  <1>3. /\ n \in Nat /\ S \in Seq(Pieces) /\ DOMAIN S = 1 .. n
        /\ \E order : PicksBy(order, answer, P)
    BY <1>2, PickedList
  <1>4. PICK order : PicksBy(order, answer, P)
    BY <1>3
  <1>5. /\ order \in [1 .. n -> P]
        /\ \A p \in P : \E k \in 1 .. n : order[k] = p
        /\ \A j, k \in 1 .. n : j < k <=> order[j] < order[k]
        /\ \A k \in 1 .. n : S[k] = answer[order[k]]
    <2>1. S = [k \in 1 .. n |-> answer[order[k]]]
      BY <1>2, <1>4 DEF PicksBy
    <2> HIDE DEF S
    <2>2. \A k \in 1 .. n : S[k] = answer[order[k]]
      BY <2>1
    <2>3. QED
      BY <1>4, <2>2 DEF PicksBy
  <1>6. \A i \in DOMAIN answer : i \in Claims(answer) => ~FenceLine(answer, i)
    BY PiecesOf DEF Claims
  <1> DEFINE Z == F \ R
  <1>7. \A i : i \in Z <=> i \in F /\ i \in P
    <2>1. \A i \in F : i \in bad <=> i \in R
      BY <1>6 DEF Violations, Fences
    <2>2. F \subseteq DOMAIN answer
      BY DEF Fences
    <2> HIDE DEF F, R
    <2>3. QED
      BY <2>1, <2>2
  <1> HIDE DEF Z
  <1>8. P \subseteq Nat \ {0} /\ P \in SUBSET Nat
    BY <1>1
  <1> HIDE DEF S, n
  <1>14. Rises(order, n, P)
    BY <1>3, <1>5, <1>8 DEF Rises
  <1>15. \A m \in 1 .. n : /\ order[m] \in DOMAIN answer /\ S[m].kind = answer[order[m]].kind
                           /\ FenceLine(S, m) <=> FenceLine(answer, order[m])
    <2> SUFFICES ASSUME NEW m \in 1 .. n
                 PROVE  /\ order[m] \in DOMAIN answer /\ S[m].kind = answer[order[m]].kind
                        /\ FenceLine(S, m) <=> FenceLine(answer, order[m])
      OBVIOUS
    <2>1. order[m] \in DOMAIN answer /\ S[m].kind = answer[order[m]].kind
      BY <1>2, <1>5
    <2>2. answer[order[m]].kind = "fence" =>
              (StartsLine(S, m) <=> StartsLine(answer, order[m]))
      <3>1. \A k \in 1 .. n : S[k] = answer[order[k]]
        BY <1>5
      <3>2. QED
        BY <1>14, <3>1, FencesStayLines
    <2>3. QED
      BY <2>1, <2>2 DEF FenceLine
  <1>9. Fences(S) = PickedFrom(order, n, F)
    BY <1>3, <1>15 DEF Fences, PickedFrom
  <1>10. ASSUME NEW k \in 1 .. n
         PROVE  /\ k \in Claims(S) <=> order[k] \in Claims(answer)
                /\ order[k] \in DOMAIN answer /\ order[k] \notin bad
    <2>1. order[k] \in DOMAIN answer /\ order[k] \notin bad /\ order[k] \notin R
      BY <1>5 DEF Violations
    <2>2. Count(Fences(S), k) = Count(Z, order[k])
      <3> HIDE DEF P, F
      <3>1. Count(PickedFrom(order, n, F), k) = Count(Z, order[k])
        <4>1. Rises(order, n, P)
          BY <1>14
        <4>2. PartOf(Z, F, P)
          BY <1>7 DEF PartOf
        <4>3. CountsAlong(order, n, F, Z, k)
          BY <4>1, <4>2, CountsPicked
        <4>4. QED
          BY <4>3 DEF CountsAlong
      <3>2. QED
        BY <1>9, <3>1
    <2>3. Count(Z, order[k]) % 2 = Count(F, order[k]) % 2
      BY <2>1, FencesStayPaired DEF Z
    <2>4. InFence(S, k) <=> InFence(answer, order[k])
      <3>1. InFence(S, k) <=> Count(Fences(S), k) % 2 = 1
        BY <1>3, PiecesOf
      <3>2. InFence(answer, order[k]) <=> Count(F, order[k]) % 2 = 1
        BY <2>1, PiecesOf
      <3> HIDE DEF F, R, P
      <3>3. QED
        BY <2>2, <2>3, <3>1, <3>2
    <2>5. Piece(S, k) = "text" <=> /\ S[k].kind \in {"text", "fence"}
                                   /\ ~FenceLine(S, k) /\ ~InFence(S, k)
      BY <1>3, PiecesOf
    <2>6. Piece(answer, order[k]) = "text"
             <=> /\ answer[order[k]].kind \in {"text", "fence"}
                 /\ ~FenceLine(answer, order[k]) /\ ~InFence(answer, order[k])
      BY <2>1, PiecesOf
    <2>7. QED
      BY <1>3, <1>15, <2>1, <2>4, <2>5, <2>6 DEF Claims
  <1>11. \A k \in DOMAIN S :
             k \in Claims(S) => \E i \in Claims(answer) \ bad : S[k] = answer[i]
    BY <1>3, <1>5, <1>10
  <1>12. ASSUME NEW i \in Claims(answer) \ bad PROVE \E k \in DOMAIN S : k \in Claims(S)
    <2>1. i \in P
      BY DEF Claims
    <2>2. PICK k \in 1 .. n : order[k] = i
      BY <1>5, <2>1
    <2>3. QED
      BY <1>3, <1>10, <2>2
  <1>13. QED
    BY <1>3, <1>11, <1>12 DEF S

\* What is delivered passed the check, or has a claim left that is cited.
GroundInv ==
    /\ pc # "done" => outcome = "none"
    /\ outcome = "found" =>
          /\ draft \in Seq(Pieces)
          /\ Verified(draft, Allowed, Texts) \/ StillGrounded(draft, Violations(draft, Allowed, Texts))

LEMMA GroundStart == AnsweringInit => GroundInv
  BY DEF AnsweringInit, GroundInv

LEMMA GroundStep == GroundInv /\ [AnsweringNext]_answeringVars => GroundInv'
  <1> SUFFICES ASSUME GroundInv, [AnsweringNext]_answeringVars PROVE GroundInv'
    OBVIOUS
  <1>1. ASSUME UNCHANGED <<pc, hits, draft, outcome>> PROVE GroundInv'
    <2>1. Allowed' = Allowed /\ Texts' = Texts
      BY <1>1 DEF Allowed, Texts
    <2>2. QED
      BY <1>1, <2>1 DEF GroundInv
  <1>2. ASSUME pc # "done", outcome' = outcome PROVE GroundInv'
    BY <1>2 DEF GroundInv
  <1>3. ASSUME NEW c \in Chunks, ChangeIndex(c) \/ ChangeFlag(c) PROVE GroundInv'
    BY <1>1, <1>3 DEF ChangeIndex, ChangeFlag, generation
  <1>4. ASSUME NEW r \in Records, RemoveRecord(r) PROVE GroundInv'
    BY <1>1, <1>4 DEF RemoveRecord, generation
  <1>5. ASSUME NEW k \in {"search", "answer"}, Accept(k) PROVE GroundInv'
    BY <1>5 DEF Accept, GroundInv
  <1>6. CASE EmbedQuery
    BY <1>2, <1>6 DEF EmbedQuery, generation
  <1>7. CASE SearchVector
    BY <1>2, <1>7 DEF SearchVector, generation
  <1>8. CASE SearchText
    BY <1>2, <1>8 DEF SearchText, generation
  <1>9. CASE FollowRelations
    BY <1>2, <1>9 DEF FollowRelations, generation
  <1>10. CASE ExpandHits
    BY <1>2, <1>10 DEF ExpandHits, generation
  <1>11. CASE LoadRecordMeta
    <2>1. outcome' # "found" /\ (pc' # "done" => outcome' = "none")
      BY <1>11 DEF LoadRecordMeta, Verdict
    <2>2. QED
      BY <2>1 DEF GroundInv
  <1>12. CASE ModelAnswers
    <2>1. Allowed' = Allowed /\ Texts' = Texts
      BY <1>12 DEF ModelAnswers, Allowed, Texts
    <2>2. PICK d \in Drafts :
              /\ pc' # "done" => outcome' = "none"
              /\ outcome' = "found" => \/ Verified(d, Allowed, Texts)
                                       \/ StillGrounded(d, Violations(d, Allowed, Texts))
              /\ draft' = IF outcome' = "found" THEN d ELSE <<>>
      BY <1>12 DEF ModelAnswers
    <2>3. d \in Seq(Pieces)
      BY AnsweringAssumption DEF Drafts
    <2>4. QED
      BY <2>1, <2>2, <2>3 DEF GroundInv
  <1>13. CASE Throws
    BY <1>13 DEF Throws, GroundInv
  <1>14. CASE UNCHANGED answeringVars
    BY <1>1, <1>14 DEF answeringVars, generation
  <1>15. QED
    BY <1>3, <1>4, <1>5, <1>6, <1>7, <1>8, <1>9, <1>10, <1>11, <1>12, <1>13, <1>14
       DEF AnsweringNext, Proceeds

\* generate.ts:17-22: whatever the model wrote, if no code block of it is split by a
\* blank line and what was removed joins no lines, the text delivered claims
\* something, and each of its claims, read in that text, is cited by citations the
\* response lists.
THEOREM GroundedAsDelivered == AnsweringSpec => []AnswersAreGrounded
  <1>1. GroundInv => AnswersAreGrounded
    <2> SUFFICES ASSUME GroundInv, outcome = "found", ~SplitsCode(draft),
                        ~Rejoins(draft, Violations(draft, Allowed, Texts)), NEW answer \in {Delivered}
                 PROVE  /\ Claims(answer) # {}
                        /\ \A i \in Claims(answer) : CitedOk(answer[i], ResponseCitations)
      BY DEF AnswersAreGrounded
    <2> DEFINE bad == Violations(draft, Allowed, Texts)
               kept == Stripped(draft, bad)
    <2>1. ResponseCitations = Allowed
      BY DEF ResponseCitations, Allowed, Context, ChunksIn
    <2>2. \A i \in Claims(draft) \ bad : CitedOk(draft[i], Allowed)
      BY DEF Violations
    <2>3. CASE Verified(draft, Allowed, Texts)
      <3>1. answer = draft /\ bad = {} /\ Claims(draft) # {}
        BY <2>3 DEF Delivered, Verified
      <3>2. QED
        BY <2>1, <2>2, <3>1
    <2>4. CASE ~Verified(draft, Allowed, Texts)
      <3>1. answer = kept /\ draft \in Seq(Pieces) /\ StillGrounded(draft, bad)
        BY <2>4 DEF Delivered, GroundInv
      <3>2. PICK i \in Claims(draft) \ bad : TRUE
        BY <3>1 DEF StillGrounded
      <3> HIDE DEF bad
      <3>3. /\ \A k \in DOMAIN kept :
                   k \in Claims(kept) => \E j \in Claims(draft) \ bad : kept[k] = draft[j]
            /\ \A j \in Claims(draft) \ bad : \E k \in DOMAIN kept : k \in Claims(kept)
        BY <3>1, StrippedReadsSame DEF bad
      <3>4. Claims(kept) \subseteq DOMAIN kept
        BY DEF Claims
      <3> HIDE DEF kept
      <3>5. Claims(kept) # {}
        BY <3>2, <3>3
      <3>6. \A k \in Claims(kept) : CitedOk(kept[k], Allowed)
        BY <2>2, <3>3, <3>4
      <3>7. QED
        BY <2>1, <3>1, <3>5, <3>6
    <2>5. QED
      BY <2>3, <2>4
  <1>2. QED
    BY <1>1, GroundStart, GroundStep, PTL DEF AnsweringSpec

=============================================================================
