----------------------------- MODULE ListFacts -----------------------------
(***************************************************************************)
(* Lemmas about numbers and lists that the proofs of several components    *)
(* rest on: the least of some numbers, induction said of sets, what a list *)
(* that is sorted or picked from holds (Lists), what a list of lists holds *)
(* when it is flattened (SequencesExt), and how many there are in sets     *)
(* that are counted in parts.                                              *)
(***************************************************************************)
EXTENDS Lists, Sequences, SequencesExt, TLAPS, FiniteSetTheorems, SequenceTheorems,
        WellFoundedInduction

-----------------------------------------------------------------------------
(* Numbers.                                                                *)

LEMMA LeastOf ==
  ASSUME NEW T \in SUBSET Nat, T # {}
  PROVE  \E m \in T : \A n \in T : m <= n
  <1>1. PICK m \in T : \A n \in T : <<n, m>> \notin OpToRel(<, Nat)
    BY NatLessThanWellFounded, WFMin
  <1>2. ASSUME NEW n \in T PROVE m <= n
    <2>1. n \in Nat /\ m \in Nat /\ ~(n < m)
      BY <1>1 DEF OpToRel
    <2>2. QED
      BY <2>1
  <1>3. QED
    BY <1>2

\* What holds of 0 and, with each number, of the next.
LEMMA CountingUp ==
  ASSUME NEW T, 0 \in T, \A n \in Nat : n \in T => n + 1 \in T
  PROVE  \A n \in Nat : n \in T
  <1> DEFINE Bad == Nat \ T
  <1>1. Bad = {}
    <2> SUFFICES ASSUME Bad # {} PROVE FALSE
      OBVIOUS
    <2>1. PICK m \in Bad : \A n \in Bad : m <= n
      BY LeastOf
    <2>2. m - 1 \in Nat /\ (m - 1) + 1 = m /\ ~(m <= m - 1)
      OBVIOUS
    <2>3. m - 1 \in T
      BY <2>1, <2>2
    <2> QED BY <2>2, <2>3
  <1> QED BY <1>1

\* What holds at the end and, of each position, once it holds of all behind it.
LEMMA FromTheEnd ==
  ASSUME NEW L \in Nat, NEW T, L + 1 \in T,
         \A i \in 1 .. L : (\A k \in i + 1 .. L + 1 : k \in T) => i \in T
  PROVE  \A i \in 1 .. L + 1 : i \in T
  <1> DEFINE Bad == {d \in Nat : d <= L /\ L + 1 - d \notin T}
  <1>1. Bad = {}
    <2> SUFFICES ASSUME Bad # {} PROVE FALSE
      OBVIOUS
    <2>1. PICK d \in Bad : \A e \in Bad : d <= e
      <3>1. Bad \in SUBSET Nat
        OBVIOUS
      <3> HIDE DEF Bad
      <3> QED BY <3>1, LeastOf
    <2>2. d \in Nat /\ d <= L /\ L + 1 - d \notin T
      OBVIOUS
    <2>3. d # 0
      <3>1. L + 1 - 0 = L + 1
        OBVIOUS
      <3> QED BY <3>1, <2>2
    <2>4. L + 1 - d \in 1 .. L
      BY <2>2, <2>3
    <2>5. ASSUME NEW k \in (L + 1 - d) + 1 .. L + 1 PROVE k \in T
      <3>1. L + 1 - k \in Nat /\ L + 1 - k <= L /\ ~(d <= L + 1 - k) /\ L + 1 - (L + 1 - k) = k
        BY <2>2
      <3>2. L + 1 - k \notin Bad
        BY <3>1, <2>1
      <3> QED BY <3>1, <3>2
    <2>6. L + 1 - d \in T
      <3> HIDE DEF Bad
      <3> QED BY <2>4, <2>5
    <2> QED BY <2>2, <2>6
  <1>2. ASSUME NEW i \in 1 .. L + 1 PROVE i \in T
    <2>1. L + 1 - i \in Nat /\ L + 1 - i <= L /\ L + 1 - (L + 1 - i) = i
      OBVIOUS
    <2> QED BY <2>1, <1>1
  <1> QED BY <1>2

-----------------------------------------------------------------------------
(* Lists that are sorted.                                                  *)

StrictOrder(S, R) ==
    /\ \A a \in S : <<a, a>> \notin R
    /\ \A a, b \in S : a # b => <<a, b>> \in R \/ <<b, a>> \in R
    /\ \A a, b, c \in S : <<a, b>> \in R /\ <<b, c>> \in R => <<a, c>> \in R

InFront(S, R, e) == {d \in S : <<d, e>> \in R}

\* The list says for each place who has it, if anybody has.
AsPlaced(list, S, R) ==
    /\ list = [k \in 1 .. Cardinality(S) |-> list[k]]
    /\ \A k \in 1 .. Cardinality(S) :
           (\E e \in S : Cardinality(InFront(S, R, e)) = k - 1)
               => list[k] \in S /\ Cardinality(InFront(S, R, list[k])) = k - 1

\* The list has every element of S, in the order R.
IsOrdered(list, S, R) ==
    /\ Cardinality(S) \in Nat
    /\ list \in [1 .. Cardinality(S) -> S]
    /\ \A e \in S : \E k \in 1 .. Cardinality(S) : list[k] = e
    /\ \A j, k \in 1 .. Cardinality(S) : j < k <=> <<list[j], list[k]>> \in R

\* When R orders any two elements of a finite set, each has a place of its own by
\* the number of those before it: a list of who has which place is in order.
LEMMA OrderedPlaces ==
  ASSUME NEW S, IsFiniteSet(S), NEW R, StrictOrder(S, R),
         NEW list, AsPlaced(list, S, R)
  PROVE  IsOrdered(list, S, R)
  <1> DEFINE Place(e) == Cardinality(InFront(S, R, e))
             n == Cardinality(S)
             place == [e \in S |-> Place(e)]
  <1>1. n \in Nat
    BY FS_CardinalityType
  <1>2. ASSUME NEW e \in S PROVE Place(e) \in 0 .. n - 1
    <2>1. InFront(S, R, e) \subseteq S \ {e}
      BY DEF StrictOrder, InFront
    <2>2. IsFiniteSet(S \ {e}) /\ Cardinality(S \ {e}) = n - 1
      BY FS_RemoveElement
    <2>3. IsFiniteSet(InFront(S, R, e)) /\ Place(e) <= n - 1
      BY <2>1, <2>2, FS_Subset
    <2>4. Place(e) \in Nat
      BY <2>3, FS_CardinalityType
    <2> HIDE DEF Place, n
    <2>5. QED
      BY <1>1, <2>3, <2>4
  <1>3. ASSUME NEW a \in S, NEW b \in S, <<a, b>> \in R PROVE Place(a) < Place(b)
    <2>1. InFront(S, R, a) \subseteq InFront(S, R, b) /\ a \in InFront(S, R, b) /\ a \notin InFront(S, R, a)
      BY <1>3 DEF StrictOrder, InFront
    <2>2. IsFiniteSet(InFront(S, R, b))
      BY FS_Subset DEF InFront
    <2>3. Place(a) <= Place(b) /\ (Place(b) = Place(a) => InFront(S, R, b) = InFront(S, R, a))
      BY <2>1, <2>2, FS_Subset
    <2>4. Place(a) # Place(b)
      BY <2>1, <2>3
    <2>5. Place(a) \in 0 .. n - 1 /\ Place(b) \in 0 .. n - 1
      BY <1>2
    <2> HIDE DEF Place, n
    <2>6. QED
      BY <1>1, <2>3, <2>4, <2>5
  <1>4. \A a, b \in S : Place(a) = Place(b) => a = b
    <2> SUFFICES ASSUME NEW a \in S, NEW b \in S, Place(a) = Place(b), a # b PROVE FALSE
      OBVIOUS
    <2>1. Place(a) < Place(b) \/ Place(b) < Place(a)
      <3>1. <<a, b>> \in R \/ <<b, a>> \in R
        BY DEF StrictOrder
      <3> HIDE DEF Place
      <3>2. QED
        BY <1>3, <3>1
    <2>2. Place(a) \in 0 .. n - 1 /\ Place(b) \in 0 .. n - 1
      BY <1>2
    <2> HIDE DEF Place, n
    <2>3. QED
      BY <1>1, <2>1, <2>2
  <1>5. \A k \in 1 .. n : \E e \in S : Place(e) = k - 1
    <2>1. place \in [S -> 0 .. n - 1] /\ \A e \in S : place[e] = Place(e)
      BY <1>2
    <2> HIDE DEF Place, place
    <2>2. place \in Injection(S, 0 .. n - 1)
      BY <1>4, <2>1 DEF Injection, IsInjective
    <2>3. IsFiniteSet(0 .. n - 1) /\ Cardinality(0 .. n - 1) = n
      <3> HIDE DEF n
      <3>1. IsFiniteSet(0 .. n - 1) /\ Cardinality(0 .. n - 1) = IF 0 > n - 1 THEN 0 ELSE n - 1 - 0 + 1
        BY <1>1, FS_Interval
      <3>2. QED
        BY <1>1, <3>1
    <2>4. place \in Surjection(S, 0 .. n - 1)
      BY <2>2, <2>3, FS_Injection
    <2>5. \A x \in 0 .. n - 1 : \E e \in S : place[e] = x
      BY <2>4 DEF Surjection
    <2>6. \A k \in 1 .. n : k - 1 \in 0 .. n - 1
      <3> HIDE DEF n
      <3>1. QED
        BY <1>1
    <2>7. QED
      BY <2>1, <2>5, <2>6
  <1>6. \A k \in 1 .. n : list[k] \in S /\ Place(list[k]) = k - 1
    BY <1>5 DEF AsPlaced
  <1>7. list \in [1 .. n -> S]
    BY <1>6 DEF AsPlaced
  <1>8. ASSUME NEW e \in S PROVE \E k \in 1 .. n : list[k] = e
    <2> HIDE DEF n, Place
    <2>1. Place(e) \in 0 .. n - 1
      BY <1>2
    <2>2. PICK k \in 1 .. n : k - 1 = Place(e)
      BY <1>1, <2>1
    <2>3. list[k] \in S /\ Place(list[k]) = Place(e)
      BY <1>6, <2>2
    <2>4. QED
      BY <1>4, <2>3
  <1>9. ASSUME NEW j \in 1 .. n, NEW k \in 1 .. n
        PROVE  j < k <=> <<list[j], list[k]>> \in R
    <2>1. j \in Int /\ k \in Int /\ Place(list[j]) = j - 1 /\ Place(list[k]) = k - 1
      BY <1>1, <1>6
    <2>2. list[j] \in S /\ list[k] \in S
      BY <1>6
    <2> HIDE DEF n
    <2>3. CASE <<list[j], list[k]>> \in R
      <3>1. Place(list[j]) < Place(list[k])
        BY <1>3, <2>2, <2>3
      <3> HIDE DEF Place
      <3>2. QED
        BY <2>1, <2>3, <3>1
    <2>4. CASE <<list[j], list[k]>> \notin R
      <3>1. list[j] = list[k] \/ <<list[k], list[j]>> \in R
        BY <2>2, <2>4 DEF StrictOrder
      <3>2. CASE list[j] = list[k]
        <4> HIDE DEF Place
        <4>1. QED
          BY <2>1, <2>4, <3>2
      <3>3. CASE <<list[k], list[j]>> \in R
        <4>1. Place(list[k]) < Place(list[j])
          BY <1>3, <2>2, <3>3
        <4> HIDE DEF Place
        <4>2. QED
          BY <2>1, <2>4, <4>1
      <3>4. QED
        BY <3>1, <3>2, <3>3
    <2>5. QED
      BY <2>3, <2>4
  <1>10. QED
    BY <1>1, <1>7, <1>8, <1>9 DEF IsOrdered

\* What is picked from a list are the elements at the places, in their order.
PicksBy(order, list, P) ==
    /\ order \in [1 .. Cardinality(P) -> P]
    /\ \A p \in P : \E k \in 1 .. Cardinality(P) : order[k] = p
    /\ \A j, k \in 1 .. Cardinality(P) : j < k <=> order[j] < order[k]
    /\ Picked(list, P) = [k \in 1 .. Cardinality(P) |-> list[order[k]]]

LEMMA PickedPlaces ==
  ASSUME NEW P \in SUBSET Nat, IsFiniteSet(P), NEW list
  PROVE  \E order : PicksBy(order, list, P)
  <1> DEFINE R == {q \in P \X P : q[1] < q[2]}
             Count(e) == Cardinality({d \in P : d < e})
             At(k) == CHOOSE e \in P : Count(e) = k - 1
             order == [k \in 1 .. Cardinality(P) |-> At(k)]
  <1>1. \A a, b \in P : <<a, b>> \in R <=> a < b
    OBVIOUS
  <1>2. \A e \in P : InFront(P, R, e) = {d \in P : d < e}
    BY <1>1 DEF InFront
  <1>3. StrictOrder(P, R)
    <2> HIDE DEF R
    <2>1. QED
      BY <1>1 DEF StrictOrder
  <1>4. Picked(list, P) = [k \in 1 .. Cardinality(P) |-> list[order[k]]]
    BY DEF Picked, Sorted
  <1>5. \A k \in 1 .. Cardinality(P) : order[k] = At(k)
    OBVIOUS
  <1>6. order = [k \in 1 .. Cardinality(P) |-> order[k]]
    OBVIOUS
  <1> HIDE DEF R, order
  <1>7. ASSUME NEW k \in 1 .. Cardinality(P), \E e \in P : Cardinality(InFront(P, R, e)) = k - 1
        PROVE  order[k] \in P /\ Cardinality(InFront(P, R, order[k])) = k - 1
    <2>1. \E e \in P : Count(e) = k - 1
      BY <1>2, <1>7
    <2>2. At(k) \in P /\ Count(At(k)) = k - 1
      <3> HIDE DEF Count
      <3>1. QED
        BY <2>1
    <2> HIDE DEF At
    <2>3. QED
      BY <1>2, <1>5, <2>2
  <1>8. IsOrdered(order, P, R)
    BY <1>3, <1>6, <1>7, OrderedPlaces DEF AsPlaced
  <1>9. QED
    BY <1>1, <1>4, <1>8 DEF IsOrdered, PicksBy

LEMMA PickedList ==
  ASSUME NEW T, NEW list \in Seq(T), NEW P \in SUBSET DOMAIN list
  PROVE  /\ IsFiniteSet(P) /\ Cardinality(P) \in Nat
         /\ Picked(list, P) \in Seq(T) /\ Len(Picked(list, P)) = Cardinality(P)
         /\ DOMAIN Picked(list, P) = 1 .. Cardinality(P)
         /\ \E order : PicksBy(order, list, P)
  <1>1. DOMAIN list = 1 .. Len(list) /\ Len(list) \in Nat
    OBVIOUS
  <1>2. IsFiniteSet(P) /\ P \in SUBSET Nat
    <2>1. IsFiniteSet(1 .. Len(list))
      BY <1>1, FS_Interval
    <2>2. QED
      BY <1>1, <2>1, FS_Subset
  <1>3. PICK order : PicksBy(order, list, P)
    BY <1>2, PickedPlaces
  <1>4. Cardinality(P) \in Nat
    BY <1>2, FS_CardinalityType
  <1>5. \A k \in 1 .. Cardinality(P) : list[order[k]] \in T
    BY <1>3 DEF PicksBy
  <1>6. Picked(list, P) \in [1 .. Cardinality(P) -> T]
    BY <1>3, <1>5 DEF PicksBy
  <1>7. Picked(list, P) \in Seq(T) /\ Len(Picked(list, P)) = Cardinality(P)
    BY <1>4, <1>6
  <1>8. QED
    BY <1>2, <1>3, <1>4, <1>6, <1>7

-----------------------------------------------------------------------------
(* Lists of lists.                                                         *)

\* The community's flattening, step by step.
Flattens(seqs, f) ==
    f = [i \in 1 .. Len(seqs) |-> IF i = 1 THEN seqs[i] ELSE f[i - 1] \o seqs[i]]

LEMMA SomethingFlattens ==
  ASSUME NEW S, NEW seqs \in Seq(S)
  PROVE  \E f : Flattens(seqs, f)
  <1> DEFINE N == Len(seqs)
             Next1(f, i) == IF i = 1 THEN seqs[i] ELSE f[i - 1] \o seqs[i]
             Upto(f, n) == \A i \in 1 .. N : i <= n => f[i] = Next1(f, i)
             Done == {n \in Nat : \E f : Upto(f, n)}
  <1>1. N \in Nat
    OBVIOUS
  <1>2. 0 \in Done
    <2>1. Upto(seqs, 0)
      BY <1>1
    <2> QED BY <2>1
  <1>3. ASSUME NEW n \in Nat, n \in Done PROVE n + 1 \in Done
    <2>1. PICK f : Upto(f, n)
      BY <1>3
    <2> DEFINE g == [i \in 1 .. N |-> IF i = n + 1 THEN Next1(f, i) ELSE f[i]]
    <2>2. ASSUME NEW i \in 1 .. N, i <= n + 1 PROVE g[i] = Next1(g, i)
      <3>1. i # 1 => g[i - 1] = f[i - 1]
        BY <1>1, <2>2
      <3>2. Next1(g, i) = Next1(f, i)
        <4> HIDE DEF g
        <4> QED BY <3>1
      <3>3. CASE i = n + 1
        BY <3>2, <3>3
      <3>4. CASE i # n + 1
        <4>1. g[i] = f[i] /\ i <= n
          BY <3>4, <2>2, <1>1
        <4>2. f[i] = Next1(f, i)
          BY <4>1, <2>1
        <4> HIDE DEF g, Next1
        <4> QED BY <4>1, <4>2, <3>2
      <3> QED BY <3>3, <3>4
    <2>3. Upto(g, n + 1)
      <3> HIDE DEF g, Next1
      <3> QED BY <2>2
    <2> HIDE DEF g, Upto
    <2> QED BY <2>3
  <1>4. N \in Done
    <2> HIDE DEF Done
    <2> QED BY <1>1, <1>2, <1>3, CountingUp
  <1>5. PICK f : Upto(f, N)
    BY <1>4
  <1> DEFINE h == [i \in 1 .. N |-> f[i]]
  <1>6. ASSUME NEW i \in 1 .. N PROVE h[i] = Next1(h, i)
    <2>1. f[i] = Next1(f, i)
      BY <1>5, <1>1
    <2>2. i # 1 => h[i - 1] = f[i - 1]
      BY <1>1
    <2>3. Next1(h, i) = Next1(f, i)
      <3> HIDE DEF h
      <3> QED BY <2>2
    <2>4. h[i] = f[i]
      OBVIOUS
    <2> HIDE DEF h, Next1
    <2> QED BY <2>1, <2>3, <2>4
  <1>7. h = [i \in 1 .. N |-> Next1(h, i)]
    <2>1. h = [i \in 1 .. N |-> h[i]]
      OBVIOUS
    <2> HIDE DEF h, Next1
    <2> QED BY <2>1, <1>6
  <1> HIDE DEF h
  <1> QED BY <1>7 DEF Flattens

\* A flat sequence, and the row each of its items comes from.
FlatOf(seqs, S, flat, row, n) ==
    /\ flat \in Seq(S)
    /\ row \in [1 .. Len(flat) -> 1 .. n]
    /\ \A a, b \in 1 .. Len(flat) : a <= b => row[a] <= row[b]
    /\ \A a \in 1 .. Len(flat) : \E m \in 1 .. Len(seqs[row[a]]) : flat[a] = seqs[row[a]][m]
    /\ \A i \in 1 .. n : \A m \in 1 .. Len(seqs[i]) : \E a \in 1 .. Len(flat) : flat[a] = seqs[i][m]

LEMMA FlatGrows ==
  ASSUME NEW S, NEW seqs, NEW n \in Nat, NEW flat, NEW row, FlatOf(seqs, S, flat, row, n),
         seqs[n + 1] \in Seq(S)
  PROVE  \E more : FlatOf(seqs, S, flat \o seqs[n + 1], more, n + 1)
  <1> DEFINE next == seqs[n + 1]
             all == flat \o next
             L == Len(flat)
             more == [a \in 1 .. Len(all) |-> IF a <= L THEN row[a] ELSE n + 1]
  <1>1. /\ flat \in Seq(S) /\ next \in Seq(S) /\ L \in Nat /\ Len(next) \in Nat
        /\ row \in [1 .. L -> 1 .. n]
        /\ \A a, b \in 1 .. L : a <= b => row[a] <= row[b]
        /\ \A a \in 1 .. L : \E m \in 1 .. Len(seqs[row[a]]) : flat[a] = seqs[row[a]][m]
        /\ \A i \in 1 .. n : \A m \in 1 .. Len(seqs[i]) : \E a \in 1 .. L : flat[a] = seqs[i][m]
    BY DEF FlatOf
  <1>2. /\ all \in Seq(S) /\ Len(all) = L + Len(next)
        /\ \A a \in 1 .. L + Len(next) : all[a] = IF a <= L THEN flat[a] ELSE next[a - L]
    BY <1>1, ConcatProperties
  <1> HIDE DEF all, next, L
  <1>3. ASSUME NEW a \in 1 .. Len(all)
        PROVE  /\ more[a] = IF a <= L THEN row[a] ELSE n + 1
               /\ more[a] \in 1 .. n + 1
               /\ a <= L => more[a] \in 1 .. n
    BY <1>1, <1>2
  <1>4. more \in [1 .. Len(all) -> 1 .. n + 1]
    BY <1>3
  <1> HIDE DEF more
  <1>5. ASSUME NEW a \in 1 .. Len(all), NEW b \in 1 .. Len(all), a <= b PROVE more[a] <= more[b]
    <2>1. CASE b <= L
      <3>1. a \in 1 .. L /\ b \in 1 .. L
        BY <2>1, <1>5, <1>1, <1>2
      <3> QED BY <3>1, <1>1, <1>3, <1>5
    <2>2. CASE ~(b <= L)
      <3>1. more[b] = n + 1 /\ more[a] \in 1 .. n + 1
        BY <2>2, <1>3
      <3> QED BY <3>1
    <2> QED BY <2>1, <2>2
  <1>6. ASSUME NEW a \in 1 .. Len(all)
        PROVE  \E m \in 1 .. Len(seqs[more[a]]) : all[a] = seqs[more[a]][m]
    <2>1. CASE a <= L
      <3>1. a \in 1 .. L /\ more[a] = row[a] /\ all[a] = flat[a]
        BY <2>1, <1>1, <1>2, <1>3
      <3> QED BY <3>1, <1>1
    <2>2. CASE ~(a <= L)
      <3>1. more[a] = n + 1 /\ all[a] = next[a - L] /\ a - L \in 1 .. Len(next)
        BY <2>2, <1>1, <1>2, <1>3
      <3> QED BY <3>1 DEF next
    <2> QED BY <2>1, <2>2
  <1>7. ASSUME NEW i \in 1 .. n + 1, NEW m \in 1 .. Len(seqs[i])
        PROVE  \E a \in 1 .. Len(all) : all[a] = seqs[i][m]
    <2>1. CASE i = n + 1
      <3>1. m \in 1 .. Len(next) /\ L + m \in 1 .. Len(all) /\ ~(L + m <= L) /\ (L + m) - L = m
        BY <2>1, <1>1, <1>2 DEF next
      <3>2. all[L + m] = seqs[i][m]
        BY <2>1, <3>1, <1>2 DEF next
      <3> QED BY <3>1, <3>2
    <2>2. CASE i # n + 1
      <3>1. i \in 1 .. n
        BY <2>2
      <3>2. PICK a \in 1 .. L : flat[a] = seqs[i][m]
        BY <3>1, <1>1
      <3>3. a \in 1 .. Len(all) /\ all[a] = flat[a]
        BY <1>1, <1>2
      <3> QED BY <3>2, <3>3
    <2> QED BY <2>1, <2>2
  <1>8. FlatOf(seqs, S, all, more, n + 1)
    BY <1>2, <1>4, <1>5, <1>6, <1>7 DEF FlatOf
  <1> QED BY <1>8 DEF all, next

\* FlattenSeq (community modules): the items of the rows, row after row.
LEMMA FlattenedRows ==
  ASSUME NEW S, NEW seqs \in Seq(Seq(S))
  PROVE  \E row : FlatOf(seqs, S, FlattenSeq(seqs), row, Len(seqs))
  <1>1. Len(seqs) \in Nat /\ \A i \in 1 .. Len(seqs) : seqs[i] \in Seq(S)
    OBVIOUS
  <1>2. CASE Len(seqs) = 0
    <2>1. seqs = <<>> /\ FlattenSeq(seqs) = seqs /\ <<>> \in Seq(S) /\ Len(<<>>) = 0
      BY <1>2 DEF FlattenSeq
    <2> DEFINE row == [a \in 1 .. 0 |-> 0]
    <2>2. FlatOf(seqs, S, <<>>, row, 0)
      BY DEF FlatOf
    <2> QED BY <2>1, <2>2, <1>2
  <1>3. CASE Len(seqs) # 0
    <2>1. PICK f : f = CHOOSE g : Flattens(seqs, g)
      OBVIOUS
    <2>2. Flattens(seqs, f)
      BY <2>1, SomethingFlattens
    <2>3. FlattenSeq(seqs) = f[Len(seqs)]
      BY <2>1, <1>3 DEF FlattenSeq, Flattens
    <2>4. \A i \in 1 .. Len(seqs) : f[i] = IF i = 1 THEN seqs[i] ELSE f[i - 1] \o seqs[i]
      BY <2>2 DEF Flattens
    <2> DEFINE Flat(n) == \E row : FlatOf(seqs, S, f[n], row, n)
               T == {n \in Nat : n + 1 <= Len(seqs) => Flat(n + 1)}
    <2>5. 0 \in T
      <3> SUFFICES ASSUME 1 <= Len(seqs) PROVE Flat(1)
        OBVIOUS
      <3>1. f[1] = seqs[1] /\ seqs[1] \in Seq(S)
        BY <2>4, <1>1
      <3> DEFINE row == [a \in 1 .. Len(f[1]) |-> 1]
      <3>2. FlatOf(seqs, S, f[1], row, 1)
        BY <3>1 DEF FlatOf
      <3> HIDE DEF row
      <3> QED BY <3>2
    <2>6. ASSUME NEW n \in Nat, n \in T PROVE n + 1 \in T
      <3> SUFFICES ASSUME n + 2 <= Len(seqs) PROVE Flat(n + 2)
        <4>1. (n + 1) + 1 = n + 2
          OBVIOUS
        <4> HIDE DEF Flat
        <4> QED BY <4>1
      <3>1. Flat(n + 1)
        BY <2>6, <1>1
      <3>2. PICK row : FlatOf(seqs, S, f[n + 1], row, n + 1)
        BY <3>1
      <3>3. n + 1 \in Nat /\ (n + 1) + 1 = n + 2 /\ n + 2 \in 1 .. Len(seqs) /\ n + 2 # 1 /\ (n + 2) - 1 = n + 1
        BY <1>1
      <3>4. seqs[n + 2] \in Seq(S) /\ f[n + 2] = f[n + 1] \o seqs[n + 2]
        BY <3>3, <1>1, <2>4
      <3>5. \E more : FlatOf(seqs, S, f[n + 1] \o seqs[(n + 1) + 1], more, (n + 1) + 1)
        BY <3>2, <3>3, <3>4, FlatGrows
      <3> QED BY <3>3, <3>4, <3>5
    <2>7. Len(seqs) - 1 \in Nat /\ (Len(seqs) - 1) + 1 = Len(seqs)
      BY <1>1, <1>3
    <2>8. Len(seqs) - 1 \in T
      <3> HIDE DEF T
      <3> QED BY <2>5, <2>6, <2>7, CountingUp
    <2>9. Flat(Len(seqs))
      <3> HIDE DEF Flat
      <3> QED BY <2>7, <2>8
    <2> QED BY <2>3, <2>9
  <1> QED BY <1>2, <1>3

\* The least and the greatest of numbers that are bounded.
LEMMA MinOf ==
  ASSUME NEW n \in Int, NEW S, S # {}, \A x \in S : x \in Int /\ n <= x
  PROVE  Min(S) \in S /\ Min(S) \in Int /\ \A y \in S : Min(S) <= y
  <1> DEFINE T == {x - n : x \in S}
  <1>1. T \in SUBSET Nat /\ T # {}
    OBVIOUS
  <1>2. PICK m \in T : \A t \in T : m <= t
    <2> HIDE DEF T
    <2> QED BY <1>1, LeastOf
  <1>3. PICK x \in S : m = x - n
    BY <1>2
  <1>4. ASSUME NEW y \in S PROVE x <= y
    <2>1. y - n \in T /\ x \in Int /\ y \in Int
      OBVIOUS
    <2>2. x - n <= y - n
      BY <1>2, <1>3, <2>1
    <2> QED BY <2>1, <2>2
  <1>5. \E z \in S : \A y \in S : z <= y
    BY <1>4
  <1> QED BY <1>5 DEF Min

LEMMA MaxOf ==
  ASSUME NEW n \in Int, NEW S, S # {}, \A x \in S : x \in Int /\ x <= n
  PROVE  Max(S) \in S /\ Max(S) \in Int /\ \A y \in S : y <= Max(S)
  <1> DEFINE T == {n - x : x \in S}
  <1>1. T \in SUBSET Nat /\ T # {}
    OBVIOUS
  <1>2. PICK m \in T : \A t \in T : m <= t
    <2> HIDE DEF T
    <2> QED BY <1>1, LeastOf
  <1>3. PICK x \in S : m = n - x
    BY <1>2
  <1>4. ASSUME NEW y \in S PROVE x >= y
    <2>1. n - y \in T /\ x \in Int /\ y \in Int
      OBVIOUS
    <2>2. n - x <= n - y
      BY <1>2, <1>3, <2>1
    <2> QED BY <2>1, <2>2
  <1>5. \E z \in S : \A y \in S : z >= y
    BY <1>4
  <1>6. Max(S) \in S /\ \A y \in S : Max(S) >= y
    BY <1>5 DEF Max
  <1> QED BY <1>6

LEMMA ItemsOf ==
  ASSUME NEW T, NEW list \in Seq(T)
  PROVE  /\ Len(list) \in Nat /\ DOMAIN list = 1 .. Len(list)
         /\ \A c \in 1 .. Len(list) : list[c] \in T
         /\ list = [c \in 1 .. Len(list) |-> list[c]]
  OBVIOUS

\* The first k rows, flattened.
Upto(r, k) == FlattenSeq([j \in 1 .. k |-> r[j]])

LEMMA UptoNext ==
  ASSUME NEW S, NEW k \in Nat, NEW r, \A j \in 1 .. k + 1 : r[j] \in Seq(S)
  PROVE  Upto(r, k) \in Seq(S) /\ Upto(r, k + 1) = Upto(r, k) \o r[k + 1]
  <1> DEFINE less == [j \in 1 .. k |-> r[j]]
             more == [j \in 1 .. k + 1 |-> r[j]]
  <1>1. /\ less \in Seq(Seq(S)) /\ Len(less) = k /\ \A j \in 1 .. k : less[j] = r[j]
        /\ more \in Seq(Seq(S)) /\ Len(more) = k + 1 /\ \A j \in 1 .. k + 1 : more[j] = r[j]
    <2>1. less \in [1 .. k -> Seq(S)] /\ more \in [1 .. k + 1 -> Seq(S)]
      OBVIOUS
    <2> QED BY <2>1
  <1>2. Upto(r, k) = FlattenSeq(less) /\ Upto(r, k + 1) = FlattenSeq(more)
    BY DEF Upto
  <1> HIDE DEF less, more
  <1>3. PICK f : f = CHOOSE g : Flattens(less, g)
    OBVIOUS
  <1>4. PICK h : h = CHOOSE g : Flattens(more, g)
    OBVIOUS
  <1>5. Flattens(less, f) /\ Flattens(more, h)
    <2>1. Flattens(less, f)
      BY <1>1, <1>3, SomethingFlattens
    <2>2. Flattens(more, h)
      BY <1>1, <1>4, SomethingFlattens
    <2> QED BY <2>1, <2>2
  <1>6. /\ \A i \in 1 .. k : f[i] = IF i = 1 THEN r[i] ELSE f[i - 1] \o r[i]
        /\ \A i \in 1 .. k + 1 : h[i] = IF i = 1 THEN r[i] ELSE h[i - 1] \o r[i]
    <2>1. \A i \in 1 .. k : f[i] = IF i = 1 THEN less[i] ELSE f[i - 1] \o less[i]
      BY <1>1, <1>5 DEF Flattens
    <2>2. \A i \in 1 .. k + 1 : h[i] = IF i = 1 THEN more[i] ELSE h[i - 1] \o more[i]
      BY <1>1, <1>5 DEF Flattens
    <2> QED BY <1>1, <2>1, <2>2
  <1>7. FlattenSeq(less) = IF k = 0 THEN less ELSE f[k]
    BY <1>1, <1>3 DEF FlattenSeq, Flattens
  <1>8. FlattenSeq(more) = h[k + 1]
    BY <1>1, <1>4 DEF FlattenSeq, Flattens
  <1> DEFINE T == {i \in Nat : i + 1 \in 1 .. k => f[i + 1] = h[i + 1] /\ f[i + 1] \in Seq(S)}
  <1>9. 0 \in T
    <2> SUFFICES ASSUME 1 \in 1 .. k PROVE f[1] = h[1] /\ f[1] \in Seq(S)
      OBVIOUS
    <2> QED BY <1>6
  <1>10. ASSUME NEW i \in Nat, i \in T PROVE i + 1 \in T
    <2> SUFFICES ASSUME (i + 1) + 1 \in 1 .. k
                 PROVE  f[(i + 1) + 1] = h[(i + 1) + 1] /\ f[(i + 1) + 1] \in Seq(S)
      OBVIOUS
    <2>1. i + 1 \in 1 .. k /\ ((i + 1) + 1) - 1 = i + 1 /\ (i + 1) + 1 # 1 /\ (i + 1) + 1 \in 1 .. k + 1
      OBVIOUS
    <2>2. f[i + 1] = h[i + 1] /\ f[i + 1] \in Seq(S)
      BY <1>10, <2>1
    <2>3. /\ f[(i + 1) + 1] = f[i + 1] \o r[(i + 1) + 1]
          /\ h[(i + 1) + 1] = h[i + 1] \o r[(i + 1) + 1]
          /\ r[(i + 1) + 1] \in Seq(S)
      BY <2>1, <1>6
    <2> QED BY <2>2, <2>3
  <1>11. \A i \in Nat : i \in T
    <2> HIDE DEF T
    <2> QED BY <1>9, <1>10, CountingUp
  <1>12. CASE k = 0
    <2>1. less = << >> /\ Upto(r, k) = << >>
      BY <1>1, <1>2, <1>7, <1>12
    <2>2. h[k + 1] = r[k + 1] /\ r[k + 1] \in Seq(S)
      BY <1>6, <1>12
    <2> QED BY <2>1, <2>2, <1>2, <1>8
  <1>13. CASE k # 0
    <2>1. k - 1 \in Nat /\ (k - 1) + 1 = k /\ k \in 1 .. k /\ k + 1 \in 1 .. k + 1 /\ k + 1 # 1 /\ (k + 1) - 1 = k
      BY <1>13
    <2>2. f[k] = h[k] /\ f[k] \in Seq(S)
      <3>1. k - 1 \in T
        <4> HIDE DEF T
        <4> QED BY <2>1, <1>11
      <3> QED BY <3>1, <2>1
    <2>3. h[k + 1] = h[k] \o r[k + 1]
      BY <2>1, <1>6
    <2> QED BY <2>2, <2>3, <1>2, <1>7, <1>8, <1>13
  <1> QED BY <1>12, <1>13

LEMMA UptoNone ==
  ASSUME NEW r
  PROVE  Upto(r, 0) = << >>
  <1>1. [j \in 1 .. 0 |-> r[j]] = << >>
    OBVIOUS
  <1> QED BY <1>1 DEF Upto, FlattenSeq

LEMMA UptoIsList ==
  ASSUME NEW S, NEW n \in Nat, NEW r, \A j \in 1 .. n : r[j] \in Seq(S), NEW k \in 0 .. n
  PROVE  Upto(r, k) \in Seq(S)
  <1>1. CASE k = 0
    <2>1. Upto(r, 0) = << >> /\ << >> \in Seq(S)
      BY UptoNone
    <2> QED BY <1>1, <2>1
  <1>2. CASE k # 0
    <2>1. [j \in 1 .. k |-> r[j]] \in Seq(Seq(S))
      <3>1. [j \in 1 .. k |-> r[j]] \in [1 .. k -> Seq(S)]
        OBVIOUS
      <3> QED BY <3>1
    <2>2. \E row : FlatOf([j \in 1 .. k |-> r[j]], S, Upto(r, k), row, Len([j \in 1 .. k |-> r[j]]))
      BY <2>1, FlattenedRows DEF Upto
    <2> QED BY <2>2 DEF FlatOf
  <1> QED BY <1>1, <1>2

LEMMA UptoSame ==
  ASSUME NEW r, NEW q, NEW k, \A j \in 1 .. k : r[j] = q[j]
  PROVE  Upto(r, k) = Upto(q, k)
  <1>1. [j \in 1 .. k |-> r[j]] = [j \in 1 .. k |-> q[j]]
    OBVIOUS
  <1> QED BY <1>1 DEF Upto

LEMMA UptoAll ==
  ASSUME NEW T, NEW list \in Seq(T)
  PROVE  FlattenSeq(list) = Upto(list, Len(list))
  <1>1. list = [j \in 1 .. Len(list) |-> list[j]]
    OBVIOUS
  <1> QED BY <1>1 DEF Upto

\* A list is two others, one behind the other.
Joins(list, front, back) == list = front \o back

LEMMA JoinedItems ==
  ASSUME NEW S, NEW x \in Seq(S), NEW y \in Seq(S), NEW z, Joins(z, x, y)
  PROVE  /\ z \in Seq(S) /\ Len(x) \in Nat /\ Len(y) \in Nat /\ Len(z) = Len(x) + Len(y)
         /\ \A i \in 1 .. Len(x) : z[i] = x[i]
         /\ \A i \in 1 .. Len(y) : z[Len(x) + i] = y[i]
  <1>1. /\ z \in Seq(S) /\ Len(z) = Len(x) + Len(y)
        /\ \A i \in 1 .. Len(x) + Len(y) : z[i] = IF i <= Len(x) THEN x[i] ELSE y[i - Len(x)]
    BY ConcatProperties DEF Joins
  <1>2. Len(x) \in Nat /\ Len(y) \in Nat
    OBVIOUS
  <1>3. ASSUME NEW i \in 1 .. Len(x) PROVE z[i] = x[i]
    <2>1. i \in 1 .. Len(x) + Len(y) /\ i <= Len(x)
      BY <1>2
    <2> QED BY <1>1, <2>1
  <1>4. ASSUME NEW i \in 1 .. Len(y) PROVE z[Len(x) + i] = y[i]
    <2>1. Len(x) + i \in 1 .. Len(x) + Len(y) /\ ~(Len(x) + i <= Len(x)) /\ (Len(x) + i) - Len(x) = i
      BY <1>2
    <2> QED BY <1>1, <2>1
  <1> QED BY <1>1, <1>2, <1>3, <1>4

LEMMA ItemsJoin ==
  ASSUME NEW S, NEW x \in Seq(S), NEW y \in Seq(S), NEW z \in Seq(S), Len(z) = Len(x) + Len(y),
         \A i \in 1 .. Len(x) : z[i] = x[i],
         \A i \in 1 .. Len(y) : z[Len(x) + i] = y[i]
  PROVE  Joins(z, x, y)
  <1> DEFINE w == x \o y
  <1>1. Joins(w, x, y)
    BY DEF Joins
  <1> HIDE DEF w
  <1>2. /\ w \in Seq(S) /\ Len(x) \in Nat /\ Len(y) \in Nat /\ Len(w) = Len(x) + Len(y)
        /\ \A i \in 1 .. Len(x) : w[i] = x[i]
        /\ \A i \in 1 .. Len(y) : w[Len(x) + i] = y[i]
    BY <1>1, JoinedItems
  <1>3. ASSUME NEW i \in 1 .. Len(z) PROVE z[i] = w[i]
    <2>1. i \in 1 .. Len(x) \/ (i - Len(x) \in 1 .. Len(y) /\ i = Len(x) + (i - Len(x)))
      BY <1>2
    <2>2. CASE i \in 1 .. Len(x)
      BY <2>2, <1>2
    <2>3. CASE i - Len(x) \in 1 .. Len(y) /\ i = Len(x) + (i - Len(x))
      BY <2>3, <1>2
    <2> QED BY <2>1, <2>2, <2>3
  <1>4. z = w
    BY <1>2, <1>3, SeqEqual
  <1> QED BY <1>1, <1>4

LEMMA JoinsOnce ==
  ASSUME NEW x, NEW y, NEW z, NEW w, Joins(z, x, y), Joins(w, x, y)
  PROVE  z = w
  BY DEF Joins

\* A list behind two others, one after the other or together.
LEMMA JoinsAgain ==
  ASSUME NEW S, NEW x \in Seq(S), NEW y \in Seq(S), NEW z \in Seq(S),
         NEW xy, Joins(xy, x, y), NEW yz, Joins(yz, y, z), NEW all
  PROVE  Joins(all, xy, z) <=> Joins(all, x, yz)
  <1>1. (x \o y) \o z = x \o (y \o z)
    BY ConcatAssociative
  <1> QED BY <1>1 DEF Joins

LEMMA JoinsNone ==
  ASSUME NEW S, NEW x \in Seq(S), NEW z
  PROVE  (Joins(z, x, << >>) <=> z = x) /\ (Joins(z, << >>, x) <=> z = x)
  <1>1. x \o << >> = x /\ << >> \o x = x
    BY ConcatEmptySeq
  <1> QED BY <1>1 DEF Joins

\* The rows q are those of r behind the first m.
RowsBehind(S, r, m, q, n) ==
    /\ \A j \in 1 .. m + n : r[j] \in Seq(S)
    /\ \A j \in 1 .. n : q[j] = r[m + j]

LEMMA UptoBehind ==
  ASSUME NEW S, NEW m \in Nat, NEW n \in Nat, NEW r, NEW q, RowsBehind(S, r, m, q, n)
  PROVE  Joins(Upto(r, m + n), Upto(r, m), Upto(q, n))
  <1> DEFINE T == {k \in Nat : k <= n => Upto(r, m + k) = Upto(r, m) \o Upto(q, k)}
  <1> USE DEF RowsBehind
  <1>1. \A j \in 1 .. n : q[j] \in Seq(S)
    <2>1. \A j \in 1 .. n : m + j \in 1 .. m + n
      OBVIOUS
    <2> QED BY <2>1
  <1>2. Upto(r, m) \in Seq(S)
    <2>1. m + n \in Nat /\ m \in 0 .. m + n
      OBVIOUS
    <2> QED BY <2>1, UptoIsList
  <1>3. 0 \in T
    <2>1. Upto(q, 0) = << >> /\ m + 0 = m
      BY UptoNone
    <2>2. Upto(r, m) \o << >> = Upto(r, m)
      BY <1>2
    <2> QED BY <2>1, <2>2
  <1>4. ASSUME NEW k \in Nat, k \in T PROVE k + 1 \in T
    <2> SUFFICES ASSUME k + 1 <= n PROVE Upto(r, m + (k + 1)) = Upto(r, m) \o Upto(q, k + 1)
      OBVIOUS
    <2>1. Upto(r, m + k) = Upto(r, m) \o Upto(q, k)
      BY <1>4
    <2>2. m + k \in Nat /\ (m + k) + 1 = m + (k + 1) /\ m + (k + 1) \in 1 .. m + n /\ k + 1 \in 1 .. n
      OBVIOUS
    <2>3. Upto(r, (m + k) + 1) = Upto(r, m + k) \o r[(m + k) + 1]
      <3>1. \A j \in 1 .. (m + k) + 1 : r[j] \in Seq(S)
        <4>1. \A j \in 1 .. (m + k) + 1 : j \in 1 .. m + n
          BY <2>2
        <4> QED BY <4>1
      <3> QED BY <2>2, <3>1, UptoNext
    <2>4. Upto(q, k) \in Seq(S) /\ Upto(q, k + 1) = Upto(q, k) \o q[k + 1]
      <3>1. \A j \in 1 .. k + 1 : q[j] \in Seq(S)
        <4>1. \A j \in 1 .. k + 1 : j \in 1 .. n
          OBVIOUS
        <4> QED BY <4>1, <1>1
      <3> QED BY <3>1, UptoNext
    <2>5. q[k + 1] = r[m + (k + 1)] /\ q[k + 1] \in Seq(S)
      BY <2>2, <1>1
    <2>6. (Upto(r, m) \o Upto(q, k)) \o q[k + 1] = Upto(r, m) \o (Upto(q, k) \o q[k + 1])
      <3>1. q[k + 1] \in Seq(S) /\ Upto(q, k) \in Seq(S)
        BY <2>4, <2>5
      <3> DEFINE x == Upto(r, m)
                 y == Upto(q, k)
                 z == q[k + 1]
      <3>2. x \in Seq(S) /\ y \in Seq(S) /\ z \in Seq(S)
        BY <1>2, <3>1
      <3> HIDE DEF x, y, z
      <3>3. (x \o y) \o z = x \o (y \o z)
        BY ONLY <3>2, ConcatAssociative
      <3> QED BY <3>3 DEF x, y, z
    <2> QED BY <2>1, <2>2, <2>3, <2>4, <2>5, <2>6
  <1>5. \A k \in Nat : k \in T
    <2> HIDE DEF T
    <2> QED BY <1>3, <1>4, CountingUp
  <1>6. n \in T /\ n <= n
    BY <1>5
  <1> QED BY <1>6 DEF Joins

LEMMA FlatBehind ==
  ASSUME NEW S, NEW a \in Seq(Seq(S)), NEW b \in Seq(Seq(S))
  PROVE  Joins(FlattenSeq(a \o b), FlattenSeq(a), FlattenSeq(b))
  <1> DEFINE la == Len(a)
             lb == Len(b)
             both == a \o b
  <1>1. /\ la \in Nat /\ lb \in Nat /\ both \in Seq(Seq(S)) /\ Len(both) = la + lb
        /\ \A j \in 1 .. la + lb : both[j] \in Seq(S)
        /\ \A j \in 1 .. la : both[j] = a[j]
        /\ \A j \in 1 .. lb : b[j] = both[la + j]
    OBVIOUS
  <1>2. FlattenSeq(both) = Upto(both, la + lb) /\ FlattenSeq(a) = Upto(a, la) /\ FlattenSeq(b) = Upto(b, lb)
    BY <1>1, UptoAll
  <1> HIDE DEF both, la, lb
  <1>4. Joins(Upto(both, la + lb), Upto(both, la), Upto(b, lb))
    <2>1. la \in Nat /\ lb \in Nat
      BY <1>1
    <2>2. RowsBehind(S, both, la, b, lb)
      BY <1>1 DEF RowsBehind
    <2> QED BY <2>1, <2>2, UptoBehind
  <1>5. Upto(both, la) = Upto(a, la)
    BY <1>1, UptoSame
  <1> QED BY <1>2, <1>4, <1>5 DEF both

-----------------------------------------------------------------------------
(* Sets counted in parts.                                                  *)

\* The sets A[x] for the x of S share nothing.
Apart(S, A) == \A x, y \in S : x # y => A[x] \cap A[y] = {}

AllOf(S, A) == UNION {A[x] : x \in S}

LEMMA TwoParts ==
  ASSUME NEW A, NEW B, IsFiniteSet(A), IsFiniteSet(B), A \cap B = {}
  PROVE  IsFiniteSet(A \cup B) /\ Cardinality(A \cup B) = Cardinality(A) + Cardinality(B)
  <1>1. Cardinality(A \cap B) = 0
    BY FS_EmptySet
  <1>2. Cardinality(A) \in Nat /\ Cardinality(B) \in Nat
    BY FS_CardinalityType
  <1>3. /\ IsFiniteSet(A \cup B)
        /\ Cardinality(A \cup B) = Cardinality(A) + Cardinality(B) - Cardinality(A \cap B)
    BY FS_Union
  <1> QED BY ONLY <1>1, <1>2, <1>3

LEMMA OneMoreCounted ==
  ASSUME NEW S, NEW x, x \notin S, NEW A, Apart(S \cup {x}, A),
         IsFiniteSet(AllOf(S, A)), IsFiniteSet(A[x])
  PROVE  /\ IsFiniteSet(AllOf(S \cup {x}, A))
         /\ Cardinality(AllOf(S \cup {x}, A)) = Cardinality(AllOf(S, A)) + Cardinality(A[x])
  <1> DEFINE B == AllOf(S, A)
  <1>1. AllOf(S \cup {x}, A) = B \cup A[x]
    BY DEF AllOf
  <1>2. B \cap A[x] = {}
    <2> SUFFICES ASSUME NEW e \in B, e \in A[x] PROVE FALSE
      OBVIOUS
    <2>1. PICK y \in S : e \in A[y]
      BY DEF AllOf
    <2> QED BY <2>1 DEF Apart
  <1> HIDE DEF B
  <1>3. IsFiniteSet(B)
    BY DEF B
  <1>4. IsFiniteSet(B \cup A[x]) /\ Cardinality(B \cup A[x]) = Cardinality(B) + Cardinality(A[x])
    BY <1>2, <1>3, TwoParts
  <1> QED BY <1>1, <1>4 DEF B

LEMMA NoneCounted ==
  ASSUME NEW A
  PROVE  AllOf({}, A) = {} /\ IsFiniteSet(AllOf({}, A)) /\ Cardinality(AllOf({}, A)) = 0
  <1>1. AllOf({}, A) = {}
    BY DEF AllOf
  <1> QED BY <1>1, FS_EmptySet

LEMMA SumsAlong ==
  ASSUME NEW n \in Nat, NEW f, f[0] = 0, NEW A, Apart(1 .. n, A),
         \A k \in 1 .. n : IsFiniteSet(A[k]) /\ f[k] = f[k - 1] + Cardinality(A[k])
  PROVE  IsFiniteSet(AllOf(1 .. n, A)) /\ f[n] = Cardinality(AllOf(1 .. n, A))
  <1> DEFINE Good(k) == IsFiniteSet(AllOf(1 .. k, A)) /\ f[k] = Cardinality(AllOf(1 .. k, A))
             T == {k \in Nat : k <= n => Good(k)}
  <1>1. 0 \in T
    <2>1. 1 .. 0 = {}
      OBVIOUS
    <2>2. Good(0)
      BY <2>1, NoneCounted
    <2> HIDE DEF Good
    <2> QED BY <2>2
  <1>2. ASSUME NEW k \in Nat, k \in T PROVE k + 1 \in T
    <2> SUFFICES ASSUME k + 1 <= n PROVE Good(k + 1)
      OBVIOUS
    <2> DEFINE S == 1 .. k
               x == k + 1
    <2>1. Good(k)
      BY <1>2
    <2>2. S \cup {x} = 1 .. x /\ x \notin S /\ x \in 1 .. n /\ S \subseteq 1 .. n /\ x - 1 = k
      OBVIOUS
    <2> HIDE DEF x
    <2>3. IsFiniteSet(A[x]) /\ f[x] = f[k] + Cardinality(A[x])
      BY <2>2
    <2>4. Apart(S \cup {x}, A)
      BY <2>2 DEF Apart
    <2>5. IsFiniteSet(AllOf(S, A)) /\ f[k] = Cardinality(AllOf(S, A))
      BY <2>1
    <2> HIDE DEF S, Good
    <2>6. /\ IsFiniteSet(AllOf(S \cup {x}, A))
          /\ Cardinality(AllOf(S \cup {x}, A)) = Cardinality(AllOf(S, A)) + Cardinality(A[x])
      BY <2>2, <2>3, <2>4, <2>5, OneMoreCounted
    <2>7. Good(x)
      BY <2>2, <2>3, <2>5, <2>6 DEF Good
    <2> QED BY <2>7 DEF x
  <1> HIDE DEF T
  <1>3. n \in T
    BY <1>1, <1>2, CountingUp
  <1> QED BY <1>3 DEF T

LEMMA SumsOver ==
  ASSUME NEW S, IsFiniteSet(S), NEW f, f[{}] = 0, NEW A, Apart(S, A),
         \A x \in S : IsFiniteSet(A[x]),
         \A s \in SUBSET S : s # {} => \E x \in s : f[s] = f[s \ {x}] + Cardinality(A[x])
  PROVE  f[S] = Cardinality(AllOf(S, A))
  <1> DEFINE Good(s) == IsFiniteSet(AllOf(s, A)) /\ f[s] = Cardinality(AllOf(s, A))
             T == {k \in Nat : \A s \in SUBSET S : Cardinality(s) = k => Good(s)}
  <1>1. \A s \in SUBSET S : IsFiniteSet(s) /\ Cardinality(s) \in Nat
    BY FS_Subset, FS_CardinalityType
  <1>2. 0 \in T
    <2> SUFFICES ASSUME NEW s \in SUBSET S, Cardinality(s) = 0 PROVE Good(s)
      OBVIOUS
    <2>1. s = {}
      BY <1>1, FS_EmptySet
    <2> QED BY <2>1, NoneCounted
  <1>3. ASSUME NEW k \in Nat, k \in T PROVE k + 1 \in T
    <2> SUFFICES ASSUME NEW s \in SUBSET S, Cardinality(s) = k + 1 PROVE Good(s)
      OBVIOUS
    <2>1. s # {}
      <3>1. Cardinality({}) = 0 /\ k + 1 # 0
        BY FS_EmptySet
      <3> QED BY <3>1
    <2>2. PICK x \in s : f[s] = f[s \ {x}] + Cardinality(A[x])
      BY <2>1
    <2> DEFINE less == s \ {x}
    <2>3. Cardinality(less) = k /\ less \in SUBSET S
      <3>1. IsFiniteSet(s) /\ x \in s
        BY <1>1
      <3>2. Cardinality(s \ {x}) = Cardinality(s) - 1
        BY <3>1, FS_RemoveElement
      <3> HIDE DEF Good, T
      <3> QED BY <3>2
    <2>4. Good(less)
      BY <1>3, <2>3
    <2>5. less \cup {x} = s /\ x \notin less /\ x \in S
      OBVIOUS
    <2> HIDE DEF less
    <2>6. Apart(less \cup {x}, A)
      BY <2>5 DEF Apart
    <2>7. /\ IsFiniteSet(AllOf(less \cup {x}, A))
          /\ Cardinality(AllOf(less \cup {x}, A)) = Cardinality(AllOf(less, A)) + Cardinality(A[x])
      BY <2>4, <2>5, <2>6, OneMoreCounted
    <2> QED BY <2>2, <2>4, <2>5, <2>7 DEF less
  <1> HIDE DEF Good
  <1>4. Cardinality(S) \in T
    <2> HIDE DEF T
    <2> QED BY <1>1, <1>2, <1>3, CountingUp
  <1>5. Good(S)
    BY <1>4
  <1> QED BY <1>5 DEF Good

\* As many as there are of what is different in each.
LEMMA AsMany ==
  ASSUME NEW S, IsFiniteSet(S), NEW f, f = [x \in S |-> f[x]],
         \A x, y \in S : f[x] = f[y] => x = y
  PROVE  IsFiniteSet({f[x] : x \in S}) /\ Cardinality({f[x] : x \in S}) = Cardinality(S)
  <1> DEFINE T == {f[x] : x \in S}
  <1>1. f \in [S -> T]
    OBVIOUS
  <1>2. f \in Bijection(S, T)
    BY <1>1 DEF Bijection, Injection, Surjection, IsInjective
  <1>3. ExistsBijection(S, T)
    BY <1>2 DEF ExistsBijection
  <1> HIDE DEF T
  <1> QED BY <1>3, FS_Bijection DEF T

\* What two lists hold, put together.
LEMMA JoinedSets ==
  ASSUME NEW T, NEW a \in Seq(T), NEW b \in Seq(T)
  PROVE  ToSet(a \o b) = ToSet(a) \cup ToSet(b)
  <1> DEFINE c == a \o b
             m == Len(a)
             n == Len(b)
  <1>1. /\ m \in Nat /\ n \in Nat /\ DOMAIN a = 1 .. m /\ DOMAIN b = 1 .. n
        /\ DOMAIN c = 1 .. m + n
        /\ \A k \in 1 .. m : c[k] = a[k]
        /\ \A k \in 1 .. n : c[m + k] = b[k]
    OBVIOUS
  <1> HIDE DEF c, m, n
  <1>2. ASSUME NEW x \in ToSet(c) PROVE x \in ToSet(a) \cup ToSet(b)
    <2>1. PICK k \in 1 .. m + n : x = c[k]
      BY <1>1 DEF ToSet
    <2>2. CASE k \in 1 .. m
      BY <1>1, <2>1, <2>2 DEF ToSet
    <2>3. CASE k \notin 1 .. m
      <3> DEFINE j == k - m
      <3>1. j \in 1 .. n /\ m + j = k
        BY <1>1, <2>3
      <3> HIDE DEF j
      <3>2. x = b[j]
        BY <1>1, <2>1, <3>1
      <3> QED BY <1>1, <3>1, <3>2 DEF ToSet
    <2> QED BY <2>2, <2>3
  <1>3. ASSUME NEW x \in ToSet(a) \cup ToSet(b) PROVE x \in ToSet(c)
    <2>1. CASE x \in ToSet(a)
      <3>1. PICK k \in 1 .. m : x = a[k]
        BY <1>1, <2>1 DEF ToSet
      <3>2. k \in 1 .. m + n /\ x = c[k]
        BY <1>1, <3>1
      <3> QED BY <1>1, <3>2 DEF ToSet
    <2>2. CASE x \in ToSet(b)
      <3>1. PICK k \in 1 .. n : x = b[k]
        BY <1>1, <2>2 DEF ToSet
      <3>2. m + k \in 1 .. m + n /\ x = c[m + k]
        BY <1>1, <3>1
      <3> QED BY <1>1, <3>2 DEF ToSet
    <2> QED BY <1>3, <2>1, <2>2
  <1>4. ToSet(c) = ToSet(a) \cup ToSet(b)
    <2> DEFINE A == ToSet(a)  B == ToSet(b)  C == ToSet(c)
    <2>1. \A x \in C : x \in A \cup B
      BY <1>2
    <2>2. \A x \in A \cup B : x \in C
      BY <1>3
    <2> HIDE DEF A, B, C
    <2>3. C = A \cup B
      BY <2>1, <2>2
    <2> QED BY <2>3 DEF A, B, C
  <1> QED BY <1>4 DEF c
=============================================================================
