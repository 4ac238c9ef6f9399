------------------------------- MODULE Folding -------------------------------
(***************************************************************************)
(* What a fold from the left computes, for whatever it folds with: the     *)
(* values it goes through, one for every item; the same for a set; and     *)
(* what a sort gives, for whatever it compares with.  The provers cannot   *)
(* take an operator for an argument, so the operator is a constant here,   *)
(* and a module that folds with one of its own instantiates this one with  *)
(* it; "given" is what that operator knows besides.                        *)
(***************************************************************************)
EXTENDS ListFacts

CONSTANT Op(_, _, _)

Folded(given, base, seq) == FoldLeft(LAMBDA acc, x : Op(given, acc, x), base, seq)

\* The recursion of the community's folds, over the subsets of a set: at[s] is the
\* element of s that is taken last, item[x] what it stands for.
Step(given, base, at, item, f, s) ==
    IF s = {} THEN base ELSE Op(given, f[s \ {at[s]}], item[at[s]])

Goes(given, base, at, item, f, D) ==
    \A s \in SUBSET D : f[s] = Step(given, base, at, item, f, s)

IteratesBelow(given, base, at, item, f, D, n) ==
    \A s \in SUBSET D : Cardinality(s) < n => f[s] = Step(given, base, at, item, f, s)

LEMMA LastPosition ==
  ASSUME NEW s, s # {}, s \in SUBSET Int, IsFiniteSet(s)
  PROVE  Max(s) \in s /\ \A y \in s : y <= Max(s)
  <1> DEFINE n == Cardinality(s)
  <1>1. \E x \in s : \A y \in s : x >= y
    <2> DEFINE Higher(x) == {y \in s : y > x}
               Counts == {Cardinality(Higher(x)) : x \in s}
    <2>1. \A x \in s : Higher(x) \in SUBSET s /\ IsFiniteSet(Higher(x)) /\ Cardinality(Higher(x)) \in Nat
      BY FS_Subset, FS_CardinalityType
    <2>2. Counts \in SUBSET Nat /\ Counts # {}
      BY <2>1
    <2>3. PICK m \in Counts : \A c \in Counts : m <= c
      <3> HIDE DEF Counts
      <3> QED BY <2>2, LeastOf
    <2>4. PICK x \in s : m = Cardinality(Higher(x))
      OBVIOUS
    <2>5. \A y \in s : x >= y
      <3> SUFFICES ASSUME NEW y \in s, ~(x >= y) PROVE FALSE
        OBVIOUS
      <3>1. x \in Int /\ y \in Int /\ y > x
        OBVIOUS
      <3>2. Higher(y) \in SUBSET Higher(x) /\ y \in Higher(x) /\ y \notin Higher(y)
        <4>1. ASSUME NEW z \in s, z > y PROVE z > x
          BY <3>1, <4>1
        <4>2. ~(y > y)
          BY <3>1
        <4> QED BY <3>1, <4>1, <4>2
      <3>3. Higher(y) # Higher(x)
        BY <3>2
      <3>4. IsFiniteSet(Higher(x)) /\ Cardinality(Higher(x)) \in Nat /\ Cardinality(Higher(y)) \in Nat
        BY <2>1
      <3> HIDE DEF Higher
      <3>5. Cardinality(Higher(y)) <= Cardinality(Higher(x)) /\ Cardinality(Higher(y)) # Cardinality(Higher(x))
        BY <3>2, <3>3, <3>4, FS_Subset
      <3>6. m <= Cardinality(Higher(y))
        BY <2>3
      <3> QED BY <3>4, <3>5, <3>6, <2>4
    <2> QED BY <2>5
  <1>2. Max(s) \in s /\ \A y \in s : Max(s) >= y
    BY <1>1 DEF Max
  <1> QED BY <1>2

LEMMA StepBelow ==
  ASSUME NEW given, NEW base, NEW at, NEW item, NEW f, NEW g, NEW s, IsFiniteSet(s),
         s # {} => at[s] \in s,
         \A t \in SUBSET s : Cardinality(t) < Cardinality(s) => f[t] = g[t]
  PROVE  Step(given, base, at, item, f, s) = Step(given, base, at, item, g, s)
  <1>1. CASE s = {}
    BY <1>1 DEF Step
  <1>2. CASE s # {}
    <2>1. Cardinality(s) \in Nat
      BY FS_CardinalityType
    <2>2. Cardinality(s \ {at[s]}) = Cardinality(s) - 1
      BY <1>2, FS_RemoveElement
    <2>3. s \ {at[s]} \in SUBSET s /\ Cardinality(s \ {at[s]}) < Cardinality(s)
      BY <2>1, <2>2
    <2>4. f[s \ {at[s]}] = g[s \ {at[s]}]
      BY <2>3
    <2> QED BY <2>4 DEF Step
  <1> QED BY <1>1, <1>2

LEMMA SomethingIterates ==
  ASSUME NEW given, NEW base, NEW at, NEW item, NEW D, IsFiniteSet(D),
         \A s \in SUBSET D : s # {} => at[s] \in s
  PROVE  \E f : f = [s \in SUBSET D |-> f[s]] /\ Goes(given, base, at, item, f, D)
  <1> DEFINE Below(f, n) == IteratesBelow(given, base, at, item, f, D, n)
             Parts == SUBSET D
             Missing == {n \in Nat : ~\E f : Below(f, n)}
             Of(f, s) == Step(given, base, at, item, f, s)
  <1>1. \A s \in Parts : IsFiniteSet(s) /\ Cardinality(s) \in Nat /\ Cardinality(s) <= Cardinality(D)
    BY FS_Subset, FS_CardinalityType
  <1>2. Missing = {}
    <2> SUFFICES ASSUME Missing # {} PROVE FALSE
      OBVIOUS
    <2>1. PICK m \in Missing : \A n \in Missing : m <= n
      <3>1. Missing \in SUBSET Nat
        OBVIOUS
      <3> HIDE DEF Missing
      <3> QED BY <3>1, LeastOf
    <2>2. m # 0
      <3>1. ASSUME m = 0 PROVE FALSE
        <4>1. Below(base, 0)
          BY <1>1 DEF IteratesBelow
        <4> QED BY <4>1, <3>1
      <3> QED BY <3>1
    <2>3. m - 1 \in Nat /\ m - 1 \notin Missing
      BY <2>1, <2>2
    <2>4. PICK f : Below(f, m - 1)
      BY <2>3
    <2> DEFINE g == [s \in Parts |-> IF Cardinality(s) = m - 1 THEN Of(f, s) ELSE f[s]]
    <2>5. ASSUME NEW s \in Parts, Cardinality(s) < m
          PROVE  g[s] = Of(g, s)
      <3>1. Cardinality(s) \in Nat /\ m \in Nat /\ IsFiniteSet(s)
        BY <1>1
      <3>2. \A t \in SUBSET s : Cardinality(t) < Cardinality(s) => f[t] = g[t]
        BY <3>1, <2>5, <1>1
      <3>3. Of(f, s) = Of(g, s)
        <4> HIDE DEF g
        <4> QED BY <3>1, <3>2, StepBelow
      <3>4. CASE Cardinality(s) = m - 1
        <4>1. g[s] = Of(f, s)
          BY <3>4
        <4> QED BY <4>1, <3>3
      <3>5. CASE Cardinality(s) # m - 1
        <4>1. g[s] = f[s] /\ Cardinality(s) < m - 1
          BY <3>5, <3>1, <2>5
        <4>2. f[s] = Of(f, s)
          BY <4>1, <2>4 DEF IteratesBelow
        <4> QED BY <4>1, <4>2, <3>3
      <3> QED BY <3>4, <3>5
    <2>6. Below(g, m)
      <3> HIDE DEF g
      <3> QED BY <2>5 DEF IteratesBelow
    <2> QED BY <2>6, <2>1
  <1> DEFINE all == Cardinality(D) + 1
  <1>3. all \in Nat /\ all \notin Missing
    <2>1. Cardinality(D) \in Nat
      BY FS_CardinalityType
    <2> QED BY <2>1, <1>2
  <1>4. PICK f : Below(f, all)
    BY <1>3
  <1> DEFINE h == [s \in Parts |-> f[s]]
  <1>5. \A s \in Parts : h[s] = Of(h, s)
    <2> SUFFICES ASSUME NEW s \in Parts PROVE h[s] = Of(h, s)
      OBVIOUS
    <2>1. Cardinality(s) < all
      BY <1>1, FS_CardinalityType
    <2>2. f[s] = Of(f, s)
      BY <1>4, <2>1 DEF IteratesBelow
    <2>3. \A t \in Parts : f[t] = h[t]
      OBVIOUS
    <2>4. Of(f, s) = Of(h, s)
      <3>1. \A t \in SUBSET s : f[t] = h[t]
        BY <2>3
      <3> HIDE DEF h
      <3> QED BY <1>1, <3>1, StepBelow
    <2> QED BY <2>2, <2>3, <2>4
  <1>6. h = [s \in Parts |-> h[s]]
    OBVIOUS
  <1> HIDE DEF h
  <1> QED BY <1>5, <1>6 DEF Goes

\* What a fold goes through, and where it ends.
Along(given, base, seq, f) ==
    /\ f[0] = base
    /\ \A k \in 1 .. Len(seq) : f[k] = Op(given, f[k - 1], seq[k])
    /\ Folded(given, base, seq) = f[Len(seq)]

\* FoldLeft (community modules): the values of a fold, from the base on, each
\* made of the one before it and of the item it has come to; the last one is the
\* fold.
THEOREM FoldGoesAlong ==
  ASSUME NEW given, NEW base, NEW S, NEW seq \in Seq(S)
  PROVE  \E f : Along(given, base, seq, f)
  <1> DEFINE D == DOMAIN seq
             at == [s \in SUBSET D |-> Max(s)]
             Iterates(f) == f = [s \in SUBSET D |-> IF s = {} THEN base
                                                    ELSE LET x == Max(s)
                                                         IN  Op(given, f[s \ {x}], seq[x])]
  <1>1. DOMAIN seq = 1 .. Len(seq) /\ Len(seq) \in Nat
    OBVIOUS
  <1>2. D \in SUBSET Int /\ IsFiniteSet(D)
    BY <1>1, FS_Interval
  <1>3. \A s \in SUBSET D : at[s] = Max(s) /\ (s # {} => at[s] \in s)
    BY <1>2, FS_Subset, LastPosition
  <1> HIDE DEF at
  <1>4. \E f : Iterates(f)
    <2>1. PICK f : f = [s \in SUBSET D |-> f[s]] /\ Goes(given, base, at, seq, f, D)
      BY <1>2, <1>3, SomethingIterates
    <2>2. \A s \in SUBSET D : f[s] = IF s = {} THEN base ELSE Op(given, f[s \ {Max(s)}], seq[Max(s)])
      BY <1>3, <2>1 DEF Goes, Step
    <2> HIDE DEF D
    <2>3. Iterates(f)
      BY <2>1, <2>2
    <2> QED BY <2>3
  <1> DEFINE f == CHOOSE g : Iterates(g)
  <1>41. Folded(given, base, seq) = f[D]
    BY DEF Folded, FoldLeft, MapThenFoldSet
  <1>42. Iterates(f)
    <2> HIDE DEF Iterates
    <2> QED BY <1>4
  <1> HIDE DEF f
  <1>5. \A s \in SUBSET D : f[s] = IF s = {} THEN base ELSE Op(given, f[s \ {Max(s)}], seq[Max(s)])
    BY <1>42
  <1> DEFINE along == [k \in 0 .. Len(seq) |-> f[1 .. k]]
  <1>6. along[0] = base
    <2>1. 1 .. 0 = {} /\ along[0] = f[1 .. 0]
      BY <1>1
    <2> QED BY <2>1, <1>5
  <1>7. ASSUME NEW k \in 1 .. Len(seq)
        PROVE  along[k] = Op(given, along[k - 1], seq[k])
    <2>1. along[k] = f[1 .. k] /\ along[k - 1] = f[1 .. (k - 1)]
      BY <1>1
    <2>2. 1 .. k \in SUBSET (DOMAIN seq) /\ 1 .. k # {} /\ 1 .. k \in SUBSET Int /\ IsFiniteSet(1 .. k)
      <3>1. k \in Int /\ 1 \in 1 .. k
        BY <1>1
      <3>2. IsFiniteSet(1 .. k)
        BY <3>1, FS_Interval
      <3>3. 1 .. k \in SUBSET (1 .. Len(seq))
        BY <1>1
      <3> QED BY <1>1, <3>1, <3>2, <3>3
    <2>3. Max(1 .. k) = k
      <3>1. Max(1 .. k) \in 1 .. k /\ \A y \in 1 .. k : y <= Max(1 .. k)
        BY <2>2, LastPosition
      <3> QED BY <3>1
    <2>4. (1 .. k) \ {k} = 1 .. (k - 1)
      BY <1>1
    <2>5. f[1 .. k] = Op(given, f[(1 .. k) \ {k}], seq[k])
      BY <1>5, <2>2, <2>3
    <2> QED BY <2>1, <2>4, <2>5
  <1>8. Folded(given, base, seq) = along[Len(seq)]
    <2>1. along[Len(seq)] = f[DOMAIN seq]
      BY <1>1
    <2> QED BY <2>1, <1>41
  <1> HIDE DEF along
  <1> QED BY <1>6, <1>7, <1>8 DEF Along

-----------------------------------------------------------------------------
(* Folding a set, in whatever order its elements are taken.                *)

FoldedSet(given, base, S) == FoldSet(LAMBDA x, acc : Op(given, acc, x), base, S)

AlongSets(given, base, S, f) ==
    /\ f[{}] = base
    /\ \A s \in SUBSET S : s # {} => \E x \in s : f[s] = Op(given, f[s \ {x}], x)
    /\ FoldedSet(given, base, S) = f[S]

\* FoldSet (community modules): the values of a fold over the parts of a set, each made
\* of the one without some element and of that element.
THEOREM SetFoldGoesAlong ==
  ASSUME NEW given, NEW base, NEW S, IsFiniteSet(S)
  PROVE  \E f : AlongSets(given, base, S, f)
  <1> DEFINE at == [s \in SUBSET S |-> CHOOSE x \in s : TRUE]
             item == [x \in S |-> x]
             Iterates(f) == f = [s \in SUBSET S |-> IF s = {} THEN base
                                                    ELSE LET x == CHOOSE x \in s : TRUE
                                                         IN  Op(given, f[s \ {x}], x)]
  <1>1. \A s \in SUBSET S : at[s] = (CHOOSE x \in s : TRUE) /\ (s # {} => at[s] \in s)
    OBVIOUS
  <1> HIDE DEF at
  <1>2. \A x \in S : item[x] = x
    OBVIOUS
  <1> HIDE DEF item
  <1>3. PICK g : g = [s \in SUBSET S |-> g[s]] /\ Goes(given, base, at, item, g, S)
    BY <1>1, SomethingIterates
  <1>4. \A s \in SUBSET S : g[s] = IF s = {} THEN base ELSE Op(given, g[s \ {at[s]}], at[s])
    BY <1>1, <1>2, <1>3 DEF Goes, Step
  <1>5. \E f : Iterates(f)
    <2>1. \A s \in SUBSET S :
              g[s] = IF s = {} THEN base
                     ELSE Op(given, g[s \ {CHOOSE x \in s : TRUE}], CHOOSE x \in s : TRUE)
      BY <1>1, <1>4
    <2>2. Iterates(g)
      BY <1>3, <2>1
    <2> QED BY <2>2
  <1> DEFINE f == CHOOSE h : Iterates(h)
  <1>6. FoldedSet(given, base, S) = f[S]
    BY DEF FoldedSet, FoldSet, MapThenFoldSet
  <1>7. Iterates(f)
    <2> HIDE DEF Iterates
    <2> QED BY <1>5
  <1> HIDE DEF f
  <1>8. \A s \in SUBSET S : f[s] = IF s = {} THEN base ELSE Op(given, f[s \ {at[s]}], at[s])
    BY <1>1, <1>7
  <1>9. f[{}] = base
    BY <1>8
  <1>10. \A s \in SUBSET S : s # {} => \E x \in s : f[s] = Op(given, f[s \ {x}], x)
    BY <1>1, <1>8
  <1> QED BY <1>6, <1>9, <1>10 DEF AlongSets

-----------------------------------------------------------------------------
(* Sorting, by an operator that says what comes before what.               *)

Ranked(given, S) == Sorted(S, LAMBDA a, b : Op(given, a, b))

\* The operator orders the elements of S.
Ranks(given, S) ==
    /\ \A a \in S : ~Op(given, a, a)
    /\ \A a, b \in S : a # b => Op(given, a, b) \/ Op(given, b, a)
    /\ \A a, b, c \in S : Op(given, a, b) /\ Op(given, b, c) => Op(given, a, c)

InRank(given, S, list) ==
    /\ Cardinality(S) \in Nat /\ list \in Seq(S) /\ Len(list) = Cardinality(S)
    /\ \A e \in S : \E k \in 1 .. Len(list) : list[k] = e
    /\ \A j, k \in 1 .. Len(list) : j < k <=> Op(given, list[j], list[k])

\* Sorted (Lists): the elements, all of them, in the order that ranks them.
THEOREM SortingOrders ==
  ASSUME NEW given, NEW S, IsFiniteSet(S), Ranks(given, S)
  PROVE  InRank(given, S, Ranked(given, S))
  <1> DEFINE R == {q \in S \X S : Op(given, q[1], q[2])}
             Count(e) == Cardinality({d \in S : Op(given, d, e)})
             At(k) == CHOOSE e \in S : Count(e) = k - 1
             list == [k \in 1 .. Cardinality(S) |-> At(k)]
  <1>1. \A a, b \in S : <<a, b>> \in R <=> Op(given, a, b)
    OBVIOUS
  <1>2. \A e \in S : InFront(S, R, e) = {d \in S : Op(given, d, e)}
    BY <1>1 DEF InFront
  <1>3. StrictOrder(S, R)
    <2> HIDE DEF R
    <2> QED BY <1>1 DEF StrictOrder, Ranks
  <1>4. Ranked(given, S) = list
    BY DEF Ranked, Sorted
  <1>5. \A k \in 1 .. Cardinality(S) : list[k] = At(k)
    OBVIOUS
  <1>6. list = [k \in 1 .. Cardinality(S) |-> list[k]]
    <2> HIDE DEF At
    <2> QED OBVIOUS
  <1> HIDE DEF R, list
  <1>7. ASSUME NEW k \in 1 .. Cardinality(S), \E e \in S : Cardinality(InFront(S, R, e)) = k - 1
        PROVE  list[k] \in S /\ Cardinality(InFront(S, R, list[k])) = k - 1
    <2>1. \E e \in S : Count(e) = k - 1
      BY <1>2, <1>7
    <2>2. At(k) \in S /\ Count(At(k)) = k - 1
      <3> HIDE DEF Count
      <3> QED BY <2>1
    <2> QED BY <1>2, <1>5, <2>2
  <1>8. IsOrdered(list, S, R)
    BY <1>3, <1>6, <1>7, OrderedPlaces DEF AsPlaced
  <1>9. /\ Cardinality(S) \in Nat /\ list \in [1 .. Cardinality(S) -> S]
        /\ \A e \in S : \E k \in 1 .. Cardinality(S) : list[k] = e
        /\ \A j, k \in 1 .. Cardinality(S) : j < k <=> <<list[j], list[k]>> \in R
    BY <1>8 DEF IsOrdered
  <1>10. list \in Seq(S) /\ Len(list) = Cardinality(S)
    BY <1>9
  <1>11. \A j, k \in 1 .. Cardinality(S) : j < k <=> Op(given, list[j], list[k])
    BY <1>1, <1>9
  <1> QED BY <1>4, <1>9, <1>10, <1>11 DEF InRank
=============================================================================
