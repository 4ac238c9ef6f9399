----------------------------- MODULE TextProofs -----------------------------
(***************************************************************************)
(* Proofs about what is done to texts:                                     *)
(*   FragmentsAreRedacted  no piece of the model client's key is in what   *)
(*                         an error says,                                  *)
(*   SecretsAreLabelled    what any masking rule finds in a submitted text *)
(*                         or in its probe is under a label,               *)
(*   ChunksAreWhole        the chunks of a record hold all of its text,    *)
(*                         within the limits, and cut no sentence that     *)
(*                         fits.                                           *)
(***************************************************************************)
EXTENDS ModelClient, Sanitizing, Chunking, ListFacts

-----------------------------------------------------------------------------
(* Redacting the key.                                                      *)

Redacting == INSTANCE Folding WITH Op <- LAMBDA given, text, piece : SplitAndJoin(text, piece)

\* The piece stands in the text at i, character by character.
StandsAt(text, piece, i) ==
    /\ i + Len(piece) - 1 <= Len(text)
    /\ \A m \in 1 .. Len(piece) : text[i + m - 1] = piece[m]

Rescan(text, piece, rest, i) ==
    IF i > Len(text) THEN <<>>
    ELSE IF i + Len(piece) - 1 <= Len(text) /\ SubSeq(text, i, i + Len(piece) - 1) = piece
    THEN <<Redacted>> \o rest[i + Len(piece)]
    ELSE <<text[i]>> \o rest[i + 1]

\* What is left of a text from each of its positions on.
Scans(text, piece, rest) ==
    /\ rest \in [1 .. Len(text) + 1 -> Seq(Int)]
    /\ rest[Len(text) + 1] = <<>>
    /\ \A i \in 1 .. Len(text) :
          rest[i] = IF StandsAt(text, piece, i) THEN <<Redacted>> \o rest[i + Len(piece)]
                    ELSE <<text[i]>> \o rest[i + 1]

LEMMA StandsWhere ==
  ASSUME NEW text \in Seq(Int), NEW piece \in Seq(Int), NEW i \in Nat \ {0}, Len(piece) >= 1
  PROVE  (i + Len(piece) - 1 <= Len(text) /\ SubSeq(text, i, i + Len(piece) - 1) = piece)
            <=> StandsAt(text, piece, i)
  <1> DEFINE n == Len(piece)
             cut == SubSeq(text, i, i + n - 1)
  <1>1. n \in Nat /\ n >= 1 /\ Len(text) \in Nat
    OBVIOUS
  <1>2. ASSUME i + n - 1 <= Len(text)
        PROVE  /\ cut \in Seq(Int) /\ Len(cut) = n
               /\ \A m \in 1 .. n : cut[m] = text[i + m - 1]
    <2>1. \A m \in i .. (i + n - 1) : m \in 1 .. Len(text)
      BY <1>1, <1>2
    <2>2. cut = [m \in 1 .. n |-> text[m + i - 1]]
      BY <1>1, <2>1, <1>2
    <2>3. \A m \in 1 .. n : m + i - 1 = i + m - 1
      BY <1>1
    <2>4. cut = [m \in 1 .. n |-> text[i + m - 1]]
      BY <2>2, <2>3
    <2>5. \A m \in 1 .. n : text[i + m - 1] \in Int
      BY <2>1, <1>1
    <2> HIDE DEF cut, n
    <2>6. cut \in Seq(Int)
      BY <2>4, <2>5, <1>1
    <2> QED BY <2>4, <2>6, <1>1
  <1>3. ASSUME i + n - 1 <= Len(text), cut = piece PROVE StandsAt(text, piece, i)
    <2> HIDE DEF cut
    <2> QED BY <1>2, <1>3 DEF StandsAt
  <1>4. ASSUME StandsAt(text, piece, i) PROVE i + n - 1 <= Len(text) /\ cut = piece
    <2>1. i + n - 1 <= Len(text) /\ \A m \in 1 .. n : text[i + m - 1] = piece[m]
      BY <1>4 DEF StandsAt
    <2>2. \A m \in 1 .. n : cut[m] = piece[m]
      BY <1>2, <2>1
    <2> HIDE DEF cut
    <2>3. cut = piece
      BY <1>2, <2>1, <2>2, SeqEqual
    <2> QED BY <2>1, <2>3
  <1> QED BY <1>3, <1>4

LEMMA OccursSomewhere ==
  ASSUME NEW text \in Seq(Int), NEW piece \in Seq(Int), Len(piece) >= 1
  PROVE  Occurs(piece, text) <=> \E i \in Nat \ {0} : StandsAt(text, piece, i)
  <1>1. ASSUME Occurs(piece, text) PROVE \E i \in Nat \ {0} : StandsAt(text, piece, i)
    <2>1. PICK i \in 1 .. Len(text) - Len(piece) + 1 : SubSeq(text, i, i + Len(piece) - 1) = piece
      BY <1>1 DEF Occurs
    <2>2. i \in Nat \ {0} /\ i + Len(piece) - 1 <= Len(text)
      OBVIOUS
    <2>3. StandsAt(text, piece, i)
      BY <2>1, <2>2, StandsWhere
    <2> QED BY <2>2, <2>3
  <1>2. ASSUME NEW i \in Nat \ {0}, StandsAt(text, piece, i) PROVE Occurs(piece, text)
    <2>1. i + Len(piece) - 1 <= Len(text) /\ SubSeq(text, i, i + Len(piece) - 1) = piece
      BY <1>2, StandsWhere
    <2>2. i \in 1 .. Len(text) - Len(piece) + 1
      BY <2>1
    <2> QED BY <2>1, <2>2 DEF Occurs
  <1> QED BY <1>1, <1>2

LEMMA OneMore ==
  ASSUME NEW c \in Int, NEW s \in Seq(Int)
  PROVE  /\ <<c>> \o s \in Seq(Int) /\ Len(<<c>> \o s) = Len(s) + 1
         /\ (<<c>> \o s)[1] = c
         /\ \A x \in 1 .. Len(s) : (<<c>> \o s)[x + 1] = s[x]
  <1>1. <<c>> \in Seq(Int) /\ Len(<<c>>) = 1 /\ <<c>>[1] = c
    OBVIOUS
  <1>2. \A x \in 1 .. Len(s) : x + 1 > 1 /\ x + 1 <= Len(s) + 1 /\ (x + 1) - 1 = x
    OBVIOUS
  <1> QED BY <1>1, <1>2, ConcatProperties

\* Where one of the text's positions goes on to.
LEMMA RescanMoves ==
  ASSUME NEW text \in Seq(Int), NEW piece \in Seq(Int), Len(piece) >= 1,
         NEW f, NEW g, NEW i \in 1 .. Len(text) + 1,
         \A j \in 1 .. Len(text) + 1 : j > i => f[j] = g[j]
  PROVE  Rescan(text, piece, f, i) = Rescan(text, piece, g, i)
  <1>1. Len(text) \in Nat /\ Len(piece) \in Nat
    OBVIOUS
  <1>2. CASE i > Len(text)
    BY <1>2 DEF Rescan
  <1>3. CASE ~(i > Len(text))
    <2>1. f[i + 1] = g[i + 1]
      BY <1>1, <1>3
    <2>2. i + Len(piece) - 1 <= Len(text) => f[i + Len(piece)] = g[i + Len(piece)]
      BY <1>1, <1>3
    <2> QED BY <1>3, <2>1, <2>2 DEF Rescan
  <1> QED BY <1>2, <1>3

LEMMA SomethingScans ==
  ASSUME NEW text \in Seq(Int), NEW piece \in Seq(Int), Len(piece) >= 1
  PROVE  \E f : f = [i \in 1 .. Len(text) + 1 |-> Rescan(text, piece, f, i)]
  <1> DEFINE L == Len(text)
             From(f, d) == \A i \in 1 .. L + 1 : i > L + 1 - d => f[i] = Rescan(text, piece, f, i)
             Missing == {d \in Nat : ~\E f : From(f, d)}
  <1>1. L \in Nat
    OBVIOUS
  <1>2. Missing = {}
    <2> SUFFICES ASSUME Missing # {} PROVE FALSE
      OBVIOUS
    <2>1. PICK m \in Missing : \A n \in Missing : m <= n
      <3>1. Missing \in SUBSET Nat
        OBVIOUS
      <3> HIDE DEF Missing
      <3> QED BY <3>1, LeastOf
    <2>2. m # 0
      <3>1. From(text, 0)
        BY <1>1
      <3> QED BY <3>1
    <2>3. m - 1 \in Nat /\ m - 1 \notin Missing
      <3>1. m \in Nat
        OBVIOUS
      <3> HIDE DEF Missing
      <3> QED BY <2>1, <2>2, <3>1
    <2>4. PICK f : From(f, m - 1)
      BY <2>3
    <2> DEFINE g == [i \in 1 .. L + 1 |-> IF i = L + 2 - m THEN Rescan(text, piece, f, i) ELSE f[i]]
    <2>5. ASSUME NEW i \in 1 .. L + 1, i > L + 1 - m
          PROVE  g[i] = Rescan(text, piece, g, i)
      <3>1. m \in Nat
        OBVIOUS
      <3>2. \A j \in 1 .. L + 1 : j > i => f[j] = g[j]
        BY <3>1, <2>5, <1>1
      <3>3. Rescan(text, piece, f, i) = Rescan(text, piece, g, i)
        <4> HIDE DEF g
        <4> QED BY <3>2, RescanMoves
      <3>4. CASE i = L + 2 - m
        <4>1. g[i] = Rescan(text, piece, f, i)
          BY <3>4
        <4> QED BY <4>1, <3>3
      <3>5. CASE i # L + 2 - m
        <4>1. g[i] = f[i] /\ i > L + 1 - (m - 1)
          BY <3>5, <3>1, <2>5, <1>1
        <4>2. f[i] = Rescan(text, piece, f, i)
          BY <4>1, <2>4
        <4> QED BY <4>1, <4>2, <3>3
      <3> QED BY <3>4, <3>5
    <2>6. From(g, m)
      <3> HIDE DEF g
      <3> QED BY <2>5
    <2> QED BY <2>6, <2>1
  <1>3. PICK f : From(f, L + 1)
    <2>1. L + 1 \in Nat
      BY <1>1
    <2>2. L + 1 \notin Missing
      <3> HIDE DEF Missing
      <3> QED BY <1>2
    <2> QED BY <2>1, <2>2
  <1> DEFINE h == [i \in 1 .. L + 1 |-> f[i]]
  <1>4. \A i \in 1 .. L + 1 : h[i] = Rescan(text, piece, h, i)
    <2> SUFFICES ASSUME NEW i \in 1 .. L + 1 PROVE h[i] = Rescan(text, piece, h, i)
      OBVIOUS
    <2>1. f[i] = Rescan(text, piece, f, i)
      BY <1>3, <1>1
    <2>2. \A j \in 1 .. L + 1 : f[j] = h[j]
      OBVIOUS
    <2>3. Rescan(text, piece, f, i) = Rescan(text, piece, h, i)
      <3> HIDE DEF h
      <3> QED BY <2>2, RescanMoves
    <2> QED BY <2>1, <2>2, <2>3
  <1>5. h = [i \in 1 .. L + 1 |-> Rescan(text, piece, h, i)]
    <2>1. h = [i \in 1 .. L + 1 |-> h[i]]
      OBVIOUS
    <2> HIDE DEF h
    <2> QED BY <2>1, <1>4
  <1> HIDE DEF h
  <1> QED BY <1>5

\* SplitAndJoin: the text behind a piece that is there is left behind its mark.
LEMMA SplitAndJoinScans ==
  ASSUME NEW text \in Seq(Int), NEW piece \in Seq(Int), Len(piece) >= 1, Redacted \in Int
  PROVE  \E rest : Scans(text, piece, rest) /\ SplitAndJoin(text, piece) = rest[1]
  <1> DEFINE L == Len(text)
             n == Len(piece)
  <1>1. L \in Nat /\ n \in Nat /\ n >= 1
    OBVIOUS
  <1>2. PICK f : f = CHOOSE g : g = [i \in 1 .. L + 1 |-> Rescan(text, piece, g, i)]
    OBVIOUS
  <1>3. f = [i \in 1 .. L + 1 |-> Rescan(text, piece, f, i)]
    BY <1>2, SomethingScans
  <1>4. SplitAndJoin(text, piece) = f[1]
    BY <1>2 DEF SplitAndJoin, Rescan
  <1>5. f[L + 1] = <<>>
    <2>1. L + 1 \in 1 .. L + 1 /\ L + 1 > L
      BY <1>1
    <2>2. f[L + 1] = Rescan(text, piece, f, L + 1)
      BY <1>3, <2>1
    <2> QED BY <2>1, <2>2 DEF Rescan
  <1>6. ASSUME NEW i \in 1 .. L
        PROVE  f[i] = IF StandsAt(text, piece, i) THEN <<Redacted>> \o f[i + n]
                      ELSE <<text[i]>> \o f[i + 1]
    <2>1. f[i] = Rescan(text, piece, f, i) /\ ~(i > L)
      <3>1. i \in 1 .. L + 1 /\ ~(i > L)
        BY <1>1
      <3> QED BY <1>3, <3>1
    <2>2. (i + n - 1 <= L /\ SubSeq(text, i, i + n - 1) = piece) <=> StandsAt(text, piece, i)
      BY StandsWhere
    <2> QED BY <2>1, <2>2 DEF Rescan
  <1> DEFINE Given == {i \in 1 .. L + 1 : f[i] \in Seq(Int)}
  <1>7. ASSUME NEW i \in 1 .. L, \A k \in i + 1 .. L + 1 : k \in Given
        PROVE  f[i] \in Seq(Int)
    <2>1. f[i] = IF StandsAt(text, piece, i) THEN <<Redacted>> \o f[i + n] ELSE <<text[i]>> \o f[i + 1]
      BY <1>6
    <2>2. \A c \in Int, s \in Seq(Int) : <<c>> \o s \in Seq(Int)
      BY OneMore
    <2>3. CASE StandsAt(text, piece, i)
      <3>1. i + n \in i + 1 .. L + 1
        BY <1>1, <2>3 DEF StandsAt
      <3>2. f[i + n] \in Seq(Int)
        BY <3>1, <1>7
      <3> QED BY <2>1, <2>2, <2>3, <3>2
    <2>4. CASE ~StandsAt(text, piece, i)
      <3>1. i + 1 \in i + 1 .. L + 1 /\ text[i] \in Int
        BY <1>1
      <3>2. f[i + 1] \in Seq(Int)
        BY <3>1, <1>7
      <3> QED BY <2>1, <2>2, <2>4, <3>1, <3>2
    <2> QED BY <2>3, <2>4
  <1>8. \A i \in 1 .. L + 1 : f[i] \in Seq(Int)
    <2>1. L + 1 \in Given
      <3>1. <<>> \in Seq(Int) /\ L + 1 \in 1 .. L + 1
        BY <1>1
      <3> QED BY <3>1, <1>5
    <2>2. \A i \in 1 .. L : (\A k \in i + 1 .. L + 1 : k \in Given) => i \in Given
      BY <1>1, <1>7
    <2>3. \A i \in 1 .. L + 1 : i \in Given
      <3> HIDE DEF Given
      <3> QED BY <1>1, <2>1, <2>2, FromTheEnd
    <2> QED BY <2>3
  <1>9. f \in [1 .. L + 1 -> Seq(Int)]
    BY <1>3, <1>8
  <1> QED BY <1>4, <1>5, <1>6, <1>9 DEF Scans

\* What a scan leaves from i on is c and then what it leaves from k on.
GoesOn(text, piece, rest, i, k, c) ==
    /\ rest[i] \in Seq(Int) /\ rest[k] \in Seq(Int)
    /\ Len(rest[i]) = Len(rest[k]) + 1 /\ rest[i][1] = c
    /\ \A x \in 1 .. Len(rest[k]) : rest[i][x + 1] = rest[k][x]
    /\ IF StandsAt(text, piece, i) THEN k = i + Len(piece) /\ c = Redacted
       ELSE k = i + 1 /\ c = text[i]

LEMMA ScanStep ==
  ASSUME NEW text \in Seq(Int), NEW piece \in Seq(Int), Len(piece) >= 1, Redacted \in Int,
         NEW rest, Scans(text, piece, rest), NEW i \in 1 .. Len(text)
  PROVE  \E k \in i + 1 .. Len(text) + 1, c \in Int : GoesOn(text, piece, rest, i, k, c)
  <1>1. Len(text) \in Nat /\ Len(piece) \in Nat
    OBVIOUS
  <1>2. /\ \A j \in 1 .. Len(text) + 1 : rest[j] \in Seq(Int)
        /\ rest[i] = IF StandsAt(text, piece, i) THEN <<Redacted>> \o rest[i + Len(piece)]
                     ELSE <<text[i]>> \o rest[i + 1]
    BY DEF Scans
  <1>3. CASE StandsAt(text, piece, i)
    <2> DEFINE k == i + Len(piece)
    <2>1. k \in i + 1 .. Len(text) + 1 /\ k \in 1 .. Len(text) + 1 /\ i \in 1 .. Len(text) + 1
      BY <1>1, <1>3 DEF StandsAt
    <2>2. rest[k] \in Seq(Int) /\ rest[i] = <<Redacted>> \o rest[k]
      BY <1>2, <1>3, <2>1
    <2> HIDE DEF k
    <2>3. /\ rest[i] \in Seq(Int) /\ Len(rest[i]) = Len(rest[k]) + 1 /\ rest[i][1] = Redacted
          /\ \A x \in 1 .. Len(rest[k]) : rest[i][x + 1] = rest[k][x]
      BY <2>2, OneMore
    <2>4. GoesOn(text, piece, rest, i, k, Redacted)
      BY <1>3, <2>2, <2>3 DEF GoesOn, k
    <2> QED BY <2>1, <2>4
  <1>4. CASE ~StandsAt(text, piece, i)
    <2> DEFINE k == i + 1
    <2>1. k \in i + 1 .. Len(text) + 1 /\ k \in 1 .. Len(text) + 1 /\ text[i] \in Int
      BY <1>1
    <2>2. rest[k] \in Seq(Int) /\ rest[i] = <<text[i]>> \o rest[k]
      BY <1>2, <1>4, <2>1
    <2> HIDE DEF k
    <2>3. /\ rest[i] \in Seq(Int) /\ Len(rest[i]) = Len(rest[k]) + 1 /\ rest[i][1] = text[i]
          /\ \A x \in 1 .. Len(rest[k]) : rest[i][x + 1] = rest[k][x]
      BY <2>1, <2>2, OneMore
    <2>4. GoesOn(text, piece, rest, i, k, text[i])
      BY <1>4, <2>2, <2>3 DEF GoesOn, k
    <2> QED BY <2>1, <2>4
  <1> QED BY <1>3, <1>4

\* The beginning of what a scan leaves is the text's, as far as no mark stands in it.
LeftFrom(text, rest, i) ==
    \A m \in 0 .. Len(rest[i]) :
        (\A x \in 1 .. m : rest[i][x] # Redacted)
        => i + m - 1 <= Len(text) /\ \A x \in 1 .. m : text[i + x - 1] = rest[i][x]

LEMMA LeftFromHere ==
  ASSUME NEW text \in Seq(Int), NEW piece \in Seq(Int), Len(piece) >= 1, Redacted \in Int,
         NEW rest, Scans(text, piece, rest)
  PROVE  \A i \in 1 .. Len(text) + 1 : LeftFrom(text, rest, i)
  <1> DEFINE L == Len(text)
             Good(i) == \A m \in 0 .. Len(rest[i]) :
                           (\A x \in 1 .. m : rest[i][x] # Redacted)
                           => /\ i + m - 1 <= Len(text)
                              /\ \A x \in 1 .. m : text[i + x - 1] = rest[i][x]
  <1>1. L \in Nat
    OBVIOUS
  <1>2. Good(L + 1)
    <2>1. rest[L + 1] = <<>> /\ Len(<<>>) = 0
      BY DEF Scans
    <2> QED BY <2>1, <1>1
  <1>3. ASSUME NEW i \in 1 .. L, \A k \in i + 1 .. L + 1 : Good(k)
        PROVE  Good(i)
    <2>0. PICK k \in i + 1 .. L + 1, c \in Int : GoesOn(text, piece, rest, i, k, c)
      <3> HIDE DEF Good
      <3> QED BY ScanStep
    <2>1. /\ rest[i] \in Seq(Int) /\ rest[k] \in Seq(Int)
          /\ Len(rest[i]) = Len(rest[k]) + 1 /\ rest[i][1] = c
          /\ \A x \in 1 .. Len(rest[k]) : rest[i][x + 1] = rest[k][x]
          /\ IF StandsAt(text, piece, i) THEN k = i + Len(piece) /\ c = Redacted
             ELSE k = i + 1 /\ c = text[i]
      <3> HIDE DEF Good
      <3> QED BY <2>0 DEF GoesOn
    <2> SUFFICES ASSUME NEW m \in 0 .. Len(rest[i]), \A x \in 1 .. m : rest[i][x] # Redacted
                 PROVE  /\ i + m - 1 <= L
                        /\ \A x \in 1 .. m : text[i + x - 1] = rest[i][x]
      OBVIOUS
    <2>2. CASE m = 0
      <3>1. i + m - 1 <= L
        BY <2>2, <1>1
      <3>2. \A x \in 1 .. m : FALSE
        BY <2>2
      <3> QED BY <3>1, <3>2
    <2>3. CASE m # 0
      <3>1. Len(rest[k]) \in Nat /\ m \in Nat /\ m >= 1 /\ m - 1 \in 0 .. Len(rest[k])
        <4>1. rest[k] \in Seq(Int) /\ Len(rest[i]) = Len(rest[k]) + 1
          BY <2>1
        <4>2. Len(rest[k]) \in Nat
          BY ONLY <4>1
        <4> QED BY ONLY <4>1, <4>2, <2>3, m \in 0 .. Len(rest[i])
      <3>2. c # Redacted
        <4>1. 1 \in 1 .. m
          BY <3>1
        <4> QED BY <4>1, <2>1
      <3>3. k = i + 1 /\ c = text[i]
        BY <2>1, <3>2
      <3>4. ASSUME NEW x \in 1 .. m - 1 PROVE rest[k][x] # Redacted /\ rest[k][x] = rest[i][x + 1]
        <4>1. x \in 1 .. Len(rest[k]) /\ x + 1 \in 1 .. m
          BY <3>1
        <4> QED BY <4>1, <2>1
      <3>5. /\ k + (m - 1) - 1 <= L
            /\ \A x \in 1 .. m - 1 : text[k + x - 1] = rest[k][x]
        <4>1. Good(k)
          BY <1>3, <2>1
        <4> QED BY <4>1, <3>1, <3>4
      <3>6. i + m - 1 <= L
        BY <3>1, <3>3, <3>5, <1>1
      <3>7. ASSUME NEW x \in 1 .. m PROVE text[i + x - 1] = rest[i][x]
        <4>1. CASE x = 1
          <5>1. i + x - 1 = i
            BY <4>1
          <5> QED BY <5>1, <4>1, <2>1, <3>3
        <4>2. CASE x # 1
          <5>1. x - 1 \in 1 .. m - 1 /\ (x - 1) + 1 = x /\ k + (x - 1) - 1 = i + x - 1
            BY <3>1, <3>3, <4>2
          <5>2. text[k + (x - 1) - 1] = rest[k][x - 1] /\ rest[k][x - 1] = rest[i][(x - 1) + 1]
            BY <5>1, <3>4, <3>5
          <5> QED BY <5>1, <5>2
        <4> QED BY <4>1, <4>2
      <3> QED BY <3>6, <3>7
    <2> QED BY <2>2, <2>3
  <1> HIDE DEF Good
  <1> DEFINE Goods == {i \in 1 .. L + 1 : Good(i)}
  <1>4. L + 1 \in Goods /\ \A i \in 1 .. L : (\A k \in i + 1 .. L + 1 : k \in Goods) => i \in Goods
    BY <1>1, <1>2, <1>3
  <1>5. \A i \in 1 .. L + 1 : i \in Goods
    <2> HIDE DEF Goods
    <2> QED BY <1>1, <1>4, FromTheEnd
  <1>6. \A i \in 1 .. L + 1 : Good(i)
    BY <1>5
  <1> QED BY <1>6 DEF Good, LeftFrom

\* SplitAndJoin: what stands in the text that is left, and holds no mark, stood in the
\* text before, and is another piece than the one that was taken out.
LEMMA StoodBefore ==
  ASSUME NEW text \in Seq(Int), NEW piece \in Seq(Int), Len(piece) >= 1, Redacted \in Int,
         NEW rest, Scans(text, piece, rest),
         NEW q \in Seq(Int), Len(q) >= 1, Redacted \notin Range(q)
  PROVE  \A i \in 1 .. Len(text) + 1 : \A k \in Nat \ {0} :
            StandsAt(rest[i], q, k)
            => \E j \in 1 .. Len(text) : StandsAt(text, q, j) /\ ~StandsAt(text, piece, j)
  <1> DEFINE L == Len(text)
             Good(i) == \A k \in Nat \ {0} :
                          StandsAt(rest[i], q, k)
                          => \E j \in 1 .. L : StandsAt(text, q, j) /\ ~StandsAt(text, piece, j)
  <1>1. L \in Nat /\ Len(q) \in Nat
    OBVIOUS
  <1>2. Good(L + 1)
    <2>1. rest[L + 1] = <<>> /\ Len(<<>>) = 0
      BY DEF Scans
    <2> QED BY <2>1, <1>1 DEF StandsAt
  <1>3. ASSUME NEW i \in 1 .. L, \A k \in i + 1 .. L + 1 : Good(k)
        PROVE  Good(i)
    <2>1. PICK k \in i + 1 .. L + 1, c \in Int : GoesOn(text, piece, rest, i, k, c)
      <3> HIDE DEF Good
      <3> QED BY ScanStep
    <2> SUFFICES ASSUME NEW at \in Nat \ {0}, StandsAt(rest[i], q, at)
                 PROVE  \E j \in 1 .. L : StandsAt(text, q, j) /\ ~StandsAt(text, piece, j)
      OBVIOUS
    <2>2. /\ rest[i] \in Seq(Int) /\ rest[k] \in Seq(Int)
          /\ Len(rest[i]) = Len(rest[k]) + 1 /\ rest[i][1] = c
          /\ \A x \in 1 .. Len(rest[k]) : rest[i][x + 1] = rest[k][x]
          /\ StandsAt(text, piece, i) => c = Redacted
      <3> HIDE DEF Good
      <3> QED BY <2>1 DEF GoesOn
    <2>3. at + Len(q) - 1 <= Len(rest[i]) /\ \A m \in 1 .. Len(q) : rest[i][at + m - 1] = q[m]
      BY DEF StandsAt
    <2>4. Len(rest[k]) \in Nat
      <3>1. rest[k] \in Seq(Int)
        BY ONLY <2>2
      <3> QED BY ONLY <3>1
    <2>5. \A m \in 1 .. Len(q) : q[m] # Redacted
      BY DEF Range
    <2>6. CASE at = 1
      <3> HIDE DEF Good
      <3>1. \A m \in 1 .. Len(q) : rest[i][m] = q[m]
        <4>1. \A m \in 1 .. Len(q) : at + m - 1 = m
          BY <2>6
        <4> QED BY <4>1, <2>3
      <3>2. Len(q) \in 0 .. Len(rest[i])
        BY <2>2, <2>3, <2>6, <1>1
      <3>3. \A x \in 1 .. Len(q) : rest[i][x] # Redacted
        BY <3>1, <2>5
      <3>4. i + Len(q) - 1 <= L /\ \A x \in 1 .. Len(q) : text[i + x - 1] = rest[i][x]
        <4>1. i \in 1 .. L + 1
          BY <1>1
        <4>2. \A m \in 0 .. Len(rest[i]) :
                (\A x \in 1 .. m : rest[i][x] # Redacted)
                => /\ i + m - 1 <= Len(text)
                   /\ \A x \in 1 .. m : text[i + x - 1] = rest[i][x]
          <5>1. \A p \in 1 .. Len(text) + 1 : LeftFrom(text, rest, p)
            BY LeftFromHere
          <5> QED BY ONLY <4>1, <5>1 DEF LeftFrom
        <4> QED BY <4>2, <3>2, <3>3
      <3>5. StandsAt(text, q, i)
        BY <3>1, <3>4 DEF StandsAt
      <3>6. ~StandsAt(text, piece, i)
        <4>1. 1 \in 1 .. Len(q)
          BY <1>1
        <4> QED BY <4>1, <3>3, <2>2
      <3> QED BY <3>5, <3>6
    <2>7. CASE at # 1
      <3>1. at - 1 \in Nat \ {0}
        BY <2>7
      <3>2. StandsAt(rest[k], q, at - 1)
        <4> HIDE DEF Good
        <4>1. (at - 1) + Len(q) - 1 <= Len(rest[k])
          BY <2>2, <2>3, <1>1
        <4>2. ASSUME NEW m \in 1 .. Len(q) PROVE rest[k][(at - 1) + m - 1] = q[m]
          <5>1. (at - 1) + m - 1 \in 1 .. Len(rest[k]) /\ ((at - 1) + m - 1) + 1 = at + m - 1
            <6>1. at \in Nat /\ at >= 2 /\ m \in Nat /\ m >= 1 /\ m <= Len(q) /\ Len(q) \in Nat
              BY <3>1, <1>1, <2>7
            <6> QED BY ONLY <4>1, <6>1, <2>4
          <5>2. rest[i][((at - 1) + m - 1) + 1] = rest[k][(at - 1) + m - 1]
            BY <5>1, <2>2
          <5> QED BY <5>1, <5>2, <2>3
        <4> QED BY <4>1, <4>2 DEF StandsAt
      <3>3. Good(k)
        BY <1>3
      <3> QED BY <3>1, <3>2, <3>3
    <2> QED BY <2>6, <2>7
  <1> HIDE DEF Good
  <1> DEFINE Goods == {i \in 1 .. L + 1 : Good(i)}
  <1>4. L + 1 \in Goods /\ \A i \in 1 .. L : (\A k \in i + 1 .. L + 1 : k \in Goods) => i \in Goods
    BY <1>1, <1>2, <1>3
  <1>5. \A i \in 1 .. L + 1 : i \in Goods
    <2> HIDE DEF Goods
    <2> QED BY <1>1, <1>4, FromTheEnd
  <1>6. \A i \in 1 .. L + 1 : Good(i)
    BY <1>5
  <1> QED BY <1>6 DEF Good

LEMMA SplitAndJoinTakesOut ==
  ASSUME NEW text \in Seq(Int), NEW piece \in Seq(Int), Len(piece) >= 1, Redacted \in Int
  PROVE  /\ SplitAndJoin(text, piece) \in Seq(Int)
         /\ \A q \in Seq(Int) : /\ Len(q) >= 1 /\ Redacted \notin Range(q)
                                /\ Occurs(q, SplitAndJoin(text, piece))
                                => Occurs(q, text) /\ q # piece
  <1>1. PICK rest : Scans(text, piece, rest) /\ SplitAndJoin(text, piece) = rest[1]
    BY SplitAndJoinScans
  <1>2. 1 \in 1 .. Len(text) + 1
    OBVIOUS
  <1>3. rest[1] \in Seq(Int)
    BY <1>1, <1>2 DEF Scans
  <1>4. ASSUME NEW q \in Seq(Int), Len(q) >= 1, Redacted \notin Range(q),
               Occurs(q, SplitAndJoin(text, piece))
        PROVE  Occurs(q, text) /\ q # piece
    <2>1. PICK k \in Nat \ {0} : StandsAt(rest[1], q, k)
      BY <1>1, <1>3, <1>4, OccursSomewhere
    <2>2. PICK j \in 1 .. Len(text) : StandsAt(text, q, j) /\ ~StandsAt(text, piece, j)
      BY <1>1, <1>2, <1>4, <2>1, StoodBefore
    <2>3. j \in Nat \ {0}
      OBVIOUS
    <2> QED BY <1>4, <2>2, <2>3, OccursSomewhere
  <1> QED BY <1>1, <1>3, <1>4

\* What there is not in a text is not taken out of it.
LEMMA NothingToTakeOut ==
  ASSUME NEW text \in Seq(Int), NEW piece \in Seq(Int), Len(piece) >= 1, Redacted \in Int,
         \A i \in Nat \ {0} : ~StandsAt(text, piece, i)
  PROVE  SplitAndJoin(text, piece) = text
  <1> DEFINE L == Len(text)
  <1>1. PICK rest : Scans(text, piece, rest) /\ SplitAndJoin(text, piece) = rest[1]
    BY SplitAndJoinScans
  <1>2. L \in Nat
    OBVIOUS
  <1> DEFINE Good(i) == /\ rest[i] \in Seq(Int) /\ Len(rest[i]) = L - i + 1
                        /\ \A x \in 1 .. L - i + 1 : rest[i][x] = text[i + x - 1]
             Goods == {i \in 1 .. L + 1 : Good(i)}
  <1>3. Good(L + 1)
    <2>1. rest[L + 1] = <<>> /\ Len(<<>>) = 0 /\ <<>> \in Seq(Int)
      BY <1>1 DEF Scans
    <2> QED BY <2>1, <1>2
  <1>4. ASSUME NEW i \in 1 .. L, \A k \in i + 1 .. L + 1 : Good(k)
        PROVE  Good(i)
    <2>1. PICK k \in i + 1 .. L + 1, c \in Int : GoesOn(text, piece, rest, i, k, c)
      <3> HIDE DEF Good
      <3> QED BY <1>1, ScanStep
    <2>2. ~StandsAt(text, piece, i)
      OBVIOUS
    <2>3. /\ rest[i] \in Seq(Int) /\ rest[k] \in Seq(Int)
          /\ Len(rest[i]) = Len(rest[k]) + 1 /\ rest[i][1] = text[i]
          /\ \A x \in 1 .. Len(rest[k]) : rest[i][x + 1] = rest[k][x]
          /\ k = i + 1
      <3> HIDE DEF Good
      <3> QED BY <2>1, <2>2 DEF GoesOn
    <2>4. Len(rest[k]) = L - k + 1 /\ \A x \in 1 .. L - k + 1 : rest[k][x] = text[k + x - 1]
      BY <1>4
    <2>5. Len(rest[i]) = L - i + 1
      BY <2>3, <2>4, <1>2
    <2>6. ASSUME NEW x \in 1 .. L - i + 1 PROVE rest[i][x] = text[i + x - 1]
      <3>1. CASE x = 1
        <4>1. i + x - 1 = i
          BY <3>1
        <4> QED BY <4>1, <3>1, <2>3
      <3>2. CASE x # 1
        <4>1. x - 1 \in 1 .. L - k + 1 /\ (x - 1) + 1 = x /\ k + (x - 1) - 1 = i + x - 1
          BY <3>2, <2>3, <1>2
        <4>2. rest[i][(x - 1) + 1] = rest[k][x - 1] /\ rest[k][x - 1] = text[k + (x - 1) - 1]
          BY <4>1, <2>3, <2>4
        <4> QED BY <4>1, <4>2
      <3> QED BY <3>1, <3>2
    <2> QED BY <2>3, <2>5, <2>6
  <1> HIDE DEF Good
  <1>5. L + 1 \in Goods /\ \A i \in 1 .. L : (\A k \in i + 1 .. L + 1 : k \in Goods) => i \in Goods
    BY <1>2, <1>3, <1>4
  <1>6. \A i \in 1 .. L + 1 : i \in Goods
    <2> HIDE DEF Goods
    <2> QED BY <1>2, <1>5, FromTheEnd
  <1>7. Good(1)
    BY <1>2, <1>6
  <1>8. rest[1] \in Seq(Int) /\ Len(rest[1]) = L /\ \A x \in 1 .. L : rest[1][x] = text[x]
    <2>1. \A x \in 1 .. L : 1 + x - 1 = x /\ x \in 1 .. L - 1 + 1
      BY <1>2
    <2> QED BY <1>7, <1>2, <2>1 DEF Good
  <1>9. rest[1] = text
    BY <1>8, SeqEqual
  <1> QED BY <1>1, <1>9

\* A piece stands once, at j, and what is in K stands nowhere else.
Alone(text, piece, j, K) ==
    /\ \A i \in Nat \ {0} : StandsAt(text, piece, i) <=> i = j
    /\ \A i \in 1 .. Len(text) : text[i] \in K => i >= j /\ i < j + Len(piece)

\* Then nothing of K stays.
LEMMA TakenOutWhole ==
  ASSUME NEW text \in Seq(Int), NEW piece \in Seq(Int), Len(piece) >= 1, Redacted \in Int,
         NEW K, Redacted \notin K, NEW j \in Nat \ {0}, Alone(text, piece, j, K)
  PROVE  Range(SplitAndJoin(text, piece)) \cap K = {}
  <1> DEFINE L == Len(text)
             n == Len(piece)
  <1>1. PICK rest : Scans(text, piece, rest) /\ SplitAndJoin(text, piece) = rest[1]
    BY SplitAndJoinScans
  <1>2. L \in Nat /\ n \in Nat /\ n >= 1
    OBVIOUS
  <1> DEFINE Good(i) == (i <= j \/ i >= j + n) => \A x \in 1 .. Len(rest[i]) : rest[i][x] \notin K
             Goods == {i \in 1 .. L + 1 : Good(i)}
  <1>3. Good(L + 1)
    <2>1. rest[L + 1] = <<>> /\ Len(<<>>) = 0
      BY <1>1 DEF Scans
    <2> QED BY <2>1
  <1>4. ASSUME NEW i \in 1 .. L, \A k \in i + 1 .. L + 1 : Good(k)
        PROVE  Good(i)
    <2>1. PICK k \in i + 1 .. L + 1, c \in Int : GoesOn(text, piece, rest, i, k, c)
      <3> HIDE DEF Good
      <3> QED BY <1>1, ScanStep
    <2> SUFFICES ASSUME i <= j \/ i >= j + n PROVE \A x \in 1 .. Len(rest[i]) : rest[i][x] \notin K
      OBVIOUS
    <2>2. StandsAt(text, piece, i) <=> i = j
      BY DEF Alone
    <2>3. /\ rest[i] \in Seq(Int) /\ rest[k] \in Seq(Int)
          /\ Len(rest[i]) = Len(rest[k]) + 1 /\ rest[i][1] = c
          /\ \A x \in 1 .. Len(rest[k]) : rest[i][x + 1] = rest[k][x]
          /\ i = j => k = i + n /\ c = Redacted
          /\ i # j => k = i + 1 /\ c = text[i]
      <3> HIDE DEF Good
      <3> QED BY <2>1, <2>2 DEF GoesOn
    <2>4. c \notin K /\ (k <= j \/ k >= j + n)
      <3> HIDE DEF Good
      <3>1. CASE i = j
        BY <3>1, <2>3, <1>2
      <3>2. CASE i # j
        <4>1. ~(i >= j /\ i < j + n)
          BY <3>2, <1>2
        <4>2. text[i] \notin K
          BY <4>1 DEF Alone
        <4>3. c = text[i] /\ k = i + 1
          BY <3>2, <2>3
        <4>4. k <= j \/ k >= j + n
          BY <3>2, <4>1, <4>3, <1>2
        <4> QED BY <4>2, <4>3, <4>4
      <3> QED BY <3>1, <3>2
    <2>5. \A x \in 1 .. Len(rest[k]) : rest[k][x] \notin K
      BY <1>4, <2>4
    <2>6. ASSUME NEW x \in 1 .. Len(rest[i]) PROVE rest[i][x] \notin K
      <3> HIDE DEF Good
      <3>1. CASE x = 1
        BY <3>1, <2>3, <2>4
      <3>2. CASE x # 1
        <4>1. x - 1 \in 1 .. Len(rest[k]) /\ (x - 1) + 1 = x
          BY <3>2, <2>3
        <4> QED BY <4>1, <2>3, <2>5
      <3> QED BY <3>1, <3>2
    <2> QED BY <2>6
  <1> HIDE DEF Good
  <1>5. L + 1 \in Goods /\ \A i \in 1 .. L : (\A k \in i + 1 .. L + 1 : k \in Goods) => i \in Goods
    BY <1>2, <1>3, <1>4
  <1>6. \A i \in 1 .. L + 1 : i \in Goods
    <2> HIDE DEF Goods
    <2> QED BY <1>2, <1>5, FromTheEnd
  <1>7. Good(1) /\ rest[1] \in Seq(Int)
    BY <1>1, <1>2, <1>6 DEF Scans
  <1>8. \A x \in 1 .. Len(rest[1]) : rest[1][x] \notin K
    BY <1>7 DEF Good
  <1> QED BY <1>1, <1>7, <1>8 DEF Range

\* The rows RedactSecret goes through: the runs of each length, long ones first.
Rows(secret) ==
    LET lengths == [i \in 1 .. Len(secret) - MinRedactable + 1 |-> Len(secret) - i + 1]
    IN  [i \in DOMAIN lengths |-> Pieces(secret, lengths[i])]

LEMMA RowsRedact ==
  ASSUME NEW text, NEW secret
  PROVE  RedactSecret(text, secret) = Redacting!Folded(0, text, FlattenSeq(Rows(secret)))
  BY DEF RedactSecret, Rows, Redacting!Folded, FoldLeft, MapThenFoldSet, Max, Redacting!FoldLeft, Redacting!MapThenFoldSet, Redacting!Max

LEMMA RunsOfSecret ==
  ASSUME NEW secret \in Seq(Int), NEW n \in 1 .. Len(secret)
  PROVE  /\ Pieces(secret, n) \in Seq(Seq(Int)) /\ Len(Pieces(secret, n)) = Len(secret) - n + 1
         /\ \A i \in 1 .. Len(secret) - n + 1 :
               /\ Pieces(secret, n)[i] = SubSeq(secret, i, i + n - 1)
               /\ Pieces(secret, n)[i] \in Seq(Int) /\ Len(Pieces(secret, n)[i]) = n
               /\ \A m \in 1 .. n : Pieces(secret, n)[i][m] \in Range(secret)
  <1> DEFINE L == Len(secret)
             N == L - n + 1
             P == Pieces(secret, n)
  <1>1. L \in Nat /\ n \in Nat /\ n >= 1 /\ n <= L /\ N \in Nat
    OBVIOUS
  <1>2. P = [i \in 1 .. N |-> SubSeq(secret, i, i + n - 1)]
    BY DEF Pieces
  <1>3. ASSUME NEW i \in 1 .. N
        PROVE  /\ SubSeq(secret, i, i + n - 1) \in Seq(Int) /\ Len(SubSeq(secret, i, i + n - 1)) = n
               /\ \A m \in 1 .. n : SubSeq(secret, i, i + n - 1)[m] \in Range(secret)
    <2>1. \A m \in i .. (i + n - 1) : m \in 1 .. L
      BY <1>1
    <2>2. \A m \in 1 .. n : m + i - 1 \in 1 .. L
      BY <1>1
    <2>3. SubSeq(secret, i, i + n - 1) = [m \in 1 .. n |-> secret[m + i - 1]]
      BY <1>1, <2>1
    <2>4. \A m \in 1 .. n : secret[m + i - 1] \in Int /\ secret[m + i - 1] \in Range(secret)
      BY <2>2, <1>1 DEF Range
    <2> QED BY <2>3, <2>4, <1>1
  <1> HIDE DEF P, N
  <1>4. P \in Seq(Seq(Int)) /\ Len(P) = N
    <2>1. \A i \in 1 .. N : P[i] \in Seq(Int)
      BY <1>2, <1>3
    <2>2. P \in [1 .. N -> Seq(Int)]
      BY <1>2, <2>1
    <2> QED BY <1>1, <2>2
  <1>5. \A i \in 1 .. N : P[i] = SubSeq(secret, i, i + n - 1)
    BY <1>2
  <1> QED BY <1>3, <1>4, <1>5 DEF P, N

\* What is taken out of a text, and in which order.
Order(secret, list) ==
    /\ list \in Seq(Seq(Int))
    /\ \A a \in 1 .. Len(list) : /\ Len(list[a]) \in MinRedactable .. Len(secret)
                                 /\ Range(list[a]) \subseteq Range(secret)
    /\ \A a, b \in 1 .. Len(list) : a <= b => Len(list[a]) >= Len(list[b])
    /\ \A n \in MinRedactable .. Len(secret) : \A i \in 1 .. Len(secret) - n + 1 :
          \E a \in 1 .. Len(list) : list[a] = SubSeq(secret, i, i + n - 1)

LEMMA LongPiecesFirst ==
  ASSUME NEW secret \in Seq(Int), MinRedactable \in Nat \ {0}
  PROVE  Order(secret, FlattenSeq(Rows(secret)))
  <1> DEFINE L == Len(secret)
             M == MinRedactable
             N == L - M + 1
             rows == Rows(secret)
             list == FlattenSeq(rows)
  <1>1. L \in Nat /\ M \in Nat /\ M >= 1 /\ N \in Int
    OBVIOUS
  <1>2. rows = [i \in 1 .. N |-> Pieces(secret, L - i + 1)]
    BY DEF Rows
  <1>3. ASSUME NEW i \in 1 .. N
        PROVE  /\ L - i + 1 \in 1 .. L /\ L - i + 1 >= M /\ rows[i] = Pieces(secret, L - i + 1)
               /\ rows[i] \in Seq(Seq(Int)) /\ Len(rows[i]) = i
    <2>1. L - i + 1 \in 1 .. L /\ L - i + 1 >= M /\ L - (L - i + 1) + 1 = i
      BY <1>1
    <2>2. rows[i] = Pieces(secret, L - i + 1)
      BY <1>2
    <2> QED BY <2>1, <2>2, RunsOfSecret
  <1>4. rows \in Seq(Seq(Seq(Int))) /\ \A i \in 1 .. Len(rows) : i \in 1 .. N
    <2>1. CASE N >= 0
      <3> HIDE DEF N, M, L
      <3>1. rows = [i \in 1 .. N |-> rows[i]]
        BY <1>2
      <3> HIDE DEF rows
      <3>2. rows \in Seq(Seq(Seq(Int))) /\ Len(rows) = N
        <4>1. \A i \in 1 .. N : rows[i] \in Seq(Seq(Int))
          BY <1>3
        <4>2. rows \in [1 .. N -> Seq(Seq(Int))]
          BY <3>1, <4>1
        <4>3. N \in Nat
          BY <1>1, <2>1
        <4> QED BY <4>2, <4>3
      <3> QED BY <3>2
    <2>2. CASE N < 0
      <3>1. 1 .. N = {} /\ 1 .. 0 = {}
        BY <1>1, <2>2
      <3> HIDE DEF N, L, M
      <3>2. rows = [i \in 1 .. 0 |-> <<>>]
        BY <1>2, <3>1
      <3> HIDE DEF rows
      <3>3. rows \in Seq(Seq(Seq(Int))) /\ Len(rows) = 0
        BY <3>2
      <3> QED BY <3>3
    <2> QED BY <1>1, <2>1, <2>2
  <1>5. \A i \in 1 .. N : N >= 0 /\ i \in 1 .. Len(rows)
    <2> SUFFICES ASSUME NEW i \in 1 .. N PROVE N >= 0 /\ i \in 1 .. Len(rows)
      OBVIOUS
    <2>1. N \in Nat
      BY <1>1
    <2>2. Len(rows) \in Nat /\ DOMAIN rows = 1 .. Len(rows)
      <3> HIDE DEF rows
      <3> QED BY <1>4
    <2>3. DOMAIN rows = 1 .. N
      BY <1>2
    <2> HIDE DEF rows, N
    <2> QED BY <2>1, <2>2, <2>3
  <1> HIDE DEF rows, N, L, M
  <1>6. PICK row : FlatOf(rows, Seq(Int), list, row, Len(rows))
    BY <1>4, FlattenedRows
  <1> HIDE DEF list
  <1>7. /\ list \in Seq(Seq(Int)) /\ row \in [1 .. Len(list) -> 1 .. Len(rows)]
        /\ \A a, b \in 1 .. Len(list) : a <= b => row[a] <= row[b]
        /\ \A a \in 1 .. Len(list) : \E m \in 1 .. Len(rows[row[a]]) : list[a] = rows[row[a]][m]
        /\ \A i \in 1 .. Len(rows) : \A m \in 1 .. Len(rows[i]) : \E a \in 1 .. Len(list) : list[a] = rows[i][m]
    BY <1>6 DEF FlatOf
  <1>8. ASSUME NEW a \in 1 .. Len(list)
        PROVE  row[a] \in 1 .. N /\ Len(list[a]) = L - row[a] + 1 /\ Range(list[a]) \subseteq Range(secret)
    <2>1. row[a] \in 1 .. N
      BY <1>4, <1>7
    <2> DEFINE n == L - row[a] + 1
    <2>2. n \in 1 .. L /\ rows[row[a]] = Pieces(secret, n) /\ Len(rows[row[a]]) = L - n + 1
      <3>1. row[a] = L - (L - row[a] + 1) + 1
        BY <1>1, <2>1
      <3> QED BY <2>1, <1>3, <3>1
    <2>3. PICK m \in 1 .. Len(rows[row[a]]) : list[a] = rows[row[a]][m]
      BY <1>7
    <2> HIDE DEF n
    <2>4. /\ Pieces(secret, n)[m] \in Seq(Int) /\ Len(Pieces(secret, n)[m]) = n
          /\ \A x \in 1 .. n : Pieces(secret, n)[m][x] \in Range(secret)
      BY <2>2, <2>3, RunsOfSecret DEF L
    <2>5. list[a] \in Seq(Int) /\ Len(list[a]) = n /\ \A x \in 1 .. n : list[a][x] \in Range(secret)
      BY <2>2, <2>3, <2>4
    <2>6. Range(list[a]) \subseteq Range(secret)
      <3> DEFINE K == Range(secret)
      <3>1. DOMAIN list[a] = 1 .. n /\ \A x \in 1 .. n : list[a][x] \in K
        BY <2>5
      <3> HIDE DEF K
      <3>2. Range(list[a]) \subseteq K
        BY <3>1 DEF Range
      <3> QED BY <3>2 DEF K
    <2> QED BY <2>1, <2>5, <2>6 DEF n
  <1>9. ASSUME NEW a \in 1 .. Len(list) PROVE Len(list[a]) \in M .. L /\ Range(list[a]) \subseteq Range(secret)
    <2>1. row[a] \in 1 .. N /\ Len(list[a]) = L - row[a] + 1 /\ Range(list[a]) \subseteq Range(secret)
      BY <1>8
    <2>2. L - row[a] + 1 \in 1 .. L /\ L - row[a] + 1 >= M
      BY <1>3, <2>1
    <2>3. L - row[a] + 1 \in M .. L
      BY <2>2, <1>1
    <2> QED BY <2>1, <2>3
  <1>10. ASSUME NEW a \in 1 .. Len(list), NEW b \in 1 .. Len(list), a <= b PROVE Len(list[a]) >= Len(list[b])
    <2>1. row[a] <= row[b] /\ row[a] \in Int /\ row[b] \in Int
      <3>1. row[a] \in 1 .. N /\ row[b] \in 1 .. N
        BY <1>8
      <3>2. row[a] <= row[b]
        BY <1>7, <1>10
      <3> QED BY <3>1, <3>2
    <2>2. Len(list[a]) = L - row[a] + 1 /\ Len(list[b]) = L - row[b] + 1
      BY <1>8
    <2> QED BY <2>1, <2>2, <1>1
  <1>11. ASSUME NEW n \in M .. L, NEW i \in 1 .. L - n + 1
         PROVE  \E a \in 1 .. Len(list) : list[a] = SubSeq(secret, i, i + n - 1)
    <2> DEFINE r == L - n + 1
    <2>1. r \in 1 .. N /\ L - r + 1 = n /\ n \in 1 .. L /\ n \in Nat
      BY <1>1 DEF N
    <2>2. r \in 1 .. Len(rows) /\ rows[r] = Pieces(secret, n) /\ Len(rows[r]) = r
      BY <2>1, <1>3, <1>5
    <2>3. rows[r][i] = SubSeq(secret, i, i + n - 1)
      <3>1. n \in 1 .. Len(secret) /\ i \in 1 .. Len(secret) - n + 1
        BY <2>1 DEF L
      <3>2. Pieces(secret, n)[i] = SubSeq(secret, i, i + n - 1)
        BY <3>1, RunsOfSecret
      <3> HIDE DEF r
      <3> QED BY <2>2, <3>2
    <2> HIDE DEF r
    <2>4. i \in 1 .. Len(rows[r])
      BY <2>2 DEF r
    <2>5. \A e \in 1 .. Len(rows) : \A m \in 1 .. Len(rows[e]) : \E a \in 1 .. Len(list) : list[a] = rows[e][m]
      BY <1>7
    <2>6. \E a \in 1 .. Len(list) : list[a] = rows[r][i]
      BY <2>2, <2>4, <2>5
    <2> QED BY <2>3, <2>6
  <1> QED BY <1>7, <1>9, <1>10, <1>11 DEF Order, list, rows, L, M

\* The texts RedactSecret goes through, one for each piece.
Redactions(secret, text, list, along) ==
    /\ along[0] = text
    /\ \A k \in 1 .. Len(list) : along[k] = SplitAndJoin(along[k - 1], list[k])
    /\ RedactSecret(text, secret) = along[Len(list)]

LEMMA RedactionsGoAlong ==
  ASSUME NEW secret \in Seq(Int), NEW text, MinRedactable \in Nat \ {0}
  PROVE  \E list, along : Order(secret, list) /\ Redactions(secret, text, list, along)
  <1> DEFINE list == FlattenSeq(Rows(secret))
  <1>1. Order(secret, list)
    BY LongPiecesFirst
  <1>2. RedactSecret(text, secret) = Redacting!Folded(0, text, list)
    BY RowsRedact
  <1> HIDE DEF list
  <1>3. list \in Seq(Seq(Int))
    BY <1>1 DEF Order
  <1>4. PICK along : Redacting!Along(0, text, list, along)
    BY <1>3, Redacting!FoldGoesAlong
  <1>5. Redactions(secret, text, list, along)
    BY <1>2, <1>4 DEF Redactions, Redacting!Along
  <1> QED BY <1>1, <1>5

LEMMA RedactTakesOut ==
  ASSUME NEW secret \in Seq(Int), Redacted \notin Range(secret), Redacted \in Int,
         MinRedactable \in Nat \ {0}, NEW text \in Seq(Int)
  PROVE  \A n \in MinRedactable .. Len(secret) :
            \A piece \in Range(Pieces(secret, n)) : ~Occurs(piece, RedactSecret(text, secret))
  <1>1. PICK list, along : Order(secret, list) /\ Redactions(secret, text, list, along)
    BY RedactionsGoAlong
  <1>2. /\ list \in Seq(Seq(Int)) /\ Len(list) \in Nat
        /\ along[0] = text /\ RedactSecret(text, secret) = along[Len(list)]
    BY <1>1 DEF Order, Redactions
  <1>3. ASSUME NEW a \in 1 .. Len(list)
        PROVE  list[a] \in Seq(Int) /\ Len(list[a]) >= 1 /\ Redacted \notin Range(list[a])
    <2>1. Len(list[a]) \in MinRedactable .. Len(secret) /\ Range(list[a]) \subseteq Range(secret)
      BY <1>1 DEF Order
    <2> QED BY <1>2, <2>1
  <1> DEFINE Good(k) == along[k] \in Seq(Int) /\ \A a \in 1 .. k : ~Occurs(list[a], along[k])
             T == {k \in Nat : k <= Len(list) => Good(k)}
  <1>4. 0 \in T
    BY <1>2
  <1>5. ASSUME NEW k \in Nat, k \in T PROVE k + 1 \in T
    <2> SUFFICES ASSUME k + 1 <= Len(list) PROVE Good(k + 1)
      OBVIOUS
    <2>1. Good(k)
      BY <1>2, <1>5
    <2>2. k + 1 \in 1 .. Len(list) /\ (k + 1) - 1 = k
      BY <1>2
    <2>3. along[k + 1] = SplitAndJoin(along[k], list[k + 1])
      BY <1>1, <2>2 DEF Redactions
    <2>4. along[k + 1] \in Seq(Int)
      BY <1>3, <2>1, <2>2, <2>3, SplitAndJoinTakesOut
    <2>5. ASSUME NEW a \in 1 .. k + 1, Occurs(list[a], along[k + 1]) PROVE FALSE
      <3>1. a \in 1 .. Len(list) /\ (a \in 1 .. k \/ a = k + 1)
        BY <1>2
      <3>2. list[a] \in Seq(Int) /\ Len(list[a]) >= 1 /\ Redacted \notin Range(list[a])
        BY <1>3, <3>1
      <3>3. list[k + 1] \in Seq(Int) /\ Len(list[k + 1]) >= 1
        BY <1>3, <2>2
      <3> DEFINE q == list[a]
      <3>4. \A r \in Seq(Int) : /\ Len(r) >= 1 /\ Redacted \notin Range(r)
                                /\ Occurs(r, SplitAndJoin(along[k], list[k + 1]))
                                => Occurs(r, along[k]) /\ r # list[k + 1]
        BY <2>1, <3>3, SplitAndJoinTakesOut
      <3>5. Occurs(list[a], along[k]) /\ list[a] # list[k + 1]
        BY <2>3, <2>5, <3>2, <3>4
      <3> QED BY <2>1, <3>1, <3>5
    <2> QED BY <2>4, <2>5
  <1>6. Len(list) \in T
    <2> HIDE DEF T
    <2> QED BY <1>2, <1>4, <1>5, CountingUp
  <1>7. \A a \in 1 .. Len(list) : ~Occurs(list[a], RedactSecret(text, secret))
    BY <1>2, <1>6
  <1>8. ASSUME NEW n \in MinRedactable .. Len(secret), NEW piece \in Range(Pieces(secret, n))
        PROVE  ~Occurs(piece, RedactSecret(text, secret))
    <2>1. n \in 1 .. Len(secret)
      OBVIOUS
    <2>2. PICK i \in 1 .. Len(secret) - n + 1 : piece = SubSeq(secret, i, i + n - 1)
      BY DEF Range, Pieces
    <2>3. PICK a \in 1 .. Len(list) : list[a] = SubSeq(secret, i, i + n - 1)
      BY <1>1 DEF Order
    <2> QED BY <1>7, <2>2, <2>3
  <1> QED BY <1>8

\* What surrounds a piece, none of which the secret's characters are.
LEMMA PieceBetween ==
  ASSUME NEW before \in Seq(Int), NEW piece \in Seq(Int), NEW after \in Seq(Int), NEW K,
         Len(piece) >= 1, Range(piece) \subseteq K, Range(before \o after) \cap K = {}
  PROVE  LET text == before \o piece \o after
             j == Len(before) + 1
         IN  /\ text \in Seq(Int)
             /\ j \in Nat \ {0} /\ StandsAt(text, piece, j)
             /\ \A i \in 1 .. Len(text) : text[i] \in K => i >= j /\ i < j + Len(piece)
  <1> DEFINE b == Len(before)
             n == Len(piece)
             c == Len(after)
             half == before \o piece
             text == half \o after
             around == before \o after
  <1>1. b \in Nat /\ n \in Nat /\ c \in Nat /\ n >= 1
    OBVIOUS
  <1>2. /\ half \in Seq(Int) /\ Len(half) = b + n
        /\ \A i \in 1 .. b + n : half[i] = IF i <= b THEN before[i] ELSE piece[i - b]
    BY ConcatProperties
  <1>3. /\ around \in Seq(Int) /\ Len(around) = b + c
        /\ \A i \in 1 .. b + c : around[i] = IF i <= b THEN before[i] ELSE after[i - b]
    BY ConcatProperties
  <1> HIDE DEF half
  <1>4. /\ text \in Seq(Int) /\ Len(text) = b + n + c
        /\ \A i \in 1 .. b + n + c : text[i] = IF i <= b + n THEN half[i] ELSE after[i - (b + n)]
    <2> HIDE DEF b, n
    <2>1. /\ text \in Seq(Int) /\ Len(text) = Len(half) + Len(after)
          /\ \A i \in 1 .. Len(half) + Len(after) :
                text[i] = IF i <= Len(half) THEN half[i] ELSE after[i - Len(half)]
      BY <1>2, ConcatProperties
    <2> HIDE DEF text
    <2> QED BY <1>2, <2>1
  <1>5. \A i \in 1 .. b + c : around[i] \notin K
    <2> HIDE DEF around, b, c
    <2>1. \A i \in 1 .. Len(around) : around[i] \in Range(around)
      <3>1. DOMAIN around = 1 .. Len(around)
        BY <1>3
      <3> QED BY <3>1 DEF Range
    <2> QED BY <1>3, <2>1 DEF around
  <1> HIDE DEF text, around, b, n, c
  <1>6. ASSUME NEW i \in 1 .. b PROVE text[i] \notin K
    <2>1. i \in 1 .. b + n /\ i \in 1 .. b + c /\ i \in 1 .. b + n + c /\ i <= b /\ i <= b + n
      BY <1>1
    <2>2. text[i] = before[i] /\ around[i] = before[i]
      BY <2>1, <1>2, <1>3, <1>4
    <2> QED BY <2>1, <2>2, <1>5
  <1>7. ASSUME NEW i \in 1 .. c PROVE text[b + n + i] \notin K
    <2>1. PICK x, y : x = b + n + i /\ y = b + i
      OBVIOUS
    <2>2. /\ x \in 1 .. b + n + c /\ ~(x <= b + n) /\ x - (b + n) = i
          /\ y \in 1 .. b + c /\ ~(y <= b) /\ y - b = i
      BY <1>1, <2>1
    <2>3. text[x] = after[i] /\ around[y] = after[i]
      BY <2>2, <1>3, <1>4
    <2> QED BY <2>1, <2>2, <2>3, <1>5
  <1>8. ASSUME NEW m \in 1 .. n PROVE text[b + m] = piece[m]
    <2>1. PICK x : x = b + m
      OBVIOUS
    <2>2. x \in 1 .. b + n /\ x \in 1 .. b + n + c /\ x <= b + n /\ ~(x <= b) /\ x - b = m
      BY <1>1, <2>1
    <2>3. text[x] = half[x] /\ half[x] = piece[m]
      BY <2>2, <1>2, <1>4
    <2> QED BY <2>1, <2>3
  <1>9. StandsAt(text, piece, b + 1)
    <2>1. b + 1 + n - 1 <= b + n + c
      BY <1>1
    <2>2. \A m \in 1 .. n : (b + 1) + m - 1 = b + m
      BY <1>1
    <2> QED BY <1>4, <1>8, <2>1, <2>2 DEF StandsAt, n
  <1>10. ASSUME NEW i \in 1 .. b + n + c, text[i] \in K
         PROVE  i >= b + 1 /\ i < b + 1 + n
    <2>1. ~(i \in 1 .. b)
      BY <1>6, <1>10
    <2>2. ASSUME i > b + n PROVE FALSE
      <3>1. i - (b + n) \in 1 .. c /\ b + n + (i - (b + n)) = i
        BY <1>1, <2>2
      <3> QED BY <3>1, <1>7, <1>10
    <2> QED BY <1>1, <2>1, <2>2
  <1>11. b + 1 \in Nat \ {0}
    BY <1>1
  <1> QED BY <1>4, <1>9, <1>10, <1>11 DEF text, half, b, n

LEMMA LeavesNoRest ==
  ASSUME NEW secret \in Seq(Int), Redacted \notin Range(secret), Redacted \in Int,
         MinRedactable \in Nat \ {0},
         NEW before \in Seq(Int), NEW after \in Seq(Int),
         NEW from \in DOMAIN secret, NEW to \in DOMAIN secret, from <= to,
         Len(SubSeq(secret, from, to)) >= MinRedactable,
         Range(before \o after) \cap Range(secret) = {}
  PROVE  Range(RedactSecret(before \o SubSeq(secret, from, to) \o after, secret)) \cap Range(secret) = {}
  <1> DEFINE K == Range(secret)
             n == to - from + 1
             piece == SubSeq(secret, from, to)
             text == before \o piece \o after
             at == Len(before) + 1
  <1>1. /\ from \in 1 .. Len(secret) /\ to \in 1 .. Len(secret) /\ Len(secret) \in Nat
        /\ n \in 1 .. Len(secret) /\ from + n - 1 = to /\ from \in 1 .. Len(secret) - n + 1
    <2>1. from \in 1 .. Len(secret) /\ to \in 1 .. Len(secret) /\ Len(secret) \in Nat /\ from <= to
      OBVIOUS
    <2> QED BY ONLY <2>1
  <1>2. /\ piece \in Seq(Int) /\ Len(piece) = n
        /\ \A m \in 1 .. n : piece[m] \in K
    <2>1. Pieces(secret, n)[from] = SubSeq(secret, from, from + n - 1)
      BY <1>1, RunsOfSecret
    <2>2. Pieces(secret, n)[from] = piece
      BY <2>1, <1>1
    <2>3. /\ Pieces(secret, n)[from] \in Seq(Int) /\ Len(Pieces(secret, n)[from]) = n
          /\ \A m \in 1 .. n : Pieces(secret, n)[from][m] \in Range(secret)
      <3> HIDE DEF n
      <3> QED BY <1>1, RunsOfSecret
    <2> HIDE DEF n, piece, K
    <2> QED BY <2>2, <2>3 DEF K
  <1>3. n >= MinRedactable /\ n \in Nat /\ n >= 1
    BY <1>1, <1>2
  <1> HIDE DEF piece, n
  <1>4. Range(piece) \subseteq K
    BY <1>2 DEF Range
  <1>5. PICK list, along : Order(secret, list) /\ Redactions(secret, text, list, along)
    BY RedactionsGoAlong
  <1>6. /\ text \in Seq(Int) /\ at \in Nat \ {0} /\ StandsAt(text, piece, at)
        /\ \A i \in 1 .. Len(text) : text[i] \in K => i >= at /\ i < at + Len(piece)
    <2> HIDE DEF K
    <2>1. Range(before \o after) \cap K = {} /\ Len(piece) >= 1
      BY <1>2, <1>3 DEF K
    <2> QED BY <1>2, <1>4, <2>1, PieceBetween
  <1> HIDE DEF text, at, K
  <1>7. /\ list \in Seq(Seq(Int)) /\ Len(list) \in Nat
        /\ along[0] = text /\ RedactSecret(text, secret) = along[Len(list)]
    BY <1>5 DEF Order, Redactions
  <1>8. ASSUME NEW a \in 1 .. Len(list)
        PROVE  /\ list[a] \in Seq(Int) /\ Len(list[a]) \in Nat /\ Len(list[a]) >= 1
               /\ \A m \in 1 .. Len(list[a]) : list[a][m] \in K
    <2>1. Len(list[a]) \in MinRedactable .. Len(secret) /\ Range(list[a]) \subseteq K
      BY <1>5 DEF Order, K
    <2>2. list[a] \in Seq(Int)
      BY <1>7
    <2>3. \A m \in 1 .. Len(list[a]) : list[a][m] \in Range(list[a])
      <3>1. DOMAIN list[a] = 1 .. Len(list[a])
        BY ONLY <2>2
      <3> QED BY ONLY <3>1 DEF Range
    <2>4. Len(list[a]) \in Nat /\ Len(list[a]) >= 1
      <3>1. Len(list[a]) \in Nat
        BY <2>2
      <3>2. Len(list[a]) >= MinRedactable /\ MinRedactable \in Nat /\ MinRedactable >= 1
        BY <2>1
      <3> QED BY ONLY <3>1, <3>2
    <2> QED BY <2>1, <2>2, <2>3, <2>4
  <1>9. PICK a0 \in 1 .. Len(list) : list[a0] = piece
    <2>1. n \in MinRedactable .. Len(secret)
      BY <1>1, <1>3
    <2>2. \E a \in 1 .. Len(list) : list[a] = SubSeq(secret, from, from + n - 1)
      <3>1. \A e \in MinRedactable .. Len(secret) : \A i \in 1 .. Len(secret) - e + 1 :
               \E a \in 1 .. Len(list) : list[a] = SubSeq(secret, i, i + e - 1)
        BY <1>5 DEF Order
      <3> QED BY <2>1, <3>1, <1>1
    <2> QED BY <2>2, <1>1 DEF piece
  \* A piece as long as the one that is there is there only if it is that one.
  <1>10. ASSUME NEW q \in Seq(Int), Len(q) >= n, \A m \in 1 .. Len(q) : q[m] \in K,
                NEW i \in Nat \ {0}, StandsAt(text, q, i)
         PROVE  q = piece /\ i = at
    <2>1. Len(q) \in Nat /\ Len(text) \in Nat /\ at \in Nat /\ n \in Nat
      <3>1. text \in Seq(Int) /\ at \in Nat /\ n \in Nat
        BY <1>3, <1>6
      <3>2. Len(q) \in Nat /\ Len(text) \in Nat
        BY ONLY <3>1, q \in Seq(Int)
      <3> QED BY <3>1, <3>2
    <2>2. i + Len(q) - 1 <= Len(text) /\ \A m \in 1 .. Len(q) : text[i + m - 1] = q[m]
      BY <1>10 DEF StandsAt
    <2>3. ASSUME NEW m \in 1 .. Len(q) PROVE i + m - 1 >= at /\ i + m - 1 < at + n
      <3>1. i + m - 1 \in 1 .. Len(text)
        <4>1. i \in Nat /\ i >= 1 /\ m \in Nat /\ m >= 1 /\ m <= Len(q) /\ i + Len(q) - 1 <= Len(text)
          BY <2>1, <2>2
        <4> QED BY ONLY <4>1, <2>1
      <3>2. text[i + m - 1] \in K
        BY <2>2, <1>10
      <3> QED BY <3>1, <3>2, <1>2, <1>6
    <2>4. 1 \in 1 .. Len(q) /\ Len(q) \in 1 .. Len(q) /\ i + 1 - 1 = i
      BY <2>1, <1>3, <1>10
    <2>5. i >= at /\ i + Len(q) - 1 < at + n
      BY <2>3, <2>4
    <2>6. i = at /\ Len(q) = n
      <3>1. Len(q) >= n /\ i \in Nat
        BY <1>10
      <3> QED BY ONLY <2>1, <2>5, <3>1
    <2>7. ASSUME NEW m \in 1 .. n PROVE q[m] = piece[m]
      <3>1. text[at + m - 1] = q[m] /\ text[at + m - 1] = piece[m]
        BY <2>2, <2>6, <1>2, <1>6 DEF StandsAt
      <3> QED BY <3>1
    <2>8. q = piece
      BY <2>6, <2>7, <1>2, <1>10, SeqEqual
    <2> QED BY <2>6, <2>8
  <1> DEFINE Whole(k) == along[k] = text /\ \A a \in 1 .. k : list[a] # piece
             Clean(k) == along[k] \in Seq(Int) /\ Range(along[k]) \cap K = {}
             T == {k \in Nat : k <= Len(list) => Whole(k) \/ Clean(k)}
  <1>11. 0 \in T
    BY <1>7
  <1>12. ASSUME NEW k \in Nat, k \in T PROVE k + 1 \in T
    <2> SUFFICES ASSUME k + 1 <= Len(list) PROVE Whole(k + 1) \/ Clean(k + 1)
      <3> HIDE DEF Whole, Clean
      <3> QED OBVIOUS
    <2> DEFINE q == list[k + 1]
    <2>1. k + 1 \in 1 .. Len(list) /\ (k + 1) - 1 = k
      BY <1>7
    <2>2. along[k + 1] = SplitAndJoin(along[k], q)
      BY <1>5, <2>1 DEF Redactions
    <2>3. q \in Seq(Int) /\ Len(q) \in Nat /\ Len(q) >= 1 /\ \A m \in 1 .. Len(q) : q[m] \in K
      BY <1>8, <2>1
    <2>4. Whole(k) \/ Clean(k)
      BY <1>7, <1>12
    <2> HIDE DEF q
    <2>5. CASE Clean(k)
      <3>1. ASSUME NEW i \in Nat \ {0}, StandsAt(along[k], q, i) PROVE FALSE
        <4>0. i + 1 - 1 = i /\ 1 \in 1 .. Len(q) /\ q[1] \in K
          BY <2>3
        <4>1. i + Len(q) - 1 <= Len(along[k]) /\ along[k][i] = q[1]
          BY <3>1, <4>0 DEF StandsAt
        <4>2. along[k] \in Seq(Int) /\ Len(along[k]) \in Nat /\ Range(along[k]) \cap K = {}
          BY <2>5
        <4>3. i \in 1 .. Len(along[k])
          <5> DEFINE a == Len(q)
                     b == Len(along[k])
          <5>1. i \in Nat \ {0} /\ a \in Nat /\ b \in Nat /\ a >= 1 /\ i + a - 1 <= b
            BY <2>3, <4>1, <4>2
          <5> HIDE DEF a, b
          <5>2. i \in 1 .. b
            BY ONLY <5>1
          <5> QED BY <5>2 DEF b
        <4>4. along[k][i] \in Range(along[k])
          <5>1. i \in DOMAIN along[k]
            BY <4>2, <4>3
          <5> QED BY <5>1 DEF Range
        <4>5. along[k][i] \in K
          BY <4>0, <4>1
        <4>6. along[k][i] \in Range(along[k]) \cap K
          BY <4>4, <4>5
        <4> QED BY <4>2, <4>6
      <3>2. along[k + 1] = along[k]
        BY <2>2, <2>3, <2>5, <3>1, NothingToTakeOut
      <3> QED BY <3>2, <2>5
    <2>6. CASE Whole(k) /\ q = piece
      <3>1. \A i \in Nat \ {0} : StandsAt(text, piece, i) <=> i = at
        <4>1. ASSUME NEW i \in Nat \ {0}, StandsAt(text, piece, i) PROVE i = at
          <5>1. piece \in Seq(Int) /\ Len(piece) >= n /\ \A m \in 1 .. Len(piece) : piece[m] \in K
            BY <1>2, <1>3
          <5> QED BY <5>1, <4>1, <1>10
        <4> QED BY <1>6, <4>1
      <3>2. Len(piece) >= 1 /\ Redacted \notin K
        BY <1>2, <1>3 DEF K
      <3>3. Range(SplitAndJoin(text, piece)) \cap K = {}
        <4>1. \A i \in 1 .. Len(text) : text[i] \in K => i >= at /\ i < at + Len(piece)
          BY <1>6
        <4>2. text \in Seq(Int) /\ piece \in Seq(Int) /\ at \in Nat \ {0}
          BY <1>2, <1>6
        <4>3. Alone(text, piece, at, K)
          BY <3>1, <4>1 DEF Alone
        <4> HIDE DEF Whole, Clean, T
        <4> QED BY <3>2, <4>2, <4>3, TakenOutWhole
      <3>4. SplitAndJoin(text, piece) \in Seq(Int)
        BY <1>2, <1>6, <3>2, SplitAndJoinTakesOut
      <3>5. along[k + 1] = SplitAndJoin(text, piece)
        BY <2>2, <2>6
      <3> QED BY <3>3, <3>4, <3>5
    <2>7. CASE Whole(k) /\ q # piece
      <3>1. ~(a0 \in 1 .. k)
        BY <1>9, <2>7
      <3>2. k + 1 <= a0
        BY <3>1
      <3>3. Len(list[k + 1]) >= Len(list[a0])
        BY <2>1, <3>2, <1>5 DEF Order
      <3>4. Len(q) >= n
        BY <3>3, <1>2, <1>9 DEF q
      <3>5. \A i \in Nat \ {0} : ~StandsAt(text, q, i)
        BY <2>3, <2>7, <3>4, <1>10
      <3>6. along[k + 1] = text
        BY <2>2, <2>3, <2>7, <3>5, <1>6, NothingToTakeOut
      <3>7. ASSUME NEW a \in 1 .. k + 1 PROVE list[a] # piece
        <4>1. a \in 1 .. k \/ a = k + 1
          OBVIOUS
        <4> QED BY <4>1, <2>7 DEF q
      <3> QED BY <3>6, <3>7
    <2> QED BY <2>4, <2>5, <2>6, <2>7
  <1>13. Len(list) \in T
    <2> HIDE DEF T
    <2> QED BY <1>7, <1>11, <1>12, CountingUp
  <1>14. Range(along[Len(list)]) \cap K = {}
    BY <1>7, <1>9, <1>13
  <1> QED BY <1>7, <1>14 DEF text, piece, K

Quotations == [before : Seq(Int), piece : Seq(Int), after : Seq(Int)]

\* There is a key while there is a client, and no call and no error before one.
ModelClientType ==
    /\ client.key \in Secrets \cup {<<>>}
    /\ request \in [surface : {"none", "complete", "selectTool"}, attempts : Nat, quoted : Quotations]
    /\ client.pc = "none" => answer.kind = "none" /\ request.surface = "none"

ModelClientInv == ModelClientType /\ NoFragmentSurvives

LEMMA KeysAreTexts ==
  ASSUME ModelClientType
  PROVE  /\ client.key \in Seq(Int) /\ Redacted \notin Range(client.key) /\ Redacted \in Int
         /\ MinRedactable \in Nat \ {0}
  <1>1. CASE client.key \in Secrets
    BY <1>1, ModelClientAssumption
  <1>2. CASE client.key = <<>>
    BY <1>2, ModelClientAssumption DEF Range
  <1> QED BY <1>1, <1>2, ModelClientAssumption DEF ModelClientType

\* An error that says nothing holds no piece.
LEMMA NothingHasNoPiece ==
  ASSUME NEW secret \in Seq(Int), MinRedactable \in Nat \ {0}
  PROVE  /\ \A n \in MinRedactable .. Len(secret) :
               \A piece \in Range(Pieces(secret, n)) : ~Occurs(piece, <<>>)
         /\ Range(<<>>) = {}
  <1>1. ASSUME NEW n \in MinRedactable .. Len(secret), NEW piece \in Range(Pieces(secret, n))
        PROVE  ~Occurs(piece, <<>>)
    <2>1. n \in 1 .. Len(secret)
      OBVIOUS
    <2>2. PICK i \in 1 .. Len(secret) - n + 1 : piece = Pieces(secret, n)[i]
      BY DEF Range, Pieces
    <2>3. piece \in Seq(Int) /\ Len(piece) = n
      BY <2>1, <2>2, RunsOfSecret
    <2>4. <<>> \in Seq(Int) /\ Len(<<>>) = 0 /\ Len(piece) >= 1
      BY <2>1, <2>3
    <2>5. \A k \in Nat \ {0} : ~StandsAt(<<>>, piece, k)
      BY <2>3, <2>4 DEF StandsAt
    <2> QED BY <2>3, <2>4, <2>5, OccursSomewhere
  <1>2. Range(<<>>) = {}
    BY DEF Range
  <1> QED BY <1>1, <1>2

LEMMA GarbleIsRedacted ==
  ASSUME ModelClientInv, Garble
  PROVE  ModelClientInv'
  <1>1. PICK before \in Asides, after \in Asides, from \in DOMAIN client.key, to \in DOMAIN client.key :
          /\ from <= to
          /\ answer' = OtherFailure(before \o SubSeq(client.key, from, to) \o after)
          /\ request' = [request EXCEPT !.surface = "none",
                           !.quoted = [before |-> before, piece |-> SubSeq(client.key, from, to),
                                       after |-> after]]
    BY DEF Garble
  <1> DEFINE piece == SubSeq(client.key, from, to)
             text == before \o piece \o after
  <1>2. /\ client' = client /\ request.surface # "none" /\ ModelClientType
        /\ client.key \in Seq(Int) /\ Redacted \notin Range(client.key) /\ Redacted \in Int
        /\ MinRedactable \in Nat \ {0}
    BY KeysAreTexts DEF Garble, ModelClientInv
  <1>3. before \in Seq(Int) /\ after \in Seq(Int)
    BY ModelClientAssumption
  <1>4. piece \in Seq(Int)
    BY <1>1, <1>2
  <1>5. text \in Seq(Int)
    <2> HIDE DEF piece
    <2> QED BY <1>3, <1>4
  <1>6. answer'.kind = "LLM_REQUEST_FAILED" /\ answer'.text = RedactSecret(text, client.key)
    <2> HIDE DEF piece
    <2> QED BY <1>1 DEF OtherFailure, piece
  <1>7. /\ request'.surface = "none" /\ request'.attempts \in Nat
        /\ request'.quoted = [before |-> before, piece |-> piece, after |-> after]
    <2> HIDE DEF piece
    <2> QED BY <1>1, <1>2 DEF ModelClientType, piece
  <1>8. ModelClientType'
    <2>1. request' \in [surface : {"none", "complete", "selectTool"}, attempts : Nat, quoted : Quotations]
      <3> DEFINE q == [before |-> before, piece |-> piece, after |-> after]
      <3>1. q \in Quotations
        <4> HIDE DEF piece
        <4> QED BY <1>3, <1>4 DEF Quotations
      <3>2. request' = [request EXCEPT !.surface = "none", !.quoted = q]
        BY <1>1
      <3> HIDE DEF q
      <3> QED BY <1>2, <3>1, <3>2 DEF ModelClientType
    <2>2. (client.pc # "none")
      BY <1>2 DEF ModelClientType
    <2> QED BY <1>2, <2>1, <2>2 DEF ModelClientType
  <1>9. \A n \in MinRedactable .. Len(client.key) :
           \A p \in Range(Pieces(client.key, n)) : ~Occurs(p, answer'.text)
    <2> HIDE DEF text
    <2> QED BY <1>2, <1>5, <1>6, RedactTakesOut
  <1>10. ASSUME Len(piece) >= MinRedactable, Range(before \o after) \cap Range(client.key) = {}
         PROVE  Range(answer'.text) \cap Range(client.key) = {}
    <2>1. Range(RedactSecret(before \o SubSeq(client.key, from, to) \o after, client.key))
             \cap Range(client.key) = {}
      BY <1>1, <1>2, <1>3, <1>10, LeavesNoRest
    <2> QED BY <2>1, <1>6
  <1>11. NoFragmentSurvives'
    <2> HIDE DEF piece, text
    <2>1. request'.quoted.piece = piece /\ request'.quoted.before = before /\ request'.quoted.after = after
      BY <1>7
    <2> QED BY <1>2, <1>9, <1>10, <2>1 DEF NoFragmentSurvives
  <1> QED BY <1>8, <1>11 DEF ModelClientInv

LEMMA ModelClientStep ==
  ASSUME ModelClientInv, [ModelClientNext]_modelVars
  PROVE  ModelClientInv'
  <1> USE ModelClientAssumption DEF ModelClientInv, ModelClientType
  <1>1. CASE CreateModel
    <2>1. client'.key \in Secrets \cup {<<>>} /\ answer.kind = "none" /\ request.surface = "none"
      BY <1>1 DEF CreateModel
    <2> QED BY <1>1, <2>1 DEF CreateModel, NoFragmentSurvives
  <1>2. CASE Send
    <2>1. NoPiece \in Quotations
      BY DEF NoPiece, Quotations
    <2>2. answer'.kind = "none" /\ client' = client /\ client.pc = "ready"
      BY <1>2 DEF Send
    <2>3. request' \in [surface : {"none", "complete", "selectTool"}, attempts : Nat, quoted : Quotations]
      BY <1>2, <2>1 DEF Send
    <2> QED BY <2>2, <2>3 DEF NoFragmentSurvives
  <1>3. CASE Reply
    <2>1. /\ client' = client /\ client.pc # "none" /\ answer'.kind = request.surface
          /\ request' = [request EXCEPT !.surface = "none"]
      BY <1>3 DEF Reply, Ends
    <2> QED BY <2>1 DEF NoFragmentSurvives
  <1>4. CASE Garble
    BY <1>4, GarbleIsRedacted
  <1>5. CASE Refuse
    <2>1. CASE /\ request' = [request EXCEPT !.attempts = @ + 1]
               /\ UNCHANGED <<client, answer>>
      BY <1>5, <2>1 DEF NoFragmentSurvives, Refuse
    <2>2. CASE Ends(ApiFailure)
      <3>1. /\ client' = client /\ client.pc # "none" /\ answer'.text = <<>>
            /\ request' = [request EXCEPT !.surface = "none"]
        BY <1>5, <2>2 DEF Refuse, Ends, ApiFailure
      <3>2. ModelClientType'
        BY <3>1
      <3>3. NoFragmentSurvives'
        <4>1. client.key \in Seq(Int) /\ MinRedactable \in Nat \ {0}
          BY KeysAreTexts
        <4> QED BY <3>1, <4>1, NothingHasNoPiece DEF NoFragmentSurvives
      <3> QED BY <3>2, <3>3
    <2> QED BY <1>5, <2>1, <2>2 DEF Refuse
  <1>6. CASE UNCHANGED modelVars
    BY <1>6 DEF modelVars, NoFragmentSurvives
  <1> QED BY <1>1, <1>2, <1>3, <1>4, <1>5, <1>6 DEF ModelClientNext

\* redactSecret: whatever an error quotes, no piece of the key long enough to be one
\* is in what it says, and where the key does not repeat itself around the piece, no
\* rest of it either.
THEOREM FragmentsAreRedacted == ModelClientSpec => []NoFragmentSurvives
  <1>1. ModelClientInit => ModelClientInv
    BY ModelClientAssumption
       DEF ModelClientInit, ModelClientInv, ModelClientType, NoFragmentSurvives, NoPiece, Quotations
  <1>2. ModelClientInv /\ [ModelClientNext]_modelVars => ModelClientInv'
    BY ModelClientStep
  <1>3. ModelClientInv => NoFragmentSurvives
    BY DEF ModelClientInv
  <1> QED BY <1>1, <1>2, <1>3, PTL DEF ModelClientSpec

-----------------------------------------------------------------------------
(* The least and the greatest.                                             *)

-----------------------------------------------------------------------------
(* What the rules find.                                                    *)

\* The segments of a text of n tokens, and those of one kind.
Segs(n) == [from : 1 .. n + 1, to : 0 .. n + 1, kind : MaskLabels]
Within(n, k) == {Segment(i, j, k) : i \in 1 .. n + 1, j \in 0 .. n + 1}

LEMMA SegmentFields ==
  ASSUME NEW i, NEW j, NEW k
  PROVE  /\ Segment(i, j, k).from = i /\ Segment(i, j, k).to = j /\ Segment(i, j, k).kind = k
         /\ Segment(i, j, k) = [from |-> i, to |-> j, kind |-> k]
  BY DEF Segment

LEMMA WithinSegs ==
  ASSUME NEW n \in Nat, NEW k \in MaskLabels
  PROVE  Within(n, k) \in SUBSET Segs(n) /\ IsFiniteSet(Within(n, k))
         /\ \A sg \in Within(n, k) : sg.kind = k
  <1>1. ASSUME NEW sg \in Within(n, k) PROVE sg \in Segs(n) /\ sg.kind = k
    <2>1. PICK i \in 1 .. n + 1, j \in 0 .. n + 1 : sg = Segment(i, j, k)
      BY DEF Within
    <2> QED BY <2>1 DEF Segment, Segs
  <1> DEFINE P == (1 .. n + 1) \X (0 .. n + 1)
             f == [p \in P |-> Segment(p[1], p[2], k)]
  <1>2. IsFiniteSet(P)
    <2>1. IsFiniteSet(1 .. n + 1) /\ IsFiniteSet(0 .. n + 1)
      BY FS_Interval
    <2> QED BY <2>1, FS_Product
  <1>3. f \in Surjection(P, Within(n, k))
    <2>1. ASSUME NEW p \in P PROVE f[p] \in Within(n, k)
      BY DEF Within
    <2>2. ASSUME NEW sg \in Within(n, k) PROVE \E p \in P : f[p] = sg
      <3>1. PICK i \in 1 .. n + 1, j \in 0 .. n + 1 : sg = Segment(i, j, k)
        BY DEF Within
      <3>2. <<i, j>> \in P /\ f[<<i, j>>] = sg
        BY <3>1
      <3> QED BY <3>2
    <2>3. f \in [P -> Within(n, k)]
      BY <2>1
    <2> HIDE DEF f, P
    <2> QED BY <2>2, <2>3 DEF Surjection
  <1>4. IsFiniteSet(Within(n, k))
    <2> HIDE DEF f, P
    <2> QED BY <1>2, <1>3, FS_Surjection
  <1> QED BY <1>1, <1>4

\* InOrder: the segments of one kind, in a list.
LEMMA InOrderLists ==
  ASSUME NEW n \in Nat, NEW k \in MaskLabels, NEW S \in SUBSET Within(n, k)
  PROVE  InOrder(S) \in Seq(Segs(n))
  <1> DEFINE Before(a, b) == a.from < b.from \/ (a.from = b.from /\ a.to < b.to)
             R == {q \in S \X S : Before(q[1], q[2])}
             Count(e) == Cardinality({d \in S : Before(d, e)})
             At(c) == CHOOSE e \in S : Count(e) = c - 1
             order == [c \in 1 .. Cardinality(S) |-> At(c)]
  <1>1. /\ IsFiniteSet(S) /\ S \in SUBSET Segs(n) /\ \A sg \in S : sg.kind = k
    BY WithinSegs, FS_Subset
  <1>2. \A a, b \in S : <<a, b>> \in R <=> Before(a, b)
    OBVIOUS
  <1>3. \A e \in S : InFront(S, R, e) = {d \in S : Before(d, e)}
    BY <1>2 DEF InFront
  <1>4. \A a \in S : /\ a.from \in Int /\ a.to \in Int
                     /\ a = [from |-> a.from, to |-> a.to, kind |-> k]
    BY <1>1 DEF Segs
  <1>5. StrictOrder(S, R)
    <2> HIDE DEF R
    <2>1. \A a \in S : ~Before(a, a)
      BY <1>4
    <2>2. ASSUME NEW a \in S, NEW b \in S, a # b PROVE Before(a, b) \/ Before(b, a)
      <3>1. a.from # b.from \/ a.to # b.to
        BY <1>4, <2>2
      <3> QED BY <3>1, <1>4
    <2>3. \A a, b, c \in S : Before(a, b) /\ Before(b, c) => Before(a, c)
      BY <1>4
    <2> HIDE DEF Before
    <2> QED BY <1>2, <2>1, <2>2, <2>3 DEF StrictOrder
  <1>6. InOrder(S) = order
    BY DEF InOrder, Sorted
  <1>7. \A c \in 1 .. Cardinality(S) : order[c] = At(c)
    OBVIOUS
  <1>8. order = [c \in 1 .. Cardinality(S) |-> order[c]]
    <2> HIDE DEF At
    <2> QED OBVIOUS
  <1> HIDE DEF R, order
  <1>9. ASSUME NEW c \in 1 .. Cardinality(S), \E e \in S : Cardinality(InFront(S, R, e)) = c - 1
        PROVE  order[c] \in S /\ Cardinality(InFront(S, R, order[c])) = c - 1
    <2>1. \E e \in S : Count(e) = c - 1
      BY <1>3, <1>9
    <2>2. At(c) \in S /\ Count(At(c)) = c - 1
      <3> HIDE DEF Count
      <3> QED BY <2>1
    <2> HIDE DEF At
    <2> QED BY <1>3, <1>7, <2>2
  <1>10. IsOrdered(order, S, R)
    BY <1>1, <1>5, <1>8, <1>9, OrderedPlaces DEF AsPlaced
  <1> QED BY <1>1, <1>6, <1>10 DEF IsOrdered

LEMMA RunEnds ==
  ASSUME NEW s, Len(s) \in Nat, NEW i \in 1 .. Len(s) + 1, NEW class
  PROVE  RunEnd(s, i, class) \in i .. Len(s) + 1
  <1> DEFINE S == {j \in i .. Len(s) + 1 : j = Len(s) + 1 \/ s[j] \notin class}
  <1>1. Len(s) + 1 \in S /\ \A x \in S : x \in Int /\ 1 <= x
    OBVIOUS
  <1>2. Min(S) \in S
    <2> HIDE DEF S
    <2> QED BY <1>1, MinOf
  <1> QED BY <1>2 DEF RunEnd

LEMMA ValueStarts ==
  ASSUME NEW s, Len(s) \in Nat, NEW i \in 1 .. Len(s) + 1, NEW blanks
  PROVE  ValueStart(s, i, blanks) \in i .. Len(s) + 1
  <1> DEFINE j == RunEnd(s, i, blanks)
  <1>1. j \in i .. Len(s) + 1
    BY RunEnds
  <1>2. "quote" # "end"
    OBVIOUS
  <1> HIDE DEF j
  <1>3. TokenAt(s, j) = "quote" => j \in i .. Len(s)
    BY <1>1, <1>2 DEF TokenAt
  <1>4. ValueStart(s, i, blanks) = IF TokenAt(s, j) = "quote" THEN j + 1 ELSE j
    BY DEF ValueStart, j
  <1> QED BY <1>1, <1>3, <1>4

\* A list of what one rule finds.
Finds(s, list) == list \in Seq(Segs(Len(s)))

LEMMA WithinIs ==
  ASSUME NEW n \in Nat, NEW i \in 1 .. n + 1, NEW j \in 0 .. n + 1, NEW k
  PROVE  Segment(i, j, k) \in Within(n, k)
  BY DEF Within

LEMMA AnchoredFinds ==
  ASSUME NEW s, Len(s) \in Nat, NEW names, NEW others, NEW kind \in MaskLabels
  PROVE  Finds(s, Anchored(s, names, others, kind))
  <1> DEFINE Found(i) == Segment(ValueStart(s, i + 1, Spaces),
                             RunEnd(s, ValueStart(s, i + 1, Spaces), Tokens \ ValueStops), kind)
             I == {i \in 1 .. Len(s) : s[i] \in names /\ TokenAt(s, i - 1) \notin others}
             S == {sg \in {Found(i) : i \in I} :
                     /\ Width(s, sg.from, sg.to) >= 4
                     /\ ~IsPlaceholder(s, sg.from, sg.to)}
  <1>1. ASSUME NEW i \in I PROVE Found(i) \in Within(Len(s), kind)
    <2>1. i + 1 \in 1 .. Len(s) + 1
      OBVIOUS
    <2>2. ValueStart(s, i + 1, Spaces) \in 1 .. Len(s) + 1
      BY <2>1, ValueStarts
    <2>3. RunEnd(s, ValueStart(s, i + 1, Spaces), Tokens \ ValueStops) \in 0 .. Len(s) + 1
      BY <2>2, RunEnds
    <2> QED BY <2>2, <2>3, WithinIs
  <1>2. S \in SUBSET Within(Len(s), kind)
    <2> HIDE DEF Found, I
    <2> QED BY <1>1
  <1>3. Anchored(s, names, others, kind) = InOrder(S)
    BY DEF Anchored
  <1> HIDE DEF S
  <1> QED BY <1>2, <1>3, InOrderLists DEF Finds

LEMMA StandaloneFinds ==
  ASSUME NEW s, Len(s) \in Nat, NEW keys, NEW kind \in MaskLabels
  PROVE  Finds(s, Standalone(s, keys, kind))
  <1> DEFINE I == {i \in 1 .. Len(s) : /\ s[i] \in keys
                                       /\ TokenAt(s, i - 1) \notin Alnum
                                       /\ TokenAt(s, i + 1) \notin StartsAlnum}
             S == {Segment(i, i + 1, kind) : i \in I}
  <1>1. ASSUME NEW i \in I PROVE Segment(i, i + 1, kind) \in Within(Len(s), kind)
    BY WithinIs
  <1>2. S \in SUBSET Within(Len(s), kind)
    <2> HIDE DEF I
    <2> QED BY <1>1
  <1>3. Standalone(s, keys, kind) = InOrder(S)
    BY DEF Standalone
  <1> HIDE DEF S
  <1> QED BY <1>2, <1>3, InOrderLists DEF Finds

-----------------------------------------------------------------------------
(* The userinfo of a database URI.                                         *)

LEMMA MaxIs ==
  ASSUME NEW S, NEW x \in S, x \in Int, \A y \in S : y \in Int /\ y <= x
  PROVE  Max(S) = x
  <1>1. Max(S) \in S /\ Max(S) \in Int /\ \A y \in S : y <= Max(S)
    BY MaxOf
  <1> QED BY <1>1

LEMMA MinIs ==
  ASSUME NEW S, NEW x \in S, x \in Int, \A y \in S : y \in Int /\ x <= y
  PROVE  Min(S) = x
  <1>1. Min(S) \in S /\ Min(S) \in Int /\ \A y \in S : Min(S) <= y
    BY MinOf
  <1> QED BY <1>1

\* Blanks in a place of a text are only at its end.
BlanksLast(s, from, at) ==
    \A j, k \in from .. at - 1 : j < k /\ s[j] \in Spaces => s[k] \in Spaces

Ats(s, from, limit, spanEnd) ==
    {at \in from .. limit - 1 :
        s[at] = "at" /\ HasHostAfter(at, spanEnd) /\ BlanksLast(s, from, at)}

LEMMA BlanksLastSays ==
  ASSUME NEW s, NEW slot \in Nat, NEW at \in Int, slot <= at
  PROVE  BlanksLast(s, slot, at)
         <=> LET last == Max({slot - 1} \cup {j \in slot .. at - 1 : s[j] \notin Spaces})
             IN  \A j \in slot .. last : s[j] \notin Spaces
  <1> DEFINE S == {slot - 1} \cup {j \in slot .. at - 1 : s[j] \notin Spaces}
             last == Max(S)
  <1>1. \A x \in S : x \in Int /\ x <= at
    OBVIOUS
  <1>2. last \in S /\ last \in Int /\ \A y \in S : y <= last
    <2>1. slot - 1 \in S
      OBVIOUS
    <2> HIDE DEF S
    <2> QED BY <1>1, <2>1, MaxOf
  <1>3. \A j \in slot .. at - 1 : s[j] \notin Spaces => j <= last
    BY <1>2
  <1>4. last = slot - 1 \/ (last \in slot .. at - 1 /\ s[last] \notin Spaces)
    <2> HIDE DEF last
    <2> QED BY <1>2
  <1> HIDE DEF last, S
  <1>5. ASSUME BlanksLast(s, slot, at), NEW j \in slot .. last PROVE s[j] \notin Spaces
    <2>1. last \in slot .. at - 1 /\ s[last] \notin Spaces
      BY <1>2, <1>4
    <2>2. j \in slot .. at - 1 /\ (j < last \/ j = last)
      BY <1>2, <2>1
    <2> QED BY <2>1, <2>2, <1>5 DEF BlanksLast
  <1>6. ASSUME \A j \in slot .. last : s[j] \notin Spaces,
               NEW j \in slot .. at - 1, NEW k \in slot .. at - 1, j < k, s[j] \in Spaces
        PROVE  s[k] \in Spaces
    <2>1. ~(j <= last)
      BY <1>2, <1>6
    <2>2. ~(k <= last)
      BY <1>2, <1>6, <2>1
    <2> QED BY <1>3, <2>2
  <1>7. BlanksLast(s, slot, at) <=> \A j \in slot .. last : s[j] \notin Spaces
    BY <1>5, <1>6 DEF BlanksLast
  <1> QED BY <1>7 DEF last, S

\* findBoundaryIn: the last @ with a host behind it and blanks only before it.
LEMMA BoundaryIs ==
  ASSUME NEW s, NEW from \in Nat \ {0}, NEW limit \in Int, from <= limit, NEW spanEnd \in Int
  PROVE  FindBoundaryIn(s, from, limit, spanEnd) = Max({-1} \cup Ats(s, from, limit, spanEnd))
  <1> DEFINE F == {limit} \cup {j \in from .. limit - 1 : s[j] \in Spaces}
             fs == Min(F)
             E == {limit} \cup {j \in fs .. limit - 1 : s[j] \notin Spaces}
             re == Min(E)
             before == {j \in from .. fs - 1 : s[j] = "at" /\ HasHostAfter(j, spanEnd)}
             A == Ats(s, from, limit, spanEnd)
             Runs0 == /\ re > fs /\ re < limit /\ s[re] = "at" /\ HasHostAfter(re, spanEnd)
  <1>0. "at" \notin Spaces
    BY DEF Spaces
  <1>1. /\ fs \in from .. limit /\ (fs < limit => s[fs] \in Spaces)
        /\ \A j \in from .. fs - 1 : s[j] \notin Spaces
    <2>1. /\ fs \in F /\ fs \in Int /\ \A y \in F : fs <= y
      <3>1. limit \in F /\ \A x \in F : x \in Int /\ from <= x
        OBVIOUS
      <3>2. F # {} /\ from \in Int
        BY <3>1
      <3> HIDE DEF F
      <3>3. Min(F) \in F /\ Min(F) \in Int /\ \A y \in F : Min(F) <= y
        BY <3>1, <3>2, MinOf
      <3> QED BY <3>3
    <2> HIDE DEF fs
    <2>2. ASSUME NEW j \in from .. fs - 1, s[j] \in Spaces PROVE FALSE
      <3>1. j \in from .. limit - 1
        BY <2>1
      <3>2. j \in F
        BY <3>1, <2>2
      <3> QED BY <3>2, <2>1
    <2> QED BY <2>1, <2>2
  <1> HIDE DEF fs
  <1>2. /\ re \in fs .. limit /\ (re < limit => s[re] \notin Spaces)
        /\ \A j \in fs .. re - 1 : s[j] \in Spaces
    <2>1. /\ re \in E /\ re \in Int /\ \A y \in E : re <= y
      <3>1. limit \in E /\ \A x \in E : x \in Int /\ fs <= x
        BY <1>1
      <3>2. E # {} /\ fs \in Int
        BY <3>1, <1>1
      <3> HIDE DEF E
      <3>3. Min(E) \in E /\ Min(E) \in Int /\ \A y \in E : Min(E) <= y
        BY <3>1, <3>2, MinOf
      <3> QED BY <3>3
    <2> HIDE DEF re
    <2>2. ASSUME NEW j \in fs .. re - 1, s[j] \notin Spaces PROVE FALSE
      <3>1. j \in fs .. limit - 1
        BY <2>1, <1>1
      <3>2. j \in E
        BY <3>1, <2>2
      <3> QED BY <3>2, <2>1, <1>1
    <2> QED BY <2>1, <2>2, <1>1
  <1> HIDE DEF re
  <1>3. FindBoundaryIn(s, from, limit, spanEnd) = IF Runs0 THEN re ELSE Max({-1} \cup before)
    BY DEF FindBoundaryIn, fs, re
  <1>4. ASSUME NEW at \in before PROVE at \in A
    <2>1. at \in from .. limit - 1 /\ at < fs
      BY <1>1
    <2>2. BlanksLast(s, from, at)
      BY <1>1, <2>1 DEF BlanksLast
    <2> QED BY <2>1, <2>2 DEF Ats
  <1>5. ASSUME NEW at \in A, at \notin before PROVE Runs0 /\ at = re
    <2>1. /\ at \in from .. limit - 1 /\ s[at] = "at" /\ HasHostAfter(at, spanEnd)
          /\ BlanksLast(s, from, at)
      BY DEF Ats
    <2>2. at > fs /\ fs < limit
      <3>1. ~(at <= fs - 1)
        BY <2>1, <1>5, <1>1
      <3>2. at # fs
        BY <2>1, <1>0, <1>1
      <3> QED BY <3>1, <3>2, <2>1, <1>1
    <2>3. \A k \in fs .. at - 1 : s[k] \in Spaces
      <3> SUFFICES ASSUME NEW k \in fs .. at - 1 PROVE s[k] \in Spaces
        OBVIOUS
      <3>1. s[fs] \in Spaces /\ fs \in from .. at - 1 /\ k \in from .. at - 1 /\ (k = fs \/ fs < k)
        BY <2>2, <2>1, <1>1
      <3> QED BY <3>1, <2>1 DEF BlanksLast
    <2>4. ~(at <= re - 1)
      BY <1>2, <1>1, <2>1, <2>2, <1>0
    <2>5. ~(re <= at - 1)
      <3> SUFFICES ASSUME re <= at - 1 PROVE FALSE
        OBVIOUS
      <3>1. re \in fs .. at - 1 /\ re < limit
        BY <1>1, <1>2, <2>1
      <3> QED BY <3>1, <1>2, <2>3
    <2>6. at = re
      BY <2>4, <2>5, <2>1, <1>2, <1>1
    <2> QED BY <2>1, <2>2, <2>6
  <1>6. CASE Runs0
    <2>1. re \in A
      <3>1. re \in from .. limit - 1
        BY <1>1, <1>2, <1>6
      <3>2. BlanksLast(s, from, re)
        <4> SUFFICES ASSUME NEW j \in from .. re - 1, NEW k \in from .. re - 1, j < k, s[j] \in Spaces
                     PROVE  s[k] \in Spaces
          BY DEF BlanksLast
        <4>1. ~(j <= fs - 1)
          BY <1>1
        <4>2. k \in fs .. re - 1
          BY <4>1, <1>1, <1>2
        <4> QED BY <4>2, <1>2
      <3> QED BY <3>1, <3>2, <1>6 DEF Ats
    <2>2. \A y \in {-1} \cup A : y \in Int /\ y <= re
      <3> SUFFICES ASSUME NEW y \in {-1} \cup A PROVE y \in Int /\ y <= re
        OBVIOUS
      <3>1. CASE y = -1
        BY <3>1, <1>1, <1>2
      <3>2. CASE y \in before
        BY <3>2, <1>1, <1>2
      <3>3. CASE y \in A /\ y \notin before
        BY <3>3, <1>5, <1>1, <1>2
      <3> QED BY <3>1, <3>2, <3>3
    <2> HIDE DEF A
    <2>3. Max({-1} \cup A) = re
      BY <2>1, <2>2, <1>1, <1>2, MaxIs
    <2> QED BY <2>3, <1>3, <1>6 DEF A
  <1>7. CASE ~Runs0
    <2>1. A = before
      <3> HIDE DEF A, before
      <3> QED BY <1>4, <1>5, <1>7
    <2> QED BY <2>1, <1>3, <1>7
  <1> QED BY <1>6, <1>7

LEMMA SpanEnds ==
  ASSUME NEW s, Len(s) \in Nat, NEW start \in 1 .. Len(s) + 1
  PROVE  SpanEnd(s, start) \in start .. Len(s) + 1
  <1> DEFINE S == {start + UserinfoScan, Len(s) + 1} \cup {j \in start .. Len(s) : s[j] = "newline"}
  <1>1. Len(s) + 1 \in S /\ \A x \in S : x \in Int /\ start <= x
    BY MaskingAssumption
  <1>2. Min(S) \in Int /\ start <= Min(S) /\ Min(S) <= Len(s) + 1
    <2> HIDE DEF S
    <2> QED BY <1>1, MinOf
  <1> QED BY <1>2 DEF SpanEnd

LEMMA UserinfoIs ==
  ASSUME NEW s, Len(s) \in Nat, NEW start \in 1 .. Len(s) + 1
  PROVE  /\ FindUserinfoEnd(s, start) = Max({-1} \cup UserinfoEnds(s, start))
         /\ FindUserinfoEnd(s, start) = -1 \/ FindUserinfoEnd(s, start) \in start .. Len(s)
  <1> DEFINE spanEnd == SpanEnd(s, start)
             C == {spanEnd} \cup Colons(s, start)
             colon == Min(C)
             lefts == Ats(s, start, colon, spanEnd)
             rights == IF colon = spanEnd THEN {} ELSE Ats(s, colon + 1, spanEnd, spanEnd)
             ends == UserinfoEnds(s, start)
             a == Max({-1} \cup rights)
             b == Max({-1} \cup lefts)
  <1>1. spanEnd \in start .. Len(s) + 1 /\ spanEnd \in Int /\ start \in Nat \ {0}
    BY SpanEnds
  <1> HIDE DEF spanEnd
  <1>2. Colons(s, start) = {j \in start .. spanEnd - 1 : s[j] = "colon"}
    BY DEF Colons, spanEnd
  <1>3. /\ colon \in start .. spanEnd /\ (colon < spanEnd => s[colon] = "colon")
        /\ \A j \in start .. colon - 1 : s[j] # "colon"
    <2>1. spanEnd \in C /\ \A x \in C : x \in Int /\ start <= x
      BY <1>1, <1>2
    <2>2. C # {} /\ start \in Int
      BY <2>1
    <2>3. Min(C) \in C /\ Min(C) \in Int /\ \A y \in C : Min(C) <= y
      <3> HIDE DEF C
      <3> QED BY <2>1, <2>2, MinOf
    <2> HIDE DEF colon
    <2>4. colon \in C /\ colon \in Int /\ \A y \in C : colon <= y
      BY <2>3 DEF colon
    <2>5. \A y \in C : y \in Int /\ start <= y
      BY <2>1
    <2>6. colon \in start .. spanEnd
      BY <2>4, <2>5, <1>1
    <2>7. ASSUME NEW j \in start .. colon - 1, s[j] = "colon" PROVE FALSE
      <3>1. j \in start .. spanEnd - 1
        BY <2>6, <1>1
      <3>2. j \in C
        BY <3>1, <2>7, <1>2
      <3> QED BY <3>2, <2>4, <1>1
    <2>8. colon < spanEnd => s[colon] = "colon"
      BY <2>4, <1>2, <1>1
    <2> QED BY <2>6, <2>7, <2>8
  <1> HIDE DEF colon, C
  <1>4. /\ FindBoundaryIn(s, start, colon, spanEnd) = b
        /\ colon # spanEnd => FindBoundaryIn(s, colon + 1, spanEnd, spanEnd) = a
    <2>1. colon \in Int /\ start <= colon
      BY <1>1, <1>3
    <2>2. FindBoundaryIn(s, start, colon, spanEnd) = b
      BY <2>1, <1>1, BoundaryIs
    <2>3. ASSUME colon # spanEnd PROVE FindBoundaryIn(s, colon + 1, spanEnd, spanEnd) = a
      <3>1. colon + 1 \in Nat \ {0} /\ colon + 1 <= spanEnd
        BY <1>1, <1>3, <2>3
      <3>2. FindBoundaryIn(s, colon + 1, spanEnd, spanEnd)
            = Max({-1} \cup Ats(s, colon + 1, spanEnd, spanEnd))
        BY <3>1, <1>1, BoundaryIs
      <3> QED BY <3>2, <2>3
    <2> QED BY <2>2, <2>3
  <1>5. FindUserinfoEnd(s, start) = Max({a, b})
    <2>1. FindUserinfoEnd(s, start)
          = Max({IF colon = spanEnd THEN -1 ELSE FindBoundaryIn(s, colon + 1, spanEnd, spanEnd),
                 FindBoundaryIn(s, start, colon, spanEnd)})
      BY DEF FindUserinfoEnd, spanEnd, colon, C
    <2>2. colon = spanEnd => a = -1
      <3> SUFFICES ASSUME colon = spanEnd PROVE a = -1
        OBVIOUS
      <3>1. {-1} \cup rights = {-1}
        OBVIOUS
      <3>2. Max({-1}) = -1
        BY MaxIs
      <3> QED BY <3>1, <3>2
    <2> HIDE DEF a, b
    <2> QED BY <2>1, <2>2, <1>4
  <1>6. ends = lefts \cup rights
    <2> DEFINE Slot(at) == LET colons == {j \in start .. at - 1 : s[j] = "colon"}
                           IN  IF colons = {} THEN start ELSE Min(colons) + 1
               Shape(at) == LET slot == Slot(at)
                                last == Max({slot - 1} \cup {j \in slot .. at - 1 : s[j] \notin Spaces})
                            IN  \A j \in slot .. last : s[j] \notin Spaces
               Here(at) == s[at] = "at" /\ HasHostAfter(at, spanEnd)
    <2>1. ends = {at \in start .. spanEnd - 1 : Here(at) /\ Shape(at)}
      <3>1. ends = {at \in start .. spanEnd - 1 : s[at] = "at" /\ HasHostAfter(at, spanEnd) /\ Shape(at)}
        BY DEF UserinfoEnds, spanEnd
      <3> QED BY <3>1
    <2>2. ASSUME NEW at \in start .. spanEnd - 1, at < colon
          PROVE  Shape(at) <=> BlanksLast(s, start, at)
      <3>1. {j \in start .. at - 1 : s[j] = "colon"} = {}
        BY <1>1, <1>3, <2>2
      <3>2. Slot(at) = start
        BY <3>1
      <3> HIDE DEF Slot
      <3>3. start \in Nat /\ at \in Int /\ start <= at
        BY <1>1
      <3> QED BY <3>2, <3>3, BlanksLastSays
    <2>3. ASSUME NEW at \in start .. spanEnd - 1, at > colon
          PROVE  Shape(at) <=> BlanksLast(s, colon + 1, at)
      <3> DEFINE colons == {j \in start .. at - 1 : s[j] = "colon"}
      <3>1. colon \in colons
        BY <1>1, <1>3, <2>3
      <3>2. \A y \in colons : y \in Int /\ colon <= y
        <4> SUFFICES ASSUME NEW y \in colons, ~(colon <= y) PROVE FALSE
          BY <1>1
        <4>1. y \in start .. colon - 1
          BY <1>1, <1>3
        <4> QED BY <4>1, <1>3
      <3>3. Min(colons) = colon
        <4> HIDE DEF colons
        <4> QED BY <3>1, <3>2, MinIs
      <3>4. Slot(at) = colon + 1
        BY <3>1, <3>3
      <3> HIDE DEF Slot
      <3>5. colon + 1 \in Nat /\ at \in Int /\ colon + 1 <= at
        BY <1>1, <1>3, <2>3
      <3> QED BY <3>4, <3>5, BlanksLastSays
    <2> HIDE DEF Shape
    <2>4. ASSUME NEW at PROVE at \in ends <=> at \in lefts \cup rights
      <3>1. at \in ends <=> at \in start .. spanEnd - 1 /\ Here(at) /\ Shape(at)
        BY <2>1
      <3>2. at \in lefts <=> at \in start .. colon - 1 /\ Here(at) /\ BlanksLast(s, start, at)
        BY DEF Ats
      <3>3. at \in rights <=> /\ colon # spanEnd
                              /\ at \in colon + 1 .. spanEnd - 1 /\ Here(at)
                              /\ BlanksLast(s, colon + 1, at)
        BY DEF Ats
      <3>4. CASE at \in start .. spanEnd - 1
        <4>1. at = colon => ~Here(at)
          BY <3>4, <1>1, <1>3
        <4> HIDE DEF Here, ends, lefts, rights
        <4>2. at \in Int /\ colon \in Int /\ spanEnd \in Int /\ (at < colon \/ at = colon \/ at > colon)
          BY <3>4, <1>1, <1>3
        <4>3. at < colon => at \in start .. colon - 1 /\ at \notin colon + 1 .. spanEnd - 1
          BY <3>4, <1>1, <4>2
        <4>4. at > colon => colon # spanEnd /\ at \in colon + 1 .. spanEnd - 1 /\ at \notin start .. colon - 1
          BY <3>4, <1>1, <4>2
        <4>5. CASE at < colon
          BY <4>5, <4>3, <3>1, <3>2, <3>3, <3>4, <2>2
        <4>6. CASE at = colon
          BY <4>6, <4>1, <3>1, <3>2, <3>3
        <4>7. CASE at > colon
          BY <4>7, <4>4, <3>1, <3>2, <3>3, <3>4, <2>3
        <4> QED BY <4>2, <4>5, <4>6, <4>7
      <3>5. CASE at \notin start .. spanEnd - 1
        <4> HIDE DEF Here, ends, lefts, rights
        <4>1. at \notin start .. colon - 1 /\ at \notin colon + 1 .. spanEnd - 1
          BY <3>5, <1>1, <1>3
        <4> QED BY <4>1, <3>1, <3>2, <3>3, <3>5
      <3> QED BY <3>4, <3>5
    <2> HIDE DEF ends, lefts, rights
    <2> QED BY <2>4
  <1>7. \A y \in lefts \cup rights : y \in start .. Len(s)
    BY <1>1, <1>3 DEF Ats
  <1> HIDE DEF lefts, rights, ends
  <1>8. /\ a \in {-1} \cup rights /\ a \in Int /\ \A y \in {-1} \cup rights : y <= a
        /\ b \in {-1} \cup lefts /\ b \in Int /\ \A y \in {-1} \cup lefts : y <= b
    <2>1. /\ {-1} \cup rights # {} /\ {-1} \cup lefts # {} /\ Len(s) \in Int
          /\ \A x \in {-1} \cup rights : x \in Int /\ x <= Len(s)
          /\ \A x \in {-1} \cup lefts : x \in Int /\ x <= Len(s)
      BY <1>7, <1>1
    <2> QED BY <2>1, MaxOf
  <1> HIDE DEF a, b
  <1>9. PICK m \in {a, b} : m \in Int /\ a <= m /\ b <= m
    BY <1>8
  <1>10. Max({a, b}) = m
    BY <1>8, <1>9, MaxIs
  <1>11. Max({-1} \cup ends) = m
    <2>1. m \in {-1} \cup ends /\ \A y \in {-1} \cup ends : y \in Int /\ y <= m
      <3>1. m \in {-1} \cup ends
        BY <1>6, <1>8
      <3>2. ASSUME NEW y \in {-1} \cup ends PROVE y \in Int /\ y <= m
        <4>1. y \in Int
          BY <1>6, <1>7
        <4>2. y <= a \/ y <= b
          BY <1>6, <1>8
        <4> QED BY <4>1, <4>2, <1>8, <1>9
      <3> QED BY <3>1, <3>2
    <2> QED BY <2>1, <1>9, MaxIs
  <1>12. m = -1 \/ m \in start .. Len(s)
    BY <1>7, <1>8
  <1> QED BY <1>5, <1>10, <1>11, <1>12 DEF ends

\* What goes on from each place of a list to a later one comes to an end.
Landing(f, N, M, next) == f = [j \in 1 .. N |-> IF j \in M THEN f[next[j]] ELSE j]

LEMMA SomethingEnds ==
  ASSUME NEW N \in Nat, NEW M \in SUBSET (1 .. N), NEW next,
         \A j \in M : next[j] \in j + 1 .. N
  PROVE  \E f : Landing(f, N, M, next)
  <1> DEFINE Next1(f, j) == IF j \in M THEN f[next[j]] ELSE j
             From(f, i) == \A j \in 1 .. N : j >= i => f[j] = Next1(f, j)
             Done == {i \in 1 .. N + 1 : \E f : From(f, i)}
  <1>1. N + 1 \in Done
    <2>1. From(next, N + 1)
      OBVIOUS
    <2> QED BY <2>1
  <1>2. ASSUME NEW i \in 1 .. N, \A k \in i + 1 .. N + 1 : k \in Done PROVE i \in Done
    <2>1. i + 1 \in Done
      <3>1. i + 1 \in i + 1 .. N + 1
        OBVIOUS
      <3> HIDE DEF Done
      <3> QED BY <3>1, <1>2
    <2>2. PICK f : From(f, i + 1)
      BY <2>1
    <2> DEFINE g == [j \in 1 .. N |-> IF j = i THEN Next1(f, i) ELSE f[j]]
    <2>3. ASSUME NEW j \in 1 .. N, j >= i PROVE g[j] = Next1(g, j)
      <3>1. j \in M => g[next[j]] = f[next[j]]
        <4> SUFFICES ASSUME j \in M PROVE g[next[j]] = f[next[j]]
          OBVIOUS
        <4>1. next[j] \in 1 .. N /\ next[j] # i
          BY <2>3
        <4> QED BY <4>1
      <3>2. Next1(g, j) = Next1(f, j)
        <4> HIDE DEF g
        <4> QED BY <3>1
      <3>3. CASE j = i
        BY <3>2, <3>3
      <3>4. CASE j # i
        <4>1. g[j] = f[j] /\ j >= i + 1
          BY <3>4, <2>3
        <4>2. f[j] = Next1(f, j)
          BY <4>1, <2>2
        <4> HIDE DEF g, Next1
        <4> QED BY <4>1, <4>2, <3>2
      <3> QED BY <3>3, <3>4
    <2>4. From(g, i)
      <3> HIDE DEF g, Next1
      <3> QED BY <2>3
    <2> HIDE DEF g, From
    <2> QED BY <2>4
  <1>3. \A i \in 1 .. N + 1 : i \in Done
    <2> HIDE DEF Done
    <2> QED BY <1>1, <1>2, FromTheEnd
  <1>4. PICK f : From(f, 1)
    BY <1>3
  <1> DEFINE h == [j \in 1 .. N |-> f[j]]
  <1>5. ASSUME NEW j \in 1 .. N PROVE h[j] = Next1(h, j)
    <2>1. f[j] = Next1(f, j)
      BY <1>4
    <2>2. j \in M => h[next[j]] = f[next[j]]
      OBVIOUS
    <2>3. Next1(h, j) = Next1(f, j)
      <3> HIDE DEF h
      <3> QED BY <2>2
    <2>4. h[j] = f[j]
      OBVIOUS
    <2> HIDE DEF h, Next1
    <2> QED BY <2>1, <2>3, <2>4
  <1>6. h = [j \in 1 .. N |-> Next1(h, j)]
    <2>1. h = [j \in 1 .. N |-> h[j]]
      OBVIOUS
    <2> HIDE DEF h, Next1
    <2> QED BY <2>1, <1>5
  <1> HIDE DEF h
  <1> QED BY <1>6 DEF Landing

LEMMA EndsLater ==
  ASSUME NEW N \in Nat, NEW M \in SUBSET (1 .. N), NEW next,
         \A j \in M : next[j] \in j + 1 .. N,
         NEW f, Landing(f, N, M, next)
  PROVE  \A j \in 1 .. N : f[j] \in j .. N
  <1> DEFINE Good == {i \in 1 .. N + 1 : i <= N => f[i] \in i .. N}
  <1>1. \A j \in 1 .. N : f[j] = IF j \in M THEN f[next[j]] ELSE j
    BY DEF Landing
  <1>2. N + 1 \in Good
    OBVIOUS
  <1>3. ASSUME NEW i \in 1 .. N, \A k \in i + 1 .. N + 1 : k \in Good PROVE i \in Good
    <2>1. CASE i \in M
      <3>1. next[i] \in i + 1 .. N /\ f[i] = f[next[i]]
        BY <1>1, <2>1
      <3>2. next[i] \in Good
        <4>1. next[i] \in i + 1 .. N + 1
          BY <3>1
        <4> HIDE DEF Good
        <4> QED BY <4>1, <1>3
      <3>3. f[next[i]] \in next[i] .. N
        BY <3>1, <3>2
      <3> QED BY <3>1, <3>3
    <2>2. CASE i \notin M
      <3>1. f[i] = i
        BY <1>1, <2>2
      <3> QED BY <3>1
    <2> QED BY <2>1, <2>2
  <1>4. \A i \in 1 .. N + 1 : i \in Good
    <2> HIDE DEF Good
    <2> QED BY <1>2, <1>3, FromTheEnd
  <1> QED BY <1>4

LEMMA CollectPrivateKeyFinds ==
  ASSUME NEW s, Len(s) \in Nat
  PROVE  Finds(s, CollectPrivateKey(s))
  <1> DEFINE N == Len(s) + 1
             Line(j) == RunEnd(s, RunEnd(s, j, Spaces), Alnum \cup {"colon", "slash"})
             HasLine(j) == RunEnd(s, j, Spaces) > j /\ Line(j) > RunEnd(s, j, Spaces)
             M == {j \in 1 .. N : HasLine(j)}
             next == [j \in 1 .. N |-> Line(j)]
             body == CHOOSE f : f = [j \in 1 .. N |-> IF HasLine(j) THEN f[Line(j)] ELSE j]
             Footed(j) == LET k == RunEnd(s, j, Spaces)
                          IN  IF k > j /\ TokenAt(s, k) = "foot" THEN k + 1 ELSE j
             I == {i \in 1 .. Len(s) : s[i] = "head"}
             S == {Segment(i, Footed(body[i + 1]), "private-key") : i \in I}
  <1>1. N \in Nat /\ N = Len(s) + 1
    OBVIOUS
  <1>2. ASSUME NEW j \in 1 .. N
        PROVE  RunEnd(s, j, Spaces) \in j .. N /\ Line(j) \in RunEnd(s, j, Spaces) .. N
    <2>1. RunEnd(s, j, Spaces) \in j .. N
      BY <1>1, RunEnds
    <2>2. RunEnd(s, j, Spaces) \in 1 .. N
      BY <2>1, <1>1
    <2>3. Line(j) \in RunEnd(s, j, Spaces) .. N
      BY <2>2, <1>1, RunEnds
    <2> QED BY <2>1, <2>3
  <1>3. \A j \in M : next[j] \in j + 1 .. N
    <2> SUFFICES ASSUME NEW j \in 1 .. N, HasLine(j) PROVE Line(j) \in j + 1 .. N
      OBVIOUS
    <2> DEFINE r == RunEnd(s, j, Spaces)
    <2>1. r \in j .. N /\ Line(j) \in r .. N /\ r > j
      BY <1>2
    <2> HIDE DEF r, Line, N
    <2> QED BY <1>1, <2>1
  <1>4. \A f : (f = [j \in 1 .. N |-> IF HasLine(j) THEN f[Line(j)] ELSE j]) <=> Landing(f, N, M, next)
    <2> SUFFICES ASSUME NEW f
                 PROVE  (f = [j \in 1 .. N |-> IF HasLine(j) THEN f[Line(j)] ELSE j]) <=> Landing(f, N, M, next)
      OBVIOUS
    <2>1. \A j \in 1 .. N : (IF HasLine(j) THEN f[Line(j)] ELSE j) = (IF j \in M THEN f[next[j]] ELSE j)
      <3> HIDE DEF Line, HasLine, N
      <3> QED OBVIOUS
    <2> HIDE DEF HasLine, Line, M, next, N
    <2>2. [j \in 1 .. N |-> IF HasLine(j) THEN f[Line(j)] ELSE j]
          = [j \in 1 .. N |-> IF j \in M THEN f[next[j]] ELSE j]
      BY <2>1
    <2> QED BY <2>2 DEF Landing
  <1>5. \A j \in 1 .. N : body[j] \in j .. N
    <2>1. \E f : Landing(f, N, M, next)
      <3> M \in SUBSET (1 .. N)
        OBVIOUS
      <3> HIDE DEF M, next, N
      <3> QED BY <1>1, <1>3, SomethingEnds
    <2>2. Landing(body, N, M, next)
      <3> HIDE DEF M, next, HasLine, Line, N
      <3> QED BY <1>4, <2>1
    <2> M \in SUBSET (1 .. N)
      OBVIOUS
    <2> HIDE DEF M, next, N, body
    <2> QED BY <1>1, <1>3, <2>2, EndsLater
  <1>6. CollectPrivateKey(s) = InOrder(S)
    BY DEF CollectPrivateKey
  <1> HIDE DEF body
  <1>7. ASSUME NEW i \in I PROVE Segment(i, Footed(body[i + 1]), "private-key") \in Within(Len(s), "private-key")
    <2>1. i + 1 \in 1 .. N /\ i \in 1 .. Len(s) + 1 /\ i \in Int
      BY <1>1
    <2>2. body[i + 1] \in 1 .. N
      <3> HIDE DEF N
      <3>1. body[i + 1] \in i + 1 .. N
        BY <2>1, <1>5
      <3> QED BY <2>1, <3>1, <1>1
    <2> DEFINE b == body[i + 1]
               k == RunEnd(s, b, Spaces)
    <2>3. k \in b .. N
      BY <1>2, <2>2
    <2> HIDE DEF k
    <2>4. TokenAt(s, k) = "foot" => k \in 1 .. Len(s)
      BY DEF TokenAt
    <2>5. Footed(b) = IF k > b /\ TokenAt(s, k) = "foot" THEN k + 1 ELSE b
      BY DEF k
    <2> HIDE DEF Footed, b
    <2>6. Footed(b) \in 0 .. Len(s) + 1
      BY <2>2, <2>3, <2>4, <2>5, <1>1 DEF b
    <2> HIDE DEF I, N
    <2>7. Segment(i, Footed(b), "private-key") \in Within(Len(s), "private-key")
      BY <2>1, <2>6, WithinIs
    <2> QED BY <2>7 DEF b
  <1>8. S \in SUBSET Within(Len(s), "private-key")
    <2> HIDE DEF I, Footed
    <2> QED BY <1>7
  <1>9. "private-key" \in MaskLabels
    BY DEF MaskLabels
  <1> HIDE DEF S
  <1> QED BY <1>6, <1>8, <1>9, InOrderLists DEF Finds

LEMMA UserinfoPartsWithin ==
  ASSUME NEW s, Len(s) \in Nat, NEW start \in 1 .. Len(s) + 1, NEW end \in start .. Len(s)
  PROVE  UserinfoParts(s, start, end) \in SUBSET Within(Len(s), "db-credentials")
  <1> DEFINE C == {end} \cup {j \in start .. end - 1 : s[j] = "colon"}
             colon == Min(C)
             passEnd == Max({colon + 1} \cup {k + 1 : k \in {k \in colon + 1 .. end - 1 : s[k] \notin Spaces}})
             parts == {part \in {<<start, colon>>, <<colon + 1, passEnd>>} :
                          part[2] > part[1] /\ ~IsPlaceholder(s, part[1], part[2])}
             Part(part) == Segment(part[1], IF part[1] = start THEN colon ELSE end, "db-credentials")
  <1>1. colon \in start .. end
    <2>1. end \in C /\ \A x \in C : x \in Int /\ start <= x
      OBVIOUS
    <2>2. C # {} /\ start \in Int
      BY <2>1
    <2> HIDE DEF C
    <2>3. Min(C) \in C /\ Min(C) \in Int /\ \A y \in C : Min(C) <= y
      BY <2>1, <2>2, MinOf
    <2> QED BY <2>1, <2>3
  <1>2. UserinfoParts(s, start, end) = IF Cardinality(parts) = 2 THEN {Segment(start, end, "db-credentials")}
                                       ELSE {Part(part) : part \in parts}
    BY DEF UserinfoParts
  <1> HIDE DEF colon, C, passEnd
  <1>3. ASSUME NEW part \in parts PROVE Part(part) \in Within(Len(s), "db-credentials")
    <2>1. part[1] \in 1 .. Len(s) + 1
      BY <1>1
    <2>2. (IF part[1] = start THEN colon ELSE end) \in 0 .. Len(s) + 1
      BY <1>1
    <2> HIDE DEF parts
    <2> QED BY <2>1, <2>2, WithinIs
  <1>4. Segment(start, end, "db-credentials") \in Within(Len(s), "db-credentials")
    <2>1. end \in 0 .. Len(s) + 1
      OBVIOUS
    <2> QED BY <2>1, WithinIs
  <1> HIDE DEF Part, parts
  <1> QED BY <1>2, <1>3, <1>4

LEMMA CollectMongoCredentialsFinds ==
  ASSUME NEW s, Len(s) \in Nat
  PROVE  Finds(s, CollectMongoCredentials(s))
  <1> DEFINE schemes == {i \in 1 .. Len(s) : s[i] = "db" /\ NotAlnum(TokenAt(s, i - 1))}
             found == {i \in schemes : FindUserinfoEnd(s, i + 1) >= 0}
             Of(i) == UserinfoParts(s, i + 1, FindUserinfoEnd(s, i + 1))
             S == UNION {Of(i) : i \in found}
  <1>1. ASSUME NEW i \in found PROVE Of(i) \in SUBSET Within(Len(s), "db-credentials")
    <2>1. i + 1 \in 1 .. Len(s) + 1 /\ FindUserinfoEnd(s, i + 1) >= 0
      OBVIOUS
    <2>2. FindUserinfoEnd(s, i + 1) \in i + 1 .. Len(s)
      <3>1. FindUserinfoEnd(s, i + 1) = -1 \/ FindUserinfoEnd(s, i + 1) \in i + 1 .. Len(s)
        BY <2>1, UserinfoIs
      <3>2. ~(-1 >= 0)
        OBVIOUS
      <3> QED BY <2>1, <3>1, <3>2
    <2> HIDE DEF found
    <2> QED BY <2>1, <2>2, UserinfoPartsWithin
  <1>2. S \in SUBSET Within(Len(s), "db-credentials")
    <2> HIDE DEF found, Of
    <2> QED BY <1>1
  <1>3. CollectMongoCredentials(s) = InOrder(S)
    BY DEF CollectMongoCredentials
  <1>4. "db-credentials" \in MaskLabels
    BY DEF MaskLabels
  <1> HIDE DEF S
  <1> QED BY <1>2, <1>3, <1>4, InOrderLists DEF Finds

LEMMA TokenIsInside ==
  ASSUME NEW s, Len(s) \in Nat, NEW i, NEW t, TokenAt(s, i) = t, t # "end"
  PROVE  i \in 1 .. Len(s) /\ s[i] = t
  BY DEF TokenAt

LEMMA CollectUrlCredentialsFinds ==
  ASSUME NEW s, Len(s) \in Nat
  PROVE  Finds(s, CollectUrlCredentials(s))
  <1> DEFINE UserEnd(i) == RunEnd(s, i, Tokens \ (Spaces \cup {"slash", "at", "colon"}))
             PassEnd(i) == RunEnd(s, i, Tokens \ (Spaces \cup {"slash", "at"}))
             I == {i \in 1 .. Len(s) : s[i] = "url" /\ NotAlnum(TokenAt(s, i - 1))}
             pairs == {<<i, UserEnd(i + 1)>> : i \in I}
             Real(p) == /\ p[2] > p[1] + 1 /\ TokenAt(s, p[2]) = "colon"
                        /\ PassEnd(p[2] + 1) > p[2] + 1 /\ TokenAt(s, PassEnd(p[2] + 1)) = "at"
                        /\ TokenAt(s, PassEnd(p[2] + 1) + 1) \in StartsAlnum \cup MaskLabels
                        /\ ~IsPlaceholder(s, p[2] + 1, PassEnd(p[2] + 1))
             P == {p \in pairs : Real(p)}
             Found(p) == Segment(p[1] + 1, PassEnd(p[2] + 1), "url-credentials")
             S == {Found(p) : p \in P}
  <1>1. ASSUME NEW p \in P PROVE Found(p) \in Within(Len(s), "url-credentials")
    <2>1. PICK i \in I : p = <<i, UserEnd(i + 1)>>
      <3> HIDE DEF Real, I, UserEnd
      <3> QED OBVIOUS
    <2>2. p[1] = i /\ i \in 1 .. Len(s)
      BY <2>1
    <2>3. TokenAt(s, p[2]) = "colon" /\ "colon" # "end"
      <3> HIDE DEF pairs, PassEnd
      <3> QED OBVIOUS
    <2>4. p[2] \in 1 .. Len(s)
      BY <2>3, TokenIsInside
    <2> HIDE DEF P
    <2>5. p[2] + 1 \in 1 .. Len(s) + 1
      BY <2>4
    <2>6. PassEnd(p[2] + 1) \in p[2] + 1 .. Len(s) + 1
      BY <2>5, RunEnds
    <2> HIDE DEF PassEnd
    <2>7. PassEnd(p[2] + 1) \in 0 .. Len(s) + 1
      BY <2>4, <2>6
    <2>8. p[1] + 1 \in 1 .. Len(s) + 1
      BY <2>2
    <2> QED BY <2>7, <2>8, WithinIs
  <1>2. S \in SUBSET Within(Len(s), "url-credentials")
    <2> HIDE DEF P, Found
    <2> QED BY <1>1
  <1>3. CollectUrlCredentials(s) = InOrder(S)
    BY DEF CollectUrlCredentials
  <1>4. "url-credentials" \in MaskLabels
    BY DEF MaskLabels
  <1> HIDE DEF S
  <1> QED BY <1>2, <1>3, <1>4, InOrderLists DEF Finds

LEMMA CollectBearerTokenFinds ==
  ASSUME NEW s, Len(s) \in Nat
  PROVE  Finds(s, CollectBearerToken(s))
  <1> DEFINE TokenEnd(j) == IF TokenAt(s, j) = "hole" THEN j + 1
                            ELSE RunEnd(s, j, Alnum \cup {"slash", "stop"})
             I == {i \in 1 .. Len(s) : s[i] = "bearer" /\ NotAlnum(TokenAt(s, i - 1))}
             starts == {<<i, RunEnd(s, i + 1, {"space"})>> : i \in I}
             Real(p) == /\ p[2] > p[1] + 1 /\ Width(s, p[2], TokenEnd(p[2])) >= 4
                        /\ ~IsPlaceholder(s, p[2], TokenEnd(p[2]))
             P == {p \in starts : Real(p)}
             Found(p) == Segment(p[2], TokenEnd(p[2]), "bearer-token")
             S == {Found(p) : p \in P}
  <1>1. ASSUME NEW p \in P PROVE Found(p) \in Within(Len(s), "bearer-token")
    <2>1. PICK i \in I : p = <<i, RunEnd(s, i + 1, {"space"})>>
      <3> HIDE DEF Real, I
      <3> QED OBVIOUS
    <2>2. i + 1 \in 1 .. Len(s) + 1 /\ p[2] = RunEnd(s, i + 1, {"space"})
      BY <2>1
    <2>3. p[2] \in i + 1 .. Len(s) + 1 /\ i \in Nat
      BY <2>2, RunEnds
    <2> HIDE DEF P
    <2>4. p[2] \in 1 .. Len(s) + 1
      BY <2>3
    <2>5. RunEnd(s, p[2], Alnum \cup {"slash", "stop"}) \in p[2] .. Len(s) + 1
      BY <2>4, RunEnds
    <2>6. TokenAt(s, p[2]) = "hole" => p[2] \in 1 .. Len(s)
      BY DEF TokenAt
    <2>7. TokenEnd(p[2]) \in 0 .. Len(s) + 1
      BY <2>4, <2>5, <2>6
    <2> HIDE DEF TokenEnd
    <2> QED BY <2>4, <2>7, WithinIs
  <1>2. S \in SUBSET Within(Len(s), "bearer-token")
    <2> HIDE DEF P, Found
    <2> QED BY <1>1
  <1>3. CollectBearerToken(s) = InOrder(S)
    BY DEF CollectBearerToken
  <1>4. "bearer-token" \in MaskLabels
    BY DEF MaskLabels
  <1> HIDE DEF S
  <1> QED BY <1>2, <1>3, <1>4, InOrderLists DEF Finds

LEMMA CollectAwsAccessKeyFinds ==
  ASSUME NEW s, Len(s) \in Nat
  PROVE  Finds(s, CollectAwsAccessKey(s))
  <1> DEFINE I == {i \in 1 .. Len(s) - 1 : /\ s[i] = "akia" /\ s[i + 1] = "rest"
                                           /\ NotAlnum(TokenAt(s, i - 1))
                                           /\ TokenAt(s, i + 2) \notin StartsAlnum}
             S == {Segment(i, i + 2, "aws-access-key") : i \in I}
  <1>1. ASSUME NEW i \in I PROVE Segment(i, i + 2, "aws-access-key") \in Within(Len(s), "aws-access-key")
    <2>1. i \in 1 .. Len(s) + 1 /\ i + 2 \in 0 .. Len(s) + 1
      OBVIOUS
    <2> QED BY <2>1, WithinIs
  <1>2. S \in SUBSET Within(Len(s), "aws-access-key")
    <2> HIDE DEF I
    <2> QED BY <1>1
  <1>3. CollectAwsAccessKey(s) = InOrder(S)
    BY DEF CollectAwsAccessKey
  <1>4. "aws-access-key" \in MaskLabels
    BY DEF MaskLabels
  <1> HIDE DEF S
  <1> QED BY <1>2, <1>3, <1>4, InOrderLists DEF Finds

LEMMA CollectAnchoredAwsSecretKeyFinds ==
  ASSUME NEW s, Len(s) \in Nat
  PROVE  Finds(s, CollectAnchoredAwsSecretKey(s))
  <1> DEFINE Value(i) == LET j == ValueStart(s, i + 1, Spaces)
                         IN  Segment(j, RunEnd(s, j, {"word", "akia", "rest", "blob", "sha", "slash"}),
                                     "aws-secret-key")
             I == {i \in 1 .. Len(s) : s[i] = "awsName"}
             S == {sg \in {Value(i) : i \in I} : \E k \in sg.from .. sg.to - 1 : s[k] \in {"blob", "sha"}}
  <1>1. ASSUME NEW i \in I PROVE Value(i) \in Within(Len(s), "aws-secret-key")
    <2> DEFINE j == ValueStart(s, i + 1, Spaces)
    <2>1. i + 1 \in 1 .. Len(s) + 1
      OBVIOUS
    <2>2. j \in 1 .. Len(s) + 1
      BY <2>1, ValueStarts
    <2> HIDE DEF j, I
    <2>3. RunEnd(s, j, {"word", "akia", "rest", "blob", "sha", "slash"}) \in 0 .. Len(s) + 1
      BY <2>2, RunEnds
    <2>4. Segment(j, RunEnd(s, j, {"word", "akia", "rest", "blob", "sha", "slash"}), "aws-secret-key")
          \in Within(Len(s), "aws-secret-key")
      BY <2>2, <2>3, WithinIs
    <2> QED BY <2>4 DEF j
  <1>2. S \in SUBSET Within(Len(s), "aws-secret-key")
    <2> HIDE DEF I, Value
    <2> QED BY <1>1
  <1>3. CollectAnchoredAwsSecretKey(s) = InOrder(S)
    BY DEF CollectAnchoredAwsSecretKey
  <1>4. "aws-secret-key" \in MaskLabels
    BY DEF MaskLabels
  <1> HIDE DEF S
  <1> QED BY <1>2, <1>3, <1>4, InOrderLists DEF Finds

LEMMA CollectEmailFinds ==
  ASSUME NEW s, Len(s) \in Nat
  PROVE  Finds(s, CollectEmail(s))
  <1> DEFINE Before(at) == {0} \cup {j \in 1 .. at - 1 : s[j] \notin Alnum \cup {"stop"}}
             Local(at) == Max(Before(at)) + 1
             I == {at \in 1 .. Len(s) - 1 : s[at] = "at" /\ s[at + 1] = "host" /\ Local(at) < at}
             S == {Segment(Local(at), at + 2, "email") : at \in I}
  <1>1. ASSUME NEW at \in I PROVE Segment(Local(at), at + 2, "email") \in Within(Len(s), "email")
    <2>1. at \in 1 .. Len(s) - 1
      OBVIOUS
    <2>2. Before(at) # {} /\ at \in Int /\ \A x \in Before(at) : x \in Int /\ x <= at /\ x >= 0 /\ x <= at - 1
      BY <2>1
    <2>3. Max(Before(at)) \in Before(at)
      <3> HIDE DEF Before
      <3> QED BY <2>2, MaxOf
    <2>4. Local(at) \in 1 .. Len(s) + 1 /\ at + 2 \in 0 .. Len(s) + 1
      <3> HIDE DEF Before
      <3> QED BY <2>1, <2>2, <2>3
    <2> HIDE DEF Local
    <2> QED BY <2>4, WithinIs
  <1>2. S \in SUBSET Within(Len(s), "email")
    <2> HIDE DEF I, Local
    <2> QED BY <1>1
  <1>3. CollectEmail(s) = InOrder(S)
    BY DEF CollectEmail
  <1>4. "email" \in MaskLabels
    BY DEF MaskLabels
  <1> HIDE DEF S
  <1> QED BY <1>2, <1>3, <1>4, InOrderLists DEF Finds

LEMMA CollectJwtFinds ==
  ASSUME NEW s, Len(s) \in Nat
  PROVE  Finds(s, CollectJwt(s))
  <1> DEFINE I == {i \in 1 .. Len(s) : s[i] = "jwt" /\ NotAlnum(TokenAt(s, i - 1))}
             S == {Segment(i, RunEnd(s, i, Alnum), "jwt") : i \in I}
  <1>1. ASSUME NEW i \in I PROVE Segment(i, RunEnd(s, i, Alnum), "jwt") \in Within(Len(s), "jwt")
    <2>1. i \in 1 .. Len(s) + 1
      OBVIOUS
    <2>2. RunEnd(s, i, Alnum) \in 0 .. Len(s) + 1
      BY <2>1, RunEnds
    <2> QED BY <2>1, <2>2, WithinIs
  <1>2. S \in SUBSET Within(Len(s), "jwt")
    <2> HIDE DEF I
    <2> QED BY <1>1
  <1>3. CollectJwt(s) = InOrder(S)
    BY DEF CollectJwt
  <1>4. "jwt" \in MaskLabels
    BY DEF MaskLabels
  <1> HIDE DEF S
  <1> QED BY <1>2, <1>3, <1>4, InOrderLists DEF Finds

LEMMA CollectKoreanCredentialFinds ==
  ASSUME NEW s, Len(s) \in Nat
  PROVE  Finds(s, CollectKoreanCredential(s))
  <1> DEFINE Printable == Tokens \ (Gaps \cup {"korean", "wide", "careOf"})
             Marked == {"rest", "blob", "sha", "vendor", "at"} \cup SettingNames
             Value(i) == LET j == ValueStart(s, i + 1, {"space"})
                         IN  Segment(j, RunEnd(s, j, Printable), "credential")
             Stops(sg) == {sg.from} \cup {k + 1 : k \in {k \in sg.from .. sg.to - 1 : s[k] # "stop"}}
             Trimmed(sg) == [sg EXCEPT !.to = Max(Stops(sg))]
             I == {i \in 1 .. Len(s) : s[i] = "korean"}
             V == {sg \in {Value(i) : i \in I} :
                     /\ Width(s, sg.from, sg.to) >= 4
                     /\ \E k \in sg.from .. sg.to - 1 : s[k] \in Marked
                     /\ ~IsPlaceholder(s, sg.from, sg.to)}
             S == {Trimmed(sg) : sg \in V}
  <1>1. ASSUME NEW i \in I PROVE Value(i) \in Within(Len(s), "credential")
    <2> DEFINE j == ValueStart(s, i + 1, {"space"})
    <2>1. i + 1 \in 1 .. Len(s) + 1
      OBVIOUS
    <2>2. j \in 1 .. Len(s) + 1
      BY <2>1, ValueStarts
    <2> HIDE DEF j, I, Printable
    <2>3. RunEnd(s, j, Printable) \in 0 .. Len(s) + 1
      BY <2>2, RunEnds
    <2>4. Segment(j, RunEnd(s, j, Printable), "credential") \in Within(Len(s), "credential")
      BY <2>2, <2>3, WithinIs
    <2> QED BY <2>4 DEF j
  <1>2. V \in SUBSET Within(Len(s), "credential")
    <2> HIDE DEF I, Value, Marked
    <2> QED BY <1>1
  <1>3. ASSUME NEW sg \in Within(Len(s), "credential") PROVE Trimmed(sg) \in Within(Len(s), "credential")
    <2>1. PICK i \in 1 .. Len(s) + 1, j \in 0 .. Len(s) + 1 : sg = Segment(i, j, "credential")
      BY DEF Within
    <2>2. /\ sg.from = i /\ sg.to = j
          /\ sg = [from |-> i, to |-> j, kind |-> "credential"]
      BY <2>1, SegmentFields
    <2>3. Stops(sg) # {} /\ Len(s) + 1 \in Int /\ \A x \in Stops(sg) : x \in Int /\ x <= Len(s) + 1 /\ x >= 0
      BY <2>2
    <2>4. Max(Stops(sg)) \in 0 .. Len(s) + 1
      <3>1. Max(Stops(sg)) \in Stops(sg)
        <4> HIDE DEF Stops
        <4> QED BY <2>3, MaxOf
      <3> HIDE DEF Stops
      <3> QED BY <3>1, <2>3
    <2> HIDE DEF Stops
    <2>5. Trimmed(sg) = Segment(i, Max(Stops(sg)), "credential")
      BY <2>2 DEF Segment
    <2> QED BY <2>4, <2>5, WithinIs
  <1>4. S \in SUBSET Within(Len(s), "credential")
    <2> HIDE DEF V, Trimmed
    <2> QED BY <1>2, <1>3
  <1>5. CollectKoreanCredential(s) = InOrder(S)
    BY DEF CollectKoreanCredential
  <1>6. "credential" \in MaskLabels
    BY DEF MaskLabels
  <1> HIDE DEF S
  <1> QED BY <1>4, <1>5, <1>6, InOrderLists DEF Finds

LEMMA TwoLists ==
  ASSUME NEW s, NEW a, NEW b, Finds(s, a), Finds(s, b)
  PROVE  Finds(s, a \o b)
  BY ConcatProperties DEF Finds

LEMMA CollectAnchoredCredentialFinds ==
  ASSUME NEW s, Len(s) \in Nat
  PROVE  Finds(s, CollectAnchoredCredential(s))
  <1> "credential" \in MaskLabels
    BY DEF MaskLabels
  <1> QED BY AnchoredFinds, TwoLists DEF CollectAnchoredCredential

LEMMA CollectBasicCredentialFinds ==
  ASSUME NEW s, Len(s) \in Nat
  PROVE  Finds(s, CollectBasicCredential(s))
  <1> DEFINE After(i) == RunEnd(s, i + 1, {"space"})
             B == {i \in 1 .. Len(s) : s[i] = "basic" /\ After(i) > i + 1}
             BasicAt(i) == Segment(After(i), RunEnd(s, After(i), {"word", "akia", "rest", "blob", "sha", "slash"}),
                                   "credential")
             basic == {BasicAt(i) : i \in B}
             User(i) == ValueStart(s, i + 1, {"space"})
             Colon(i) == RunEnd(s, User(i), Tokens \ (ValueStops \cup {"colon"}))
             U == {i \in 1 .. Len(s) : /\ s[i] = "curl" /\ NotAlnum(TokenAt(s, i - 1)) /\ After(i) > i + 1
                                       /\ Colon(i) > User(i) /\ TokenAt(s, Colon(i)) = "colon"}
             CurlAt(i) == Segment(Colon(i) + 1, RunEnd(s, Colon(i) + 1, Tokens \ ValueStops), "credential")
             curl == {CurlAt(i) : i \in U}
             Real(sg) == sg.to > sg.from /\ ~IsPlaceholder(s, sg.from, sg.to)
             S1 == {sg \in basic : Real(sg) /\ Width(s, sg.from, sg.to) >= 4}
             S2 == {sg \in curl : Real(sg)}
  <1>1. ASSUME NEW i \in B PROVE BasicAt(i) \in Within(Len(s), "credential")
    <2>1. i + 1 \in 1 .. Len(s) + 1
      OBVIOUS
    <2>2. After(i) \in 1 .. Len(s) + 1
      BY <2>1, RunEnds
    <2> HIDE DEF B, After
    <2>3. RunEnd(s, After(i), {"word", "akia", "rest", "blob", "sha", "slash"}) \in 0 .. Len(s) + 1
      BY <2>2, RunEnds
    <2> QED BY <2>2, <2>3, WithinIs
  <1>2. ASSUME NEW i \in U PROVE CurlAt(i) \in Within(Len(s), "credential")
    <2>1. TokenAt(s, Colon(i)) = "colon" /\ "colon" # "end"
      <3> HIDE DEF After, User, Colon
      <3> QED OBVIOUS
    <2> HIDE DEF Colon
    <2>2. Colon(i) \in 1 .. Len(s)
      BY <2>1, TokenIsInside
    <2>3. Colon(i) + 1 \in 1 .. Len(s) + 1
      BY <2>2
    <2>4. RunEnd(s, Colon(i) + 1, Tokens \ ValueStops) \in 0 .. Len(s) + 1
      BY <2>3, RunEnds
    <2> HIDE DEF U
    <2> QED BY <2>3, <2>4, WithinIs
  <1>3. S1 \in SUBSET Within(Len(s), "credential")
    <2> HIDE DEF B, BasicAt, Real
    <2> QED BY <1>1
  <1>4. S2 \in SUBSET Within(Len(s), "credential")
    <2> HIDE DEF U, CurlAt, Real
    <2> QED BY <1>2
  <1>5. CollectBasicCredential(s) = InOrder(S1) \o InOrder(S2)
    BY DEF CollectBasicCredential
  <1>6. "credential" \in MaskLabels
    BY DEF MaskLabels
  <1> HIDE DEF S1, S2
  <1>7. Finds(s, InOrder(S1)) /\ Finds(s, InOrder(S2))
    BY <1>3, <1>4, <1>6, InOrderLists DEF Finds
  <1> QED BY <1>5, <1>7, TwoLists

\* MASK_RULES: every rule finds segments of the text.
LEMMA RulesFind ==
  ASSUME NEW s, Len(s) \in Nat
  PROVE  RuleHits(s) \in Seq(Seq(Segs(Len(s))))
  <1> DEFINE D == Seq(Segs(Len(s)))
             rest == IF MaskEmail THEN <<CollectEmail(s)>> ELSE << >>
             rules == << CollectPrivateKey(s), CollectMongoCredentials(s), CollectUrlCredentials(s),
                         CollectBearerToken(s), CollectBasicCredential(s), CollectAnchoredApiKey(s),
                         CollectVendorToken(s), CollectBareApiKey(s), CollectJwt(s), CollectAwsAccessKey(s),
                         CollectAnchoredAwsSecretKey(s), CollectAnchoredCredential(s),
                         CollectKoreanCredential(s), CollectStandaloneAwsSecretKey(s) >>
  <1>1. "api-key" \in MaskLabels /\ "aws-secret-key" \in MaskLabels
    BY DEF MaskLabels
  <1>2. Finds(s, CollectAnchoredApiKey(s))
    BY <1>1, AnchoredFinds DEF CollectAnchoredApiKey
  <1>3. Finds(s, CollectVendorToken(s)) /\ Finds(s, CollectBareApiKey(s))
    BY <1>1, StandaloneFinds DEF CollectVendorToken, CollectBareApiKey
  <1>4. Finds(s, CollectStandaloneAwsSecretKey(s))
    BY <1>1, StandaloneFinds DEF CollectStandaloneAwsSecretKey
  <1>5. /\ CollectPrivateKey(s) \in D /\ CollectMongoCredentials(s) \in D /\ CollectUrlCredentials(s) \in D
        /\ CollectBearerToken(s) \in D /\ CollectBasicCredential(s) \in D /\ CollectAnchoredApiKey(s) \in D
        /\ CollectVendorToken(s) \in D /\ CollectBareApiKey(s) \in D /\ CollectJwt(s) \in D
        /\ CollectAwsAccessKey(s) \in D /\ CollectAnchoredAwsSecretKey(s) \in D
        /\ CollectAnchoredCredential(s) \in D /\ CollectKoreanCredential(s) \in D
        /\ CollectStandaloneAwsSecretKey(s) \in D /\ CollectEmail(s) \in D
    BY <1>2, <1>3, <1>4, CollectPrivateKeyFinds, CollectMongoCredentialsFinds, CollectUrlCredentialsFinds,
       CollectBearerTokenFinds, CollectBasicCredentialFinds, CollectJwtFinds, CollectAwsAccessKeyFinds,
       CollectAnchoredAwsSecretKeyFinds, CollectAnchoredCredentialFinds, CollectKoreanCredentialFinds,
       CollectEmailFinds DEF Finds
  <1> HIDE DEF D
  <1>6. rules \in Seq(D) /\ rest \in Seq(D)
    BY <1>5
  <1>7. RuleHits(s) = rules \o rest
    BY DEF RuleHits
  <1> HIDE DEF rules, rest
  <1>8. RuleHits(s) \in Seq(D)
    BY <1>6, <1>7, ConcatProperties
  <1> QED BY <1>8 DEF D

-----------------------------------------------------------------------------
(* What the edits cover.                                                   *)

\* Segments that are not empty, and the places a list of them takes.
Held(n) == {sg \in Segs(n) : sg.from < sg.to}
Takes(list, p) == \E c \in 1 .. Len(list) : list[c].from <= p /\ p < list[c].to

LEMMA CoveredTakes ==
  ASSUME NEW n \in Nat, NEW list \in Seq(Segs(n))
  PROVE  \A p : p \in Covered(list) <=> p \in Int /\ Takes(list, p)
  <1>1. \A c \in 1 .. Len(list) : list[c].from \in Int /\ list[c].to \in Int
    <2>1. \A c \in 1 .. Len(list) : list[c] \in Segs(n)
      OBVIOUS
    <2>2. \A sg \in Segs(n) : sg.from \in Int /\ sg.to \in Int
      BY DEF Segs
    <2> QED BY <2>1, <2>2
  <1> SUFFICES ASSUME NEW p PROVE p \in Covered(list) <=> p \in Int /\ Takes(list, p)
    OBVIOUS
  <1>2. p \in Covered(list) <=> \E c \in 1 .. Len(list) : p \in list[c].from .. list[c].to - 1
    BY DEF Covered
  <1>3. ASSUME NEW c \in 1 .. Len(list)
        PROVE  p \in list[c].from .. list[c].to - 1 <=> p \in Int /\ list[c].from <= p /\ p < list[c].to
    BY <1>1
  <1> QED BY <1>2, <1>3 DEF Takes

LEMMA HullHolds ==
  ASSUME NEW n \in Nat, NEW a \in Segs(n), NEW b \in Segs(n)
  PROVE  /\ Hull(a, b) \in Segs(n)
         /\ Hull(a, b).from <= a.from /\ Hull(a, b).from <= b.from
         /\ a.to <= Hull(a, b).to /\ b.to <= Hull(a, b).to
  <1>1. a.from \in 1 .. n + 1 /\ b.from \in 1 .. n + 1 /\ a.to \in 0 .. n + 1 /\ b.to \in 0 .. n + 1
        /\ a.kind \in MaskLabels
    BY DEF Segs
  <1> DEFINE F == {a.from, b.from}
             T == {a.to, b.to}
  <1>2. Min(F) \in F /\ \A y \in F : Min(F) <= y
    <2>1. F # {} /\ 1 \in Int /\ \A x \in F : x \in Int /\ 1 <= x
      BY <1>1
    <2> HIDE DEF F
    <2> QED BY <2>1, MinOf
  <1>3. Max(T) \in T /\ \A y \in T : y <= Max(T)
    <2>1. T # {} /\ n + 1 \in Int /\ \A x \in T : x \in Int /\ x <= n + 1
      BY <1>1
    <2> HIDE DEF T
    <2> QED BY <2>1, MaxOf
  <1>4. Hull(a, b) = [from |-> Min(F), to |-> Max(T), kind |-> a.kind]
    BY DEF Hull, Segment
  <1>5. /\ Min(F) \in 1 .. n + 1 /\ Min(F) <= a.from /\ Min(F) <= b.from
        /\ Max(T) \in 0 .. n + 1 /\ a.to <= Max(T) /\ b.to <= Max(T)
    <2> DEFINE x == Min(F)
               y == Max(T)
    <2>1. (x = a.from \/ x = b.from) /\ (y = a.to \/ y = b.to)
      BY <1>2, <1>3
    <2>2. x <= a.from /\ x <= b.from /\ a.to <= y /\ b.to <= y
      BY <1>2, <1>3
    <2> HIDE DEF x, y
    <2>3. x \in 1 .. n + 1 /\ y \in 0 .. n + 1
      BY <1>1, <2>1
    <2> QED BY <2>2, <2>3 DEF x, y
  <1> HIDE DEF F, T
  <1> QED BY <1>1, <1>4, <1>5 DEF Segs

\* A list in which one segment has grown takes no less.
LEMMA GrownTakes ==
  ASSUME NEW n \in Nat, NEW list \in Seq(Held(n)), NEW m \in 1 .. Len(list), NEW sg \in Segs(n),
         NEW more, more = [list EXCEPT ![m] = Hull(@, sg)]
  PROVE  /\ more \in Seq(Held(n))
         /\ \A p \in Int : Takes(list, p) \/ (sg.from <= p /\ p < sg.to) => Takes(more, p)
  <1> DEFINE h == Hull(list[m], sg)
  <1>1. /\ list[m] \in Segs(n) /\ list[m].from < list[m].to
        /\ \A c \in 1 .. Len(list) : list[c] \in Held(n)
    BY DEF Held
  <1>2. /\ h \in Segs(n) /\ h.from <= list[m].from /\ h.from <= sg.from
        /\ list[m].to <= h.to /\ sg.to <= h.to
    BY <1>1, HullHolds
  <1>3. /\ h.from \in Int /\ h.to \in Int /\ list[m].from \in Int /\ list[m].to \in Int
        /\ sg.from \in Int /\ sg.to \in Int
    BY <1>1, <1>2 DEF Segs
  <1>4. more = [c \in 1 .. Len(list) |-> IF c = m THEN h ELSE list[c]] /\ Len(list) \in Nat
    <2>1. DOMAIN list = 1 .. Len(list) /\ Len(list) \in Nat
      OBVIOUS
    <2> QED BY <2>1
  <1> HIDE DEF h
  <1>5. h \in Held(n)
    BY <1>1, <1>2, <1>3 DEF Held
  <1>6. more \in Seq(Held(n)) /\ Len(more) = Len(list)
        /\ \A c \in 1 .. Len(list) : more[c] = IF c = m THEN h ELSE list[c]
    <2>1. \A c \in 1 .. Len(list) : (IF c = m THEN h ELSE list[c]) \in Held(n)
      BY <1>1, <1>5
    <2> QED BY <1>4, <2>1
  <1>7. ASSUME NEW p \in Int, Takes(list, p) \/ (sg.from <= p /\ p < sg.to) PROVE Takes(more, p)
    <2>1. CASE sg.from <= p /\ p < sg.to
      <3>1. h.from <= p /\ p < h.to
        BY <2>1, <1>2, <1>3
      <3> QED BY <3>1, <1>6 DEF Takes
    <2>2. CASE Takes(list, p)
      <3>1. PICK c \in 1 .. Len(list) : list[c].from <= p /\ p < list[c].to
        BY <2>2 DEF Takes
      <3>2. more[c].from <= p /\ p < more[c].to
        <4>1. CASE c = m
          <5>1. h.from <= p /\ p < h.to
            BY <4>1, <3>1, <1>2, <1>3
          <5> QED BY <4>1, <5>1, <1>6
        <4>2. CASE c # m
          BY <4>2, <3>1, <1>6
        <4> QED BY <4>1, <4>2
      <3> QED BY <3>2, <1>6 DEF Takes
    <2> QED BY <1>7, <2>1, <2>2
  <1> QED BY <1>6, <1>7

LEMMA AppendedTakes ==
  ASSUME NEW n \in Nat, NEW list \in Seq(Held(n)), NEW sg \in Held(n)
  PROVE  /\ Append(list, sg) \in Seq(Held(n))
         /\ \A p \in Int : Takes(list, p) \/ (sg.from <= p /\ p < sg.to) => Takes(Append(list, sg), p)
  <1> DEFINE more == Append(list, sg)
  <1>1. /\ more \in Seq(Held(n)) /\ Len(more) = Len(list) + 1 /\ Len(list) \in Nat
        /\ more[Len(list) + 1] = sg /\ \A c \in 1 .. Len(list) : more[c] = list[c]
    BY AppendProperties
  <1> HIDE DEF more
  <1>2. ASSUME NEW p \in Int, Takes(list, p) \/ (sg.from <= p /\ p < sg.to) PROVE Takes(more, p)
    <2>1. CASE sg.from <= p /\ p < sg.to
      <3>1. Len(list) + 1 \in 1 .. Len(more)
        BY <1>1
      <3> QED BY <2>1, <3>1, <1>1 DEF Takes
    <2>2. CASE Takes(list, p)
      <3>1. PICK c \in 1 .. Len(list) : list[c].from <= p /\ p < list[c].to
        BY <2>2 DEF Takes
      <3>2. c \in 1 .. Len(more) /\ more[c] = list[c]
        BY <1>1
      <3> QED BY <3>1, <3>2 DEF Takes
    <2> QED BY <1>2, <2>1, <2>2
  <1> QED BY <1>1, <1>2 DEF more

\* collectEdits, one segment further.
Chosen(chosen, sg) ==
    LET hits == {k \in 1 .. Len(chosen) : Overlaps(chosen[k], sg)}
    IN  IF sg.to <= sg.from THEN chosen
        ELSE IF hits = {} THEN Append(chosen, sg)
        ELSE [chosen EXCEPT ![Min(hits)] = Hull(@, sg)]

Choosing == INSTANCE Folding WITH Op <- LAMBDA given, chosen, sg : Chosen(chosen, sg)

LEMMA ChosenTakes ==
  ASSUME NEW n \in Nat, NEW chosen \in Seq(Held(n)), NEW sg \in Segs(n)
  PROVE  /\ Chosen(chosen, sg) \in Seq(Held(n))
         /\ \A p \in Int : Takes(chosen, p) \/ (sg.from <= p /\ p < sg.to) => Takes(Chosen(chosen, sg), p)
  <1> DEFINE hits == {k \in 1 .. Len(chosen) : Overlaps(chosen[k], sg)}
  <1>1. sg.from \in Int /\ sg.to \in Int
    BY DEF Segs
  <1>2. CASE sg.to <= sg.from
    <2>1. Chosen(chosen, sg) = chosen
      BY <1>2 DEF Chosen
    <2>2. \A p \in Int : ~(sg.from <= p /\ p < sg.to)
      BY <1>1, <1>2
    <2> QED BY <2>1, <2>2
  <1>3. CASE ~(sg.to <= sg.from) /\ hits = {}
    <2>1. Chosen(chosen, sg) = Append(chosen, sg)
      BY <1>3 DEF Chosen
    <2>2. sg \in Held(n)
      BY <1>1, <1>3 DEF Held
    <2> QED BY <2>1, <2>2, AppendedTakes
  <1>4. CASE ~(sg.to <= sg.from) /\ hits # {}
    <2>1. Chosen(chosen, sg) = [chosen EXCEPT ![Min(hits)] = Hull(@, sg)]
      BY <1>4 DEF Chosen
    <2>2. Min(hits) \in 1 .. Len(chosen)
      <3>1. \A x \in hits : x \in Int /\ 1 <= x
        OBVIOUS
      <3>2. Min(hits) \in hits
        <4> HIDE DEF hits
        <4> QED BY <1>4, <3>1, MinOf
      <3> QED BY <3>2
    <2> HIDE DEF hits
    <2> QED BY <2>1, <2>2, GrownTakes
  <1> QED BY <1>2, <1>3, <1>4

LEMMA CollectedTakes ==
  ASSUME NEW s, Len(s) \in Nat
  PROVE  /\ FlattenSeq(RuleHits(s)) \in Seq(Segs(Len(s)))
         /\ CollectEdits(s) \in Seq(Held(Len(s)))
         /\ \A p \in Int : Takes(FlattenSeq(RuleHits(s)), p) => Takes(CollectEdits(s), p)
  <1> DEFINE n == Len(s)
             list == FlattenSeq(RuleHits(s))
  <1>1. list \in Seq(Segs(n)) /\ Len(list) \in Nat
    <2>1. RuleHits(s) \in Seq(Seq(Segs(n)))
      BY RulesFind
    <2>2. PICK row : FlatOf(RuleHits(s), Segs(n), list, row, Len(RuleHits(s)))
      BY <2>1, FlattenedRows
    <2> HIDE DEF n, list
    <2> QED BY <2>2 DEF FlatOf
  <1>2. CollectEdits(s) = Choosing!Folded(0, << >>, list)
    BY DEF CollectEdits, Chosen, Choosing!Folded, FoldLeft, MapThenFoldSet, Max,
           Choosing!FoldLeft, Choosing!MapThenFoldSet, Choosing!Max
  <1> HIDE DEF list
  <1>3. PICK along : Choosing!Along(0, << >>, list, along)
    BY <1>1, Choosing!FoldGoesAlong
  <1>4. /\ along[0] = << >>
        /\ \A k \in 1 .. Len(list) : along[k] = Chosen(along[k - 1], list[k])
        /\ CollectEdits(s) = along[Len(list)]
    BY <1>2, <1>3 DEF Choosing!Along
  <1> DEFINE Good(k) == /\ along[k] \in Seq(Held(n))
                        /\ \A p \in Int : \A a \in 1 .. k :
                              list[a].from <= p /\ p < list[a].to => Takes(along[k], p)
             T == {k \in Nat : k <= Len(list) => Good(k)}
  <1>5. 0 \in T
    <2>1. along[0] \in Seq(Held(n)) /\ 1 .. 0 = {}
      BY <1>4
    <2>2. Good(0)
      BY <2>1
    <2> QED BY <2>2
  <1>6. ASSUME NEW k \in Nat, k \in T PROVE k + 1 \in T
    <2> SUFFICES ASSUME k + 1 <= Len(list) PROVE Good(k + 1)
      OBVIOUS
    <2>1. k + 1 \in 1 .. Len(list) /\ (k + 1) - 1 = k /\ k <= Len(list)
      BY <1>1
    <2>2. Good(k)
      BY <1>6, <2>1
    <2>3. along[k + 1] = Chosen(along[k], list[k + 1]) /\ list[k + 1] \in Segs(n)
      BY <2>1, <1>1, <1>4
    <2>4. /\ along[k + 1] \in Seq(Held(n))
          /\ \A p \in Int : Takes(along[k], p) \/ (list[k + 1].from <= p /\ p < list[k + 1].to)
                            => Takes(along[k + 1], p)
      BY <2>2, <2>3, ChosenTakes
    <2>5. ASSUME NEW p \in Int, NEW a \in 1 .. k + 1, list[a].from <= p /\ p < list[a].to
          PROVE  Takes(along[k + 1], p)
      <3>1. a = k + 1 \/ a \in 1 .. k
        OBVIOUS
      <3> QED BY <3>1, <2>2, <2>4, <2>5
    <2> QED BY <2>4, <2>5
  <1>7. \A k \in Nat : k \in T
    <2> HIDE DEF T
    <2> QED BY <1>5, <1>6, CountingUp
  <1>8. Good(Len(list))
    BY <1>1, <1>7
  <1> HIDE DEF n
  <1> QED BY <1>1, <1>4, <1>8 DEF Takes, list, n

\* normalizeWithMap, one token further.
Mapped(text, probe, i) ==
    probe \o [k \in 1 .. Len(Normal(text[i])) |-> [token |-> Normal(text[i])[k], source |-> i]]

Mapping == INSTANCE Folding WITH Op <- LAMBDA given, probe, i : Mapped(given, probe, i)

\* A probe of the first k tokens of a text: its sources in their order.
Probes(probe, k) ==
    /\ probe \in Seq([token : Tokens, source : 1 .. k])
    /\ \A a, b \in 1 .. Len(probe) : a <= b => probe[a].source <= probe[b].source

LEMMA NormalIs ==
  ASSUME NEW t \in Tokens
  PROVE  Normal(t) \in Seq(Tokens)
  <1>1. "rest" \in Tokens /\ "word" \in Tokens /\ "slash" \in Tokens
    BY DEF Tokens, StartsAlnum, Alnum, Single
  <1>2. \/ Normal(t) = << >> \/ Normal(t) = <<"rest">> \/ Normal(t) = <<"word", "slash", "word">>
        \/ Normal(t) = <<t>>
    BY DEF Normal
  <1>3. << >> \in Seq(Tokens) /\ <<"rest">> \in Seq(Tokens) /\ <<"word", "slash", "word">> \in Seq(Tokens)
        /\ <<t>> \in Seq(Tokens)
    BY <1>1
  <1> QED BY <1>2, <1>3

LEMMA MappedProbes ==
  ASSUME NEW text, NEW k \in Nat, text[k + 1] \in Tokens, NEW probe, Probes(probe, k)
  PROVE  Probes(Mapped(text, probe, k + 1), k + 1)
  <1> DEFINE S == [token : Tokens, source : 1 .. k + 1]
             t == Normal(text[k + 1])
             tail == [m \in 1 .. Len(t) |-> [token |-> t[m], source |-> k + 1]]
             more == probe \o tail
  <1>1. t \in Seq(Tokens) /\ Len(t) \in Nat
    BY NormalIs
  <1>2. probe \in Seq(S) /\ Len(probe) \in Nat /\ \A a \in 1 .. Len(probe) : probe[a].source \in 1 .. k
    <2>1. probe \in Seq([token : Tokens, source : 1 .. k])
      BY DEF Probes
    <2>2. \A e \in [token : Tokens, source : 1 .. k] : e \in S /\ e.source \in 1 .. k
      OBVIOUS
    <2>3. \A a \in 1 .. Len(probe) : probe[a] \in [token : Tokens, source : 1 .. k]
      BY <2>1, ItemsOf
    <2> HIDE DEF S
    <2>4. \A a \in 1 .. Len(probe) : probe[a] \in S /\ probe[a].source \in 1 .. k
      BY <2>2, <2>3
    <2>5. DOMAIN probe = 1 .. Len(probe) /\ Len(probe) \in Nat /\ probe = [a \in 1 .. Len(probe) |-> probe[a]]
      BY <2>1
    <2>6. probe \in [1 .. Len(probe) -> S]
      BY <2>4, <2>5
    <2> QED BY <2>4, <2>5, <2>6
  <1> HIDE DEF t
  <1>3. \A m \in 1 .. Len(t) : tail[m] = [token |-> t[m], source |-> k + 1] /\ tail[m] \in S /\ tail[m].source = k + 1
    BY <1>1
  <1>4. tail \in Seq(S) /\ Len(tail) = Len(t)
    <2>1. tail \in [1 .. Len(t) -> S]
      BY <1>3
    <2> HIDE DEF tail, S
    <2> QED BY <2>1, <1>1
  <1> HIDE DEF tail, S
  <1>5. /\ more \in Seq(S) /\ Len(more) = Len(probe) + Len(t)
        /\ \A a \in 1 .. Len(more) : more[a] = IF a <= Len(probe) THEN probe[a] ELSE tail[a - Len(probe)]
    <2>1. /\ more \in Seq(S) /\ Len(more) = Len(probe) + Len(tail)
          /\ \A a \in 1 .. Len(probe) + Len(tail) :
                more[a] = IF a <= Len(probe) THEN probe[a] ELSE tail[a - Len(probe)]
      BY <1>2, <1>4, ConcatProperties
    <2> QED BY <2>1, <1>4
  <1> HIDE DEF more
  <1>6. ASSUME NEW a \in 1 .. Len(more), NEW b \in 1 .. Len(more), a <= b
        PROVE  more[a].source <= more[b].source
    <2>1. CASE b <= Len(probe)
      <3>1. a \in 1 .. Len(probe) /\ b \in 1 .. Len(probe) /\ more[a] = probe[a] /\ more[b] = probe[b]
        BY <2>1, <1>5, <1>6, <1>2
      <3> QED BY <3>1, <1>6 DEF Probes
    <2>2. CASE ~(b <= Len(probe))
      <3>1. b - Len(probe) \in 1 .. Len(t)
        BY <2>2, <1>1, <1>2, <1>5
      <3>2. more[b].source = k + 1
        BY <2>2, <3>1, <1>3, <1>5
      <3>3. more[a] \in S
        BY <1>5
      <3>4. more[a].source \in 1 .. k + 1
        BY <3>3 DEF S
      <3> QED BY <3>2, <3>4
    <2> QED BY <2>1, <2>2
  <1>7. Mapped(text, probe, k + 1) = more
    BY DEF Mapped, more, tail, t
  <1> QED BY <1>5, <1>6, <1>7 DEF Probes, S

LEMMA NormalizeProbes ==
  ASSUME NEW text \in Seq(Tokens)
  PROVE  Probes(NormalizeWithMap(text), Len(text))
  <1> DEFINE L == Len(text)
             list == [i \in 1 .. L |-> i]
  <1>1. L \in Nat /\ list \in Seq(1 .. L) /\ Len(list) = L /\ \A k \in 1 .. L : list[k] = k
    OBVIOUS
  <1>2. NormalizeWithMap(text) = Mapping!Folded(text, << >>, list)
    BY DEF NormalizeWithMap, Mapped, Mapping!Folded, FoldLeft, MapThenFoldSet, Max,
           Mapping!FoldLeft, Mapping!MapThenFoldSet, Mapping!Max
  <1> HIDE DEF list
  <1>3. PICK along : Mapping!Along(text, << >>, list, along)
    BY <1>1, Mapping!FoldGoesAlong
  <1>4. /\ along[0] = << >>
        /\ \A k \in 1 .. L : along[k] = Mapped(text, along[k - 1], list[k])
        /\ NormalizeWithMap(text) = along[L]
    BY <1>1, <1>2, <1>3 DEF Mapping!Along
  <1> DEFINE T == {k \in Nat : k <= L => Probes(along[k], k)}
  <1>5. 0 \in T
    <2>1. along[0] \in Seq([token : Tokens, source : 1 .. 0]) /\ Len(along[0]) = 0
      BY <1>4
    <2> QED BY <2>1 DEF Probes
  <1>6. ASSUME NEW k \in Nat, k \in T PROVE k + 1 \in T
    <2> SUFFICES ASSUME k + 1 <= L PROVE Probes(along[k + 1], k + 1)
      OBVIOUS
    <2>1. k + 1 \in 1 .. L /\ (k + 1) - 1 = k /\ k <= L
      BY <1>1
    <2>2. Probes(along[k], k)
      BY <1>6, <2>1
    <2>3. along[k + 1] = Mapped(text, along[k], k + 1)
      <3>1. along[k + 1] = Mapped(text, along[(k + 1) - 1], list[k + 1]) /\ list[k + 1] = k + 1
        BY <2>1, <1>1, <1>4
      <3> QED BY <3>1, <2>1
    <2>4. text[k + 1] \in Tokens
      BY <2>1, ItemsOf
    <2> QED BY <2>2, <2>3, <2>4, MappedProbes
  <1>7. \A k \in Nat : k \in T
    <2> HIDE DEF T
    <2> QED BY <1>5, <1>6, CountingUp
  <1> QED BY <1>1, <1>4, <1>7

\* toSourceEdit: it takes what any place of the segment is from.
LEMMA SourceTakes ==
  ASSUME NEW text \in Seq(Tokens), NEW probe, Probes(probe, Len(text)), NEW sg \in Held(Len(probe))
  PROVE  /\ ToSourceEdit(sg, text, probe) \in Held(Len(text))
         /\ \A j \in sg.from .. sg.to - 1 :
               /\ j \in 1 .. Len(probe)
               /\ ToSourceEdit(sg, text, probe).from <= probe[j].source
               /\ probe[j].source < ToSourceEdit(sg, text, probe).to
  <1> DEFINE L == Len(text)
             N == Len(probe)
             a == probe[sg.from].source
             b == probe[sg.to - 1].source
             B == {j \in b + 1 .. L + 1 : j = L + 1 \/ ~Ignorable(text[j])}
             c == Min(B)
  <1>1. L \in Nat /\ N \in Nat /\ probe \in Seq([token : Tokens, source : 1 .. L])
    BY DEF Probes
  <1>2. \A j \in 1 .. N : probe[j].source \in 1 .. L
    <2>1. \A j \in 1 .. N : probe[j] \in [token : Tokens, source : 1 .. L]
      BY <1>1, ItemsOf
    <2>2. \A e \in [token : Tokens, source : 1 .. L] : e.source \in 1 .. L
      OBVIOUS
    <2> QED BY <2>1, <2>2
  <1>3. \A x, y \in 1 .. N : x <= y => probe[x].source <= probe[y].source
    BY DEF Probes
  <1>4. sg.from \in 1 .. N /\ sg.to - 1 \in 1 .. N /\ sg.from <= sg.to - 1 /\ sg.from \in Int /\ sg.to \in Int
        /\ sg.kind \in MaskLabels
    <2>1. sg.from \in 1 .. N + 1 /\ sg.to \in 0 .. N + 1 /\ sg.from < sg.to /\ sg.kind \in MaskLabels
      BY DEF Held, Segs
    <2> QED BY <2>1, <1>1
  <1>5. a \in 1 .. L /\ b \in 1 .. L /\ a <= b
    BY <1>2, <1>3, <1>4
  <1> HIDE DEF a, b, N
  <1>6. c \in b + 1 .. L + 1
    <2>1. L + 1 \in B /\ \A x \in B : x \in Int /\ b + 1 <= x
      BY <1>1, <1>5
    <2>2. B # {} /\ b + 1 \in Int
      BY <2>1, <1>5
    <2>3. Min(B) \in B
      <3> HIDE DEF B
      <3> QED BY <2>1, <2>2, MinOf
    <2> QED BY <2>3
  <1>7. ToSourceEdit(sg, text, probe) = [from |-> a, to |-> c, kind |-> sg.kind]
    BY DEF ToSourceEdit, Segment, a, b
  <1> HIDE DEF c, B, L
  <1>8. ToSourceEdit(sg, text, probe) \in Held(L)
    <2>1. a \in 1 .. L + 1 /\ c \in 0 .. L + 1 /\ a < c
      BY <1>1, <1>5, <1>6
    <2> QED BY <2>1, <1>4, <1>7 DEF Held, Segs
  <1>9. ASSUME NEW j \in sg.from .. sg.to - 1
        PROVE  j \in 1 .. N /\ a <= probe[j].source /\ probe[j].source < c
    <2>1. j \in 1 .. N /\ sg.from <= j /\ j <= sg.to - 1
      BY <1>4, <1>1
    <2>2. a <= probe[j].source /\ probe[j].source <= b
      BY <2>1, <1>3, <1>4 DEF a, b
    <2>3. probe[j].source \in Int
      BY <2>1, <1>2
    <2> QED BY <2>1, <2>2, <2>3, <1>5, <1>6
  <1> QED BY <1>7, <1>8, <1>9 DEF N, L

\* ByStart: the edits are all there, whatever their order.
LEMMA ByStartKeeps ==
  ASSUME NEW n \in Nat, NEW edits \in Seq(Held(n))
  PROVE  /\ ByStart(edits) \in Seq(Held(n)) /\ Len(ByStart(edits)) = Len(edits)
         /\ \A c \in 1 .. Len(edits) : \E k \in 1 .. Len(edits) : ByStart(edits)[k] = edits[c]
  <1> DEFINE P == DOMAIN edits
             Before(i, j) == LET a == edits[i]  b == edits[j]
                             IN  \/ a.from < b.from
                                 \/ a.from = b.from /\ a.to > b.to
                                 \/ a.from = b.from /\ a.to = b.to /\ i < j
             R == {q \in P \X P : Before(q[1], q[2])}
             Count(e) == Cardinality({d \in P : Before(d, e)})
             At(k) == CHOOSE e \in P : Count(e) = k - 1
             order == [k \in 1 .. Cardinality(P) |-> At(k)]
  <1>1. P = 1 .. Len(edits) /\ Len(edits) \in Nat /\ IsFiniteSet(P) /\ Cardinality(P) = Len(edits)
    <2>1. P = 1 .. Len(edits) /\ Len(edits) \in Nat
      BY ItemsOf
    <2>2. IsFiniteSet(1 .. Len(edits)) /\ Cardinality(1 .. Len(edits)) = Len(edits)
      <3> DEFINE c == Len(edits)
      <3>1. c \in Nat
        BY <2>1
      <3> HIDE DEF c
      <3>2. IsFiniteSet(1 .. c) /\ Cardinality(1 .. c) = IF 1 > c THEN 0 ELSE c - 1 + 1
        BY <3>1, FS_Interval
      <3>3. Cardinality(1 .. c) = c
        BY ONLY <3>1, <3>2
      <3> QED BY <3>2, <3>3 DEF c
    <2> QED BY <2>1, <2>2
  <1>2. \A i \in P : edits[i] \in Held(n) /\ edits[i].from \in Int /\ edits[i].to \in Int /\ i \in Int
    <2>1. \A i \in P : edits[i] \in Held(n)
      BY <1>1, ItemsOf
    <2>2. \A sg \in Held(n) : sg.from \in Int /\ sg.to \in Int
      BY DEF Held, Segs
    <2> QED BY <1>1, <2>1, <2>2
  <1> HIDE DEF P
  <1>3. \A i, j \in P : <<i, j>> \in R <=> Before(i, j)
    OBVIOUS
  <1>4. \A e \in P : InFront(P, R, e) = {d \in P : Before(d, e)}
    BY <1>3 DEF InFront
  <1>5. StrictOrder(P, R)
    <2> HIDE DEF R
    <2>1. \A i \in P : ~Before(i, i)
      BY <1>2
    <2>2. \A i, j \in P : i # j => Before(i, j) \/ Before(j, i)
      BY <1>2
    <2>3. \A i, j, k \in P : Before(i, j) /\ Before(j, k) => Before(i, k)
      BY <1>2
    <2> HIDE DEF Before
    <2> QED BY <1>3, <2>1, <2>2, <2>3 DEF StrictOrder
  <1>6. ByStart(edits) = [k \in P |-> edits[order[k]]]
    BY DEF ByStart, Sorted, P
  <1>7. \A k \in 1 .. Cardinality(P) : order[k] = At(k)
    OBVIOUS
  <1>8. order = [k \in 1 .. Cardinality(P) |-> order[k]]
    <2> HIDE DEF At
    <2> QED OBVIOUS
  <1> HIDE DEF R, order
  <1>9. ASSUME NEW k \in 1 .. Cardinality(P), \E e \in P : Cardinality(InFront(P, R, e)) = k - 1
        PROVE  order[k] \in P /\ Cardinality(InFront(P, R, order[k])) = k - 1
    <2>1. \E e \in P : Count(e) = k - 1
      BY <1>4, <1>9
    <2>2. At(k) \in P /\ Count(At(k)) = k - 1
      <3> HIDE DEF Count
      <3> QED BY <2>1
    <2> HIDE DEF At
    <2> QED BY <1>4, <1>7, <2>2
  <1>10. IsOrdered(order, P, R)
    BY <1>1, <1>5, <1>8, <1>9, OrderedPlaces DEF AsPlaced
  <1>11. /\ \A k \in P : order[k] \in P
         /\ \A e \in P : \E k \in P : order[k] = e
    BY <1>1, <1>10 DEF IsOrdered
  <1>12. ByStart(edits) \in [1 .. Len(edits) -> Held(n)]
    <2>1. \A k \in P : edits[order[k]] \in Held(n)
      BY <1>2, <1>11
    <2> QED BY <1>1, <1>6, <2>1
  <1>13. ASSUME NEW c \in P PROVE \E k \in P : ByStart(edits)[k] = edits[c]
    <2>1. PICK k \in P : order[k] = c
      BY <1>11
    <2> QED BY <2>1, <1>6
  <1>14. ByStart(edits) \in Seq(Held(n)) /\ Len(ByStart(edits)) = Len(edits)
    <2> HIDE DEF Before
    <2> QED BY <1>1, <1>12
  <1> QED BY <1>1, <1>13, <1>14

\* mergeSourceEdits, one edit further.
Merged(merged, e) ==
    IF merged # << >> /\ e.from < Last(merged).to
    THEN [merged EXCEPT ![Len(merged)] = Hull(@, e)]
    ELSE Append(merged, e)

Merging == INSTANCE Folding WITH Op <- LAMBDA given, merged, e : Merged(merged, e)

LEMMA MergedTakes ==
  ASSUME NEW n \in Nat, NEW merged \in Seq(Held(n)), NEW e \in Held(n)
  PROVE  /\ Merged(merged, e) \in Seq(Held(n))
         /\ \A p \in Int : Takes(merged, p) \/ (e.from <= p /\ p < e.to) => Takes(Merged(merged, e), p)
  <1>1. CASE merged # << >> /\ e.from < Last(merged).to
    <2>1. Merged(merged, e) = [merged EXCEPT ![Len(merged)] = Hull(@, e)]
      BY <1>1 DEF Merged
    <2>2. Len(merged) \in 1 .. Len(merged) /\ e \in Segs(n)
      <3>1. Len(merged) # 0
        BY <1>1, EmptySeq
      <3> QED BY <3>1, ItemsOf DEF Held
    <2> QED BY <2>1, <2>2, GrownTakes
  <1>2. CASE ~(merged # << >> /\ e.from < Last(merged).to)
    <2>1. Merged(merged, e) = Append(merged, e)
      BY <1>2 DEF Merged
    <2> QED BY <2>1, AppendedTakes
  <1> QED BY <1>1, <1>2

LEMMA MergeTakes ==
  ASSUME NEW n \in Nat, NEW edits \in Seq(Held(n))
  PROVE  /\ MergeSourceEdits(edits) \in Seq(Held(n))
         /\ \A p \in Int : Takes(edits, p) => Takes(MergeSourceEdits(edits), p)
  <1> DEFINE list == ByStart(edits)
  <1>1. list \in Seq(Held(n)) /\ Len(list) \in Nat /\ Len(list) = Len(edits)
        /\ \A a \in 1 .. Len(list) : list[a] \in Held(n)
    BY ByStartKeeps, ItemsOf
  <1>2. MergeSourceEdits(edits) = Merging!Folded(0, << >>, list)
    BY DEF MergeSourceEdits, Merged, Merging!Folded, FoldLeft, MapThenFoldSet, Max,
           Merging!FoldLeft, Merging!MapThenFoldSet, Merging!Max
  <1>3. \A c \in 1 .. Len(edits) : \E a \in 1 .. Len(list) : list[a] = edits[c]
    BY <1>1, ByStartKeeps
  <1> HIDE DEF list
  <1>4. PICK along : Merging!Along(0, << >>, list, along)
    BY <1>1, Merging!FoldGoesAlong
  <1>5. /\ along[0] = << >>
        /\ \A k \in 1 .. Len(list) : along[k] = Merged(along[k - 1], list[k])
        /\ MergeSourceEdits(edits) = along[Len(list)]
    BY <1>2, <1>4 DEF Merging!Along
  <1> DEFINE Good(k) == /\ along[k] \in Seq(Held(n))
                        /\ \A p \in Int : \A a \in 1 .. k :
                              list[a].from <= p /\ p < list[a].to => Takes(along[k], p)
             T == {k \in Nat : k <= Len(list) => Good(k)}
  <1>6. 0 \in T
    <2>1. along[0] \in Seq(Held(n)) /\ 1 .. 0 = {}
      BY <1>5
    <2>2. Good(0)
      BY <2>1
    <2> QED BY <2>2
  <1>7. ASSUME NEW k \in Nat, k \in T PROVE k + 1 \in T
    <2> SUFFICES ASSUME k + 1 <= Len(list) PROVE Good(k + 1)
      OBVIOUS
    <2>1. k + 1 \in 1 .. Len(list) /\ (k + 1) - 1 = k /\ k <= Len(list)
      BY <1>1
    <2>2. Good(k)
      BY <1>7, <2>1
    <2>3. along[k + 1] = Merged(along[k], list[k + 1]) /\ list[k + 1] \in Held(n)
      BY <2>1, <1>1, <1>5
    <2>4. /\ along[k + 1] \in Seq(Held(n))
          /\ \A p \in Int : Takes(along[k], p) \/ (list[k + 1].from <= p /\ p < list[k + 1].to)
                            => Takes(along[k + 1], p)
      BY <2>2, <2>3, MergedTakes
    <2>5. ASSUME NEW p \in Int, NEW a \in 1 .. k + 1, list[a].from <= p /\ p < list[a].to
          PROVE  Takes(along[k + 1], p)
      <3>1. a = k + 1 \/ a \in 1 .. k
        OBVIOUS
      <3> QED BY <3>1, <2>2, <2>4, <2>5
    <2> QED BY <2>4, <2>5
  <1>8. \A k \in Nat : k \in T
    <2> HIDE DEF T
    <2> QED BY <1>6, <1>7, CountingUp
  <1>9. Good(Len(list))
    <2>1. Len(list) \in T /\ Len(list) <= Len(list)
      BY <1>1, <1>8
    <2> QED BY <2>1
  <1>10. ASSUME NEW p \in Int, Takes(edits, p) PROVE Takes(along[Len(list)], p)
    <2>1. PICK c \in 1 .. Len(edits) : edits[c].from <= p /\ p < edits[c].to
      BY <1>10 DEF Takes
    <2>2. PICK a \in 1 .. Len(list) : list[a] = edits[c]
      BY <1>3
    <2> QED BY <2>1, <2>2, <1>9
  <1> QED BY <1>5, <1>9, <1>10

\* applyMasking: what the rules find in the text or in its probe is edited.
LEMMA FoundIsHidden ==
  ASSUME NEW text \in Seq(Tokens)
  PROVE  LET probe == NormalizeWithMap(text)
             inText == Covered(FlattenSeq(RuleHits(text)))
             inProbe == Covered(FlattenSeq(RuleHits(ProbeText(probe))))
         IN  inText \cup {probe[j].source : j \in inProbe} \subseteq Hidden(text)
  <1> DEFINE probe == NormalizeWithMap(text)
             L == Len(text)
             N == Len(probe)
             pt == ProbeText(probe)
             found == CollectEdits(pt)
             front == [k \in 1 .. Len(found) |-> ToSourceEdit(found[k], text, probe)]
             back == CollectEdits(text)
             edits == front \o back
  <1>1. Probes(probe, L) /\ L \in Nat
    BY NormalizeProbes
  <1> HIDE DEF probe
  <1>2. probe \in Seq([token : Tokens, source : 1 .. L]) /\ N \in Nat
    BY <1>1 DEF Probes
  <1>3. Len(pt) = N
    BY <1>2 DEF ProbeText
  <1> HIDE DEF pt, N, L
  <1>4. /\ FlattenSeq(RuleHits(pt)) \in Seq(Segs(N)) /\ found \in Seq(Held(N))
        /\ \A p \in Int : Takes(FlattenSeq(RuleHits(pt)), p) => Takes(found, p)
    BY <1>2, <1>3, CollectedTakes
  <1>5. /\ FlattenSeq(RuleHits(text)) \in Seq(Segs(L)) /\ back \in Seq(Held(L))
        /\ \A p \in Int : Takes(FlattenSeq(RuleHits(text)), p) => Takes(back, p)
    BY <1>1, CollectedTakes DEF L
  <1>6. Hidden(text) = Covered(MergeSourceEdits(edits))
    BY DEF Hidden, Edits, SourceEdits, probe, pt
  <1> HIDE DEF found, back
  <1>7. ASSUME NEW k \in 1 .. Len(found)
        PROVE  /\ front[k] \in Held(L)
               /\ \A j \in found[k].from .. found[k].to - 1 :
                     front[k].from <= probe[j].source /\ probe[j].source < front[k].to
                     /\ probe[j].source \in Int
    <2>1. found[k] \in Held(N)
      BY <1>4, ItemsOf
    <2>2. /\ ToSourceEdit(found[k], text, probe) \in Held(L)
          /\ \A j \in found[k].from .. found[k].to - 1 :
               /\ j \in 1 .. N
               /\ ToSourceEdit(found[k], text, probe).from <= probe[j].source
               /\ probe[j].source < ToSourceEdit(found[k], text, probe).to
      BY <2>1, <1>1, SourceTakes DEF L, N
    <2>3. \A j \in 1 .. N : probe[j].source \in Int
      <3>1. \A j \in 1 .. N : probe[j] \in [token : Tokens, source : 1 .. L]
        BY <1>2, ItemsOf DEF N
      <3>2. \A e \in [token : Tokens, source : 1 .. L] : e.source \in Int
        BY <1>1
      <3> QED BY <3>1, <3>2
    <2>4. front[k] = ToSourceEdit(found[k], text, probe)
      OBVIOUS
    <2> HIDE DEF front
    <2> QED BY <2>2, <2>3, <2>4
  <1>8. front \in Seq(Held(L)) /\ Len(front) = Len(found) /\ Len(found) \in Nat
    <2>1. Len(found) \in Nat
      BY <1>4, ItemsOf
    <2>2. front = [k \in 1 .. Len(found) |-> front[k]]
      OBVIOUS
    <2> HIDE DEF front
    <2>3. front \in [1 .. Len(found) -> Held(L)]
      BY <1>7, <2>2
    <2> QED BY <2>1, <2>3
  <1> HIDE DEF front
  <1>9. /\ edits \in Seq(Held(L)) /\ Len(edits) = Len(front) + Len(back)
        /\ Len(front) \in Nat /\ Len(back) \in Nat
        /\ \A c \in 1 .. Len(front) : edits[c] = front[c]
        /\ \A c \in 1 .. Len(back) : edits[Len(front) + c] = back[c]
    <2>1. /\ edits \in Seq(Held(L)) /\ Len(edits) = Len(front) + Len(back)
          /\ \A c \in 1 .. Len(front) + Len(back) :
                edits[c] = IF c <= Len(front) THEN front[c] ELSE back[c - Len(front)]
      BY <1>5, <1>8, ConcatProperties
    <2>2. Len(front) \in Nat /\ Len(back) \in Nat
      BY <1>5, <1>8, ItemsOf
    <2> HIDE DEF edits
    <2>3. ASSUME NEW c \in 1 .. Len(front) PROVE edits[c] = front[c]
      <3>1. c \in 1 .. Len(front) + Len(back) /\ c <= Len(front)
        BY <2>2
      <3> QED BY <3>1, <2>1
    <2>4. ASSUME NEW c \in 1 .. Len(back) PROVE edits[Len(front) + c] = back[c]
      <3>1. /\ Len(front) + c \in 1 .. Len(front) + Len(back) /\ ~(Len(front) + c <= Len(front))
            /\ (Len(front) + c) - Len(front) = c
        BY <2>2
      <3> QED BY <3>1, <2>1
    <2> QED BY <2>1, <2>2, <2>3, <2>4
  <1> HIDE DEF edits
  <1>10. /\ MergeSourceEdits(edits) \in Seq(Held(L))
         /\ \A p \in Int : Takes(edits, p) => Takes(MergeSourceEdits(edits), p)
    BY <1>1, <1>9, MergeTakes
  <1>11. \A p \in Int : Takes(edits, p) => p \in Hidden(text)
    <2>1. MergeSourceEdits(edits) \in Seq(Segs(L))
      <3>1. \A sg \in Held(L) : sg \in Segs(L)
        BY DEF Held
      <3> QED BY <3>1, <1>10
    <2> QED BY <2>1, <1>1, <1>6, <1>10, CoveredTakes
  <1>12. ASSUME NEW p \in Covered(FlattenSeq(RuleHits(text))) PROVE p \in Hidden(text)
    <2>1. p \in Int /\ Takes(back, p)
      BY <1>1, <1>5, CoveredTakes
    <2>2. PICK c \in 1 .. Len(back) : back[c].from <= p /\ p < back[c].to
      BY <2>1 DEF Takes
    <2>3. Len(front) + c \in 1 .. Len(edits) /\ edits[Len(front) + c] = back[c]
      BY <1>9
    <2>4. Takes(edits, p)
      BY <2>2, <2>3 DEF Takes
    <2> QED BY <2>1, <2>4, <1>11
  <1>13. ASSUME NEW j \in Covered(FlattenSeq(RuleHits(pt))) PROVE probe[j].source \in Hidden(text)
    <2>1. j \in Int /\ Takes(found, j)
      BY <1>2, <1>4, CoveredTakes
    <2>2. PICK c \in 1 .. Len(found) : found[c].from <= j /\ j < found[c].to
      BY <2>1 DEF Takes
    <2>3. found[c].from \in Int /\ found[c].to \in Int
      <3>1. found[c] \in Held(N)
        BY <1>4, ItemsOf
      <3> QED BY <3>1, <1>2 DEF Held, Segs
    <2>4. j \in found[c].from .. found[c].to - 1
      BY <2>1, <2>2, <2>3
    <2>5. front[c].from <= probe[j].source /\ probe[j].source < front[c].to /\ probe[j].source \in Int
      BY <2>4, <1>7
    <2>6. c \in 1 .. Len(edits) /\ edits[c] = front[c]
      BY <1>8, <1>9
    <2>7. Takes(edits, probe[j].source)
      BY <2>5, <2>6 DEF Takes
    <2> QED BY <2>5, <2>7, <1>11
  <1> QED BY <1>12, <1>13 DEF probe, pt

-----------------------------------------------------------------------------
(* What is stored of a text.                                               *)

SubmittedIsText == submitted.body \in Seq(Tokens)

\* masking.ts:774-793, 837-846: whatever any rule finds in the text or in its
\* probe is under a label.
THEOREM SecretsAreLabelled == SanitizingSpec => []FoundIsLabelled
  <1>1. SanitizingInit => SubmittedIsText
    BY DEF SanitizingInit, NoRequest, SubmittedIsText
  <1>2. SubmittedIsText /\ [SanitizeRecord]_sanitizingVars => SubmittedIsText'
    <2> SUFFICES ASSUME SubmittedIsText, [SanitizeRecord]_sanitizingVars PROVE SubmittedIsText'
      OBVIOUS
    <2>1. CASE SanitizeRecord
      <3>1. submitted'.body \in Texts
        BY <2>1 DEF SanitizeRecord, Requests
      <3> QED BY <3>1, SanitizingAssumption DEF SubmittedIsText
    <2>2. CASE UNCHANGED sanitizingVars
      BY <2>2 DEF sanitizingVars, SubmittedIsText
    <2> QED BY <2>1, <2>2
  <1>3. SubmittedIsText => FoundIsLabelled
    <2> SUFFICES ASSUME SubmittedIsText PROVE FoundIsLabelled
      OBVIOUS
    <2> DEFINE text == submitted.body
    <2>1. text \in Seq(Tokens)
      BY DEF SubmittedIsText
    <2> HIDE DEF text
    <2>2. UserinfoIsWhole(text)
      <3>1. Len(text) \in Nat /\ \A i \in 1 .. Len(text) : i + 1 \in 1 .. Len(text) + 1
        BY <2>1
      <3> QED BY <3>1, UserinfoIs DEF UserinfoIsWhole
    <2>3. LET probe == NormalizeWithMap(text)
              inText == Covered(FlattenSeq(RuleHits(text)))
              inProbe == Covered(FlattenSeq(RuleHits(ProbeText(probe))))
          IN  inText \cup {probe[j].source : j \in inProbe} \subseteq Hidden(text)
      BY <2>1, FoundIsHidden
    <2> QED BY <2>2, <2>3 DEF FoundIsLabelled, text
  <1> QED BY <1>1, <1>2, <1>3, PTL DEF SanitizingSpec

-----------------------------------------------------------------------------

\* The rows Solid flattens.
SolidRows(text) == [i \in 1 .. Len(text) |-> IF text[i] \in Blanks THEN << >> ELSE <<text[i]>>]

LEMMA SolidRowsAre ==
  ASSUME NEW text \in Seq(Units)
  PROVE  /\ SolidRows(text) \in Seq(Seq(Units)) /\ Len(SolidRows(text)) = Len(text)
         /\ Solid(text) = FlattenSeq(SolidRows(text)) /\ Solid(text) \in Seq(Units)
  <1>1. Len(text) \in Nat /\ \A i \in 1 .. Len(text) : text[i] \in Units
    OBVIOUS
  <1>2. SolidRows(text) \in [1 .. Len(text) -> Seq(Units)]
    <2>1. \A i \in 1 .. Len(text) : (IF text[i] \in Blanks THEN << >> ELSE <<text[i]>>) \in Seq(Units)
      BY <1>1
    <2> QED BY <2>1 DEF SolidRows
  <1>3. SolidRows(text) \in Seq(Seq(Units)) /\ Len(SolidRows(text)) = Len(text)
    BY <1>1, <1>2
  <1>4. Solid(text) = FlattenSeq(SolidRows(text))
    BY DEF Solid, SolidRows
  <1>5. Solid(text) \in Seq(Units)
    <2>1. \E row : FlatOf(SolidRows(text), Units, FlattenSeq(SolidRows(text)), row, Len(SolidRows(text)))
      BY <1>3, FlattenedRows
    <2> QED BY <1>4, <2>1 DEF FlatOf
  <1> QED BY <1>3, <1>4, <1>5

LEMMA SolidJoins ==
  ASSUME NEW a \in Seq(Units), NEW b \in Seq(Units), NEW both, Joins(both, a, b)
  PROVE  both \in Seq(Units) /\ Joins(Solid(both), Solid(a), Solid(b))
  <1>1. /\ both \in Seq(Units) /\ Len(both) = Len(a) + Len(b) /\ Len(a) \in Nat /\ Len(b) \in Nat
        /\ \A i \in 1 .. Len(a) : both[i] = a[i]
        /\ \A i \in 1 .. Len(b) : both[Len(a) + i] = b[i]
    BY JoinedItems
  <1> DEFINE x == SolidRows(a)
             y == SolidRows(b)
             z == SolidRows(both)
  <1>2. /\ x \in Seq(Seq(Units)) /\ y \in Seq(Seq(Units)) /\ z \in Seq(Seq(Units))
        /\ Len(x) = Len(a) /\ Len(y) = Len(b) /\ Len(z) = Len(both)
        /\ Solid(a) = FlattenSeq(x) /\ Solid(b) = FlattenSeq(y) /\ Solid(both) = FlattenSeq(z)
    BY <1>1, SolidRowsAre
  <1>3. ASSUME NEW i \in 1 .. Len(a) PROVE z[i] = x[i]
    <2>1. i \in 1 .. Len(both) /\ both[i] = a[i]
      BY <1>1
    <2> QED BY <2>1 DEF SolidRows
  <1>4. ASSUME NEW i \in 1 .. Len(b) PROVE z[Len(a) + i] = y[i]
    <2>1. Len(a) + i \in 1 .. Len(both) /\ both[Len(a) + i] = b[i]
      BY <1>1
    <2> QED BY <2>1 DEF SolidRows
  <1> HIDE DEF x, y, z
  <1>5. Joins(z, x, y)
    BY <1>1, <1>2, <1>3, <1>4, ItemsJoin
  <1>6. z = x \o y
    BY <1>5 DEF Joins
  <1>7. Joins(FlattenSeq(x \o y), FlattenSeq(x), FlattenSeq(y))
    BY <1>2, FlatBehind
  <1> QED BY <1>1, <1>2, <1>6, <1>7

LEMMA SolidNone ==
  ASSUME NEW a \in Seq(Units), Blank(a)
  PROVE  Solid(a) = << >>
  <1> DEFINE x == SolidRows(a)
             T == {k \in Nat : k <= Len(a) => Upto(x, k) = << >>}
  <1>1. x \in Seq(Seq(Units)) /\ Len(x) = Len(a) /\ Len(a) \in Nat /\ Solid(a) = FlattenSeq(x)
    BY SolidRowsAre
  <1>2. \A k \in 1 .. Len(a) : x[k] = << >> /\ x[k] \in Seq(Units)
    BY DEF SolidRows, Blank
  <1> HIDE DEF x
  <1>3. 0 \in T
    BY UptoNone
  <1>4. ASSUME NEW k \in Nat, k \in T PROVE k + 1 \in T
    <2> SUFFICES ASSUME k + 1 <= Len(a) PROVE Upto(x, k + 1) = << >>
      OBVIOUS
    <2>1. Upto(x, k) = << >> /\ k + 1 \in 1 .. Len(a) /\ \A j \in 1 .. k + 1 : j \in 1 .. Len(a)
      BY <1>1, <1>4
    <2>2. \A j \in 1 .. k + 1 : x[j] \in Seq(Units)
      BY <1>2, <2>1
    <2>3. Upto(x, k + 1) = Upto(x, k) \o x[k + 1]
      BY <2>2, UptoNext
    <2> QED BY <1>2, <2>1, <2>3
  <1>5. Len(a) \in T /\ Len(a) <= Len(a)
    <2>1. \A k \in Nat : k \in T
      <3> HIDE DEF T
      <3> QED BY <1>3, <1>4, CountingUp
    <2> HIDE DEF T
    <2> QED BY <1>1, <2>1
  <1>6. Upto(x, Len(x)) = FlattenSeq(x)
    BY <1>1, UptoAll
  <1> QED BY <1>1, <1>5, <1>6

LEMMA SolidSomething ==
  ASSUME NEW a \in Seq(Units), ~Blank(a)
  PROVE  Solid(a) # << >>
  <1>1. PICK i \in 1 .. Len(a) : a[i] \notin Blanks
    BY DEF Blank
  <1>2. SolidRows(a)[i] = <<a[i]>> /\ SolidRows(a) \in Seq(Seq(Units)) /\ Len(SolidRows(a)) = Len(a)
    BY <1>1, SolidRowsAre DEF SolidRows
  <1>3. PICK row : FlatOf(SolidRows(a), Units, FlattenSeq(SolidRows(a)), row, Len(SolidRows(a)))
    BY <1>2, FlattenedRows
  <1>4. 1 \in 1 .. Len(SolidRows(a)[i]) /\ i \in 1 .. Len(SolidRows(a))
    BY <1>1, <1>2
  <1>5. \E c \in 1 .. Len(FlattenSeq(SolidRows(a))) : TRUE
    BY <1>3, <1>4 DEF FlatOf
  <1>6. Solid(a) = FlattenSeq(SolidRows(a))
    BY SolidRowsAre
  <1>7. Len(Solid(a)) # 0
    BY <1>5, <1>6, SolidRowsAre
  <1> QED BY <1>7

\* A piece of a text and the piece behind it.
LEMMA PiecesJoin ==
  ASSUME NEW T, NEW t \in Seq(T), NEW i \in 1 .. Len(t) + 1, NEW j \in i - 1 .. Len(t), NEW k \in j .. Len(t)
  PROVE  /\ Joins(SubSeq(t, i, k), SubSeq(t, i, j), SubSeq(t, j + 1, k))
         /\ SubSeq(t, i, j) \in Seq(T) /\ SubSeq(t, j + 1, k) \in Seq(T)
         /\ SubSeq(t, i, k) \in Seq(T)
  <1>1. Len(t) \in Nat /\ \A c \in 1 .. Len(t) : t[c] \in T
    OBVIOUS
  <1> DEFINE x == SubSeq(t, i, j)
             y == SubSeq(t, j + 1, k)
             z == SubSeq(t, i, k)
  <1>2. x \in Seq(T) /\ Len(x) = j - i + 1 /\ \A c \in 1 .. j - i + 1 : x[c] = t[i + c - 1]
    BY <1>1
  <1>3. y \in Seq(T) /\ Len(y) = k - j /\ \A c \in 1 .. k - j : y[c] = t[j + c]
    BY <1>1
  <1>4. z \in Seq(T) /\ Len(z) = k - i + 1 /\ \A c \in 1 .. k - i + 1 : z[c] = t[i + c - 1]
    BY <1>1
  <1> HIDE DEF x, y, z
  <1>5. /\ Len(z) = Len(x) + Len(y)
        /\ \A c \in 1 .. Len(x) : z[c] = x[c]
        /\ \A c \in 1 .. Len(y) : z[Len(x) + c] = y[c]
    <2>1. Len(z) = Len(x) + Len(y)
      BY <1>1, <1>2, <1>3, <1>4
    <2>2. \A c \in 1 .. Len(x) : z[c] = x[c]
      BY <1>1, <1>2, <1>4
    <2>3. ASSUME NEW c \in 1 .. Len(y) PROVE z[Len(x) + c] = y[c]
      <3>1. Len(x) + c \in 1 .. k - i + 1 /\ i + (Len(x) + c) - 1 = j + c /\ c \in 1 .. k - j
        BY <1>1, <1>2, <1>3
      <3>2. z[Len(x) + c] = t[i + (Len(x) + c) - 1]
        BY <3>1, <1>4
      <3> QED BY <3>1, <3>2, <1>3
    <2> QED BY <2>1, <2>2, <2>3
  <1>6. Joins(z, x, y)
    BY <1>2, <1>3, <1>4, <1>5, ItemsJoin
  <1> QED BY <1>2, <1>3, <1>4, <1>6 DEF x, y, z

\* What trim leaves of a text, from f to e.
Trims(t, f, e) ==
    /\ e \in 0 .. Len(t) /\ f \in 1 .. e + 1
    /\ Trim(t) = SubSeq(t, f, e) /\ Trim(t) \in Seq(Units) /\ Len(Trim(t)) = e - f + 1
    /\ \A c \in 1 .. e - f + 1 : Trim(t)[c] = t[f + c - 1]
    /\ \A i \in 1 .. f - 1 : t[i] \in Blanks
    /\ \A i \in e + 1 .. Len(t) : t[i] \in Blanks
    /\ f <= e => t[f] \notin Blanks /\ t[e] \notin Blanks

LEMMA TrimTrims ==
  ASSUME NEW t \in Seq(Units)
  PROVE  \E f, e : Trims(t, f, e)
  <1> DEFINE A == {0} \cup {i \in 1 .. Len(t) : t[i] \notin Blanks}
             e == Max(A)
             u == SubSeq(t, 1, e)
             B == {Len(u) + 1} \cup {i \in 1 .. Len(u) : u[i] \notin Blanks}
             f == Min(B)
  <1>1. Len(t) \in Nat /\ \A c \in 1 .. Len(t) : t[c] \in Units
    OBVIOUS
  <1>2. e \in A /\ e \in Int /\ \A y \in A : y <= e
    <2>1. A # {} /\ \A y \in A : y \in Int /\ y <= Len(t)
      BY <1>1
    <2> HIDE DEF A
    <2> QED BY <1>1, <2>1, MaxOf
  <1>3. e \in 0 .. Len(t) /\ (e >= 1 => t[e] \notin Blanks) /\ \A i \in e + 1 .. Len(t) : t[i] \in Blanks
    <2>1. e \in 0 .. Len(t) /\ (e >= 1 => t[e] \notin Blanks)
      <3> HIDE DEF e
      <3> QED BY <1>1, <1>2
    <2>2. ASSUME NEW i \in e + 1 .. Len(t) PROVE t[i] \in Blanks
      <3> HIDE DEF e
      <3>1. i \in 1 .. Len(t) /\ ~(i <= e)
        BY <2>1, <1>1
      <3> QED BY <3>1, <1>2
    <2> QED BY <2>1, <2>2
  <1> HIDE DEF e, A
  <1>4. u \in Seq(Units) /\ Len(u) = e /\ \A c \in 1 .. e : u[c] = t[c]
    BY <1>1, <1>3
  <1> HIDE DEF u
  <1>5. f \in B /\ f \in Int /\ \A y \in B : f <= y
    <2>1. B # {} /\ \A y \in B : y \in Int /\ 1 <= y
      BY <1>3, <1>4
    <2> HIDE DEF B
    <2> QED BY <2>1, MinOf
  <1>6. f \in 1 .. e + 1 /\ (f <= e => t[f] \notin Blanks) /\ \A i \in 1 .. f - 1 : t[i] \in Blanks
    <2>1. f \in 1 .. e + 1 /\ (f <= e => t[f] \notin Blanks)
      <3> HIDE DEF f
      <3> QED BY <1>3, <1>4, <1>5
    <2>2. ASSUME NEW i \in 1 .. f - 1 PROVE t[i] \in Blanks
      <3> HIDE DEF f
      <3>1. i \in 1 .. e /\ ~(f <= i) /\ u[i] = t[i]
        BY <2>1, <1>3, <1>4
      <3> QED BY <3>1, <1>4, <1>5
    <2> QED BY <2>1, <2>2
  <1>7. Trim(t) = SubSeq(u, f, Len(u))
    BY DEF Trim, TrimEnd, u, e, A, f, B
  <1> HIDE DEF f, B
  <1>8. /\ SubSeq(u, f, e) \in Seq(Units) /\ Len(SubSeq(u, f, e)) = e - f + 1
        /\ \A c \in 1 .. e - f + 1 : SubSeq(u, f, e)[c] = t[f + c - 1]
    <2>1. /\ SubSeq(u, f, e) \in Seq(Units) /\ Len(SubSeq(u, f, e)) = e - f + 1
          /\ \A c \in 1 .. e - f + 1 : SubSeq(u, f, e)[c] = u[f + c - 1]
      BY <1>3, <1>4, <1>6
    <2>2. \A c \in 1 .. e - f + 1 : f + c - 1 \in 1 .. e
      BY <1>3, <1>6
    <2> QED BY <2>1, <2>2, <1>4
  <1>9. /\ SubSeq(t, f, e) \in Seq(Units) /\ Len(SubSeq(t, f, e)) = e - f + 1
        /\ \A c \in 1 .. e - f + 1 : SubSeq(t, f, e)[c] = t[f + c - 1]
    BY <1>1, <1>3, <1>6
  <1>10. SubSeq(u, f, e) = SubSeq(t, f, e)
    <2> DEFINE x == SubSeq(u, f, e)
               y == SubSeq(t, f, e)
    <2>1. x \in Seq(Units) /\ y \in Seq(Units) /\ Len(x) = Len(y) /\ \A c \in 1 .. Len(x) : x[c] = y[c]
      BY <1>8, <1>9
    <2> HIDE DEF x, y
    <2>2. x = y
      BY <2>1, SeqEqual
    <2> QED BY <2>2 DEF x, y
  <1>11. Trim(t) = SubSeq(t, f, e)
    BY <1>4, <1>7, <1>10
  <1>12. Trims(t, f, e)
    BY <1>3, <1>6, <1>9, <1>11 DEF Trims
  <1> QED BY <1>12

LEMMA TrimKeeps ==
  ASSUME NEW t \in Seq(Units)
  PROVE  /\ Trim(t) \in Seq(Units) /\ Solid(Trim(t)) = Solid(t)
         /\ Len(Trim(t)) \in Nat /\ Len(Trim(t)) <= Len(t)
         /\ Blank(Trim(t)) <=> Blank(t)
         /\ Blank(t) => Trim(t) = << >>
         /\ Paired(t) => Paired(Trim(t))
  <1>1. PICK f, e : Trims(t, f, e)
    BY TrimTrims
  <1>2. Len(t) \in Nat /\ \A c \in 1 .. Len(t) : t[c] \in Units
    OBVIOUS
  <1>3. /\ e \in 0 .. Len(t) /\ f \in 1 .. e + 1
        /\ Trim(t) = SubSeq(t, f, e) /\ Trim(t) \in Seq(Units) /\ Len(Trim(t)) = e - f + 1
        /\ \A c \in 1 .. e - f + 1 : Trim(t)[c] = t[f + c - 1]
        /\ \A i \in 1 .. f - 1 : t[i] \in Blanks
        /\ \A i \in e + 1 .. Len(t) : t[i] \in Blanks
        /\ f <= e => t[f] \notin Blanks /\ t[e] \notin Blanks
    BY <1>1 DEF Trims
  <1>4. Len(Trim(t)) \in Nat /\ Len(Trim(t)) <= Len(t)
    BY <1>2, <1>3
  <1>5. Blank(Trim(t)) <=> Blank(t)
    <2>1. ASSUME Blank(t) PROVE Blank(Trim(t))
      <3>1. \A c \in 1 .. e - f + 1 : f + c - 1 \in 1 .. Len(t)
        BY <1>2, <1>3
      <3> QED BY <3>1, <2>1, <1>3 DEF Blank
    <2>2. ASSUME Blank(Trim(t)) PROVE Blank(t)
      <3>1. ~(f <= e)
        <4> SUFFICES ASSUME f <= e PROVE FALSE
          OBVIOUS
        <4>1. 1 \in 1 .. e - f + 1 /\ f + 1 - 1 = f
          BY <1>2, <1>3
        <4>2. Trim(t)[1] = t[f]
          BY <4>1, <1>3
        <4> QED BY <4>1, <4>2, <2>2, <1>3 DEF Blank
      <3>2. \A i \in 1 .. Len(t) : i \in 1 .. f - 1 \/ i \in e + 1 .. Len(t)
        BY <3>1, <1>2, <1>3
      <3> QED BY <3>2, <1>3 DEF Blank
    <2> QED BY <2>1, <2>2
  <1>6. Blank(t) => Trim(t) = << >>
    <2> SUFFICES ASSUME Blank(t) PROVE Trim(t) = << >>
      OBVIOUS
    <2>1. ~(f <= e)
      BY <1>2, <1>3 DEF Blank
    <2>2. Len(Trim(t)) = 0
      BY <2>1, <1>3
    <2> QED BY <2>2, <1>3
  <1>7. Solid(Trim(t)) = Solid(t)
    <2> DEFINE x == SubSeq(t, 1, f - 1)
               y == SubSeq(t, f, e)
               z == SubSeq(t, e + 1, Len(t))
               yz == SubSeq(t, f, Len(t))
    <2>1. Joins(t, x, yz) /\ x \in Seq(Units) /\ yz \in Seq(Units)
      <3>1. 1 \in 1 .. Len(t) + 1 /\ f - 1 \in 1 - 1 .. Len(t) /\ Len(t) \in f - 1 .. Len(t) /\ (f - 1) + 1 = f
        BY <1>2, <1>3
      <3>2. Joins(SubSeq(t, 1, Len(t)), SubSeq(t, 1, f - 1), SubSeq(t, (f - 1) + 1, Len(t)))
            /\ SubSeq(t, 1, f - 1) \in Seq(Units) /\ SubSeq(t, (f - 1) + 1, Len(t)) \in Seq(Units)
        BY <3>1, PiecesJoin
      <3>3. SubSeq(t, 1, Len(t)) = t
        BY SubSeqFull
      <3> QED BY <3>1, <3>2, <3>3
    <2>2. Joins(yz, y, z) /\ y \in Seq(Units) /\ z \in Seq(Units)
      <3>1. f \in 1 .. Len(t) + 1 /\ e \in f - 1 .. Len(t) /\ Len(t) \in e .. Len(t)
        BY <1>2, <1>3
      <3> QED BY <3>1, PiecesJoin
    <2>3. Blank(x) /\ Blank(z)
      <3>1. Len(x) = f - 1 /\ (\A c \in 1 .. f - 1 : x[c] = t[c])
        BY <1>2, <1>3
      <3>2. Len(z) = Len(t) - e /\ (\A c \in 1 .. Len(t) - e : z[c] = t[e + c])
        BY <1>2, <1>3
      <3>3. \A c \in 1 .. Len(t) - e : e + c \in e + 1 .. Len(t)
        BY <1>2, <1>3
      <3> HIDE DEF x, z
      <3> QED BY <3>1, <3>2, <3>3, <1>3 DEF Blank
    <2>4. Trim(t) = y
      BY <1>3
    <2> HIDE DEF x, y, z, yz
    <2>5. Solid(x) = << >> /\ Solid(z) = << >>
      BY <2>1, <2>2, <2>3, SolidNone
    <2>6. Joins(Solid(yz), Solid(y), Solid(z)) /\ Joins(Solid(t), Solid(x), Solid(yz))
      BY <2>1, <2>2, SolidJoins
    <2>7. Solid(y) \in Seq(Units) /\ Solid(yz) \in Seq(Units)
      BY <2>1, <2>2, SolidRowsAre
    <2>8. Solid(yz) = Solid(y) /\ Solid(t) = Solid(yz)
      BY <2>5, <2>6, <2>7, JoinsNone
    <2> QED BY <2>4, <2>8
  <1>8. Paired(t) => Paired(Trim(t))
    <2> SUFFICES ASSUME Paired(t), NEW c \in 1 .. Len(Trim(t))
                 PROVE  /\ Trim(t)[c] = "high" => c < Len(Trim(t)) /\ Trim(t)[c + 1] = "low"
                        /\ Trim(t)[c] = "low" => c > 1 /\ Trim(t)[c - 1] = "high"
      BY DEF Paired
    <2>1. f + c - 1 \in 1 .. Len(t) /\ Trim(t)[c] = t[f + c - 1] /\ c \in Int
      BY <1>2, <1>3
    <2>2. ASSUME Trim(t)[c] = "high" PROVE c < Len(Trim(t)) /\ Trim(t)[c + 1] = "low"
      <3>1. f + c - 1 < Len(t) /\ t[(f + c - 1) + 1] = "low"
        BY <2>1, <2>2 DEF Paired
      <3>2. (f + c - 1) + 1 = f + (c + 1) - 1
        BY <2>1, <1>3
      <3>3. (f + c - 1) + 1 \notin e + 1 .. Len(t)
        BY <3>1, <1>3 DEF Blanks
      <3>4. c + 1 \in 1 .. e - f + 1
        BY <2>1, <3>1, <3>3, <1>2, <1>3
      <3>5. Trim(t)[c + 1] = t[f + (c + 1) - 1]
        BY <3>4, <1>3
      <3> QED BY <3>1, <3>2, <3>4, <3>5, <1>3, <2>1
    <2>3. ASSUME Trim(t)[c] = "low" PROVE c > 1 /\ Trim(t)[c - 1] = "high"
      <3>1. f + c - 1 > 1 /\ t[(f + c - 1) - 1] = "high"
        BY <2>1, <2>3 DEF Paired
      <3>2. (f + c - 1) - 1 = f + (c - 1) - 1
        BY <2>1, <1>3
      <3>3. (f + c - 1) - 1 \notin 1 .. f - 1
        BY <3>1, <1>3 DEF Blanks
      <3>4. c - 1 \in 1 .. e - f + 1
        BY <2>1, <3>1, <3>3, <1>2, <1>3
      <3>5. Trim(t)[c - 1] = t[f + (c - 1) - 1]
        BY <3>4, <1>3
      <3> QED BY <3>1, <3>2, <3>4, <3>5, <1>3, <2>1
    <2> QED BY <2>2, <2>3
  <1> QED BY <1>3, <1>4, <1>5, <1>6, <1>7, <1>8

LEMMA PairedJoins ==
  ASSUME NEW a \in Seq(Units), NEW b \in Seq(Units), NEW both, Joins(both, a, b), Paired(a), Paired(b)
  PROVE  Paired(both)
  <1>1. /\ Len(both) = Len(a) + Len(b) /\ Len(a) \in Nat /\ Len(b) \in Nat
        /\ \A i \in 1 .. Len(a) : both[i] = a[i]
        /\ \A i \in 1 .. Len(b) : both[Len(a) + i] = b[i]
    BY JoinedItems
  <1> SUFFICES ASSUME NEW i \in 1 .. Len(both)
               PROVE  /\ both[i] = "high" => i < Len(both) /\ both[i + 1] = "low"
                      /\ both[i] = "low" => i > 1 /\ both[i - 1] = "high"
    BY DEF Paired
  <1>2. CASE i \in 1 .. Len(a)
    <2>1. both[i] = a[i] /\ (i < Len(a) => i + 1 \in 1 .. Len(a)) /\ (i > 1 => i - 1 \in 1 .. Len(a))
      BY <1>1, <1>2
    <2>2. /\ a[i] = "high" => i < Len(a) /\ a[i + 1] = "low"
          /\ a[i] = "low" => i > 1 /\ a[i - 1] = "high"
      BY <1>2 DEF Paired
    <2> QED BY <2>1, <2>2, <1>1, <1>2
  <1>3. CASE ~(i \in 1 .. Len(a))
    <2>1. PICK c : c = i - Len(a)
      OBVIOUS
    <2>2. c \in 1 .. Len(b) /\ i = Len(a) + c /\ i + 1 = Len(a) + (c + 1) /\ i - 1 = Len(a) + (c - 1)
      BY <2>1, <1>1, <1>3
    <2>3. both[i] = b[c]
      BY <2>2, <1>1
    <2>4. /\ b[c] = "high" => c < Len(b) /\ b[c + 1] = "low"
          /\ b[c] = "low" => c > 1 /\ b[c - 1] = "high"
      BY <2>2 DEF Paired
    <2>5. ASSUME b[c] = "high" PROVE i < Len(both) /\ both[i + 1] = "low"
      <3>1. c + 1 \in 1 .. Len(b) /\ i < Len(both)
        BY <2>2, <2>4, <2>5, <1>1
      <3> QED BY <3>1, <2>2, <2>4, <2>5, <1>1
    <2>6. ASSUME b[c] = "low" PROVE i > 1 /\ both[i - 1] = "high"
      <3>1. c - 1 \in 1 .. Len(b) /\ i > 1
        BY <2>2, <2>4, <2>6, <1>1
      <3> QED BY <3>1, <2>2, <2>4, <2>6, <1>1
    <2> QED BY <2>3, <2>5, <2>6
  <1> QED BY <1>2, <1>3

\* A piece cut where no pair is divided.
LEMMA PairedPiece ==
  ASSUME NEW t \in Seq(Units), Paired(t), NEW i \in 1 .. Len(t) + 1, NEW j \in i - 1 .. Len(t),
         i = 1 \/ t[i - 1] # "high", j = Len(t) \/ t[j] # "high"
  PROVE  Paired(SubSeq(t, i, j))
  <1> DEFINE s == SubSeq(t, i, j)
  <1>1. Len(t) \in Nat /\ Len(s) = j - i + 1 /\ \A c \in 1 .. j - i + 1 : s[c] = t[i + c - 1]
    <2>1. Len(t) \in Nat /\ \A c \in 1 .. Len(t) : t[c] \in Units
      OBVIOUS
    <2> QED BY <2>1
  <1> HIDE DEF s
  <1>2. ASSUME NEW c \in 1 .. Len(s)
        PROVE  /\ s[c] = "high" => c < Len(s) /\ s[c + 1] = "low"
               /\ s[c] = "low" => c > 1 /\ s[c - 1] = "high"
    <2>1. PICK d : d = i + c - 1
      OBVIOUS
    <2>2. /\ d \in 1 .. Len(t) /\ d \in i .. j /\ s[c] = t[d] /\ d + 1 = i + (c + 1) - 1 /\ d - 1 = i + (c - 1) - 1
          /\ c < Len(s) <=> d < j
          /\ c > 1 <=> d > i
      BY <1>1, <2>1
    <2>3. /\ t[d] = "high" => d < Len(t) /\ t[d + 1] = "low"
          /\ t[d] = "low" => d > 1 /\ t[d - 1] = "high"
      BY <2>2 DEF Paired
    <2>4. ASSUME t[d] = "high" PROVE c < Len(s) /\ s[c + 1] = "low"
      <3>1. c < Len(s) /\ c + 1 \in 1 .. Len(s)
        BY <2>2, <2>3, <2>4, <1>1
      <3> QED BY <3>1, <2>2, <2>3, <2>4, <1>1
    <2>5. ASSUME t[d] = "low" PROVE c > 1 /\ s[c - 1] = "high"
      <3>1. c > 1 /\ c - 1 \in 1 .. Len(s)
        BY <2>2, <2>3, <2>5, <1>1
      <3> QED BY <3>1, <2>2, <2>3, <2>5, <1>1
    <2> QED BY <2>2, <2>4, <2>5
  <1>3. Paired(s)
    BY <1>2 DEF Paired
  <1> QED BY <1>3 DEF s

\* What the first k of some texts hold but blanks.
Heard(ps, k) == FlattenSeq([j \in 1 .. k |-> Solid(ps[j])])

LEMMA HeardNone ==
  ASSUME NEW ps
  PROVE  Heard(ps, 0) = << >>
  <1>1. [j \in 1 .. 0 |-> Solid(ps[j])] = << >>
    OBVIOUS
  <1> QED BY <1>1 DEF Heard, FlattenSeq

LEMMA HeardSame ==
  ASSUME NEW ps, NEW qs, NEW k, \A j \in 1 .. k : ps[j] = qs[j]
  PROVE  Heard(ps, k) = Heard(qs, k)
  <1>1. [j \in 1 .. k |-> Solid(ps[j])] = [j \in 1 .. k |-> Solid(qs[j])]
    OBVIOUS
  <1> QED BY <1>1 DEF Heard

LEMMA HeardNext ==
  ASSUME NEW ps \in Seq(Seq(Units)), NEW k \in 0 .. Len(ps) - 1
  PROVE  /\ Heard(ps, k) \in Seq(Units) /\ Heard(ps, k + 1) \in Seq(Units)
         /\ Joins(Heard(ps, k + 1), Heard(ps, k), Solid(ps[k + 1]))
  <1> DEFINE r == [j \in 1 .. k + 1 |-> Solid(ps[j])]
  <1>1. Len(ps) \in Nat /\ \A j \in 1 .. k + 1 : j \in 1 .. Len(ps)
    OBVIOUS
  <1>2. \A j \in 1 .. k + 1 : r[j] = Solid(ps[j]) /\ r[j] \in Seq(Units)
    <2>1. \A j \in 1 .. k + 1 : ps[j] \in Seq(Units)
      BY <1>1, ItemsOf
    <2>2. \A j \in 1 .. k + 1 : Solid(ps[j]) \in Seq(Units)
      BY <2>1, SolidRowsAre
    <2> QED BY <2>2
  <1>3. Heard(ps, k) = Upto(r, k) /\ Heard(ps, k + 1) = Upto(r, k + 1)
    <2>1. [j \in 1 .. k |-> Solid(ps[j])] = [j \in 1 .. k |-> r[j]]
      OBVIOUS
    <2>2. [j \in 1 .. k + 1 |-> Solid(ps[j])] = [j \in 1 .. k + 1 |-> r[j]]
      OBVIOUS
    <2> QED BY <2>1, <2>2 DEF Heard, Upto
  <1> HIDE DEF r
  <1>4. Upto(r, k) \in Seq(Units) /\ Upto(r, k + 1) = Upto(r, k) \o r[k + 1]
    BY <1>1, <1>2, UptoNext
  <1>5. r[k + 1] = Solid(ps[k + 1]) /\ r[k + 1] \in Seq(Units)
    BY <1>1, <1>2
  <1>6. Joins(Upto(r, k + 1), Upto(r, k), r[k + 1])
    BY <1>4 DEF Joins
  <1>7. Upto(r, k + 1) \in Seq(Units)
    BY <1>4, <1>5, <1>6, JoinedItems
  <1> QED BY <1>3, <1>4, <1>5, <1>6, <1>7

LEMMA HeardIs ==
  ASSUME NEW ps \in Seq(Seq(Units)), NEW k \in 0 .. Len(ps)
  PROVE  Heard(ps, k) \in Seq(Units)
  <1>1. Len(ps) \in Nat
    OBVIOUS
  <1>2. CASE k = 0
    <2>1. Heard(ps, 0) = << >> /\ << >> \in Seq(Units)
      BY HeardNone
    <2> QED BY <1>2, <2>1
  <1>3. CASE k # 0
    <2>1. k - 1 \in 0 .. Len(ps) - 1 /\ (k - 1) + 1 = k
      BY <1>1, <1>3
    <2>2. Heard(ps, (k - 1) + 1) \in Seq(Units)
      BY <2>1, HeardNext
    <2> QED BY <2>1, <2>2
  <1> QED BY <1>2, <1>3

LEMMA HeardBehind ==
  ASSUME NEW ps \in Seq(Seq(Units)), NEW qs \in Seq(Seq(Units)), NEW both, Joins(both, ps, qs),
         NEW k \in 0 .. Len(qs)
  PROVE  Joins(Heard(both, Len(ps) + k), Heard(ps, Len(ps)), Heard(qs, k))
  <1> DEFINE la == Len(ps)
             r == [j \in 1 .. la + k |-> Solid(both[j])]
             q == [j \in 1 .. k |-> Solid(qs[j])]
  <1>1. /\ both \in Seq(Seq(Units)) /\ la \in Nat /\ Len(qs) \in Nat /\ Len(both) = la + Len(qs)
        /\ \A j \in 1 .. la : both[j] = ps[j]
        /\ \A j \in 1 .. Len(qs) : both[la + j] = qs[j]
    <2> DEFINE S == Seq(Units)
    <2>1. ps \in Seq(S) /\ qs \in Seq(S)
      OBVIOUS
    <2> HIDE DEF S
    <2>2. /\ both \in Seq(S) /\ Len(ps) \in Nat /\ Len(qs) \in Nat /\ Len(both) = Len(ps) + Len(qs)
          /\ \A j \in 1 .. Len(ps) : both[j] = ps[j]
          /\ \A j \in 1 .. Len(qs) : both[Len(ps) + j] = qs[j]
      BY ONLY <2>1, Joins(both, ps, qs), JoinedItems
    <2> QED BY <2>2 DEF S
  <1>2. \A j \in 1 .. la + k : r[j] = Solid(both[j]) /\ r[j] \in Seq(Units)
    <2>1. \A j \in 1 .. la + k : j \in 1 .. Len(both)
      BY <1>1
    <2>2. \A j \in 1 .. la + k : both[j] \in Seq(Units)
      BY <1>1, <2>1, ItemsOf
    <2>3. \A j \in 1 .. la + k : Solid(both[j]) \in Seq(Units)
      BY <2>2, SolidRowsAre
    <2> QED BY <2>3
  <1>3. \A j \in 1 .. k : q[j] = r[la + j]
    <2> SUFFICES ASSUME NEW j \in 1 .. k PROVE q[j] = r[la + j]
      OBVIOUS
    <2>1. la + j \in 1 .. la + k /\ j \in 1 .. Len(qs)
      BY <1>1
    <2>2. both[la + j] = qs[j] /\ r[la + j] = Solid(both[la + j])
      BY <2>1, <1>1, <1>2
    <2>3. q[j] = Solid(qs[j])
      OBVIOUS
    <2> HIDE DEF q, r
    <2> QED BY <2>2, <2>3
  <1>4. Heard(both, la + k) = Upto(r, la + k) /\ Heard(qs, k) = Upto(q, k)
    <2>1. [j \in 1 .. la + k |-> Solid(both[j])] = [j \in 1 .. la + k |-> r[j]]
      OBVIOUS
    <2>2. [j \in 1 .. k |-> Solid(qs[j])] = [j \in 1 .. k |-> q[j]]
      OBVIOUS
    <2> QED BY <2>1, <2>2 DEF Heard, Upto
  <1>5. Heard(ps, la) = Upto(r, la)
    <2>1. \A j \in 1 .. la : Solid(ps[j]) = r[j]
      <3>1. \A j \in 1 .. la : j \in 1 .. la + k
        BY <1>1
      <3> HIDE DEF r
      <3> QED BY <3>1, <1>1, <1>2
    <2>2. [j \in 1 .. la |-> Solid(ps[j])] = [j \in 1 .. la |-> r[j]]
      <3> HIDE DEF r
      <3> QED BY <2>1
    <2> QED BY <2>2 DEF Heard, Upto
  <1> HIDE DEF r, q
  <1>6. RowsBehind(Units, r, la, q, k) /\ k \in Nat
    BY <1>1, <1>2, <1>3 DEF RowsBehind
  <1>7. Joins(Upto(r, la + k), Upto(r, la), Upto(q, k))
    <2> HIDE DEF la
    <2> QED BY <1>1, <1>6, UptoBehind
  <1> QED BY <1>4, <1>5, <1>7

\* Texts of a kind that hold a text in order, and what has been heard at the end
\* of each is marked.
Divides(ps, T, h, marks) ==
    /\ ps \in Seq(T) /\ Heard(ps, Len(ps)) = h
    /\ \A i \in 0 .. Len(ps) : Heard(ps, i) \in marks

LEMMA DividesBehind ==
  ASSUME NEW T \in SUBSET Seq(Units), NEW marks, NEW h, NEW x, NEW more, NEW ps, NEW qs,
         Divides(ps, T, h, marks), Divides(qs, T, x, more),
         \A y \in more : \A g : Joins(g, h, y) => g \in marks,
         NEW both, Joins(both, ps, qs), NEW g, Joins(g, h, x)
  PROVE  Divides(both, T, g, marks)
  <1>1. /\ ps \in Seq(T) /\ Heard(ps, Len(ps)) = h /\ \A i \in 0 .. Len(ps) : Heard(ps, i) \in marks
        /\ qs \in Seq(T) /\ Heard(qs, Len(qs)) = x /\ \A i \in 0 .. Len(qs) : Heard(qs, i) \in more
    BY DEF Divides
  <1>2. ps \in Seq(Seq(Units)) /\ qs \in Seq(Seq(Units))
    BY <1>1, SeqMonotonic
  <1>3. /\ both \in Seq(T) /\ Len(ps) \in Nat /\ Len(qs) \in Nat /\ Len(both) = Len(ps) + Len(qs)
        /\ \A j \in 1 .. Len(ps) : both[j] = ps[j]
    BY <1>1, JoinedItems
  <1>4. ASSUME NEW k \in 0 .. Len(qs) PROVE Joins(Heard(both, Len(ps) + k), h, Heard(qs, k))
    BY <1>1, <1>2, HeardBehind
  <1>5. Heard(both, Len(both)) = g
    <2>1. Joins(Heard(both, Len(ps) + Len(qs)), h, Heard(qs, Len(qs)))
      BY <1>3, <1>4
    <2> QED BY <2>1, <1>1, <1>3, JoinsOnce
  <1>6. ASSUME NEW i \in 0 .. Len(both) PROVE Heard(both, i) \in marks
    <2>1. CASE i <= Len(ps)
      <3>1. \A j \in 1 .. i : both[j] = ps[j]
        BY <2>1, <1>3
      <3>2. Heard(both, i) = Heard(ps, i)
        BY <3>1, HeardSame
      <3>3. i \in 0 .. Len(ps)
        BY <2>1, <1>3
      <3> QED BY <3>2, <3>3, <1>1
    <2>2. CASE ~(i <= Len(ps))
      <3>1. PICK k : k = i - Len(ps)
        OBVIOUS
      <3>2. k \in 0 .. Len(qs) /\ i = Len(ps) + k
        BY <3>1, <2>2, <1>3
      <3>3. Joins(Heard(both, i), h, Heard(qs, k))
        BY <3>2, <1>4
      <3>4. Heard(qs, k) \in more
        BY <3>2, <1>1
      <3> QED BY <3>3, <3>4
    <2> QED BY <2>1, <2>2
  <1> QED BY <1>3, <1>5, <1>6 DEF Divides

LEMMA DividesNone ==
  ASSUME NEW T, NEW marks, << >> \in marks
  PROVE  Divides(<< >>, T, << >>, marks)
  <1>1. << >> \in Seq(T) /\ Len(<< >>) = 0 /\ \A i \in 0 .. 0 : i = 0
    OBVIOUS
  <1> QED BY <1>1, HeardNone DEF Divides

LEMMA KeptDivides ==
  ASSUME NEW T \in SUBSET Seq(Units), NEW marks, NEW h \in Seq(Units), NEW ps, Divides(ps, T, h, marks),
         NEW text \in Seq(Units), Blank(text) \/ text \in T,
         NEW g \in marks, Joins(g, h, Solid(text))
  PROVE  Divides(Kept(ps, text), T, g, marks)
  <1>1. CASE Blank(text)
    <2>1. g = h
      BY <1>1, SolidNone, JoinsNone
    <2> QED BY <1>1, <2>1 DEF Kept
  <1>2. CASE ~Blank(text)
    <2> DEFINE qs == <<text>>
    <2>1. Kept(ps, text) = Append(ps, text) /\ text \in T
      BY <1>2 DEF Kept
    <2>2. qs \in Seq(Seq(Units)) /\ qs \in Seq(T) /\ Len(qs) = 1 /\ qs[1] = text
      BY <2>1
    <2> HIDE DEF qs
    <2>3. ps \in Seq(T) /\ Heard(ps, Len(ps)) = h /\ \A i \in 0 .. Len(ps) : Heard(ps, i) \in marks
      BY DEF Divides
    <2>4. ps \in Seq(Seq(Units)) /\ Len(ps) \in Nat
      BY <2>3, SeqMonotonic
    <2>5. Heard(qs, 0) = << >> /\ Solid(text) \in Seq(Units)
      BY HeardNone, SolidRowsAre
    <2>6. Heard(qs, 1) = Solid(text)
      <3>1. Joins(Heard(qs, 0 + 1), Heard(qs, 0), Solid(qs[0 + 1]))
        <4>1. 0 \in 0 .. Len(qs) - 1
          BY <2>2
        <4> QED BY <4>1, <2>2, HeardNext
      <3>2. 0 + 1 = 1
        OBVIOUS
      <3> QED BY <3>1, <3>2, <2>2, <2>5, JoinsNone
    <2> DEFINE more == {<< >>, Solid(text)}
    <2>7. Divides(qs, T, Solid(text), more)
      <3>1. \A i \in 0 .. 1 : i = 0 \/ i = 1
        OBVIOUS
      <3> QED BY <3>1, <2>2, <2>5, <2>6 DEF Divides
    <2>8. ASSUME NEW y \in more, NEW f, Joins(f, h, y) PROVE f \in marks
      <3>1. CASE y = << >>
        <4>1. f = h
          BY <3>1, <2>8, JoinsNone
        <4>2. Len(ps) \in 0 .. Len(ps)
          BY <2>4
        <4> QED BY <4>1, <4>2, <2>3
      <3>2. CASE y = Solid(text)
        BY <3>2, <2>8, JoinsOnce
      <3> QED BY <3>1, <3>2
    <2>9. Joins(Append(ps, text), ps, qs)
      <3>1. /\ Append(ps, text) \in Seq(T) /\ Len(Append(ps, text)) = Len(ps) + 1
            /\ \A i \in 1 .. Len(ps) : Append(ps, text)[i] = ps[i]
            /\ Append(ps, text)[Len(ps) + 1] = text
        BY <2>1, <2>3, <2>4
      <3>2. \A i \in 1 .. Len(qs) : i = 1
        BY <2>2
      <3>3. \A i \in 1 .. Len(qs) : Append(ps, text)[Len(ps) + i] = qs[i]
        BY <3>1, <3>2, <2>2
      <3> QED BY <3>1, <3>3, <2>2, <2>3, ItemsJoin
    <2> HIDE DEF more
    <2>10. Divides(Append(ps, text), T, g, marks)
      BY <2>7, <2>8, <2>9, DividesBehind
    <2> QED BY <2>1, <2>10
  <1> QED BY <1>1, <1>2

\* Pieces that may be chunks.
Fitting(budget) == {t \in Seq(Units) : ~Blank(t) /\ Len(t) <= budget /\ Paired(t)}

\* What remains to be heard to come to a mark behind h.
After(h, marks) == {y \in Seq(Units) : \A g : Joins(g, h, y) => g \in marks}

\* Parts a packing may be made of: each fits or is divided by what it is cut into.
Packable(parts, budget, split, marks) ==
    /\ parts \in Seq(Seq(Units)) /\ \A j \in 0 .. Len(parts) : Heard(parts, j) \in marks
    /\ \A j \in 1 .. Len(parts) : Paired(parts[j])
    /\ \A j \in 1 .. Len(parts) : Len(Trim(parts[j])) > budget =>
          Divides(split[parts[j]], Fitting(budget), Solid(parts[j]), After(Heard(parts, j - 1), marks))

\* What is packed and what is at hand, when h has been heard.
Packed(p, budget, h, marks) ==
    /\ p \in [pieces : Seq(Seq(Units)), current : Seq(Units)]
    /\ Paired(p.current) /\ Len(Trim(p.current)) <= budget
    /\ \E g \in Seq(Units) : Divides(p.pieces, Fitting(budget), g, marks) /\ Joins(h, g, Solid(p.current))

LEMMA FlushedPacks ==
  ASSUME NEW budget \in Nat, NEW marks, NEW p, NEW h \in marks, Packed(p, budget, h, marks)
  PROVE  Divides(Kept(p.pieces, Trim(p.current)), Fitting(budget), h, marks)
  <1>1. PICK g \in Seq(Units) : Divides(p.pieces, Fitting(budget), g, marks) /\ Joins(h, g, Solid(p.current))
    BY DEF Packed
  <1>2. p.current \in Seq(Units) /\ Paired(p.current) /\ Len(Trim(p.current)) <= budget
    BY DEF Packed
  <1>3. /\ Trim(p.current) \in Seq(Units) /\ Solid(Trim(p.current)) = Solid(p.current)
        /\ Paired(Trim(p.current))
    BY <1>2, TrimKeeps
  <1>4. Blank(Trim(p.current)) \/ Trim(p.current) \in Fitting(budget)
    BY <1>2, <1>3 DEF Fitting
  <1>5. Fitting(budget) \in SUBSET Seq(Units)
    BY DEF Fitting
  <1> QED BY <1>1, <1>3, <1>4, <1>5, KeptDivides

LEMMA PackPacks ==
  ASSUME NEW budget \in Nat, NEW split, NEW marks, NEW p, NEW h, h \in marks, h \in Seq(Units),
         Packed(p, budget, h, marks),
         NEW part \in Seq(Units), Paired(part), NEW g \in Seq(Units), Joins(g, h, Solid(part)),
         Len(Trim(part)) > budget =>
            Divides(split[part], Fitting(budget), Solid(part), After(h, marks))
  PROVE  Packed(Pack(budget, split, p, part), budget, g, marks)
  <1> DEFINE next == Pack(budget, split, p, part)
             both == p.current \o part
             flushed == Kept(p.pieces, Trim(p.current))
  <1>1. /\ p \in [pieces : Seq(Seq(Units)), current : Seq(Units)] /\ p.current \in Seq(Units)
        /\ Paired(p.current) /\ Len(Trim(p.current)) <= budget
    BY DEF Packed
  <1>2. PICK f \in Seq(Units) : Divides(p.pieces, Fitting(budget), f, marks) /\ Joins(h, f, Solid(p.current))
    BY DEF Packed
  <1>3. Divides(flushed, Fitting(budget), h, marks)
    BY FlushedPacks
  <1>10. \A ps : \A x : Divides(ps, Fitting(budget), x, marks) => ps \in Seq(Seq(Units))
    <2>1. \A ps : ps \in Seq(Fitting(budget)) => ps \in Seq(Seq(Units))
      BY SeqMonotonic DEF Fitting
    <2> QED BY <2>1 DEF Divides
  <1>4. Joins(both, p.current, part)
    BY DEF Joins
  <1> HIDE DEF both, flushed
  <1>5. both \in Seq(Units) /\ Paired(both) /\ Joins(Solid(both), Solid(p.current), Solid(part))
    BY <1>1, <1>4, SolidJoins, PairedJoins
  <1>6. Solid(p.current) \in Seq(Units) /\ Solid(part) \in Seq(Units) /\ Solid(both) \in Seq(Units)
    BY <1>1, <1>5, SolidRowsAre
  <1>7. CASE Len(Trim(both)) <= budget
    <2>1. next = [p EXCEPT !.current = both]
      BY <1>7 DEF Pack, both
    <2>2. Joins(g, f, Solid(both))
      BY <1>2, <1>5, <1>6, JoinsAgain
    <2>3. /\ next \in [pieces : Seq(Seq(Units)), current : Seq(Units)]
          /\ next.pieces = p.pieces /\ next.current = both
      BY <2>1, <1>1, <1>5
    <2> HIDE DEF next
    <2>4. Packed(next, budget, g, marks)
      BY <2>2, <2>3, <1>2, <1>5, <1>7 DEF Packed
    <2> QED BY <2>4 DEF next
  <1>8. CASE ~(Len(Trim(both)) <= budget) /\ Len(Trim(part)) <= budget
    <2>1. next = [pieces |-> flushed, current |-> part]
      BY <1>8 DEF Pack, both, flushed
    <2>2. Packed([pieces |-> flushed, current |-> part], budget, g, marks)
      <3>1. flushed \in Seq(Seq(Units))
        BY <1>3, <1>10
      <3> QED BY <3>1, <1>3, <1>8 DEF Packed
    <2> QED BY <2>1, <2>2
  <1>9. CASE ~(Len(Trim(both)) <= budget) /\ ~(Len(Trim(part)) <= budget)
    <2> DEFINE all == flushed \o split[part]
    <2>1. next = [pieces |-> all, current |-> << >>]
      BY <1>9 DEF Pack, both, flushed
    <2>2. Joins(all, flushed, split[part])
      BY DEF Joins
    <2> HIDE DEF all
    <2>3. Len(Trim(part)) \in Nat
      BY TrimKeeps
    <2>4. Divides(split[part], Fitting(budget), Solid(part), After(h, marks))
      BY <2>3, <1>9
    <2>5. \A y \in After(h, marks) : \A e : Joins(e, h, y) => e \in marks
      BY DEF After
    <2>6. Fitting(budget) \in SUBSET Seq(Units)
      BY DEF Fitting
    <2>7. Divides(all, Fitting(budget), g, marks)
      BY <2>2, <2>4, <2>5, <2>6, <1>3, DividesBehind
    <2>8. /\ << >> \in Seq(Units) /\ Blank(<< >>) /\ Paired(<< >>) /\ Len(<< >>) = 0
      BY DEF Blank, Paired
    <2>9. Solid(<< >>) = << >> /\ Trim(<< >>) = << >>
      BY <2>8, SolidNone, TrimKeeps
    <2>10. Joins(g, g, Solid(<< >>))
      BY <2>9, JoinsNone
    <2>11. Packed([pieces |-> all, current |-> << >>], budget, g, marks)
      <3>1. all \in Seq(Seq(Units))
        BY <2>7, <1>10
      <3> QED BY <3>1, <2>7, <2>8, <2>9, <2>10 DEF Packed
    <2> QED BY <2>1, <2>11
  <1> QED BY <1>7, <1>8, <1>9

Packing == INSTANCE Folding WITH Op <- LAMBDA given, p, part : Pack(given[1], given[2], p, part)

LEMMA PackUnitsDivides ==
  ASSUME NEW budget \in Nat, NEW split, NEW marks, NEW parts, Packable(parts, budget, split, marks)
  PROVE  Divides(PackUnits(parts, budget, split), Fitting(budget), Heard(parts, Len(parts)), marks)
  <1> DEFINE base == [pieces |-> << >>, current |-> << >>]
             given == <<budget, split>>
             packed == Packing!Folded(given, base, parts)
  <1>1. PackUnits(parts, budget, split) = Kept(packed.pieces, Trim(packed.current))
    BY DEF PackUnits, Packing!Folded, FoldLeft, MapThenFoldSet, Max,
           Packing!FoldLeft, Packing!MapThenFoldSet, Packing!Max
  <1>2. /\ parts \in Seq(Seq(Units)) /\ Len(parts) \in Nat
        /\ \A j \in 0 .. Len(parts) : Heard(parts, j) \in marks /\ Heard(parts, j) \in Seq(Units)
        /\ \A j \in 1 .. Len(parts) : parts[j] \in Seq(Units) /\ Paired(parts[j])
        /\ \A j \in 1 .. Len(parts) : Len(Trim(parts[j])) > budget =>
             Divides(split[parts[j]], Fitting(budget), Solid(parts[j]), After(Heard(parts, j - 1), marks))
    <2>1. parts \in Seq(Seq(Units))
      BY DEF Packable
    <2>2. Len(parts) \in Nat /\ \A j \in 1 .. Len(parts) : parts[j] \in Seq(Units)
      BY <2>1, ItemsOf
    <2>3. \A j \in 0 .. Len(parts) : Heard(parts, j) \in Seq(Units)
      BY <2>1, HeardIs
    <2> QED BY <2>1, <2>2, <2>3 DEF Packable
  <1>3. PICK along : Packing!Along(given, base, parts, along)
    BY <1>2, Packing!FoldGoesAlong
  <1>4. /\ along[0] = base
        /\ \A k \in 1 .. Len(parts) : along[k] = Pack(budget, split, along[k - 1], parts[k])
        /\ packed = along[Len(parts)]
    BY <1>3 DEF Packing!Along
  <1> HIDE DEF packed
  <1> DEFINE T == {k \in Nat : k <= Len(parts) => Packed(along[k], budget, Heard(parts, k), marks)}
  <1>5. 0 \in T
    <2>1. /\ << >> \in Seq(Units) /\ Blank(<< >>) /\ Paired(<< >>) /\ Len(<< >>) = 0
      BY DEF Blank, Paired
    <2>2. Solid(<< >>) = << >> /\ Trim(<< >>) = << >>
      BY <2>1, SolidNone, TrimKeeps
    <2>3. Joins(<< >>, << >>, << >>)
      BY <2>1, JoinsNone
    <2>4. Heard(parts, 0) = << >> /\ << >> \in marks
      <3>1. 0 \in 0 .. Len(parts)
        BY <1>2
      <3>2. Heard(parts, 0) = << >>
        BY HeardNone
      <3> QED BY <3>1, <3>2, <1>2
    <2>5. Divides(<< >>, Fitting(budget), << >>, marks)
      BY <2>4, DividesNone
    <2>6. Packed(base, budget, << >>, marks)
      <3>1. /\ base.pieces = << >> /\ base.current = << >>
            /\ base \in [pieces : Seq(Seq(Units)), current : Seq(Units)]
        OBVIOUS
      <3> HIDE DEF base
      <3>2. Joins(<< >>, << >>, Solid(<< >>)) /\ Len(Trim(<< >>)) <= budget
        BY <2>1, <2>2, <2>3
      <3> QED BY <2>1, <2>5, <3>1, <3>2 DEF Packed
    <2> QED BY <2>4, <2>6, <1>4
  <1>6. ASSUME NEW k \in Nat, k \in T PROVE k + 1 \in T
    <2> SUFFICES ASSUME k + 1 <= Len(parts) PROVE Packed(along[k + 1], budget, Heard(parts, k + 1), marks)
      OBVIOUS
    <2>1. k + 1 \in 1 .. Len(parts) /\ (k + 1) - 1 = k /\ k \in 0 .. Len(parts) - 1
          /\ k \in 0 .. Len(parts) /\ k + 1 \in 0 .. Len(parts)
      BY <1>2
    <2>2. Packed(along[k], budget, Heard(parts, k), marks)
      BY <1>6, <2>1
    <2>3. along[k + 1] = Pack(budget, split, along[k], parts[k + 1])
      BY <2>1, <1>4
    <2>4. /\ Heard(parts, k) \in marks /\ Heard(parts, k) \in Seq(Units) /\ Heard(parts, k + 1) \in Seq(Units)
          /\ parts[k + 1] \in Seq(Units) /\ Paired(parts[k + 1])
          /\ Len(Trim(parts[k + 1])) > budget =>
             Divides(split[parts[k + 1]], Fitting(budget), Solid(parts[k + 1]), After(Heard(parts, k), marks))
      BY <2>1, <1>2
    <2>5. Joins(Heard(parts, k + 1), Heard(parts, k), Solid(parts[k + 1]))
      BY <2>1, <1>2, HeardNext
    <2> QED BY <2>2, <2>3, <2>4, <2>5, PackPacks
  <1>7. Packed(along[Len(parts)], budget, Heard(parts, Len(parts)), marks)
    <2>1. \A k \in Nat : k \in T
      <3> HIDE DEF T
      <3> QED BY <1>5, <1>6, CountingUp
    <2>2. Len(parts) \in T /\ Len(parts) <= Len(parts)
      <3> HIDE DEF T
      <3> QED BY <2>1, <1>2
    <2> QED BY <2>2
  <1>8. Heard(parts, Len(parts)) \in marks
    <2>1. Len(parts) \in 0 .. Len(parts)
      BY <1>2
    <2> QED BY <2>1, <1>2
  <1> QED BY <1>1, <1>4, <1>7, <1>8, FlushedPacks

\* A part of a text and where it is: behind what the parts before it hold.
PartAt(parts, j, text, B, a, b) ==
    /\ parts[j] = SubSeq(text, a, b) /\ Heard(parts, j - 1) = Solid(SubSeq(text, 1, a - 1))
    /\ a \in B \cup {1} /\ b + 1 \in B \cup {Len(text) + 1}

Cut(parts, text, B) ==
    /\ parts \in Seq(Seq(Units))
    /\ \A j \in 1 .. Len(parts) :
          \E a \in 1 .. Len(text) + 1 : \E b \in a - 1 .. Len(text) : PartAt(parts, j, text, B, a, b)

LEMMA KeptCuts ==
  ASSUME NEW text \in Seq(Units), NEW B, NEW parts, Cut(parts, text, B),
         NEW a \in 1 .. Len(text) + 1, NEW b \in a - 1 .. Len(text),
         a \in B \cup {1}, b + 1 \in B \cup {Len(text) + 1},
         Heard(parts, Len(parts)) = Solid(SubSeq(text, 1, a - 1))
  PROVE  /\ Cut(Kept(parts, SubSeq(text, a, b)), text, B)
         /\ Heard(Kept(parts, SubSeq(text, a, b)), Len(Kept(parts, SubSeq(text, a, b))))
               = Solid(SubSeq(text, 1, b))
  <1> DEFINE part == SubSeq(text, a, b)
             front == SubSeq(text, 1, a - 1)
             whole == SubSeq(text, 1, b)
             more == Append(parts, part)
  <1>1. Joins(whole, front, part) /\ front \in Seq(Units) /\ part \in Seq(Units) /\ whole \in Seq(Units)
    <2>1. 1 \in 1 .. Len(text) + 1 /\ a - 1 \in 1 - 1 .. Len(text) /\ b \in a - 1 .. Len(text) /\ (a - 1) + 1 = a
      OBVIOUS
    <2>2. /\ Joins(SubSeq(text, 1, b), SubSeq(text, 1, a - 1), SubSeq(text, (a - 1) + 1, b))
          /\ SubSeq(text, 1, a - 1) \in Seq(Units) /\ SubSeq(text, (a - 1) + 1, b) \in Seq(Units)
          /\ SubSeq(text, 1, b) \in Seq(Units)
      BY <2>1, PiecesJoin
    <2> QED BY <2>1, <2>2
  <1>2. /\ parts \in Seq(Seq(Units)) /\ Len(parts) \in Nat
        /\ \A j \in 1 .. Len(parts) :
             \E c \in 1 .. Len(text) + 1 : \E d \in c - 1 .. Len(text) : PartAt(parts, j, text, B, c, d)
    BY DEF Cut
  <1>3. Joins(Solid(whole), Solid(front), Solid(part)) /\ Solid(front) \in Seq(Units) /\ Solid(part) \in Seq(Units)
    <2> HIDE DEF whole, front, part
    <2> QED BY <1>1, SolidJoins, SolidRowsAre
  <1>4. CASE Blank(part)
    <2>1. Kept(parts, part) = parts
      BY <1>4 DEF Kept
    <2>2. Solid(whole) = Solid(front)
      <3> HIDE DEF whole, front, part
      <3> QED BY <1>1, <1>3, <1>4, SolidNone, JoinsNone
    <2> QED BY <2>1, <2>2
  <1>5. CASE ~Blank(part)
    <2> HIDE DEF part, front, whole
    <2>1. Kept(parts, part) = more
      BY <1>5 DEF Kept
    <2>2. /\ more \in Seq(Seq(Units)) /\ Len(more) = Len(parts) + 1 /\ more[Len(parts) + 1] = part
          /\ \A j \in 1 .. Len(parts) : more[j] = parts[j]
      BY <1>1, <1>2
    <2> HIDE DEF more
    <2>3. \A j \in 0 .. Len(parts) : Heard(more, j) = Heard(parts, j)
      <3> SUFFICES ASSUME NEW j \in 0 .. Len(parts) PROVE Heard(more, j) = Heard(parts, j)
        OBVIOUS
      <3>1. \A i \in 1 .. j : more[i] = parts[i]
        BY <2>2, <1>2
      <3> QED BY <3>1, HeardSame
    <2>4. Heard(more, Len(parts)) = Solid(front) /\ Len(parts) \in 0 .. Len(parts)
      BY <2>3, <1>2 DEF front
    <2>5. Heard(more, Len(more)) = Solid(whole)
      <3>1. Len(parts) \in 0 .. Len(more) - 1
        BY <1>2, <2>2
      <3>2. Joins(Heard(more, Len(parts) + 1), Heard(more, Len(parts)), Solid(more[Len(parts) + 1]))
        BY <3>1, <2>2, HeardNext
      <3> QED BY <3>2, <2>2, <2>4, <1>3, JoinsOnce
    <2>6. ASSUME NEW j \in 1 .. Len(more)
          PROVE  \E c \in 1 .. Len(text) + 1 : \E d \in c - 1 .. Len(text) : PartAt(more, j, text, B, c, d)
      <3>1. CASE j \in 1 .. Len(parts)
        <4>1. PICK c \in 1 .. Len(text) + 1 : \E d \in c - 1 .. Len(text) : PartAt(parts, j, text, B, c, d)
          BY <3>1, <1>2
        <4>2. PICK d \in c - 1 .. Len(text) : PartAt(parts, j, text, B, c, d)
          BY <4>1
        <4>3. more[j] = parts[j] /\ j - 1 \in 0 .. Len(parts)
          <5>1. more[j] = parts[j]
            BY <3>1, <2>2
          <5>2. j - 1 \in 0 .. Len(parts)
            BY ONLY <3>1, Len(parts) \in Nat, <1>2
          <5> QED BY <5>1, <5>2
        <4>4. PartAt(more, j, text, B, c, d)
          BY <4>2, <4>3, <2>3 DEF PartAt
        <4> QED BY <4>4
      <3>2. CASE j = Len(parts) + 1
        <4>1. j - 1 = Len(parts) /\ more[j] = part
          BY <3>2, <2>2, <1>2
        <4>2. PartAt(more, j, text, B, a, b)
          BY <4>1, <2>4 DEF PartAt, part, front
        <4> QED BY <4>2
      <3> QED BY <3>1, <3>2, <2>2, <1>2
    <2>7. Cut(more, text, B)
      BY <2>2, <2>6 DEF Cut
    <2> QED BY <2>1, <2>5, <2>7 DEF part, whole
  <1> QED BY <1>4, <1>5

Scanning == INSTANCE Folding WITH Op <- LAMBDA given, p, i : TakeIn(given[1], given[2], p, i)

\* What is scanned of a text up to i: parts, and one that has begun.
Scanned(p, text, B, i) ==
    /\ p \in [parts : Seq(Seq(Units)), part : Seq(Units)] /\ Cut(p.parts, text, B)
    /\ \E a \in 1 .. i + 1 : /\ a \in B \cup {1} /\ p.part = SubSeq(text, a, i)
                             /\ Heard(p.parts, Len(p.parts)) = Solid(SubSeq(text, 1, a - 1))

LEMMA TakeInScans ==
  ASSUME NEW text \in Seq(Units), NEW B, NEW i \in 0 .. Len(text) - 1, NEW p, Scanned(p, text, B, i)
  PROVE  Scanned(TakeIn(text, B, p, i + 1), text, B, i + 1)
  <1>1. Len(text) \in Nat /\ \A c \in 1 .. Len(text) : text[c] \in Units
    OBVIOUS
  <1>2. PICK a \in 1 .. i + 1 : /\ a \in B \cup {1} /\ p.part = SubSeq(text, a, i)
                                /\ Heard(p.parts, Len(p.parts)) = Solid(SubSeq(text, 1, a - 1))
    BY DEF Scanned
  <1>3. p \in [parts : Seq(Seq(Units)), part : Seq(Units)] /\ Cut(p.parts, text, B)
    BY DEF Scanned
  <1>4. CASE i + 1 \in B
    <2> DEFINE kept == Kept(p.parts, SubSeq(text, a, i))
    <2>1. TakeIn(text, B, p, i + 1) = [parts |-> kept, part |-> <<text[i + 1]>>]
      BY <1>2, <1>4 DEF TakeIn
    <2>2. a \in 1 .. Len(text) + 1 /\ i \in a - 1 .. Len(text)
      BY <1>1
    <2>3. Cut(kept, text, B) /\ Heard(kept, Len(kept)) = Solid(SubSeq(text, 1, i))
      BY <2>2, <1>2, <1>3, <1>4, KeptCuts
    <2> HIDE DEF kept
    <2>4. <<text[i + 1]>> = SubSeq(text, i + 1, i + 1) /\ (i + 1) - 1 = i /\ i + 1 \in 1 .. (i + 1) + 1
      BY <1>1
    <2>5. kept \in Seq(Seq(Units)) /\ <<text[i + 1]>> \in Seq(Units)
      BY <2>3, <1>1 DEF Cut
    <2>6. Scanned([parts |-> kept, part |-> <<text[i + 1]>>], text, B, i + 1)
      BY <2>3, <2>4, <2>5, <1>4 DEF Scanned
    <2> QED BY <2>1, <2>6
  <1>5. CASE ~(i + 1 \in B)
    <2> DEFINE longer == SubSeq(text, a, i + 1)
    <2>1. TakeIn(text, B, p, i + 1) = [p EXCEPT !.part = Append(p.part, text[i + 1])]
      BY <1>5 DEF TakeIn
    <2>2. Append(SubSeq(text, a, i), text[i + 1]) = longer
      <3>1. /\ SubSeq(text, a, i) \in Seq(Units) /\ Len(SubSeq(text, a, i)) = i - a + 1
            /\ \A c \in 1 .. i - a + 1 : SubSeq(text, a, i)[c] = text[a + c - 1]
        BY <1>1
      <3>2. /\ longer \in Seq(Units) /\ Len(longer) = i - a + 2
            /\ \A c \in 1 .. i - a + 2 : longer[c] = text[a + c - 1]
        BY <1>1
      <3> DEFINE x == SubSeq(text, a, i)
                 y == Append(x, text[i + 1])
      <3> HIDE DEF longer, x
      <3>3. /\ y \in Seq(Units) /\ Len(y) = i - a + 2
            /\ \A c \in 1 .. i - a + 1 : y[c] = x[c]
            /\ y[i - a + 2] = text[i + 1]
        BY <3>1, <1>1 DEF x
      <3> HIDE DEF y
      <3>4. ASSUME NEW c \in 1 .. i - a + 2 PROVE y[c] = longer[c]
        <4>1. CASE c \in 1 .. i - a + 1
          BY <4>1, <3>1, <3>2, <3>3 DEF x
        <4>2. CASE c = i - a + 2
          <5>1. a + c - 1 = i + 1
            BY <4>2
          <5> QED BY <4>2, <5>1, <3>2, <3>3
        <4> QED BY <4>1, <4>2
      <3>5. y = longer
        BY <3>2, <3>3, <3>4, SeqEqual
      <3> QED BY <3>5 DEF x, y
    <2> HIDE DEF longer
    <2>3. TakeIn(text, B, p, i + 1) = [p EXCEPT !.part = longer]
      BY <2>1, <2>2, <1>2
    <2> DEFINE next == TakeIn(text, B, p, i + 1)
    <2>4. longer \in Seq(Units)
      BY <1>1 DEF longer
    <2>5. /\ next \in [parts : Seq(Seq(Units)), part : Seq(Units)]
          /\ next.parts = p.parts /\ next.part = longer
      BY <2>3, <2>4, <1>3
    <2> HIDE DEF next
    <2>6. a \in 1 .. (i + 1) + 1
      OBVIOUS
    <2>7. Scanned(next, text, B, i + 1)
      BY <2>5, <2>6, <1>2, <1>3 DEF Scanned, longer
    <2> QED BY <2>7 DEF next
  <1> QED BY <1>4, <1>5

LEMMA TokenizeCuts ==
  ASSUME NEW text \in Seq(Units), NEW B
  PROVE  /\ Cut(Tokenize(text, B), text, B)
         /\ Heard(Tokenize(text, B), Len(Tokenize(text, B))) = Solid(text)
  <1> DEFINE base == [parts |-> << >>, part |-> << >>]
             given == <<text, B>>
             L == Len(text)
             list == [i \in 1 .. L |-> i]
             scanned == Scanning!Folded(given, base, list)
  <1>1. Tokenize(text, B) = Kept(scanned.parts, scanned.part)
    BY DEF Tokenize, Scanning!Folded, FoldLeft, MapThenFoldSet, Max,
           Scanning!FoldLeft, Scanning!MapThenFoldSet, Scanning!Max
  <1>2. L \in Nat /\ list \in Seq(1 .. L) /\ Len(list) = L /\ \A k \in 1 .. L : list[k] = k
    OBVIOUS
  <1> HIDE DEF list
  <1>3. PICK along : Scanning!Along(given, base, list, along)
    BY <1>2, Scanning!FoldGoesAlong
  <1>4. /\ along[0] = base
        /\ \A k \in 1 .. L : along[k] = TakeIn(text, B, along[k - 1], k)
        /\ scanned = along[L]
    <2>1. /\ along[0] = base /\ scanned = along[Len(list)]
          /\ \A k \in 1 .. Len(list) : along[k] = TakeIn(text, B, along[k - 1], list[k])
      BY <1>3 DEF Scanning!Along
    <2> HIDE DEF scanned
    <2> QED BY <2>1, <1>2
  <1> HIDE DEF scanned
  <1> DEFINE T == {k \in Nat : k <= L => Scanned(along[k], text, B, k)}
  <1>5. 0 \in T
    <2>1. base.parts = << >> /\ base.part = << >>
      OBVIOUS
    <2>2. /\ << >> \in Seq(Seq(Units)) /\ Len(<< >>) = 0 /\ << >> \in Seq(Units)
          /\ SubSeq(text, 1, 0) = << >> /\ 1 - 1 = 0 /\ 1 \in 1 .. 0 + 1
      OBVIOUS
    <2>3. Heard(<< >>, 0) = << >> /\ Solid(<< >>) = << >>
      <3>1. Blank(<< >>)
        BY DEF Blank
      <3> QED BY <3>1, <2>2, SolidNone, HeardNone
    <2>4. Cut(<< >>, text, B)
      BY <2>2 DEF Cut
    <2>6. base \in [parts : Seq(Seq(Units)), part : Seq(Units)]
      BY <2>2
    <2> HIDE DEF base
    <2>5. Scanned(base, text, B, 0)
      BY <2>1, <2>2, <2>3, <2>4, <2>6 DEF Scanned
    <2> QED BY <2>5, <1>4
  <1>6. ASSUME NEW k \in Nat, k \in T PROVE k + 1 \in T
    <2> SUFFICES ASSUME k + 1 <= L PROVE Scanned(along[k + 1], text, B, k + 1)
      OBVIOUS
    <2>1. k + 1 \in 1 .. L /\ (k + 1) - 1 = k /\ k \in 0 .. L - 1 /\ k <= L
      BY <1>2
    <2>2. Scanned(along[k], text, B, k) /\ along[k + 1] = TakeIn(text, B, along[k], k + 1)
      BY <2>1, <1>4, <1>6
    <2> QED BY <2>1, <2>2, TakeInScans
  <1>7. Scanned(scanned, text, B, L)
    <2>1. \A k \in Nat : k \in T
      <3> HIDE DEF T
      <3> QED BY <1>5, <1>6, CountingUp
    <2>2. L \in T /\ L <= L
      <3> HIDE DEF T
      <3> QED BY <2>1, <1>2
    <2> QED BY <2>2, <1>4
  <1>8. PICK a \in 1 .. L + 1 : /\ a \in B \cup {1} /\ scanned.part = SubSeq(text, a, L)
                                /\ Heard(scanned.parts, Len(scanned.parts)) = Solid(SubSeq(text, 1, a - 1))
    BY <1>7 DEF Scanned
  <1>9. Cut(scanned.parts, text, B)
    BY <1>7 DEF Scanned
  <1>10. L \in a - 1 .. L /\ L + 1 \in B \cup {L + 1} /\ SubSeq(text, 1, L) = text
    BY <1>2, SubSeqFull
  <1> DEFINE all == Kept(scanned.parts, SubSeq(text, a, L))
  <1>11. Cut(all, text, B) /\ Heard(all, Len(all)) = Solid(SubSeq(text, 1, L))
    BY <1>8, <1>9, <1>10, KeptCuts
  <1>12. Tokenize(text, B) = all
    BY <1>1, <1>8
  <1> HIDE DEF all
  <1> QED BY <1>10, <1>11, <1>12

\* What is gathered from each place of a list on, going from place to place.
Gathered(L, row, next, f, i) == IF i > L THEN << >> ELSE row[i] \o f[next[i]]

Gathers(L, row, next, f) == f = [i \in 1 .. L + 1 |-> Gathered(L, row, next, f, i)]

LEMMA SomethingGathers ==
  ASSUME NEW L \in Nat, NEW row, NEW next, \A i \in 1 .. L : next[i] \in i + 1 .. L + 1
  PROVE  \E f : Gathers(L, row, next, f)
  <1> DEFINE From(f, d) == \A i \in 1 .. L + 1 : i > L + 1 - d => f[i] = Gathered(L, row, next, f, i)
             Done == {d \in Nat : \E f : From(f, d)}
  <1>1. 0 \in Done
    <2>1. From(row, 0)
      OBVIOUS
    <2> QED BY <2>1
  <1>2. ASSUME NEW d \in Nat, d \in Done PROVE d + 1 \in Done
    <2>1. PICK f : From(f, d)
      BY <1>2
    <2> DEFINE g == [i \in 1 .. L + 1 |-> IF i = L + 1 - d THEN Gathered(L, row, next, f, i) ELSE f[i]]
    <2>2. ASSUME NEW i \in 1 .. L + 1, i > L + 1 - (d + 1) PROVE g[i] = Gathered(L, row, next, g, i)
      <3>1. i <= L => next[i] \in 1 .. L + 1 /\ next[i] > L + 1 - d
        <4> SUFFICES ASSUME i <= L PROVE next[i] \in 1 .. L + 1 /\ next[i] > L + 1 - d
          OBVIOUS
        <4>1. next[i] \in i + 1 .. L + 1
          OBVIOUS
        <4> QED BY <4>1, <2>2
      <3>2. i <= L => g[next[i]] = f[next[i]]
        BY <3>1
      <3>3. Gathered(L, row, next, g, i) = Gathered(L, row, next, f, i)
        <4> HIDE DEF g
        <4> QED BY <3>2 DEF Gathered
      <3>4. CASE i = L + 1 - d
        BY <3>3, <3>4
      <3>5. CASE i # L + 1 - d
        <4>1. g[i] = f[i] /\ i > L + 1 - d
          BY <3>5, <2>2
        <4>2. f[i] = Gathered(L, row, next, f, i)
          BY <4>1, <2>1
        <4> HIDE DEF g
        <4> QED BY <4>1, <4>2, <3>3
      <3> QED BY <3>4, <3>5
    <2>3. From(g, d + 1)
      <3> HIDE DEF g
      <3> QED BY <2>2
    <2> HIDE DEF g, From
    <2> QED BY <2>3
  <1>3. L + 1 \in Done
    <2> HIDE DEF Done
    <2> QED BY <1>1, <1>2, CountingUp
  <1>4. PICK f : From(f, L + 1)
    BY <1>3
  <1> DEFINE h == [i \in 1 .. L + 1 |-> f[i]]
  <1>5. ASSUME NEW i \in 1 .. L + 1 PROVE h[i] = Gathered(L, row, next, h, i)
    <2>1. f[i] = Gathered(L, row, next, f, i)
      BY <1>4
    <2>2. i <= L => h[next[i]] = f[next[i]]
      <3>1. i <= L => next[i] \in 1 .. L + 1
        OBVIOUS
      <3> QED BY <3>1
    <2>3. Gathered(L, row, next, h, i) = Gathered(L, row, next, f, i)
      <3> HIDE DEF h
      <3> QED BY <2>2 DEF Gathered
    <2>4. h[i] = f[i]
      OBVIOUS
    <2> HIDE DEF h
    <2> QED BY <2>1, <2>3, <2>4
  <1>6. h = [i \in 1 .. L + 1 |-> Gathered(L, row, next, h, i)]
    <2>1. h = [i \in 1 .. L + 1 |-> h[i]]
      OBVIOUS
    <2> HIDE DEF h
    <2> QED BY <2>1, <1>5
  <1> HIDE DEF h
  <1> QED BY <1>6 DEF Gathers

\* hardCut gets on, and divides no pair.
LEMMA CutEnds ==
  ASSUME NEW t \in Seq(Units), Paired(t), NEW budget \in Nat, budget >= 2, NEW i \in 1 .. Len(t)
  PROVE  /\ CutEnd(t, i, budget) \in i + 1 .. Len(t) + 1 /\ CutEnd(t, i, budget) - i <= budget
         /\ CutEnd(t, i, budget) = Len(t) + 1 \/ t[CutEnd(t, i, budget) - 1] # "high"
  <1> DEFINE S == {i + budget, Len(t) + 1}
             end == Min(S)
  <1>1. Len(t) \in Nat
    OBVIOUS
  <1>2. end \in S /\ end \in Int /\ \A y \in S : end <= y
    <2>1. S # {} /\ \A y \in S : y \in Int /\ 1 <= y
      BY <1>1
    <2> HIDE DEF S
    <2> QED BY <2>1, MinOf
  <1>3. CutEnd(t, i, budget) = IF end <= Len(t) /\ t[end - 1] = "high" THEN end - 1 ELSE end
    BY DEF CutEnd
  <1> HIDE DEF end
  <1>4. end \in i + 1 .. Len(t) + 1 /\ end <= i + budget /\ (end <= Len(t) => end = i + budget)
    BY <1>1, <1>2
  <1> HIDE DEF S
  <1>5. CASE end <= Len(t) /\ t[end - 1] = "high"
    <2>1. end - 1 \in i + 1 .. Len(t) /\ end - 1 - 1 \in 1 .. Len(t) /\ (end - 1 - 1) + 1 = end - 1
      BY <1>1, <1>4, <1>5
    <2>2. t[end - 1 - 1] # "high"
      BY <2>1, <1>5 DEF Paired
    <2>3. CutEnd(t, i, budget) = end - 1
      BY <1>3, <1>5
    <2>4. end - 1 - i <= budget /\ end - 1 \in i + 1 .. Len(t) + 1
      BY <2>1, <1>4, <1>1
    <2> QED BY <2>2, <2>3, <2>4
  <1>6. CASE ~(end <= Len(t) /\ t[end - 1] = "high")
    <2>1. CutEnd(t, i, budget) = end
      BY <1>3, <1>6
    <2>2. end - i <= budget
      BY <1>4
    <2>3. end = Len(t) + 1 \/ t[end - 1] # "high"
      BY <1>1, <1>4, <1>6
    <2> QED BY <2>1, <2>2, <2>3, <1>4
  <1> QED BY <1>5, <1>6

\* hardCut, a piece at a time from the place i on.
CutHere(t, budget, i) == Kept(<< >>, Trim(SubSeq(t, i, CutEnd(t, i, budget) - 1)))

LEMMA CutHereDivides ==
  ASSUME NEW t \in Seq(Units), Paired(t), NEW budget \in Nat, budget >= 2, NEW i \in 1 .. Len(t),
         i = 1 \/ t[i - 1] # "high"
  PROVE  Divides(CutHere(t, budget, i), Fitting(budget),
                 Solid(SubSeq(t, i, CutEnd(t, i, budget) - 1)), Seq(Units))
  <1> DEFINE n == CutEnd(t, i, budget)
             piece == SubSeq(t, i, n - 1)
  <1>1. Len(t) \in Nat /\ \A c \in 1 .. Len(t) : t[c] \in Units
    OBVIOUS
  <1>2. n \in i + 1 .. Len(t) + 1 /\ n - i <= budget /\ (n = Len(t) + 1 \/ t[n - 1] # "high")
    BY CutEnds
  <1> HIDE DEF n
  <1>3. i \in 1 .. Len(t) + 1 /\ n - 1 \in i - 1 .. Len(t) /\ (n - 1 = Len(t) \/ t[n - 1] # "high")
    BY <1>1, <1>2
  <1>4. piece \in Seq(Units) /\ Len(piece) = n - i
    BY <1>1, <1>2
  <1>5. Paired(piece)
    BY <1>3, PairedPiece
  <1> HIDE DEF piece
  <1>6. /\ Trim(piece) \in Seq(Units) /\ Solid(Trim(piece)) = Solid(piece) /\ Paired(Trim(piece))
        /\ Len(Trim(piece)) \in Nat /\ Len(Trim(piece)) <= budget
    <2>1. Len(Trim(piece)) \in Nat /\ Len(Trim(piece)) <= Len(piece)
      BY <1>4, TrimKeeps
    <2>2. Trim(piece) \in Seq(Units) /\ Solid(Trim(piece)) = Solid(piece) /\ Paired(Trim(piece))
      BY <1>4, <1>5, TrimKeeps
    <2>3. Len(Trim(piece)) <= budget
      BY <2>1, <1>2, <1>4
    <2> QED BY <2>1, <2>2, <2>3
  <1>7. Blank(Trim(piece)) \/ Trim(piece) \in Fitting(budget)
    BY <1>6 DEF Fitting
  <1>8. Divides(<< >>, Fitting(budget), << >>, Seq(Units)) /\ << >> \in Seq(Units)
    <2>1. << >> \in Seq(Units)
      OBVIOUS
    <2> QED BY <2>1, DividesNone
  <1>9. Joins(Solid(piece), << >>, Solid(Trim(piece))) /\ Solid(piece) \in Seq(Units)
    BY <1>4, <1>6, SolidRowsAre, JoinsNone
  <1>10. Fitting(budget) \in SUBSET Seq(Units)
    BY DEF Fitting
  <1>11. Divides(Kept(<< >>, Trim(piece)), Fitting(budget), Solid(piece), Seq(Units))
    BY <1>6, <1>7, <1>8, <1>9, <1>10, KeptDivides
  <1> QED BY <1>11 DEF CutHere, piece, n

LEMMA HardCutDivides ==
  ASSUME NEW text \in Seq(Units), Paired(text), NEW budget \in Nat, budget >= 2
  PROVE  Divides(HardCut(text, budget), Fitting(budget), Solid(text), Seq(Units))
  <1> DEFINE t == Trim(text)
             L == Len(t)
             row == [i \in 1 .. L |-> CutHere(t, budget, i)]
             next == [i \in 1 .. L |-> CutEnd(t, i, budget)]
             Body(f) == [from \in 1 .. L + 1 |->
                IF from > L THEN << >>
                ELSE Kept(<< >>, Trim(SubSeq(t, from, CutEnd(t, from, budget) - 1)))
                     \o f[CutEnd(t, from, budget)]]
             cut == CHOOSE f : f = Body(f)
  <1>1. HardCut(text, budget) = cut[1]
    BY DEF HardCut
  <1>2. t \in Seq(Units) /\ Paired(t) /\ Solid(t) = Solid(text)
    BY TrimKeeps
  <1> HIDE DEF t
  <1>3. L \in Nat
    BY <1>2
  <1>4. \A i \in 1 .. L : next[i] \in i + 1 .. L + 1
    BY <1>2, CutEnds
  <1>5. \A f : Body(f) = [i \in 1 .. L + 1 |-> Gathered(L, row, next, f, i)]
    <2> SUFFICES ASSUME NEW f PROVE Body(f) = [i \in 1 .. L + 1 |-> Gathered(L, row, next, f, i)]
      OBVIOUS
    <2>1. ASSUME NEW i \in 1 .. L + 1 PROVE Body(f)[i] = Gathered(L, row, next, f, i)
      <3>1. CASE i > L
        <4>1. Body(f)[i] = << >>
          BY <3>1
        <4> QED BY <3>1, <4>1 DEF Gathered
      <3>2. CASE ~(i > L)
        <4>1. i \in 1 .. L
          BY <3>2, <1>3
        <4>2. Body(f)[i] = CutHere(t, budget, i) \o f[CutEnd(t, i, budget)]
          BY <3>2 DEF CutHere
        <4>3. row[i] = CutHere(t, budget, i) /\ next[i] = CutEnd(t, i, budget)
          BY <4>1
        <4> HIDE DEF Body, row, next
        <4> QED BY <3>2, <4>2, <4>3 DEF Gathered
      <3> QED BY <3>1, <3>2
    <2>2. Body(f) = [i \in 1 .. L + 1 |-> Body(f)[i]]
      OBVIOUS
    <2> HIDE DEF Body, row, next, L
    <2> QED BY <2>1, <2>2
  <1>6. \E f : f = Body(f)
    <2>1. \E f : Gathers(L, row, next, f)
      <3> HIDE DEF L, row, next
      <3> QED BY <1>3, <1>4, SomethingGathers
    <2> HIDE DEF Body, row, next, L
    <2> QED BY <2>1, <1>5 DEF Gathers
  <1>7. cut = Body(cut)
    <2> HIDE DEF Body
    <2> QED BY <1>6
  <1>8. cut = [i \in 1 .. L + 1 |-> Gathered(L, row, next, cut, i)]
    <2> HIDE DEF Body, row, next, L, cut
    <2> QED BY <1>5, <1>7
  <1>9. \A i \in 1 .. L + 1 : cut[i] = Gathered(L, row, next, cut, i)
    <2> HIDE DEF Body, row, next, L, cut
    <2> QED BY <1>8
  <1> HIDE DEF cut, Body
  <1> DEFINE Good(i) == (i = 1 \/ t[i - 1] # "high") =>
                           Divides(cut[i], Fitting(budget), Solid(SubSeq(t, i, L)), Seq(Units))
             T == {i \in 1 .. L + 1 : Good(i)}
  <1>10. L + 1 \in T
    <2>1. L + 1 \in 1 .. L + 1 /\ L + 1 > L
      BY <1>3
    <2>2. cut[L + 1] = << >>
      BY <2>1, <1>9 DEF Gathered
    <2>3. SubSeq(t, L + 1, L) = << >> /\ << >> \in Seq(Units) /\ Blank(<< >>)
      BY <1>2, <1>3 DEF Blank
    <2>4. Solid(<< >>) = << >> /\ Divides(<< >>, Fitting(budget), << >>, Seq(Units))
      BY <2>3, SolidNone, DividesNone
    <2>5. Good(L + 1)
      <3> HIDE DEF L
      <3> QED BY <2>2, <2>3, <2>4
    <2> QED BY <2>1, <2>5
  <1>11. ASSUME NEW i \in 1 .. L, \A k \in i + 1 .. L + 1 : k \in T PROVE i \in T
    <2> SUFFICES ASSUME i = 1 \/ t[i - 1] # "high"
                 PROVE  Divides(cut[i], Fitting(budget), Solid(SubSeq(t, i, L)), Seq(Units))
      <3>1. i \in 1 .. L + 1
        BY <1>3
      <3> QED BY <3>1
    <2> DEFINE n == CutEnd(t, i, budget)
               piece == SubSeq(t, i, n - 1)
               rest == SubSeq(t, n, L)
    <2>1. n \in i + 1 .. L + 1 /\ (n = L + 1 \/ t[n - 1] # "high")
      BY <1>2, CutEnds
    <2>2. cut[i] = CutHere(t, budget, i) \o cut[n]
      <3>1. i \in 1 .. L + 1 /\ ~(i > L)
        BY <1>3
      <3>2. row[i] = CutHere(t, budget, i) /\ next[i] = n
        OBVIOUS
      <3> HIDE DEF row, next, n
      <3> QED BY <3>1, <3>2, <1>9 DEF Gathered
    <2>3. Divides(CutHere(t, budget, i), Fitting(budget), Solid(piece), Seq(Units))
      BY <1>2, CutHereDivides
    <2> HIDE DEF n
    <2>4. Divides(cut[n], Fitting(budget), Solid(rest), Seq(Units))
      <3>1. CASE n = L + 1
        <4>1. SubSeq(t, n, L) = << >> /\ << >> \in Seq(Units) /\ Blank(<< >>)
          BY <3>1, <1>2, <1>3 DEF Blank
        <4>2. cut[n] = << >>
          <5>1. L + 1 \in 1 .. L + 1 /\ L + 1 > L
            BY <1>3
          <5> QED BY <5>1, <3>1, <1>9 DEF Gathered
        <4>3. Solid(<< >>) = << >> /\ Divides(<< >>, Fitting(budget), << >>, Seq(Units))
          BY <4>1, SolidNone, DividesNone
        <4> HIDE DEF L
        <4> QED BY <4>1, <4>2, <4>3
      <3>2. CASE t[n - 1] # "high"
        <4>1. n \in T
          BY <2>1, <1>11
        <4> QED BY <4>1, <3>2
      <3> QED BY <3>1, <3>2, <2>1
    <2>5. Joins(SubSeq(t, i, L), piece, rest) /\ piece \in Seq(Units) /\ rest \in Seq(Units)
      <3>1. i \in 1 .. Len(t) + 1 /\ n - 1 \in i - 1 .. Len(t) /\ L \in n - 1 .. Len(t) /\ (n - 1) + 1 = n
        BY <2>1, <1>3
      <3>2. /\ Joins(SubSeq(t, i, L), SubSeq(t, i, n - 1), SubSeq(t, (n - 1) + 1, L))
            /\ SubSeq(t, i, n - 1) \in Seq(Units) /\ SubSeq(t, (n - 1) + 1, L) \in Seq(Units)
        BY <3>1, <1>2, PiecesJoin
      <3> QED BY <3>1, <3>2
    <2> HIDE DEF piece, rest, L
    <2>6. Joins(Solid(SubSeq(t, i, L)), Solid(piece), Solid(rest))
      BY <2>5, SolidJoins
    <2>7. Joins(cut[i], CutHere(t, budget, i), cut[n])
      BY <2>2 DEF Joins
    <2>8. \A y \in Seq(Units) : \A g : Joins(g, Solid(piece), y) => g \in Seq(Units)
      <3>1. Solid(piece) \in Seq(Units)
        BY <2>5, SolidRowsAre
      <3> QED BY <3>1, JoinedItems
    <2>9. Fitting(budget) \in SUBSET Seq(Units)
      BY DEF Fitting
    <2> QED BY <2>3, <2>4, <2>6, <2>7, <2>8, <2>9, DividesBehind
  <1>12. 1 \in T
    <2>1. \A i \in 1 .. L + 1 : i \in T
      <3> HIDE DEF T, L
      <3> QED BY <1>3, <1>10, <1>11, FromTheEnd
    <2>2. 1 \in 1 .. L + 1
      BY <1>3
    <2> HIDE DEF T
    <2> QED BY <2>1, <2>2
  <1>13. SubSeq(t, 1, L) = t
    BY <1>2, SubSeqFull
  <1> QED BY <1>1, <1>2, <1>12, <1>13

\* A boundary divides no pair, and one of a paragraph is one of a sentence.
LEMMA BoundaryKeepsPairs ==
  ASSUME NEW t \in Seq(Units)
  PROVE  /\ \A k \in SentenceBoundary(t) : k \in 2 .. Len(t) /\ t[k - 1] # "high"
         /\ ParagraphBoundary(t) \subseteq SentenceBoundary(t)
  <1>1. ASSUME NEW k \in SentenceBoundary(t) PROVE k \in 2 .. Len(t) /\ t[k - 1] # "high"
    BY DEF SentenceBoundary
  <1>2. ParagraphBoundary(t) \subseteq SentenceBoundary(t)
    BY DEF SentenceBoundary, ParagraphBoundary
  <1> QED BY <1>1, <1>2

\* A boundary of a piece is one of the text it is a piece of.
LEMMA BoundaryWithin ==
  ASSUME NEW t \in Seq(Units), NEW a \in 1 .. Len(t) + 1, NEW b \in a - 1 .. Len(t),
         NEW k \in SentenceBoundary(SubSeq(t, a, b))
  PROVE  a + k - 1 \in SentenceBoundary(t)
  <1> DEFINE p == SubSeq(t, a, b)
  <1>1. Len(t) \in Nat /\ Len(p) = b - a + 1 /\ \A c \in 1 .. b - a + 1 : p[c] = t[a + c - 1]
    OBVIOUS
  <1>2. /\ k \in 2 .. Len(p)
        /\ \/ p[k - 1] = "stop" /\ p[k] \in Blanks
           \/ k > 2 /\ p[k - 2] = "ending" /\ p[k - 1] = "stop" /\ p[k] \notin Blanks \cup {"stop"}
           \/ p[k - 1] = "break"
    BY DEF SentenceBoundary
  <1> HIDE DEF p
  <1> PICK n : n = a + k - 1
    OBVIOUS
  <1>3. /\ n \in 2 .. Len(t) /\ k \in 1 .. b - a + 1 /\ k - 1 \in 1 .. b - a + 1
        /\ a + (k - 1) - 1 = n - 1
    BY <1>1, <1>2
  <1>4. p[k] = t[n] /\ p[k - 1] = t[n - 1]
    BY <1>1, <1>3
  <1>5. k > 2 => n > 2 /\ p[k - 2] = t[n - 2]
    <2> SUFFICES ASSUME k > 2 PROVE n > 2 /\ p[k - 2] = t[n - 2]
      OBVIOUS
    <2>1. k - 2 \in 1 .. b - a + 1 /\ a + (k - 2) - 1 = n - 2 /\ n > 2
      BY <1>1, <1>2
    <2> QED BY <2>1, <1>1
  <1>6. n \in SentenceBoundary(t)
    BY <1>2, <1>3, <1>4, <1>5 DEF SentenceBoundary
  <1> QED BY <1>6

\* The parts of a text that is cut at boundaries divide no pair.
LEMMA CutKeepsPairs ==
  ASSUME NEW text \in Seq(Units), Paired(text), NEW B, NEW parts, Cut(parts, text, B),
         \A k \in B : k \in 2 .. Len(text) /\ text[k - 1] # "high"
  PROVE  /\ Len(parts) \in Nat /\ \A j \in 1 .. Len(parts) : parts[j] \in Seq(Units) /\ Paired(parts[j])
  <1>1. parts \in Seq(Seq(Units)) /\ Len(parts) \in Nat /\ \A j \in 1 .. Len(parts) : parts[j] \in Seq(Units)
    BY DEF Cut
  <1>2. ASSUME NEW j \in 1 .. Len(parts) PROVE Paired(parts[j])
    <2>1. PICK a \in 1 .. Len(text) + 1 : \E b \in a - 1 .. Len(text) : PartAt(parts, j, text, B, a, b)
      BY DEF Cut
    <2>2. PICK b \in a - 1 .. Len(text) : PartAt(parts, j, text, B, a, b)
      BY <2>1
    <2>3. /\ parts[j] = SubSeq(text, a, b)
          /\ a \in B \cup {1} /\ b + 1 \in B \cup {Len(text) + 1}
      BY <2>2 DEF PartAt
    <2>4. a = 1 \/ text[a - 1] # "high"
      BY <2>3
    <2>5. b = Len(text) \/ text[b] # "high"
      <3>1. CASE b + 1 \in B
        <4>1. text[(b + 1) - 1] # "high" /\ (b + 1) - 1 = b
          BY <3>1
        <4> QED BY <4>1
      <3>2. CASE b + 1 = Len(text) + 1
        BY <3>2
      <3> QED BY <3>1, <3>2, <2>3
    <2> QED BY <2>3, <2>4, <2>5, PairedPiece
  <1> QED BY <1>1, <1>2

\* What may have been heard of a body at the end of a piece: where its
\* sentences fit, what comes before one of them.
Marks(text, budget) ==
    IF SentencesFit(text, budget)
    THEN {Solid(SubSeq(text, 1, k - 1)) : k \in SentenceBoundary(text) \cup {1, Len(text) + 1}}
    ELSE Seq(Units)

LEMMA MarksAre ==
  ASSUME NEW text \in Seq(Units), NEW budget
  PROVE  /\ \A k \in SentenceBoundary(text) \cup {1, Len(text) + 1} :
               Solid(SubSeq(text, 1, k - 1)) \in Marks(text, budget)
         /\ Marks(text, budget) \subseteq Seq(Units)
         /\ << >> \in Marks(text, budget) /\ Solid(text) \in Marks(text, budget)
  <1>1. ASSUME NEW k \in SentenceBoundary(text) \cup {1, Len(text) + 1}
        PROVE  k \in 1 .. Len(text) + 1 /\ Solid(SubSeq(text, 1, k - 1)) \in Seq(Units)
    <2>1. k \in 1 .. Len(text) + 1
      BY DEF SentenceBoundary
    <2>2. SubSeq(text, 1, k - 1) \in Seq(Units)
      BY <2>1
    <2> QED BY <2>1, <2>2, SolidRowsAre
  <1>2. /\ \A k \in SentenceBoundary(text) \cup {1, Len(text) + 1} :
              Solid(SubSeq(text, 1, k - 1)) \in Marks(text, budget)
        /\ Marks(text, budget) \subseteq Seq(Units)
    BY <1>1 DEF Marks
  <1>3. SubSeq(text, 1, 1 - 1) = << >> /\ SubSeq(text, 1, (Len(text) + 1) - 1) = text
    <2>1. SubSeq(text, 1, 1 - 1) = << >> /\ (Len(text) + 1) - 1 = Len(text)
      OBVIOUS
    <2> QED BY <2>1, SubSeqFull
  <1>4. Solid(<< >>) = << >>
    <2>1. << >> \in Seq(Units) /\ Blank(<< >>)
      BY DEF Blank
    <2> QED BY <2>1, SolidNone
  <1>5. 1 \in SentenceBoundary(text) \cup {1, Len(text) + 1}
        /\ Len(text) + 1 \in SentenceBoundary(text) \cup {1, Len(text) + 1}
    OBVIOUS
  <1>6. Solid(SubSeq(text, 1, 1 - 1)) \in Marks(text, budget)
    BY <1>2, <1>5
  <1>7. Solid(SubSeq(text, 1, (Len(text) + 1) - 1)) \in Marks(text, budget)
    BY <1>2, <1>5
  <1> QED BY <1>2, <1>3, <1>4, <1>6, <1>7

\* How a paragraph is split that does not fit: at its sentences.
SentencesOf(p) == Tokenize(p, SentenceBoundary(p))
CutSentences(p, budget) == [s \in ToSet(SentencesOf(p)) |-> HardCut(s, budget)]
SplitParagraph(p, budget) == PackUnits(SentencesOf(p), budget, CutSentences(p, budget))

\* What is heard at the start of a sentence of a paragraph is marked.
LEMMA SentencesAreMarked ==
  ASSUME NEW text \in Seq(Units), NEW budget, NEW a \in 1 .. Len(text) + 1, NEW b \in a - 1 .. Len(text),
         a \in SentenceBoundary(text) \cup {1}, b + 1 \in SentenceBoundary(text) \cup {Len(text) + 1},
         NEW p, p = SubSeq(text, a, b),
         NEW k \in SentenceBoundary(p) \cup {1, Len(p) + 1},
         NEW g, Joins(g, Solid(SubSeq(text, 1, a - 1)), Solid(SubSeq(p, 1, k - 1)))
  PROVE  g \in Marks(text, budget)
  <1> PICK n : n = a + k - 1
    OBVIOUS
  <1>1. Len(text) \in Nat /\ Len(p) = b - a + 1 /\ \A c \in 1 .. b - a + 1 : p[c] = text[a + c - 1]
    OBVIOUS
  <1>2. k \in 1 .. Len(p) + 1
    <2>1. k \in SentenceBoundary(p) => k \in 2 .. Len(p)
      BY DEF SentenceBoundary
    <2> QED BY <2>1, <1>1
  <1>3. n \in SentenceBoundary(text) \cup {1, Len(text) + 1}
    <2>1. CASE k \in SentenceBoundary(p)
      BY <2>1, BoundaryWithin
    <2>2. CASE k = 1
      BY <2>2
    <2>3. CASE k = Len(p) + 1
      BY <2>3, <1>1
    <2> QED BY <2>1, <2>2, <2>3
  <1>4. SubSeq(p, 1, k - 1) = SubSeq(text, a, n - 1)
    <2> DEFINE x == SubSeq(p, 1, k - 1)
               y == SubSeq(text, a, n - 1)
    <2>1. p \in Seq(Units)
      OBVIOUS
    <2>2. /\ x \in Seq(Units) /\ Len(x) = k - 1 /\ \A c \in 1 .. k - 1 : x[c] = p[c]
      BY <2>1, <1>2
    <2>3. n - 1 \in a - 1 .. Len(text) /\ n - 1 - a + 1 = k - 1
      BY <1>1, <1>2
    <2>4. /\ y \in Seq(Units) /\ Len(y) = k - 1 /\ \A c \in 1 .. k - 1 : y[c] = text[a + c - 1]
      BY <2>3
    <2>5. \A c \in 1 .. k - 1 : c \in 1 .. b - a + 1
      BY <1>1, <1>2
    <2> HIDE DEF x, y
    <2>6. \A c \in 1 .. k - 1 : x[c] = y[c]
      BY <2>2, <2>4, <2>5, <1>1
    <2>7. x = y
      BY <2>2, <2>4, <2>6, SeqEqual
    <2> QED BY <2>7 DEF x, y
  <1> DEFINE front == SubSeq(text, 1, a - 1)
             back == SubSeq(text, a, n - 1)
             whole == SubSeq(text, 1, n - 1)
  <1>5. Joins(whole, front, back) /\ front \in Seq(Units) /\ back \in Seq(Units)
    <2>1. 1 \in 1 .. Len(text) + 1 /\ a - 1 \in 1 - 1 .. Len(text) /\ n - 1 \in a - 1 .. Len(text) /\ (a - 1) + 1 = a
      BY <1>1, <1>2
    <2>2. /\ Joins(SubSeq(text, 1, n - 1), SubSeq(text, 1, a - 1), SubSeq(text, (a - 1) + 1, n - 1))
          /\ SubSeq(text, 1, a - 1) \in Seq(Units) /\ SubSeq(text, (a - 1) + 1, n - 1) \in Seq(Units)
      BY <2>1, PiecesJoin
    <2> QED BY <2>1, <2>2
  <1>6. Joins(g, Solid(front), Solid(back))
    BY <1>4
  <1>7. Solid(whole) \in Marks(text, budget)
    BY <1>3, MarksAre
  <1> HIDE DEF front, back, whole
  <1>8. Joins(Solid(whole), Solid(front), Solid(back))
    BY <1>5, SolidJoins
  <1>9. g = Solid(whole)
    BY <1>6, <1>8, JoinsOnce
  <1> QED BY <1>7, <1>9

\* What has been heard of a text that is cut is what comes before a boundary.
LEMMA HeardAtBoundary ==
  ASSUME NEW text \in Seq(Units), NEW B, NEW parts, Cut(parts, text, B),
         Heard(parts, Len(parts)) = Solid(text), NEW j \in 0 .. Len(parts)
  PROVE  \E k \in B \cup {1, Len(text) + 1} : Heard(parts, j) = Solid(SubSeq(text, 1, k - 1))
  <1>1. Len(parts) \in Nat
    BY DEF Cut
  <1>2. CASE j = Len(parts)
    <2>1. (Len(text) + 1) - 1 = Len(text) /\ SubSeq(text, 1, Len(text)) = text
      BY SubSeqFull
    <2>2. Heard(parts, j) = Solid(SubSeq(text, 1, (Len(text) + 1) - 1))
      BY <1>2, <2>1
    <2> QED BY <2>2
  <1>3. CASE j # Len(parts)
    <2>1. j + 1 \in 1 .. Len(parts) /\ (j + 1) - 1 = j
      BY <1>1, <1>3
    <2>2. PICK a \in 1 .. Len(text) + 1 : \E b \in a - 1 .. Len(text) : PartAt(parts, j + 1, text, B, a, b)
      BY <2>1 DEF Cut
    <2>3. a \in B \cup {1} /\ Heard(parts, j) = Solid(SubSeq(text, 1, a - 1))
      BY <2>1, <2>2 DEF PartAt
    <2> QED BY <2>3
  <1> QED BY <1>2, <1>3

LEMMA ParagraphDivides ==
  ASSUME NEW text \in Seq(Units), Paired(text), NEW budget \in Nat, budget >= 2,
         NEW paragraphs, paragraphs = Tokenize(text, ParagraphBoundary(text)),
         NEW j \in 1 .. Len(paragraphs)
  PROVE  Divides(SplitParagraph(paragraphs[j], budget), Fitting(budget), Solid(paragraphs[j]),
                 After(Heard(paragraphs, j - 1), Marks(text, budget)))
  <1> DEFINE p == paragraphs[j]
             h == Heard(paragraphs, j - 1)
             sentences == SentencesOf(p)
             marks == After(h, Marks(text, budget))
  <1>1. Cut(paragraphs, text, ParagraphBoundary(text)) /\ paragraphs \in Seq(Seq(Units)) /\ Len(paragraphs) \in Nat
    <2>1. Cut(paragraphs, text, ParagraphBoundary(text))
      BY TokenizeCuts
    <2> QED BY <2>1 DEF Cut
  <1>2. PICK a \in 1 .. Len(text) + 1 : \E b \in a - 1 .. Len(text) :
           PartAt(paragraphs, j, text, ParagraphBoundary(text), a, b)
    BY <1>1 DEF Cut
  <1>3. PICK b \in a - 1 .. Len(text) : PartAt(paragraphs, j, text, ParagraphBoundary(text), a, b)
    BY <1>2
  <1>4. /\ p = SubSeq(text, a, b) /\ h = Solid(SubSeq(text, 1, a - 1))
        /\ a \in SentenceBoundary(text) \cup {1} /\ b + 1 \in SentenceBoundary(text) \cup {Len(text) + 1}
    BY <1>3, BoundaryKeepsPairs DEF PartAt
  <1>5. p \in Seq(Units) /\ Paired(p)
    <2>1. \A k \in ParagraphBoundary(text) : k \in 2 .. Len(text) /\ text[k - 1] # "high"
      BY BoundaryKeepsPairs
    <2> HIDE DEF p
    <2>2. paragraphs[j] \in Seq(Units) /\ Paired(paragraphs[j])
      BY <2>1, <1>1, CutKeepsPairs
    <2> QED BY <2>2 DEF p
  <1>6. p \in ToSet(paragraphs)
    <2>1. j \in DOMAIN paragraphs
      BY <1>1
    <2> QED BY <2>1 DEF ToSet
  <1>7. h \in Seq(Units)
    <2>1. j - 1 \in 0 .. Len(paragraphs)
      BY <1>1
    <2> QED BY <2>1, <1>1, HeardIs
  <1> HIDE DEF p, h
  <1>8. Cut(sentences, p, SentenceBoundary(p)) /\ Heard(sentences, Len(sentences)) = Solid(p)
    BY <1>5, TokenizeCuts DEF SentencesOf
  <1> HIDE DEF sentences
  <1>9. sentences \in Seq(Seq(Units)) /\ Len(sentences) \in Nat
    BY <1>8 DEF Cut
  <1>10. ASSUME NEW i \in 0 .. Len(sentences) PROVE Heard(sentences, i) \in marks
    <2>1. PICK k \in SentenceBoundary(p) \cup {1, Len(p) + 1} : Heard(sentences, i) = Solid(SubSeq(p, 1, k - 1))
      BY <1>5, <1>8, HeardAtBoundary
    <2>2. ASSUME NEW g, Joins(g, h, Heard(sentences, i)) PROVE g \in Marks(text, budget)
      <3>1. Joins(g, Solid(SubSeq(text, 1, a - 1)), Solid(SubSeq(p, 1, k - 1)))
        BY <2>1, <2>2, <1>4
      <3> QED BY <3>1, <1>4, SentencesAreMarked
    <2>3. Heard(sentences, i) \in Seq(Units)
      BY <1>9, HeardIs
    <2> QED BY <2>2, <2>3 DEF After
  <1>11. \A i \in 1 .. Len(sentences) : sentences[i] \in Seq(Units) /\ Paired(sentences[i])
    <2>1. \A k \in SentenceBoundary(p) : k \in 2 .. Len(p) /\ p[k - 1] # "high"
      BY <1>5, BoundaryKeepsPairs
    <2> QED BY <2>1, <1>5, <1>8, CutKeepsPairs
  <1>12. ASSUME NEW i \in 1 .. Len(sentences), Len(Trim(sentences[i])) > budget
         PROVE  Divides(CutSentences(p, budget)[sentences[i]], Fitting(budget), Solid(sentences[i]),
                        After(Heard(sentences, i - 1), marks))
    <2>1. sentences[i] \in ToSet(SentencesOf(p))
      <3>1. i \in DOMAIN sentences
        BY <1>9
      <3> QED BY <3>1 DEF ToSet, sentences
    <2>2. CutSentences(p, budget)[sentences[i]] = HardCut(sentences[i], budget)
      BY <2>1 DEF CutSentences
    <2>3. Divides(HardCut(sentences[i], budget), Fitting(budget), Solid(sentences[i]), Seq(Units))
      BY <1>11, HardCutDivides
    <2>4. Marks(text, budget) = Seq(Units)
      <3>1. ~SentencesFit(text, budget)
        <4>1. Len(Trim(sentences[i])) \in Nat
          BY <1>11, TrimKeeps
        <4> QED BY <4>1, <2>1, <1>6, <1>12 DEF SentencesFit, SentencesOf
      <3> QED BY <3>1 DEF Marks
    <2>5. \A x \in Seq(Units) : After(x, Seq(Units)) = Seq(Units)
      <3> SUFFICES ASSUME NEW x \in Seq(Units) PROVE After(x, Seq(Units)) = Seq(Units)
        OBVIOUS
      <3>1. \A y \in Seq(Units) : \A g : Joins(g, x, y) => g \in Seq(Units)
        BY JoinedItems
      <3> QED BY <3>1 DEF After
    <2>6. marks = Seq(Units)
      BY <2>4, <2>5, <1>7
    <2>7. Heard(sentences, i - 1) \in Seq(Units)
      <3>1. i - 1 \in 0 .. Len(sentences)
        BY <1>9
      <3> QED BY <3>1, <1>9, HeardIs
    <2>8. After(Heard(sentences, i - 1), marks) = Seq(Units)
      BY <2>5, <2>6, <2>7
    <2> QED BY <2>2, <2>3, <2>8
  <1> HIDE DEF marks
  <1>13. Packable(sentences, budget, CutSentences(p, budget), marks)
    BY <1>9, <1>10, <1>11, <1>12 DEF Packable
  <1>14. Divides(PackUnits(sentences, budget, CutSentences(p, budget)), Fitting(budget),
                 Heard(sentences, Len(sentences)), marks)
    BY <1>13, PackUnitsDivides
  <1> QED BY <1>8, <1>14 DEF SplitParagraph, sentences, marks, p, h

\* The pieces of a body are chunks that may be, hold all of it, and end where
\* sentences do if these fit.
LEMMA SplitBodyDivides ==
  ASSUME NEW body \in Seq(Units), Paired(body), NEW budget \in Nat, budget >= 2
  PROVE  Divides(SplitBody(body, budget), Fitting(budget), Solid(body), Marks(body, budget))
  <1>1. /\ Trim(body) \in Seq(Units) /\ Solid(Trim(body)) = Solid(body) /\ Paired(Trim(body))
        /\ Len(Trim(body)) \in Nat /\ (Blank(Trim(body)) <=> Blank(body))
    BY TrimKeeps
  <1>2. << >> \in Marks(body, budget) /\ Solid(body) \in Marks(body, budget) /\ Solid(body) \in Seq(Units)
    BY MarksAre
  <1>3. Divides(<< >>, Fitting(budget), << >>, Marks(body, budget))
    BY <1>2, DividesNone
  <1>4. CASE Blank(body)
    <2>1. SplitBody(body, budget) = << >> /\ Solid(body) = << >>
      BY <1>4, SolidNone DEF SplitBody
    <2> QED BY <2>1, <1>3
  <1>5. CASE ~Blank(body) /\ Len(Trim(body)) <= budget
    <2>1. SplitBody(body, budget) = <<Trim(body)>>
      BY <1>5 DEF SplitBody
    <2>2. Kept(<< >>, Trim(body)) = <<Trim(body)>>
      BY <1>1, <1>5 DEF Kept
    <2>3. Trim(body) \in Fitting(budget)
      BY <1>1, <1>5 DEF Fitting
    <2>4. Joins(Solid(body), << >>, Solid(Trim(body)))
      BY <1>1, <1>2, JoinsNone
    <2>5. Fitting(budget) \in SUBSET Seq(Units) /\ << >> \in Seq(Units)
      BY DEF Fitting
    <2>6. Divides(Kept(<< >>, Trim(body)), Fitting(budget), Solid(body), Marks(body, budget))
      BY <2>3, <2>4, <2>5, <1>1, <1>2, <1>3, KeptDivides
    <2> QED BY <2>1, <2>2, <2>6
  <1>6. CASE ~Blank(body) /\ ~(Len(Trim(body)) <= budget)
    <2> DEFINE paragraphs == Tokenize(body, ParagraphBoundary(body))
               split == [p \in ToSet(paragraphs) |-> SplitParagraph(p, budget)]
               marks == Marks(body, budget)
    <2>1. SplitBody(body, budget) = PackUnits(paragraphs, budget, split)
      BY <1>6 DEF SplitBody, SplitParagraph, CutSentences, SentencesOf
    <2>2. /\ Cut(paragraphs, body, ParagraphBoundary(body)) /\ Heard(paragraphs, Len(paragraphs)) = Solid(body)
      BY TokenizeCuts
    <2>3. paragraphs \in Seq(Seq(Units)) /\ Len(paragraphs) \in Nat
      BY <2>2 DEF Cut
    <2>4. \A j \in 1 .. Len(paragraphs) : split[paragraphs[j]] = SplitParagraph(paragraphs[j], budget)
      <3> SUFFICES ASSUME NEW j \in 1 .. Len(paragraphs)
                   PROVE  split[paragraphs[j]] = SplitParagraph(paragraphs[j], budget)
        OBVIOUS
      <3>1. paragraphs[j] \in ToSet(paragraphs)
        <4>1. j \in DOMAIN paragraphs
          BY <2>3
        <4> QED BY <4>1 DEF ToSet
      <3> HIDE DEF paragraphs
      <3> QED BY <3>1
    <2>5. \A j \in 1 .. Len(paragraphs) :
             Divides(SplitParagraph(paragraphs[j], budget), Fitting(budget), Solid(paragraphs[j]),
                     After(Heard(paragraphs, j - 1), marks))
      BY ParagraphDivides
    <2> HIDE DEF paragraphs, split
    <2>6. ASSUME NEW j \in 0 .. Len(paragraphs) PROVE Heard(paragraphs, j) \in marks
      <3>1. PICK k \in ParagraphBoundary(body) \cup {1, Len(body) + 1} :
               Heard(paragraphs, j) = Solid(SubSeq(body, 1, k - 1))
        BY <2>2, HeardAtBoundary
      <3>2. k \in SentenceBoundary(body) \cup {1, Len(body) + 1}
        BY BoundaryKeepsPairs
      <3> QED BY <3>1, <3>2, MarksAre
    <2>7. \A j \in 1 .. Len(paragraphs) : paragraphs[j] \in Seq(Units) /\ Paired(paragraphs[j])
      <3>1. \A k \in ParagraphBoundary(body) : k \in 2 .. Len(body) /\ body[k - 1] # "high"
        BY BoundaryKeepsPairs
      <3> QED BY <3>1, <2>2, CutKeepsPairs
    <2> HIDE DEF marks
    <2>8. Packable(paragraphs, budget, split, marks)
      BY <2>3, <2>4, <2>5, <2>6, <2>7 DEF Packable
    <2>9. Divides(PackUnits(paragraphs, budget, split), Fitting(budget),
                  Heard(paragraphs, Len(paragraphs)), marks)
      BY <2>8, PackUnitsDivides
    <2> QED BY <2>1, <2>2, <2>9 DEF marks
  <1> QED BY <1>4, <1>5, <1>6

\* A pair that is whole is not divided at the ends.
LEMMA PairedEnds ==
  ASSUME NEW t \in Seq(Units), Paired(t), t # << >>
  PROVE  Head(t) # "low" /\ Last(t) # "high"
  <1>1. Len(t) \in Nat /\ 1 \in 1 .. Len(t) /\ Len(t) \in 1 .. Len(t) /\ Head(t) = t[1] /\ Last(t) = t[Len(t)]
    BY DEF Last
  <1>2. /\ t[1] = "low" => 1 > 1 /\ t[1 - 1] = "high"
        /\ t[Len(t)] = "high" => Len(t) < Len(t) /\ t[Len(t) + 1] = "low"
    BY <1>1 DEF Paired
  <1>3. ~(1 > 1) /\ ~(Len(t) < Len(t))
    BY <1>1
  <1> QED BY <1>1, <1>2, <1>3

LEMMA FittingPiece ==
  ASSUME NEW budget \in Int, NEW t \in Fitting(budget)
  PROVE  /\ t \in Seq(Units) /\ Len(t) <= budget /\ t # << >> /\ Solid(t) # << >>
         /\ Head(t) # "low" /\ Last(t) # "high"
  <1>1. t \in Seq(Units) /\ Len(t) <= budget /\ Paired(t) /\ ~Blank(t)
    BY DEF Fitting
  <1>2. t # << >>
    BY <1>1 DEF Blank
  <1> QED BY <1>1, <1>2, PairedEnds, SolidSomething

\* More is heard with every piece.
LEMMA HeardGrows ==
  ASSUME NEW budget \in Int, NEW ps \in Seq(Fitting(budget)), NEW k \in 0 .. Len(ps), NEW i \in 0 .. k
  PROVE  /\ Len(Heard(ps, i)) \in Nat /\ Len(Heard(ps, k)) \in Nat
         /\ Len(Heard(ps, k)) >= Len(Heard(ps, i)) + (k - i)
  <1>1. ps \in Seq(Seq(Units)) /\ Len(ps) \in Nat /\ \A j \in 1 .. Len(ps) : ps[j] \in Fitting(budget)
    <2>1. Fitting(budget) \in SUBSET Seq(Units)
      BY DEF Fitting
    <2> QED BY <2>1, SeqMonotonic
  <1>2. \A j \in 0 .. Len(ps) : Heard(ps, j) \in Seq(Units) /\ Len(Heard(ps, j)) \in Nat
    <2>1. \A j \in 0 .. Len(ps) : Heard(ps, j) \in Seq(Units)
      BY <1>1, HeardIs
    <2> QED BY <2>1
  <1>3. ASSUME NEW j \in 0 .. Len(ps) - 1 PROVE Len(Heard(ps, j + 1)) >= Len(Heard(ps, j)) + 1
    <2>1. Joins(Heard(ps, j + 1), Heard(ps, j), Solid(ps[j + 1]))
      BY <1>1, HeardNext
    <2>2. j + 1 \in 1 .. Len(ps) /\ j \in 0 .. Len(ps)
      BY <1>1
    <2>3. Solid(ps[j + 1]) \in Seq(Units) /\ Solid(ps[j + 1]) # << >>
      <3>1. ps[j + 1] \in Fitting(budget) /\ ps[j + 1] \in Seq(Units)
        BY <2>2, <1>1, ItemsOf
      <3> QED BY <3>1, FittingPiece, SolidRowsAre
    <2>4. Len(Solid(ps[j + 1])) \in Nat /\ Len(Solid(ps[j + 1])) # 0
      <3> DEFINE x == Solid(ps[j + 1])
      <3>1. x \in Seq(Units) /\ x # << >>
        BY <2>3
      <3> HIDE DEF x
      <3>2. Len(x) \in Nat /\ Len(x) # 0
        BY <3>1
      <3> QED BY <3>2 DEF x
    <2>5. Heard(ps, j) \in Seq(Units) /\ Len(Heard(ps, j)) \in Nat
      BY <1>2, <2>2
    <2>6. Len(Heard(ps, j + 1)) = Len(Heard(ps, j)) + Len(Solid(ps[j + 1]))
      BY <2>1, <2>3, <2>5, JoinedItems
    <2> QED BY <2>4, <2>5, <2>6
  <1> DEFINE T == {n \in Nat : n <= k - i => Len(Heard(ps, i + n)) >= Len(Heard(ps, i)) + n}
  <1>4. 0 \in T
    <2>1. i + 0 = i /\ i \in 0 .. Len(ps)
      BY <1>1
    <2>2. Len(Heard(ps, i)) \in Nat
      BY <2>1, <1>2
    <2> QED BY <2>1, <2>2
  <1>5. ASSUME NEW n \in Nat, n \in T PROVE n + 1 \in T
    <2> SUFFICES ASSUME n + 1 <= k - i PROVE Len(Heard(ps, i + (n + 1))) >= Len(Heard(ps, i)) + (n + 1)
      OBVIOUS
    <2>1. /\ n <= k - i /\ i + n \in 0 .. Len(ps) - 1 /\ (i + n) + 1 = i + (n + 1) /\ i \in 0 .. Len(ps)
          /\ i + n \in 0 .. Len(ps) /\ i + (n + 1) \in 0 .. Len(ps)
      BY <1>1
    <2>2. Len(Heard(ps, i + n)) >= Len(Heard(ps, i)) + n
      BY <2>1, <1>5
    <2>3. Len(Heard(ps, (i + n) + 1)) >= Len(Heard(ps, i + n)) + 1
      BY <2>1, <1>3
    <2>4. Len(Heard(ps, i)) \in Nat /\ Len(Heard(ps, i + n)) \in Nat /\ Len(Heard(ps, i + (n + 1))) \in Nat
      BY <2>1, <1>2
    <2> QED BY <2>1, <2>2, <2>3, <2>4
  <1>6. k - i \in T
    <2>1. k - i \in Nat
      BY <1>1
    <2> HIDE DEF T
    <2> QED BY <2>1, <1>4, <1>5, CountingUp
  <1>7. k - i <= k - i /\ i + (k - i) = k /\ i \in 0 .. Len(ps)
    BY <1>1
  <1>8. Len(Heard(ps, i + (k - i))) >= Len(Heard(ps, i)) + (k - i)
    BY <1>6, <1>7
  <1> QED BY <1>2, <1>7, <1>8

\* What is said of the pieces of a body.
Whole(ps, body, budget) ==
    /\ ps \in Seq(Seq(Units)) /\ Heard(ps, Len(ps)) = Solid(body)
    /\ \A i \in 1 .. Len(ps) :
          /\ ps[i] \in Seq(Units) /\ Len(ps[i]) <= budget /\ ps[i] # << >>
          /\ Head(ps[i]) # "low" /\ Last(ps[i]) # "high"
    /\ SentencesFit(body, budget) =>
          \A i \in 1 .. Len(ps) - 1 :
             \E k \in SentenceBoundary(body) : Solid(SubSeq(body, 1, k - 1)) = Heard(ps, i)

LEMMA PiecesAreWhole ==
  ASSUME NEW budget \in Int, NEW body \in Seq(Units), NEW ps,
         Divides(ps, Fitting(budget), Solid(body), Marks(body, budget))
  PROVE  Whole(ps, body, budget)
  <1>1. /\ ps \in Seq(Fitting(budget)) /\ Heard(ps, Len(ps)) = Solid(body)
        /\ \A i \in 0 .. Len(ps) : Heard(ps, i) \in Marks(body, budget)
    BY DEF Divides
  <1>2. ps \in Seq(Seq(Units)) /\ Len(ps) \in Nat /\ \A j \in 1 .. Len(ps) : ps[j] \in Fitting(budget)
    <2>1. Fitting(budget) \in SUBSET Seq(Units)
      BY DEF Fitting
    <2> QED BY <2>1, <1>1, SeqMonotonic
  <1>3. ASSUME NEW i \in 1 .. Len(ps)
        PROVE  /\ ps[i] \in Seq(Units) /\ Len(ps[i]) <= budget /\ ps[i] # << >>
               /\ Head(ps[i]) # "low" /\ Last(ps[i]) # "high"
    BY <1>2, FittingPiece
  <1>4. ASSUME SentencesFit(body, budget), NEW i \in 1 .. Len(ps) - 1
        PROVE  \E k \in SentenceBoundary(body) : Solid(SubSeq(body, 1, k - 1)) = Heard(ps, i)
    <2>1. /\ i \in 0 .. Len(ps) /\ 0 \in 0 .. i /\ Len(ps) \in 0 .. Len(ps) /\ i \in 0 .. Len(ps)
          /\ i - 0 >= 1 /\ Len(ps) - i >= 1
      BY <1>2
    <2>2. PICK k \in SentenceBoundary(body) \cup {1, Len(body) + 1} :
             Heard(ps, i) = Solid(SubSeq(body, 1, k - 1))
      BY <2>1, <1>1, <1>4 DEF Marks
    <2>3. k # 1
      <3> SUFFICES ASSUME k = 1 PROVE FALSE
        OBVIOUS
      <3>1. SubSeq(body, 1, k - 1) = << >> /\ << >> \in Seq(Units) /\ Blank(<< >>)
        BY DEF Blank
      <3>2. Heard(ps, i) = << >> /\ Heard(ps, 0) = << >>
        BY <3>1, <2>2, SolidNone, HeardNone
      <3>3. Len(Heard(ps, i)) >= Len(Heard(ps, 0)) + (i - 0)
        BY <2>1, <1>1, HeardGrows
      <3>4. Len(<< >>) = 0
        OBVIOUS
      <3> QED BY <3>2, <3>3, <3>4, <2>1
    <2>4. k # Len(body) + 1
      <3> SUFFICES ASSUME k = Len(body) + 1 PROVE FALSE
        OBVIOUS
      <3>1. SubSeq(body, 1, k - 1) = body
        <4>1. k - 1 = Len(body)
          OBVIOUS
        <4> QED BY <4>1, SubSeqFull
      <3>2. Heard(ps, i) = Heard(ps, Len(ps))
        BY <3>1, <2>2, <1>1
      <3>3. /\ i \in 0 .. Len(ps) /\ Len(ps) \in 0 .. Len(ps)
            /\ Len(Heard(ps, i)) \in Nat /\ Len(Heard(ps, Len(ps))) >= Len(Heard(ps, i)) + (Len(ps) - i)
        BY <2>1, <1>1, HeardGrows
      <3> QED BY <3>2, <3>3, <2>1, <1>2
    <2> QED BY <2>2, <2>3, <2>4
  <1> QED BY <1>1, <1>2, <1>3, <1>4 DEF Whole

\* The chunks of a section in a list.
SectionOf(list, s) == FlattenSeq([i \in 1 .. Len(list) |->
    IF list[i].section = s THEN <<list[i]>> ELSE << >>])

SectionRows(list, s) == [i \in 1 .. Len(list) |-> IF list[i].section = s THEN <<list[i]>> ELSE << >>]

LEMMA SectionRowsAre ==
  ASSUME NEW S, NEW list \in Seq(S), NEW s
  PROVE  /\ Len(list) \in Nat /\ SectionRows(list, s) \in Seq(Seq(S)) /\ Len(SectionRows(list, s)) = Len(list)
         /\ SectionOf(list, s) = Upto(SectionRows(list, s), Len(list))
         /\ \A i \in 1 .. Len(list) : SectionRows(list, s)[i] \in Seq(S)
         /\ \A i \in 1 .. Len(list) : list[i].section = s => SectionRows(list, s)[i] = <<list[i]>>
         /\ \A i \in 1 .. Len(list) : list[i].section # s => SectionRows(list, s)[i] = << >>
  <1> DEFINE rows == SectionRows(list, s)
  <1>1. Len(list) \in Nat /\ \A i \in 1 .. Len(list) : list[i] \in S
    OBVIOUS
  <1>2. ASSUME NEW i \in 1 .. Len(list)
        PROVE  /\ rows[i] \in Seq(S) /\ (list[i].section = s => rows[i] = <<list[i]>>)
               /\ (list[i].section # s => rows[i] = << >>)
    <2>1. rows[i] = IF list[i].section = s THEN <<list[i]>> ELSE << >>
      BY DEF SectionRows
    <2> HIDE DEF rows
    <2>2. <<list[i]>> \in Seq(S) /\ << >> \in Seq(S)
      BY <1>1
    <2> QED BY <2>1, <2>2
  <1>3. rows \in Seq(Seq(S)) /\ Len(rows) = Len(list)
    <2>1. rows = [i \in 1 .. Len(list) |-> rows[i]]
      BY DEF SectionRows
    <2> HIDE DEF rows
    <2>2. [i \in 1 .. Len(list) |-> rows[i]] \in [1 .. Len(list) -> Seq(S)]
      BY <1>2
    <2>3. rows \in [1 .. Len(list) -> Seq(S)]
      BY <2>1, <2>2
    <2> QED BY <2>3, <1>1
  <1>4. SectionOf(list, s) = FlattenSeq(rows)
    BY DEF SectionOf, SectionRows
  <1> HIDE DEF rows
  <1>5. FlattenSeq(rows) = Upto(rows, Len(list))
    BY <1>3, UptoAll
  <1> QED BY <1>1, <1>2, <1>3, <1>4, <1>5 DEF rows

LEMMA SectionJoins ==
  ASSUME NEW S, NEW a \in Seq(S), NEW b \in Seq(S), NEW both, Joins(both, a, b), NEW s
  PROVE  Joins(SectionOf(both, s), SectionOf(a, s), SectionOf(b, s))
  <1> DEFINE x == SectionRows(a, s)
             y == SectionRows(b, s)
             z == SectionRows(both, s)
  <1>1. /\ both \in Seq(S) /\ Len(a) \in Nat /\ Len(b) \in Nat /\ Len(both) = Len(a) + Len(b)
        /\ \A i \in 1 .. Len(a) : both[i] = a[i]
        /\ \A i \in 1 .. Len(b) : both[Len(a) + i] = b[i]
    BY JoinedItems
  <1>2. \A i \in 1 .. Len(a) : z[i] = x[i]
    <2> SUFFICES ASSUME NEW i \in 1 .. Len(a) PROVE z[i] = x[i]
      OBVIOUS
    <2>1. i \in 1 .. Len(both) /\ both[i] = a[i]
      BY <1>1
    <2> QED BY <2>1 DEF SectionRows
  <1>3. \A i \in 1 .. Len(b) : y[i] = z[Len(a) + i]
    <2> SUFFICES ASSUME NEW i \in 1 .. Len(b) PROVE y[i] = z[Len(a) + i]
      OBVIOUS
    <2>1. Len(a) + i \in 1 .. Len(both) /\ both[Len(a) + i] = b[i]
      BY <1>1
    <2>2. z[Len(a) + i] = IF both[Len(a) + i].section = s THEN <<both[Len(a) + i]>> ELSE << >>
      BY <2>1 DEF SectionRows
    <2>3. y[i] = IF b[i].section = s THEN <<b[i]>> ELSE << >>
      BY DEF SectionRows
    <2> HIDE DEF y, z
    <2> QED BY <2>1, <2>2, <2>3
  <1>4. \A i \in 1 .. Len(a) + Len(b) : z[i] \in Seq(S)
    BY <1>1, SectionRowsAre
  <1>5. /\ SectionOf(both, s) = Upto(z, Len(a) + Len(b)) /\ SectionOf(a, s) = Upto(x, Len(a))
        /\ SectionOf(b, s) = Upto(y, Len(b))
    BY <1>1, SectionRowsAre
  <1> HIDE DEF x, y, z
  <1>6. RowsBehind(S, z, Len(a), y, Len(b))
    BY <1>3, <1>4 DEF RowsBehind
  <1>7. Joins(Upto(z, Len(a) + Len(b)), Upto(z, Len(a)), Upto(y, Len(b)))
    BY <1>1, <1>6, UptoBehind
  <1>8. Upto(z, Len(a)) = Upto(x, Len(a))
    BY <1>2, UptoSame
  <1> QED BY <1>5, <1>7, <1>8

LEMMA SectionNone ==
  ASSUME NEW S, NEW a \in Seq(S), NEW s, \A i \in 1 .. Len(a) : a[i].section # s
  PROVE  SectionOf(a, s) = << >>
  <1> DEFINE x == SectionRows(a, s)
             T == {k \in Nat : k <= Len(a) => Upto(x, k) = << >>}
  <1>1. /\ Len(a) \in Nat /\ SectionOf(a, s) = Upto(x, Len(a))
        /\ \A i \in 1 .. Len(a) : x[i] = << >> /\ x[i] \in Seq(S)
    BY SectionRowsAre
  <1> HIDE DEF x
  <1>2. 0 \in T
    BY UptoNone
  <1>3. ASSUME NEW k \in Nat, k \in T PROVE k + 1 \in T
    <2> SUFFICES ASSUME k + 1 <= Len(a) PROVE Upto(x, k + 1) = << >>
      OBVIOUS
    <2>1. Upto(x, k) = << >> /\ k + 1 \in 1 .. Len(a) /\ \A j \in 1 .. k + 1 : j \in 1 .. Len(a)
      BY <1>1, <1>3
    <2>2. Upto(x, k + 1) = Upto(x, k) \o x[k + 1]
      BY <2>1, <1>1, UptoNext
    <2>3. << >> \o << >> = << >>
      OBVIOUS
    <2> QED BY <2>1, <2>2, <2>3, <1>1
  <1>4. Len(a) \in T /\ Len(a) <= Len(a)
    <2> HIDE DEF T
    <2> QED BY <1>1, <1>2, <1>3, CountingUp
  <1> QED BY <1>1, <1>4

LEMMA SectionAll ==
  ASSUME NEW S, NEW a \in Seq(S), NEW s, \A i \in 1 .. Len(a) : a[i].section = s
  PROVE  SectionOf(a, s) = a
  <1> DEFINE x == SectionRows(a, s)
             T == {k \in Nat : k <= Len(a) => Upto(x, k) = SubSeq(a, 1, k)}
  <1>1. /\ Len(a) \in Nat /\ SectionOf(a, s) = Upto(x, Len(a))
        /\ \A i \in 1 .. Len(a) : x[i] = <<a[i]>> /\ x[i] \in Seq(S) /\ a[i] \in S
    BY SectionRowsAre
  <1> HIDE DEF x
  <1>2. 0 \in T
    <2>1. SubSeq(a, 1, 0) = << >>
      OBVIOUS
    <2> QED BY <2>1, UptoNone
  <1>3. ASSUME NEW k \in Nat, k \in T PROVE k + 1 \in T
    <2> SUFFICES ASSUME k + 1 <= Len(a) PROVE Upto(x, k + 1) = SubSeq(a, 1, k + 1)
      OBVIOUS
    <2>1. Upto(x, k) = SubSeq(a, 1, k) /\ k + 1 \in 1 .. Len(a) /\ \A j \in 1 .. k + 1 : j \in 1 .. Len(a)
      BY <1>1, <1>3
    <2>2. Upto(x, k + 1) = Upto(x, k) \o x[k + 1]
      BY <2>1, <1>1, UptoNext
    <2>3. Joins(SubSeq(a, 1, k + 1), SubSeq(a, 1, k), SubSeq(a, k + 1, k + 1))
      <3>1. 1 \in 1 .. Len(a) + 1 /\ k \in 1 - 1 .. Len(a) /\ k + 1 \in k .. Len(a)
        BY <2>1, <1>1
      <3> QED BY <3>1, PiecesJoin
    <2>4. SubSeq(a, k + 1, k + 1) = <<a[k + 1]>>
      <3> DEFINE y == SubSeq(a, k + 1, k + 1)
                 z == <<a[k + 1]>>
      <3>1. y \in Seq(S) /\ Len(y) = 1 /\ y[1] = a[k + 1]
        BY <2>1, <1>1
      <3>2. z \in Seq(S) /\ Len(z) = 1 /\ z[1] = a[k + 1]
        BY <2>1, <1>1
      <3> HIDE DEF y, z
      <3>3. \A i \in 1 .. 1 : y[i] = z[i]
        BY <3>1, <3>2
      <3>4. y = z
        BY <3>1, <3>2, <3>3, SeqEqual
      <3> QED BY <3>4 DEF y, z
    <2> QED BY <2>1, <2>2, <2>3, <2>4, <1>1 DEF Joins
  <1>4. Len(a) \in T /\ Len(a) <= Len(a)
    <2> HIDE DEF T
    <2> QED BY <1>1, <1>2, <1>3, CountingUp
  <1>5. SubSeq(a, 1, Len(a)) = a
    BY SubSeqFull
  <1> QED BY <1>1, <1>4, <1>5

\* In a list of sections one behind the other, each is found as it was.
LEMMA SectionsApart ==
  ASSUME NEW S, NEW n \in Nat, NEW rows, \A i \in 1 .. n : rows[i] \in Seq(S),
         NEW names, \A i \in 1 .. n : \A c \in 1 .. Len(rows[i]) : rows[i][c].section = names[i],
         \A i \in 1 .. n : \A j \in 1 .. n : i # j => names[i] # names[j],
         NEW m \in 1 .. n
  PROVE  SectionOf(Upto(rows, n), names[m]) = rows[m]
  <1> DEFINE s == names[m]
             Found(k) == SectionOf(Upto(rows, k), s) = IF m <= k THEN rows[m] ELSE << >>
             T == {k \in Nat : k <= n => Found(k)}
  <1>1. 0 \in T
    <2>1. << >> \in Seq(S) /\ ~(m <= 0) /\ \A i \in 1 .. Len(<< >>) : << >>[i].section # s
      OBVIOUS
    <2> HIDE DEF s
    <2>2. SectionOf(<< >>, s) = << >>
      BY <2>1, SectionNone
    <2>3. Upto(rows, 0) = << >>
      BY UptoNone
    <2> QED BY <2>1, <2>2, <2>3
  <1>2. ASSUME NEW k \in Nat, k \in T PROVE k + 1 \in T
    <2> SUFFICES ASSUME k + 1 <= n PROVE Found(k + 1)
      OBVIOUS
    <2>1. Found(k) /\ k + 1 \in 1 .. n /\ k \in 0 .. n /\ \A j \in 1 .. k + 1 : j \in 1 .. n
      BY <1>2
    <2>2. Upto(rows, k) \in Seq(S) /\ Joins(Upto(rows, k + 1), Upto(rows, k), rows[k + 1])
      BY <2>1, UptoNext DEF Joins
    <2>3. rows[k + 1] \in Seq(S) /\ rows[m] \in Seq(S)
      BY <2>1
    <2>4. Joins(SectionOf(Upto(rows, k + 1), s), SectionOf(Upto(rows, k), s), SectionOf(rows[k + 1], s))
      BY <2>2, <2>3, SectionJoins
    <2>5. CASE k + 1 = m
      <3>1. SectionOf(rows[k + 1], s) = rows[m]
        BY <2>1, <2>3, <2>5, SectionAll
      <3>2. SectionOf(Upto(rows, k), s) = << >> /\ m <= k + 1
        BY <2>1, <2>5
      <3> QED BY <3>1, <3>2, <2>3, <2>4, JoinsNone
    <2>6. CASE k + 1 # m
      <3>1. names[k + 1] # s
        BY <2>1, <2>6
      <3>2. SectionOf(rows[k + 1], s) = << >>
        <4>1. \A c \in 1 .. Len(rows[k + 1]) : rows[k + 1][c].section # s
          BY <2>1, <3>1
        <4> HIDE DEF s
        <4> QED BY <4>1, <2>3, SectionNone
      <3>3. (m <= k + 1) <=> (m <= k)
        BY <2>6
      <3>4. SectionOf(Upto(rows, k), s) \in Seq(S)
        <4>1. << >> \in Seq(S)
          OBVIOUS
        <4> QED BY <4>1, <2>1, <2>3
      <3>5. SectionOf(Upto(rows, k + 1), s) = SectionOf(Upto(rows, k), s)
        BY <3>2, <3>4, <2>4, JoinsNone
      <3> QED BY <3>3, <3>5, <2>1
    <2> QED BY <2>5, <2>6
  <1>3. n \in T /\ n <= n /\ m <= n
    <2>1. n \in T
      <3> HIDE DEF T
      <3> QED BY <1>1, <1>2, CountingUp
    <2> QED BY <2>1
  <1> QED BY <1>3

LEMMA SectionsDiffer ==
  ASSUME NEW type
  PROVE  /\ Len(Sections(type)) \in Nat
         /\ \A i \in 1 .. Len(Sections(type)) : \A j \in 1 .. Len(Sections(type)) :
               i # j => Sections(type)[i] # Sections(type)[j]
         /\ ToSet(Sections(type)) = {Sections(type)[i] : i \in 1 .. Len(Sections(type))}
  <1>1. CASE type = "incident"
    <2>1. Sections(type) = <<"symptom", "rootCause", "resolution", "prevention">>
      BY <1>1 DEF Sections
    <2> DEFINE s == <<"symptom", "rootCause", "resolution", "prevention">>
    <2>2. /\ Len(s) = 4 /\ DOMAIN s = 1 .. 4
          /\ s[1] = "symptom" /\ s[2] = "rootCause" /\ s[3] = "resolution" /\ s[4] = "prevention"
      OBVIOUS
    <2> HIDE DEF s
    <2>3. \A i \in 1 .. 4 : i = 1 \/ i = 2 \/ i = 3 \/ i = 4
      OBVIOUS
    <2>4. \A i \in 1 .. 4 : \A j \in 1 .. 4 : i # j => s[i] # s[j]
      BY <2>2, <2>3
    <2>5. Sections(type) = s
      BY <2>1 DEF s
    <2>6. Len(s) \in Nat
      BY <2>2
    <2>7. ToSet(s) = {s[i] : i \in 1 .. Len(s)}
      BY <2>2 DEF ToSet
    <2>8. \A i \in 1 .. Len(s) : \A j \in 1 .. Len(s) : i # j => s[i] # s[j]
      BY <2>2, <2>4
    <2> QED BY <2>5, <2>6, <2>7, <2>8
  <1>2. CASE type # "incident"
    <2>1. Sections(type) = <<"expected", "actual", "correction">>
      BY <1>2 DEF Sections
    <2> DEFINE s == <<"expected", "actual", "correction">>
    <2>2. /\ Len(s) = 3 /\ DOMAIN s = 1 .. 3
          /\ s[1] = "expected" /\ s[2] = "actual" /\ s[3] = "correction"
      OBVIOUS
    <2> HIDE DEF s
    <2>3. \A i \in 1 .. 3 : i = 1 \/ i = 2 \/ i = 3
      OBVIOUS
    <2>4. \A i \in 1 .. 3 : \A j \in 1 .. 3 : i # j => s[i] # s[j]
      BY <2>2, <2>3
    <2>5. Sections(type) = s
      BY <2>1 DEF s
    <2>6. Len(s) \in Nat
      BY <2>2
    <2>7. ToSet(s) = {s[i] : i \in 1 .. Len(s)}
      BY <2>2 DEF ToSet
    <2>8. \A i \in 1 .. Len(s) : \A j \in 1 .. Len(s) : i # j => s[i] # s[j]
      BY <2>2, <2>4
    <2> QED BY <2>5, <2>6, <2>7, <2>8
  <1> QED BY <1>1, <1>2

\* A record as it is read, with its limit.
RecordRead(r) ==
    \E type \in {"incident", "divergence"}, title \in Titles, raw \in MaxChars,
       first \in FirstBodies, last \in LastBodies :
       r = [type |-> type, title |-> title, maxChars |-> ReadChunkMaxChars(raw),
            bodies |-> ReadSections(type, first, last)]

LEMMA RecordIs ==
  ASSUME NEW r, RecordRead(r)
  PROVE  /\ r.maxChars \in Int /\ Prefix(r.title) \in Nat /\ Budget(r) \in Int
         /\ r.maxChars = Prefix(r.title) + Budget(r)
         /\ DOMAIN r.bodies = ToSet(Sections(r.type))
         /\ \A s \in ToSet(Sections(r.type)) : r.bodies[s] \in Seq(Units) /\ Paired(r.bodies[s])
  <1>1. PICK type \in {"incident", "divergence"}, title \in Titles, raw \in MaxChars,
             first \in FirstBodies, last \in LastBodies :
             r = [type |-> type, title |-> title, maxChars |-> ReadChunkMaxChars(raw),
                  bodies |-> ReadSections(type, first, last)]
    BY DEF RecordRead
  <1>2. /\ r.type = type /\ r.title = title /\ r.maxChars = ReadChunkMaxChars(raw)
        /\ r.bodies = ReadSections(type, first, last)
    BY <1>1
  <1>3. r.maxChars \in Int
    BY <1>2, ChunkingAssumption DEF ReadChunkMaxChars
  <1>4. Prefix(r.title) \in Nat
    <2>1. title \in Seq(Units) /\ PrefixLength \in Nat
      BY ChunkingAssumption
    <2>2. Len(Trim(title)) \in Nat
      BY <2>1, TrimKeeps
    <2> QED BY <1>2, <2>1, <2>2 DEF Prefix
  <1>5. Budget(r) = r.maxChars - Prefix(r.title)
    BY DEF Budget
  <1>6. DOMAIN r.bodies = ToSet(Sections(r.type))
    <2>1. DOMAIN r.bodies = {Sections(type)[i] : i \in 1 .. Len(Sections(type))}
      BY <1>2 DEF ReadSections
    <2> QED BY <2>1, <1>2, SectionsDiffer
  <1>7. ASSUME NEW s \in ToSet(Sections(r.type)) PROVE r.bodies[s] \in Seq(Units) /\ Paired(r.bodies[s])
    <2>1. s \in {Sections(type)[i] : i \in 1 .. Len(Sections(type))}
      BY <1>2, SectionsDiffer
    <2>2. r.bodies[s] = IF s = Sections(type)[1] THEN first
                        ELSE IF s = Last(Sections(type)) THEN last ELSE << >>
      BY <1>2, <2>1 DEF ReadSections
    <2>3. /\ first \in Seq(Units) /\ Paired(first) /\ last \in Seq(Units) /\ Paired(last)
          /\ << >> \in Seq(Units) /\ Paired(<< >>)
      <3>1. /\ first \in Seq(Units) /\ Paired(first) /\ last \in Seq(Units) /\ Paired(last)
        BY ChunkingAssumption
      <3>2. << >> \in Seq(Units) /\ Paired(<< >>)
        BY DEF Paired
      <3> QED BY <3>1, <3>2
    <2> QED BY <2>2, <2>3
  <1> QED BY <1>3, <1>4, <1>5, <1>6, <1>7

\* What chunkRecord makes of a section, when it does not fail.
LEMMA SectionIsDivided ==
  ASSUME NEW r, RecordRead(r), NEW s \in ToSet(Sections(r.type)),
         Budget(r) >= MinBodyBudget \/ Blank(r.bodies[s])
  PROVE  Divides(SplitBody(r.bodies[s], Budget(r)), Fitting(Budget(r)), Solid(r.bodies[s]),
                 Marks(r.bodies[s], Budget(r)))
  <1>1. r.bodies[s] \in Seq(Units) /\ Paired(r.bodies[s]) /\ Budget(r) \in Int
    BY RecordIs
  <1>2. CASE Budget(r) >= MinBodyBudget
    <2>1. Budget(r) \in Nat /\ Budget(r) >= 2
      BY <1>1, <1>2, ChunkingAssumption
    <2> QED BY <1>1, <2>1, SplitBodyDivides
  <1>3. CASE Blank(r.bodies[s])
    <2>1. SplitBody(r.bodies[s], Budget(r)) = << >> /\ Solid(r.bodies[s]) = << >>
      BY <1>1, <1>3, SolidNone DEF SplitBody
    <2>2. << >> \in Marks(r.bodies[s], Budget(r))
      BY <1>1, MarksAre
    <2> QED BY <2>1, <2>2, DividesNone
  <1> QED BY <1>2, <1>3

ChunkSet(r) == [section : ToSet(Sections(r.type)), seq : Int, text : Seq(Units), length : Int]

LEMMA ChunksAre ==
  ASSUME NEW r, RecordRead(r), NEW s \in ToSet(Sections(r.type)),
         Budget(r) >= MinBodyBudget \/ Blank(r.bodies[s])
  PROVE  /\ ChunksOf(r, s) \in Seq(ChunkSet(r))
         /\ Len(ChunksOf(r, s)) = Len(SplitBody(r.bodies[s], Budget(r)))
         /\ \A i \in 1 .. Len(ChunksOf(r, s)) :
               ChunksOf(r, s)[i] = [section |-> s, seq |-> i - 1, text |-> SplitBody(r.bodies[s], Budget(r))[i],
                                    length |-> Prefix(r.title) + Len(SplitBody(r.bodies[s], Budget(r))[i])]
         /\ \A i \in 1 .. Len(ChunksOf(r, s)) : ChunksOf(r, s)[i].section = s
  <1> DEFINE ps == SplitBody(r.bodies[s], Budget(r))
             made == ChunksOf(r, s)
  <1>1. r.bodies[s] \in Seq(Units) /\ Budget(r) \in Int /\ Prefix(r.title) \in Nat
    BY RecordIs
  <1>2. ps \in Seq(Seq(Units))
    <2>1. Divides(ps, Fitting(Budget(r)), Solid(r.bodies[s]), Marks(r.bodies[s], Budget(r)))
      BY SectionIsDivided
    <2> HIDE DEF ps
    <2>2. Whole(ps, r.bodies[s], Budget(r))
      BY <1>1, <2>1, PiecesAreWhole
    <2> QED BY <2>2 DEF Whole
  <1>3. made = [i \in 1 .. Len(ps) |-> [section |-> s, seq |-> i - 1, text |-> ps[i],
                                        length |-> Prefix(r.title) + Len(ps[i])]]
    BY DEF ChunksOf
  <1> HIDE DEF ps, made
  <1>4. Len(ps) \in Nat /\ \A i \in 1 .. Len(ps) : ps[i] \in Seq(Units) /\ Len(ps[i]) \in Nat
    <2>1. Len(ps) \in Nat /\ \A i \in 1 .. Len(ps) : ps[i] \in Seq(Units)
      BY <1>2, ItemsOf
    <2> QED BY <2>1
  <1>6. ASSUME NEW i \in 1 .. Len(ps)
        PROVE  [section |-> s, seq |-> i - 1, text |-> ps[i], length |-> Prefix(r.title) + Len(ps[i])] \in ChunkSet(r)
    <2>1. i - 1 \in Int /\ ps[i] \in Seq(Units) /\ Prefix(r.title) + Len(ps[i]) \in Int
      BY <1>1, <1>4
    <2> QED BY <2>1 DEF ChunkSet
  <1>7. made \in [1 .. Len(ps) -> ChunkSet(r)]
    BY <1>3, <1>6
  <1>8. made \in Seq(ChunkSet(r)) /\ Len(made) = Len(ps)
    BY <1>4, <1>7
  <1>9. \A i \in 1 .. Len(made) :
           made[i] = [section |-> s, seq |-> i - 1, text |-> ps[i], length |-> Prefix(r.title) + Len(ps[i])]
    BY <1>3, <1>8
  <1>10. ASSUME NEW i \in 1 .. Len(made) PROVE made[i].section = s
    <2>1. made[i] = [section |-> s, seq |-> i - 1, text |-> ps[i], length |-> Prefix(r.title) + Len(ps[i])]
      BY <1>9
    <2> QED BY <2>1
  <1> QED BY <1>8, <1>9, <1>10 DEF ps, made

\* The chunks of a record, section by section, are those of each.
LEMMA RecordSections ==
  ASSUME NEW r, RecordRead(r), ChunkRecord(r).status = "ok", NEW s \in ToSet(Sections(r.type))
  PROVE  /\ SectionOf(ChunkRecord(r).list, s) = ChunksOf(r, s)
         /\ Budget(r) >= MinBodyBudget \/ Blank(r.bodies[s])
  <1> DEFINE names == Sections(r.type)
             n == Len(names)
             rows == [i \in 1 .. n |-> ChunksOf(r, names[i])]
  <1>1. /\ n \in Nat /\ ToSet(names) = {names[i] : i \in 1 .. n}
        /\ \A i \in 1 .. n : \A j \in 1 .. n : i # j => names[i] # names[j]
    BY SectionsDiffer
  <1>2. ~(Budget(r) < MinBodyBudget /\ \E t \in ToSet(names) : ~Blank(r.bodies[t]))
        /\ ChunkRecord(r).list = FlattenSeq(rows)
    <2>1. CASE Budget(r) < MinBodyBudget /\ \E t \in ToSet(names) : ~Blank(r.bodies[t])
      <3>1. ChunkRecord(r) = [status |-> "ChunkBudgetError"]
        BY <2>1 DEF ChunkRecord
      <3> QED BY <3>1
    <2>2. CASE ~(Budget(r) < MinBodyBudget /\ \E t \in ToSet(names) : ~Blank(r.bodies[t]))
      <3>1. ChunkRecord(r) = [status |-> "ok", list |-> FlattenSeq(rows)]
        BY <2>2 DEF ChunkRecord
      <3> HIDE DEF rows
      <3> QED BY <2>2, <3>1
    <2> QED BY <2>1, <2>2
  <1> HIDE DEF names
  <1>3. \A t \in ToSet(names) : Budget(r) >= MinBodyBudget \/ Blank(r.bodies[t])
    <2>1. Budget(r) \in Int /\ MinBodyBudget \in Int
      BY RecordIs, ChunkingAssumption
    <2> QED BY <1>2, <2>1
  <1>4. \A i \in 1 .. n : /\ rows[i] \in Seq(ChunkSet(r))
                          /\ \A c \in 1 .. Len(rows[i]) : rows[i][c].section = names[i]
    <2> SUFFICES ASSUME NEW i \in 1 .. n
                 PROVE  rows[i] \in Seq(ChunkSet(r)) /\ \A c \in 1 .. Len(rows[i]) : rows[i][c].section = names[i]
      OBVIOUS
    <2>1. names[i] \in ToSet(names)
      BY <1>1
    <2>2. /\ ChunksOf(r, names[i]) \in Seq(ChunkSet(r))
          /\ \A c \in 1 .. Len(ChunksOf(r, names[i])) : ChunksOf(r, names[i])[c].section = names[i]
      BY <2>1, <1>3, ChunksAre DEF names
    <2>3. rows[i] = ChunksOf(r, names[i])
      OBVIOUS
    <2> HIDE DEF rows
    <2> QED BY <2>2, <2>3
  <1>5. FlattenSeq(rows) = Upto(rows, n)
    <2>1. rows = [i \in 1 .. n |-> rows[i]]
      OBVIOUS
    <2> HIDE DEF rows
    <2> QED BY <2>1 DEF Upto
  <1>6. PICK m \in 1 .. n : s = names[m]
    BY <1>1 DEF names
  <1>7. rows[m] = ChunksOf(r, s)
    BY <1>6
  <1> HIDE DEF rows, n
  <1>8. SectionOf(Upto(rows, n), names[m]) = rows[m]
    <2>1. \A i \in 1 .. n : rows[i] \in Seq(ChunkSet(r))
      BY <1>4
    <2>2. \A i \in 1 .. n : \A c \in 1 .. Len(rows[i]) : rows[i][c].section = names[i]
      BY <1>4
    <2>3. /\ n \in Nat /\ m \in 1 .. n
          /\ \A i \in 1 .. n : \A j \in 1 .. n : i # j => names[i] # names[j]
      BY <1>1
    <2> QED BY ONLY <2>1, <2>2, <2>3, SectionsApart
  <1> QED BY <1>2, <1>3, <1>5, <1>6, <1>7, <1>8 DEF names

\* What ChunksAreFaithful says of a section of a record and its chunks.
SectionIsWhole(r, s, of) ==
    LET Said(i) == FlattenSeq([j \in 1 .. i |-> Solid(of[j].text)])
    IN  /\ Said(Len(of)) = Solid(r.bodies[s])
        /\ \A i \in 1 .. Len(of) :
              /\ of[i].seq = i - 1
              /\ of[i].length <= r.maxChars
              /\ of[i].text # << >>
              /\ Head(of[i].text) # "low" /\ Last(of[i].text) # "high"
        /\ SentencesFit(r.bodies[s], Budget(r)) =>
              \A i \in 1 .. Len(of) - 1 :
                 \E k \in SentenceBoundary(r.bodies[s]) : Solid(SubSeq(r.bodies[s], 1, k - 1)) = Said(i)

LEMMA SectionsAreWhole ==
  ASSUME NEW r, RecordRead(r), NEW s \in ToSet(Sections(r.type)),
         Budget(r) >= MinBodyBudget \/ Blank(r.bodies[s])
  PROVE  SectionIsWhole(r, s, ChunksOf(r, s))
  <1> DEFINE body == r.bodies[s]
             budget == Budget(r)
             ps == SplitBody(body, budget)
             made == ChunksOf(r, s)
             Said(i) == FlattenSeq([j \in 1 .. i |-> Solid(made[j].text)])
  <1>1. /\ body \in Seq(Units) /\ budget \in Int /\ r.maxChars \in Int /\ Prefix(r.title) \in Nat
        /\ r.maxChars = Prefix(r.title) + budget
    BY RecordIs
  <1>2. Divides(ps, Fitting(budget), Solid(body), Marks(body, budget))
    BY SectionIsDivided
  <1>3. /\ Len(made) = Len(ps)
        /\ \A i \in 1 .. Len(made) : made[i] = [section |-> s, seq |-> i - 1, text |-> ps[i],
                                                length |-> Prefix(r.title) + Len(ps[i])]
    BY ChunksAre
  <1> HIDE DEF ps, made, body, budget
  <1>4. /\ ps \in Seq(Seq(Units)) /\ Heard(ps, Len(ps)) = Solid(body)
        /\ \A i \in 1 .. Len(ps) :
              /\ ps[i] \in Seq(Units) /\ Len(ps[i]) <= budget /\ ps[i] # << >>
              /\ Head(ps[i]) # "low" /\ Last(ps[i]) # "high"
        /\ SentencesFit(body, budget) =>
              \A i \in 1 .. Len(ps) - 1 :
                 \E k \in SentenceBoundary(body) : Solid(SubSeq(body, 1, k - 1)) = Heard(ps, i)
    <2>1. Whole(ps, body, budget)
      BY <1>1, <1>2, PiecesAreWhole
    <2> QED BY <2>1 DEF Whole
  <1>5. Len(ps) \in Nat
    BY <1>4, ItemsOf
  <1>6. ASSUME NEW i \in 1 .. Len(made)
        PROVE  /\ made[i].seq = i - 1 /\ made[i].text = ps[i] /\ made[i].length = Prefix(r.title) + Len(ps[i])
    <2>1. made[i] = [section |-> s, seq |-> i - 1, text |-> ps[i], length |-> Prefix(r.title) + Len(ps[i])]
      BY <1>3
    <2> QED BY <2>1
  <1>7. ASSUME NEW i \in 0 .. Len(made) PROVE Said(i) = Heard(ps, i)
    <2>1. \A j \in 1 .. i : made[j].text = ps[j]
      <3>1. \A j \in 1 .. i : j \in 1 .. Len(made)
        BY <1>3, <1>5
      <3> QED BY <3>1, <1>6
    <2>2. [j \in 1 .. i |-> Solid(made[j].text)] = [j \in 1 .. i |-> Solid(ps[j])]
      BY <2>1
    <2> QED BY <2>2 DEF Heard
  <1> HIDE DEF Said
  <1>8. Said(Len(made)) = Solid(body)
    <2>1. Len(made) \in 0 .. Len(made)
      BY <1>3, <1>5
    <2> QED BY <2>1, <1>3, <1>4, <1>7
  <1>9. ASSUME NEW i \in 1 .. Len(made)
        PROVE  /\ made[i].seq = i - 1 /\ made[i].length <= r.maxChars /\ made[i].text # << >>
               /\ Head(made[i].text) # "low" /\ Last(made[i].text) # "high"
    <2>1. /\ ps[i] \in Seq(Units) /\ Len(ps[i]) <= budget /\ ps[i] # << >>
          /\ Head(ps[i]) # "low" /\ Last(ps[i]) # "high"
      BY <1>3, <1>4
    <2>2. Len(ps[i]) \in Nat
      BY <2>1
    <2>3. made[i].length <= r.maxChars
      BY <2>1, <2>2, <1>1, <1>6
    <2> QED BY <2>1, <2>3, <1>6
  <1>10. ASSUME SentencesFit(body, budget), NEW i \in 1 .. Len(made) - 1
         PROVE  \E k \in SentenceBoundary(body) : Solid(SubSeq(body, 1, k - 1)) = Said(i)
    <2>1. i \in 1 .. Len(ps) - 1 /\ i \in 0 .. Len(made)
      BY <1>3, <1>5
    <2> QED BY <2>1, <1>4, <1>7, <1>10
  <1> QED BY <1>8, <1>9, <1>10 DEF SectionIsWhole, made, body, budget, Said

\* A record and its chunks, at every moment.
ChunkingInv ==
    \/ record = NoRecord /\ chunks = NotChunked
    \/ RecordRead(record) /\ chunks = ChunkRecord(record)

LEMMA ChunkingHolds == ChunkingInv => ChunksAreFaithful
  <1> SUFFICES ASSUME ChunkingInv, chunks.status = "ok", NEW s \in DOMAIN record.bodies
               PROVE  SectionIsWhole(record, s, OfSection(s))
    BY DEF ChunksAreFaithful, SectionIsWhole
  <1>1. RecordRead(record) /\ chunks = ChunkRecord(record)
    BY DEF ChunkingInv, NotChunked
  <1>2. s \in ToSet(Sections(record.type))
    BY <1>1, RecordIs
  <1>3. OfSection(s) = SectionOf(chunks.list, s)
    BY DEF OfSection, SectionOf
  <1>4. /\ SectionOf(chunks.list, s) = ChunksOf(record, s)
        /\ Budget(record) >= MinBodyBudget \/ Blank(record.bodies[s])
    BY <1>1, <1>2, RecordSections
  <1> QED BY <1>1, <1>2, <1>3, <1>4, SectionsAreWhole

\* chunkRecord (chunk-record.ts:61-211): whatever the limit, the titles and the
\* bodies are, the chunks of a record fit, hold every unit of it, divide no
\* pair, and end within a sentence only where the sentence does not fit.
THEOREM ChunksAreWhole == ChunkingSpec => []ChunksAreFaithful
  <1>1. ChunkingInit => ChunkingInv
    BY DEF ChunkingInit, ChunkingInv
  <1>2. ChunkingInv /\ [Chunk]_chunkingVars => ChunkingInv'
    <2> SUFFICES ASSUME ChunkingInv, [Chunk]_chunkingVars PROVE ChunkingInv'
      OBVIOUS
    <2>1. CASE Chunk
      <3>1. RecordRead(record') /\ chunks' = ChunkRecord(record')
        BY <2>1 DEF Chunk, RecordRead
      <3> QED BY <3>1 DEF ChunkingInv
    <2>2. CASE UNCHANGED chunkingVars
      BY <2>2 DEF ChunkingInv, chunkingVars
    <2> QED BY <2>1, <2>2
  <1> QED BY <1>1, <1>2, ChunkingHolds, PTL DEF ChunkingSpec
=============================================================================
