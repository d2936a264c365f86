--------------------------- MODULE IniText_proofs ---------------------------
(***************************************************************************)
(* Proofs about IniText, for texts of any length and buffers of any size:  *)
(* the operators deliver texts, what ini_good accepts ini_load             *)
(* understands, a text that is printed section by section grows by         *)
(* prefixes, and what ini_save writes of a context is read back as it was  *)
(* exactly if the context is representable.                                *)
(***************************************************************************)
EXTENDS IniText, FiniteSetTheorems, SequenceTheorems, TLAPS

-----------------------------------------------------------------------------
(* The least and the greatest of some numbers *)

Below == OpToRel(<, Nat)

LEMMA BelowWellFounded == IsWellFoundedOn(Below, Nat)
BY NatLessThanWellFounded DEF Below

LEMMA BelowIs == \A x, y \in Nat : x < y => <<x, y>> \in Below
BY DEF Below, OpToRel

LEMMA Least ==
  ASSUME NEW S \in SUBSET Nat, S # {}
  PROVE  \E x \in S : \A y \in S : x <= y
<1>1. PICK x \in S : \A y \in S : ~(<<y, x>> \in Below)
  BY BelowWellFounded, WFMin
<1>2. ASSUME NEW y \in S PROVE x <= y
  <2>1. ~(y < x)
    BY <1>1, BelowIs
  <2>2. QED
    BY <2>1
<1>3. QED
  BY <1>2

LEMMA MinIs ==
  ASSUME NEW S \in SUBSET Nat, S # {}
  PROVE  Min(S) \in S /\ \A y \in S : Min(S) <= y
BY Least DEF Min

LEMMA MaxIs ==
  ASSUME NEW n \in Nat, NEW S \in SUBSET (0..n), S # {}
  PROVE  Max(S) \in S /\ \A y \in S : y <= Max(S)
<1> DEFINE T == {n - y : y \in S}
<1>1. T \subseteq Nat /\ T # {}
  <2>1. \A y \in S : n - y \in Nat
    OBVIOUS
  <2>2. PICK y \in S : TRUE
    OBVIOUS
  <2>3. n - y \in T
    OBVIOUS
  <2>4. QED
    BY <2>1, <2>3
<1>2. PICK x \in T : \A y \in T : x <= y
  <2> HIDE DEF T
  <2> QED
    BY <1>1, Least
<1>3. PICK m \in S : x = n - m
  BY <1>2
<1>4. \A y \in S : m >= y
  <2> TAKE y \in S
  <2>1. n - y \in T
    OBVIOUS
  <2>2. n - m <= n - y
    BY <1>2, <1>3, <2>1
  <2>3. QED
    BY <2>2
<1>5. Max(S) \in S /\ \A y \in S : Max(S) >= y
  BY <1>4 DEF Max
<1>6. QED
  BY <1>5

-----------------------------------------------------------------------------
(* Strings *)

\* A piece of a text is a text.
LEMMA PartIsText ==
  ASSUME NEW s \in Text, NEW i \in Nat \ {0}, NEW j \in Int, j <= Len(s)
  PROVE  /\ SubSeq(s, i, j) \in Text
         /\ Len(SubSeq(s, i, j)) = IF i <= j THEN j - i + 1 ELSE 0
         /\ \A l \in 1..(j - i + 1) : SubSeq(s, i, j)[l] = s[i + l - 1]
<1>1. \A l \in i..j : s[l] \in Chars
  BY ElementOfSeq DEF Text
<1>2. QED
  BY <1>1, SubSeqProperties DEF Text

\* Find is the first position of a character.
LEMMA FindIs ==
  ASSUME NEW s \in Text, NEW c
  PROVE  /\ Find(s, c) \in 0..Len(s)
         /\ Find(s, c) # 0 => s[Find(s, c)] = c /\ \A i \in 1..(Find(s, c) - 1) : s[i] # c
         /\ Find(s, c) = 0 => \A i \in 1..Len(s) : s[i] # c
<1> DEFINE I == {i \in 1..Len(s) : s[i] = c}
<1>1. Find(s, c) = IF I # {} THEN Min(I) ELSE 0
  BY DEF Find, SelectInSeq
<1>2. Len(s) \in Nat /\ I \subseteq Nat
  BY DEF Text
<1>3. I # {} => Min(I) \in I /\ \A y \in I : Min(I) <= y
  BY <1>2, MinIs
<1>4. CASE I = {}
  BY <1>1, <1>2, <1>4
<1>5. CASE I # {}
  <2>1. Find(s, c) \in I /\ \A y \in I : Find(s, c) <= y
    BY <1>1, <1>3, <1>5
  <2> HIDE DEF I
  <2>2. ASSUME NEW i \in 1..(Find(s, c) - 1) PROVE s[i] # c
    <3>1. Find(s, c) \in 1..Len(s)
      BY <2>1 DEF I
    <3>2. i \in 1..Len(s) /\ i < Find(s, c)
      BY <1>2, <3>1
    <3>3. i \notin I
      BY <1>2, <2>1, <3>1, <3>2
    <3>4. QED
      BY <3>2, <3>3 DEF I
  <2>3. QED
    BY <1>2, <2>1, <2>2 DEF I
<1>6. QED
  BY <1>4, <1>5

\* What TrimLeft leaves: nothing, or the rest from the first character that is
\* no blank.
LEMMA TrimLeftIs ==
  ASSUME NEW s \in Text
  PROVE  /\ TrimLeft(s) \in Text
         /\ TrimLeft(s) # <<>> => TrimLeft(s)[1] \notin Blanks
         /\ First(s) \notin Blanks => TrimLeft(s) = s
<1> DEFINE I == {i \in 1..Len(s) : s[i] \notin Blanks}
           m == IF I # {} THEN Min(I) ELSE 0
<1>1. TrimLeft(s) = IF m = 0 THEN <<>> ELSE SubSeq(s, m, Len(s))
  BY DEF TrimLeft, SelectInSeq
<1>2. Len(s) \in Nat /\ I \subseteq Nat /\ s \in Seq(Chars)
  BY DEF Text
<1>3. I # {} => m \in I /\ \A y \in I : m <= y
  BY <1>2, MinIs
<1>4. CASE I = {}
  <2>1. TrimLeft(s) = <<>>
    BY <1>1, <1>4
  <2>2. s # <<>> => 1 \in 1..Len(s)
    BY <1>2
  <2>3. First(s) \notin Blanks => s = <<>>
    BY <1>4, <2>2 DEF First
  <2>4. QED
    BY <2>1, <2>3 DEF Text
<1>5. CASE I # {}
  <2>1. m \in 1..Len(s) /\ s[m] \notin Blanks /\ \A y \in I : m <= y
    BY <1>3, <1>5
  <2>2. TrimLeft(s) = SubSeq(s, m, Len(s))
    <3> HIDE DEF m
    <3> QED
      BY <1>1, <1>2, <2>1
  <2>3. TrimLeft(s) \in Text /\ TrimLeft(s)[1] = s[m]
    <3> HIDE DEF m
    <3>1. /\ SubSeq(s, m, Len(s)) \in Text
          /\ \A l \in 1..(Len(s) - m + 1) : SubSeq(s, m, Len(s))[l] = s[m + l - 1]
      BY <1>2, <2>1, PartIsText
    <3>2. 1 \in 1..(Len(s) - m + 1) /\ m + 1 - 1 = m
      BY <1>2, <2>1
    <3>3. SubSeq(s, m, Len(s))[1] = s[m]
      BY <3>1, <3>2
    <3>4. QED
      BY <2>2, <3>1, <3>3
  <2>4. ASSUME First(s) \notin Blanks PROVE TrimLeft(s) = s
    <3>1. s # <<>> /\ s[1] \notin Blanks
      BY <2>1, <2>4 DEF First
    <3>2. 1 \in I
      BY <1>2, <3>1, <2>1
    <3>3. m = 1
      BY <2>1, <3>2
    <3>4. QED
      BY <1>2, <2>2, <3>3, SubSeqFull
  <2>5. QED
    BY <2>1, <2>3, <2>4
<1>6. QED
  BY <1>4, <1>5

\* TrimRight leaves a prefix that holds every character that is not to go.
LEMMA TrimRightIs ==
  ASSUME NEW s \in Text, NEW S
  PROVE  /\ TrimRight(s, S) \in Text
         /\ \A i \in 1..Len(s) : s[i] \notin S => TrimRight(s, S) # <<>>
<1> DEFINE I == {i \in 1..Len(s) : s[i] \notin S}
           m == IF I # {} THEN Max(I) ELSE 0
<1>1. TrimRight(s, S) = SubSeq(s, 1, m)
  BY DEF TrimRight, SelectLastInSeq
<1>2. Len(s) \in Nat /\ I \subseteq 0..Len(s)
  BY DEF Text
<1>3. I # {} => m \in I
  BY <1>2, MaxIs
<1>4. m \in 0..Len(s)
  BY <1>2, <1>3
<1>5. /\ SubSeq(s, 1, m) \in Text
      /\ Len(SubSeq(s, 1, m)) = IF 1 <= m THEN m - 1 + 1 ELSE 0
  BY <1>2, <1>4, PartIsText
<1>6. ASSUME NEW i \in 1..Len(s), s[i] \notin S PROVE TrimRight(s, S) # <<>>
  <2>1. m \in 1..Len(s)
    BY <1>3, <1>6
  <2>2. Len(SubSeq(s, 1, m)) # 0
    BY <1>2, <1>5, <2>1
  <2>3. SubSeq(s, 1, m) # <<>>
    BY <2>2, EmptySeq
  <2>4. QED
    BY <1>1, <2>3
<1>7. QED
  BY <1>1, <1>5, <1>6

LEMMA WithoutBomIsText ==
  ASSUME NEW s \in Text
  PROVE  WithoutBom(s) \in Text
<1>1. s # <<>> => Tail(s) \in Text
  BY HeadTailProperties DEF Text
<1>2. First(s) = BOM => s # <<>>
  BY DEF First, BOM, NL
<1>3. QED
  BY <1>1, <1>2 DEF WithoutBom

LEMMA UpToNulIs ==
  ASSUME NEW s \in Text
  PROVE  UpToNul(s) \in Text /\ (Find(s, NUL) = 0 => UpToNul(s) = s)
<1>1. Find(s, NUL) \in 0..Len(s) /\ Len(s) \in Nat
  BY FindIs DEF Text
<1>2. Find(s, NUL) # 0 => SubSeq(s, 1, Find(s, NUL) - 1) \in Text
  BY <1>1, PartIsText
<1>3. QED
  BY <1>2 DEF UpToNul

-----------------------------------------------------------------------------
(* The pieces that fgets delivers *)

ColumnAt(text, f, i) ==
  IF i = 0 THEN 0
  ELSE IF i = 1 \/ text[i - 1] = NL \/ f[i - 1] = LineMax - 1 THEN 1
  ELSE f[i - 1] + 1

\* The parts of Pieces.
Column(text) == CHOOSE f : f = [i \in 0..Len(text) |-> ColumnAt(text, f, i)]
Starts(text) == {i \in 1..Len(text) : Column(text)[i] = 1}
EndOf(text, i) ==
  IF \E j \in Starts(text) : j > i
  THEN (CHOOSE j \in Starts(text) : j > i /\ \A l \in Starts(text) : l > i => j <= l) - 1
  ELSE Len(text)
StartOf(text, n) ==
  CHOOSE i \in Starts(text) : Cardinality({j \in Starts(text) : j <= i}) = n

LEMMA PiecesAre ==
  ASSUME NEW text
  PROVE  Pieces(text) = [n \in 1..Cardinality(Starts(text)) |->
                           SubSeq(text, StartOf(text, n), EndOf(text, StartOf(text, n)))]
BY DEF Pieces, Column, ColumnAt, Starts, EndOf, StartOf

\* There is a function that counts the columns.
LEMMA ColumnIs ==
  ASSUME NEW text \in Text
  PROVE  \A i \in 0..Len(text) : Column(text)[i] = ColumnAt(text, Column(text), i)
<1> DEFINE Counts(n, f) == f = [i \in 0..n |-> ColumnAt(text, f, i)]
           T == {n \in Nat : ~\E f : Counts(n, f)}
<1>1. T = {}
  <2> SUFFICES ASSUME T # {} PROVE FALSE
    OBVIOUS
  <2>1. PICK n \in T : \A m \in T : n <= m
    BY Least
  <2>2. CASE n = 0
    <3> DEFINE g == [i \in 0..0 |-> 0]
    <3>1. g = [i \in 0..0 |-> ColumnAt(text, g, i)]
      BY DEF ColumnAt
    <3>2. Counts(0, g)
      BY <3>1
    <3>3. QED
      BY <2>2, <3>2
  <2>3. CASE n # 0
    <3>1. n - 1 \in Nat /\ n - 1 \notin T
      BY <2>1, <2>3
    <3>2. PICK f : Counts(n - 1, f)
      BY <3>1
    <3> DEFINE g == [i \in 0..n |-> IF i = n THEN ColumnAt(text, f, n) ELSE f[i]]
    <3>3. ASSUME NEW i \in 0..n PROVE g[i] = ColumnAt(text, g, i)
      <4>1. CASE i = n
        <5>1. g[n - 1] = f[n - 1] /\ g[n] = ColumnAt(text, f, n)
          BY <2>3, <3>1
        <5>2. ColumnAt(text, f, n) = ColumnAt(text, g, n)
          <6> HIDE DEF g
          <6> QED
            BY <5>1 DEF ColumnAt
        <5>3. QED
          BY <4>1, <5>1, <5>2
      <4>2. CASE i # n
        <5>1. i \in 0..(n - 1)
          BY <4>2
        <5>2. g[i] = f[i] /\ f[i] = ColumnAt(text, f, i)
          BY <3>2, <4>2, <5>1
        <5>3. i # 0 => i - 1 \in 0..n /\ i - 1 # n
          BY <5>1
        <5>4. i # 0 => g[i - 1] = f[i - 1]
          BY <5>3
        <5>5. ColumnAt(text, f, i) = ColumnAt(text, g, i)
          <6> HIDE DEF g
          <6> QED
            BY <5>4 DEF ColumnAt
        <5>6. QED
          BY <5>2, <5>5
      <4>3. QED
        BY <4>1, <4>2
    <3>4. g = [i \in 0..n |-> g[i]]
      OBVIOUS
    <3>5. Counts(n, g)
      <4> HIDE DEF g
      <4> QED
        BY <3>3, <3>4
    <3>6. QED
      BY <2>1, <3>5
  <2>4. QED
    BY <2>2, <2>3
<1>2. Len(text) \in Nat
  BY DEF Text
<1>3. \E f : f = [i \in 0..Len(text) |-> ColumnAt(text, f, i)]
  BY <1>1, <1>2
<1>4. Column(text) = [i \in 0..Len(text) |-> ColumnAt(text, Column(text), i)]
  BY <1>3 DEF Column
<1>5. QED
  BY <1>4

\* A set of numbers has an n-th one.
LEMMA NthExists ==
  ASSUME NEW N \in Nat, NEW S \in SUBSET (1..N), NEW n \in 1..Cardinality(S)
  PROVE  \E i \in S : Cardinality({j \in S : j <= i}) = n
<1> DEFINE Upto(k) == {j \in S : j <= k}
<1>1. \A k, j : j \in Upto(k) <=> j \in S /\ j <= k
  OBVIOUS
<1>2. \A j \in S : j \in Nat /\ 1 <= j /\ j <= N
  OBVIOUS
<1>3. IsFiniteSet(S)
  <2>1. IsFiniteSet(1..N)
    BY FS_Interval
  <2>2. QED
    BY <2>1, FS_Subset
<1>4. ASSUME NEW k PROVE IsFiniteSet(Upto(k)) /\ Cardinality(Upto(k)) \in Nat
  <2>1. Upto(k) \in SUBSET S
    OBVIOUS
  <2> HIDE DEF Upto
  <2>2. IsFiniteSet(Upto(k))
    BY <1>3, <2>1, FS_Subset
  <2>3. QED
    BY <2>2, FS_CardinalityType
<1>5. Cardinality(S) \in Nat /\ n \in Nat /\ 1 <= n /\ n <= Cardinality(S)
  BY <1>3, FS_CardinalityType
<1> SUFFICES \E i \in S : Cardinality(Upto(i)) = n
  OBVIOUS
<1> HIDE DEF Upto
<1> DEFINE K == {k \in Nat : Cardinality(Upto(k)) >= n}
<1>6. N \in K
  <2>1. Upto(N) = S
    BY <1>1, <1>2
  <2>2. QED
    BY <1>5, <2>1
<1>7. PICK k \in K : \A m \in K : k <= m
  BY <1>6, Least
<1>8. k \in Nat /\ Cardinality(Upto(k)) >= n
  OBVIOUS
<1>9. k # 0
  <2>1. Upto(0) = {}
    <3>1. \A j \in S : ~(j <= 0)
      BY <1>2
    <3>2. QED
      BY <1>1, <3>1
  <2>2. Cardinality(Upto(0)) = 0
    BY <2>1, FS_EmptySet
  <2>3. QED
    BY <1>5, <1>8, <2>2
<1>10. k - 1 \in Nat /\ k - 1 \notin K
  BY <1>7, <1>8, <1>9
<1>11. Cardinality(Upto(k - 1)) \in Nat /\ Cardinality(Upto(k - 1)) < n
  BY <1>4, <1>5, <1>10
<1>12. k \in S
  <2> SUFFICES ASSUME k \notin S PROVE FALSE
    OBVIOUS
  <2>1. \A j \in S : j <= k <=> j <= k - 1
    BY <1>2, <1>8
  <2>2. Upto(k) = Upto(k - 1)
    BY <1>1, <2>1
  <2>3. QED
    BY <1>5, <1>8, <1>11, <2>2
<1>13. Upto(k) = Upto(k - 1) \cup {k} /\ k \notin Upto(k - 1)
  <2>1. \A j \in S : j <= k <=> j = k \/ j <= k - 1
    BY <1>2, <1>8
  <2>2. ~(k <= k - 1) /\ k <= k
    BY <1>8
  <2>3. QED
    BY <1>1, <1>12, <2>1, <2>2
<1>14. Cardinality(Upto(k)) = Cardinality(Upto(k - 1)) + 1
  BY <1>4, <1>13, FS_AddElement
<1>15. Cardinality(Upto(k)) = n
  BY <1>5, <1>8, <1>11, <1>14
<1>16. QED
  BY <1>12, <1>15

\* A piece begins at a start and ends before the next.
LEMMA EndIs ==
  ASSUME NEW text \in Text, NEW i \in Starts(text)
  PROVE  /\ EndOf(text, i) \in i..Len(text)
         /\ \A j \in (i + 1)..EndOf(text, i) : j \notin Starts(text)
<1> DEFINE S == {j \in Starts(text) : j > i}
<1>1. Len(text) \in Nat /\ Starts(text) \subseteq 1..Len(text)
  BY DEF Starts, Text
<1>2. CASE S = {}
  <2>1. EndOf(text, i) = Len(text)
    BY <1>2 DEF EndOf
  <2>2. QED
    BY <1>1, <1>2, <2>1
<1>3. CASE S # {}
  <2>1. PICK j \in S : \A l \in S : j <= l
    <3>1. S \subseteq Nat
      BY <1>1
    <3> HIDE DEF S
    <3> QED
      BY <1>3, <3>1, Least
  <2> DEFINE e == CHOOSE x \in Starts(text) : x > i /\ \A l \in Starts(text) : l > i => x <= l
  <2>2. e \in Starts(text) /\ e > i /\ \A l \in Starts(text) : l > i => e <= l
    BY <2>1
  <2>3. EndOf(text, i) = e - 1
    BY <1>3 DEF EndOf
  <2> HIDE DEF e
  <2>4. QED
    BY <1>1, <2>2, <2>3
<1>4. QED
  BY <1>2, <1>3

LEMMA PieceIs ==
  ASSUME NEW text \in Text
  PROVE  /\ Cardinality(Starts(text)) \in Nat
         /\ DOMAIN Pieces(text) = 1..Cardinality(Starts(text))
         /\ \A n \in DOMAIN Pieces(text) :
              \E i \in Starts(text) : /\ Pieces(text)[n] = SubSeq(text, i, EndOf(text, i))
                                      /\ Pieces(text)[n] \in Text
<1>1. Len(text) \in Nat /\ Starts(text) \in SUBSET (1..Len(text))
  BY DEF Starts, Text
<1>2. Cardinality(Starts(text)) \in Nat
  <2>1. IsFiniteSet(1..Len(text))
    BY <1>1, FS_Interval
  <2>2. IsFiniteSet(Starts(text))
    BY <1>1, <2>1, FS_Subset
  <2>3. QED
    BY <2>2, FS_CardinalityType
<1>3. DOMAIN Pieces(text) = 1..Cardinality(Starts(text))
  BY PiecesAre
<1>4. ASSUME NEW n \in 1..Cardinality(Starts(text))
      PROVE  \E i \in Starts(text) : /\ Pieces(text)[n] = SubSeq(text, i, EndOf(text, i))
                                     /\ Pieces(text)[n] \in Text
  <2> DEFINE i == StartOf(text, n)
  <2>1. \E j \in Starts(text) : Cardinality({l \in Starts(text) : l <= j}) = n
    BY <1>1, NthExists
  <2>2. i \in Starts(text)
    BY <2>1 DEF StartOf
  <2>3. Pieces(text)[n] = SubSeq(text, i, EndOf(text, i))
    BY PiecesAre
  <2> HIDE DEF i
  <2>4. EndOf(text, i) \in i..Len(text) /\ i \in 1..Len(text)
    BY <1>1, <2>2, EndIs
  <2>5. SubSeq(text, i, EndOf(text, i)) \in Text
    BY <1>1, <2>4, PartIsText
  <2>6. QED
    BY <2>2, <2>3, <2>5
<1>5. QED
  BY <1>2, <1>3, <1>4

\* The lines of a text are texts.
LEMMA LinesAre ==
  ASSUME NEW text \in Text
  PROVE  /\ \E m \in Nat : DOMAIN Lines(text) = 1..m
         /\ DOMAIN Lines(text) = DOMAIN Pieces(WithoutBom(text))
         /\ \A i \in DOMAIN Lines(text) :
              /\ Pieces(WithoutBom(text))[i] \in Text
              /\ Lines(text)[i] = TrimLeft(UpToNul(Pieces(WithoutBom(text))[i]))
              /\ Lines(text)[i] \in Text
<1> DEFINE ps == Pieces(WithoutBom(text))
<1>1. WithoutBom(text) \in Text
  BY WithoutBomIsText
<1>2. (\E m \in Nat : DOMAIN ps = 1..m) /\ \A i \in DOMAIN ps : ps[i] \in Text
  BY <1>1, PieceIs
<1>3. Lines(text) = [i \in DOMAIN ps |-> TrimLeft(UpToNul(ps[i]))]
  BY DEF Lines
<1> HIDE DEF ps
<1>4. \A i \in DOMAIN ps : TrimLeft(UpToNul(ps[i])) \in Text
  BY <1>2, TrimLeftIs, UpToNulIs
<1>5. QED
  BY <1>2, <1>3, <1>4 DEF ps

-----------------------------------------------------------------------------
(* What ini_good accepts and ini_load understands *)

\* A newline ends a piece.
LEMMA NewlineEnds ==
  ASSUME NEW text \in Text, NEW i \in Starts(text),
         NEW l \in 1..Len(SubSeq(text, i, EndOf(text, i))),
         SubSeq(text, i, EndOf(text, i))[l] = NL
  PROVE  l = Len(SubSeq(text, i, EndOf(text, i)))
<1> DEFINE e == EndOf(text, i)
<1>1. Len(text) \in Nat /\ i \in 1..Len(text)
  BY DEF Starts, Text
<1>2. e \in i..Len(text) /\ \A j \in (i + 1)..e : j \notin Starts(text)
  BY EndIs
<1> HIDE DEF e
<1>3. /\ Len(SubSeq(text, i, e)) = e - i + 1
      /\ \A m \in 1..(e - i + 1) : SubSeq(text, i, e)[m] = text[i + m - 1]
  BY <1>1, <1>2, PartIsText
<1>4. l \in 1..(e - i + 1) /\ text[i + l - 1] = NL
  BY <1>3 DEF e
<1>5. ASSUME i + l - 1 < e PROVE FALSE
  <2> DEFINE q == i + l
  <2>1. q \in (i + 1)..e /\ q \in 1..Len(text) /\ q # 0 /\ text[q - 1] = NL
    BY <1>1, <1>2, <1>4, <1>5
  <2> HIDE DEF q
  <2>2. Column(text)[q] = ColumnAt(text, Column(text), q)
    BY <1>1, <2>1, ColumnIs
  <2>3. q \in Starts(text)
    BY <2>1, <2>2 DEF ColumnAt, Starts
  <2>4. QED
    BY <1>2, <2>1, <2>3
<1>6. l = e - i + 1
  BY <1>1, <1>2, <1>4, <1>5
<1>7. QED
  BY <1>3, <1>6 DEF e

\* A line that is accepted is not longer than the buffer, unless it is indented
\* or a comment or holds a NUL.
LEMMA LongLines ==
  ASSUME NEW text \in Text, Good(text), NEW i \in DOMAIN Lines(text)
  PROVE  LET p == Pieces(WithoutBom(text))[i] IN
         \/ Len(p) < LineMax - 1 \/ Last(p) = NL
         \/ First(p) \in Blanks \cup Comments \/ Find(p, NUL) # 0
<1> DEFINE p == Pieces(WithoutBom(text))[i]
           t == Lines(text)[i]
<1> SUFFICES ASSUME First(p) \notin Blanks \cup Comments, Find(p, NUL) = 0
             PROVE  Len(p) < LineMax - 1 \/ Last(p) = NL
  OBVIOUS
<1>1. p \in Text /\ t = TrimLeft(UpToNul(p)) /\ i \in DOMAIN Pieces(WithoutBom(text))
  BY LinesAre
<1>2. WithoutBom(text) \in Text
  BY WithoutBomIsText
<1>3. PICK s \in Starts(WithoutBom(text)) :
        p = SubSeq(WithoutBom(text), s, EndOf(WithoutBom(text), s))
  BY <1>1, <1>2, PieceIs
<1>4. \A l \in 1..Len(p) : p[l] = NL => l = Len(p)
  BY <1>2, <1>3, NewlineEnds
<1>5. GoodLine(Lines(text), i)
  BY DEF Good
<1> HIDE DEF p, t
<1>6. Len(p) \in Nat /\ p \in Seq(Chars)
  BY <1>1 DEF Text
<1>7. t = p
  BY <1>1, UpToNulIs, TrimLeftIs
<1>8. CASE GoodSkips(t)
  <2>1. First(p) = NL
    BY <1>7, <1>8 DEF GoodSkips
  <2>2. CASE p = <<>>
    BY <2>2, LineMaxAssumption, EmptySeq
  <2>3. CASE p # <<>>
    <3>1. p[1] = NL /\ 1 \in 1..Len(p)
      BY <1>6, <2>1, <2>3 DEF First
    <3>2. QED
      BY <1>4, <3>1 DEF Last
  <2>4. QED
    BY <2>2, <2>3
<1>9. CASE ~TooLong(t)
  <2>1. Len(p) >= LineMax - 1 => p[LineMax - 1] = NL
    BY <1>7, <1>9 DEF TooLong
  <2>2. Len(p) >= LineMax - 1 => LineMax - 1 \in 1..Len(p)
    BY <1>6, LineMaxAssumption
  <2>3. QED
    BY <1>4, <1>6, <2>1, <2>2, LineMaxAssumption DEF Last
<1>10. QED
  BY <1>5, <1>8, <1>9 DEF GoodLine, t

\* A line with a key has one when the blanks before the "=" are gone: it begins
\* with something that is no blank.
LEMMA KeyIsThere ==
  ASSUME NEW s \in Text, HasKey(TrimLeft(s))
  PROVE  KeyOf(TrimLeft(s)) # <<>>
<1> DEFINE t == TrimLeft(s)
           k == SubSeq(t, 1, Find(t, "=") - 1)
<1>1. t \in Text /\ (t # <<>> => t[1] \notin Blanks)
  BY TrimLeftIs
<1> HIDE DEF t
<1>2. Find(t, "=") \in 0..Len(t) /\ Find(t, "=") > 1 /\ Len(t) \in Nat
  BY <1>1, FindIs DEF HasKey, t, Text
<1>3. t # <<>>
  BY <1>2, EmptySeq
<1>4. k \in Text /\ Len(k) = Find(t, "=") - 1 /\ k[1] = t[1]
  BY <1>1, <1>2, PartIsText
<1>5. 1 \in 1..Len(k) /\ k[1] \notin Blanks
  BY <1>1, <1>2, <1>3, <1>4
<1>6. TrimRight(k, Blanks) # <<>>
  BY <1>4, <1>5, TrimRightIs
<1>7. QED
  BY <1>6 DEF KeyOf, t

\* Whatever text ini_good accepts, ini_load understands every line of it, with
\* buffers of any size.
THEOREM GoodTexts == \A text \in Text : Good(text) => Understood(text)
<1> SUFFICES ASSUME NEW text \in Text, Good(text), NEW i \in DOMAIN Lines(text)
             PROVE  LET ps == Pieces(WithoutBom(text))
                        ts == Lines(text)
                    IN /\ \/ GoodSkips(ts[i]) \/ First(ts[i]) = CR
                          \/ i \in Headers(ts)
                          \/ i \in Pairs(ts) /\ InSection(ts, i)
                       /\ \/ Len(ps[i]) < LineMax - 1 \/ Last(ps[i]) = NL
                          \/ First(ps[i]) \in Blanks \cup Comments \/ Find(ps[i], NUL) # 0
  BY DEF Understood
<1> DEFINE ts == Lines(text)
<1>1. GoodLine(ts, i)
  BY DEF Good
<1>2. CASE GoodSkips(ts[i]) \/ IsHeader(ts[i])
  BY <1>2, LongLines DEF Headers
<1>3. CASE InSection(ts, i) /\ HasKey(ts[i]) /\ ~GoodSkips(ts[i]) /\ First(ts[i]) # CR
  <2>1. /\ Pieces(WithoutBom(text))[i] \in Text
        /\ ts[i] = TrimLeft(UpToNul(Pieces(WithoutBom(text))[i]))
    BY LinesAre
  <2>2. KeyOf(ts[i]) # <<>>
    BY <1>3, <2>1, UpToNulIs, KeyIsThere
  <2>3. ts[i] \in Text
    BY LinesAre
  <2>4. Find(ts[i], "=") # 0
    BY <1>3, <2>3, FindIs DEF HasKey
  <2>5. ~LoadSkips(ts[i]) /\ First(ts[i]) # "["
    BY <1>3 DEF LoadSkips, GoodSkips, HasKey
  <2>6. i \in Pairs(ts)
    BY <2>2, <2>4, <2>5 DEF Pairs
  <2>7. QED
    BY <1>3, <2>6, LongLines
<1>4. CASE First(ts[i]) = CR
  BY <1>4, LongLines
<1>5. QED
  BY <1>1, <1>2, <1>3, <1>4 DEF GoodLine

-----------------------------------------------------------------------------
(* What a text is loaded into, and what a context is written as *)

LEMMA ImageIsFinite ==
  ASSUME NEW S, IsFiniteSet(S), NEW f
  PROVE  IsFiniteSet({f[x] : x \in S})
<1> DEFINE T == {f[x] : x \in S}
           g == [x \in S |-> f[x]]
<1>1. g \in Surjection(S, T)
  BY DEF Surjection
<1>2. QED
  BY <1>1, FS_Surjection

LEMMA PartsAreTexts ==
  ASSUME NEW t \in Text
  PROVE  NameOf(t) \in Text /\ KeyOf(t) \in Text /\ ValueOf(t) \in Text
<1>1. /\ Find(t, "]") \in 0..Len(t) /\ Find(t, "=") \in 0..Len(t) /\ Len(t) \in Nat
  BY FindIs DEF Text
<1>2. NameOf(t) \in Text
  BY <1>1, PartIsText DEF NameOf
<1>3. KeyOf(t) \in Text
  <2>1. SubSeq(t, 1, Find(t, "=") - 1) \in Text
    BY <1>1, PartIsText
  <2>2. QED
    BY <2>1, TrimRightIs DEF KeyOf
<1>4. ValueOf(t) \in Text
  <2>1. AfterEquals(t) \in Text
    BY <1>1, PartIsText DEF AfterEquals
  <2> DEFINE v == TrimRight(TrimLeft(AfterEquals(t)), Blanks \cup {NL, CR})
  <2>2. v \in Text
    BY <2>1, TrimLeftIs, TrimRightIs
  <2>3. ValueOf(t) = IF First(v) = Quote /\ Last(v) = Quote THEN SubSeq(v, 2, Len(v) - 1) ELSE v
    BY DEF ValueOf
  <2> HIDE DEF v
  <2>4. Len(v) \in Nat
    BY <2>2 DEF Text
  <2>5. SubSeq(v, 2, Len(v) - 1) \in Text
    BY <2>2, <2>4, PartIsText
  <2>6. QED
    BY <2>2, <2>3, <2>5
<1>5. QED
  BY <1>2, <1>3, <1>4

\* The table of a section.
Assigning(ts, n) == {i \in Pairs(ts) : SectionOf(ts, i) = n}
TableOf(ts, n) ==
  [k \in {KeyOf(ts[i]) : i \in Assigning(ts, n)} |->
     ValueOf(ts[Max({i \in Assigning(ts, n) : KeyOf(ts[i]) = k})])]

LEMMA TableIsTable ==
  ASSUME NEW ts, NEW m \in Nat, DOMAIN ts = 1..m, \A i \in DOMAIN ts : ts[i] \in Text, NEW n
  PROVE  IsTable(TableOf(ts, n))
<1> DEFINE A == Assigning(ts, n)
           keys == {KeyOf(ts[i]) : i \in A}
<1>1. A \subseteq 1..m /\ IsFiniteSet(A)
  <2>1. A \subseteq 1..m
    BY DEF Assigning, Pairs
  <2>2. IsFiniteSet(1..m)
    BY FS_Interval
  <2> HIDE DEF A
  <2>3. QED
    BY <2>1, <2>2, FS_Subset
<1>2. DOMAIN TableOf(ts, n) = keys
  BY DEF TableOf
<1>3. IsFiniteSet(keys)
  <2> DEFINE f == [i \in A |-> KeyOf(ts[i])]
  <2>1. keys = {f[i] : i \in A}
    OBVIOUS
  <2> HIDE DEF keys, f
  <2>2. QED
    BY <1>1, <2>1, ImageIsFinite
<1>4. ASSUME NEW k \in keys PROVE k \in Text /\ TableOf(ts, n)[k] \in Text
  <2> DEFINE S == {i \in A : KeyOf(ts[i]) = k}
  <2>1. S # {} /\ S \in SUBSET (0..m)
    BY <1>1
  <2>2. Max(S) \in S
    <3> HIDE DEF S
    <3> QED
      BY <2>1, MaxIs
  <2>3. Max(S) \in 1..m
    BY <1>1, <2>2
  <2>4. TableOf(ts, n)[k] = ValueOf(ts[Max(S)])
    BY DEF TableOf
  <2>5. \E i \in A : k = KeyOf(ts[i])
    OBVIOUS
  <2> HIDE DEF S, keys, A
  <2>6. QED
    BY <1>1, <2>3, <2>4, <2>5, PartsAreTexts
<1>5. TableOf(ts, n) = [k \in DOMAIN TableOf(ts, n) |-> TableOf(ts, n)[k]]
  BY DEF TableOf
<1>6. QED
  <2> HIDE DEF keys
  <2> QED
    BY <1>2, <1>3, <1>4, <1>5 DEF IsTable

LEMMA SectionIsText ==
  ASSUME NEW ts, NEW m \in Nat, DOMAIN ts = 1..m, \A i \in DOMAIN ts : ts[i] \in Text, NEW i
  PROVE  SectionOf(ts, i) \in Text
<1> DEFINE S == {j \in Headers(ts) : j < i}
<1>1. S \in SUBSET (0..m) /\ S \subseteq DOMAIN ts
  BY DEF Headers
<1>2. S # {} => Max(S) \in S
  <2> HIDE DEF S
  <2> QED
    BY <1>1, MaxIs
<1>3. SectionOf(ts, i) = IF S = {} THEN Global ELSE NameOf(ts[Max(S)])
  BY DEF SectionOf
<1>4. Global \in Text
  BY DEF Global, Text
<1> HIDE DEF S
<1>5. QED
  BY <1>1, <1>2, <1>3, <1>4, PartsAreTexts

\* ini_load makes a context of every text.
LEMMA LoadedIsContext ==
  ASSUME NEW text \in Text
  PROVE  IsContext(Loaded(text))
<1> DEFINE ts == Lines(text)
           N1 == {NameOf(ts[i]) : i \in Headers(ts)}
           N2 == {SectionOf(ts, i) : i \in Pairs(ts)}
<1>1. Loaded(text) = [n \in N1 \cup N2 |-> TableOf(ts, n)]
  BY DEF Loaded, TableOf, Assigning
<1>2. PICK m \in Nat : DOMAIN ts = 1..m
  BY LinesAre
<1>3. \A i \in DOMAIN ts : ts[i] \in Text
  BY LinesAre
<1> HIDE DEF ts
<1>4. IsFiniteSet(Headers(ts)) /\ IsFiniteSet(Pairs(ts))
  <2>1. IsFiniteSet(1..m)
    BY FS_Interval
  <2>2. Headers(ts) \in SUBSET (1..m) /\ Pairs(ts) \in SUBSET (1..m)
    BY <1>2 DEF Headers, Pairs
  <2>3. QED
    BY <2>1, <2>2, FS_Subset
<1>5. IsFiniteSet(N1)
  <2> DEFINE f == [i \in Headers(ts) |-> NameOf(ts[i])]
  <2>1. N1 = {f[i] : i \in Headers(ts)}
    OBVIOUS
  <2> HIDE DEF N1, f
  <2>2. QED
    BY <1>4, <2>1, ImageIsFinite
<1>6. IsFiniteSet(N2)
  <2> DEFINE f == [i \in Pairs(ts) |-> SectionOf(ts, i)]
  <2>1. N2 = {f[i] : i \in Pairs(ts)}
    OBVIOUS
  <2> HIDE DEF N2, f
  <2>2. QED
    BY <1>4, <2>1, ImageIsFinite
<1>7. \A n \in N1 : n \in Text
  BY <1>3, PartsAreTexts DEF Headers
<1>8. \A n \in N2 : n \in Text
  BY <1>2, <1>3, SectionIsText
<1>9. \A n : IsTable(TableOf(ts, n))
  BY <1>2, <1>3, TableIsTable
<1> HIDE DEF N1, N2
<1>10. IsFiniteSet(N1 \cup N2)
  BY <1>5, <1>6, FS_Union
<1>11. QED
  BY <1>1, <1>7, <1>8, <1>9, <1>10 DEF IsContext

\* An order of a finite set is a sequence in which each member is.
LEMMA OrderOf ==
  ASSUME NEW S, IsFiniteSet(S), NEW order \in SetToSeqs(S)
  PROVE  order \in Seq(S) /\ S = {order[i] : i \in DOMAIN order}
<1> DEFINE n == Cardinality(S)
<1>1. n \in Nat
  BY FS_CardinalityType
<1>2. order \in [1..n -> S] /\ \A i, j \in 1..n : i # j => order[i] # order[j]
  BY DEF SetToSeqs
<1>3. order \in Injection(1..n, S)
  BY <1>2 DEF Injection, IsInjective
<1>4. IsFiniteSet(1..n) /\ Cardinality(1..n) = n
  BY <1>1, FS_Interval
<1>5. order \in Surjection(1..n, S)
  BY <1>3, <1>4, FS_Injection
<1>6. \A x \in S : \E i \in 1..n : order[i] = x
  BY <1>5 DEF Surjection
<1>7. order \in Seq(S)
  BY <1>1, <1>2
<1>8. QED
  BY <1>2, <1>6, <1>7

\* A set comes in order whole, and nothing in it twice.
LEMMA KeysAre ==
  ASSUME NEW S, IsFiniteSet(S)
  PROVE  /\ SetToSeq(S) \in Seq(S)
         /\ S = {SetToSeq(S)[i] : i \in DOMAIN SetToSeq(S)}
         /\ \A i, j \in 1..Len(SetToSeq(S)) : SetToSeq(S)[i] = SetToSeq(S)[j] => i = j
<1> DEFINE keys == SetToSeq(S)
           n == Cardinality(S)
<1>1. n \in Nat /\ ExistsBijection(1..n, S)
  BY FS_CardinalityType
<1>2. \E f \in [1..n -> S] : IsInjective(f)
  BY <1>1 DEF ExistsBijection, Bijection, Injection
<1>3. keys \in [1..n -> S] /\ IsInjective(keys)
  BY <1>2 DEF SetToSeq
<1> HIDE DEF keys
<1>4. keys \in SetToSeqs(S)
  <2>1. \A i, j \in 1..n : keys[i] = keys[j] => i = j
    BY <1>3 DEF IsInjective
  <2>2. QED
    BY <1>3, <2>1 DEF SetToSeqs
<1>5. keys \in Seq(S) /\ S = {keys[i] : i \in DOMAIN keys}
  BY <1>4, OrderOf
<1>6. \A i, j \in 1..Len(keys) : keys[i] = keys[j] => i = j
  BY <1>1, <1>3 DEF IsInjective
<1>7. QED
  BY <1>5, <1>6 DEF keys

LEMMA CharacterTexts ==
  /\ <<"=">> \in Text /\ <<Quote>> \in Text /\ <<NL>> \in Text /\ <<>> \in Text
  /\ <<"[">> \in Text /\ <<"]", NL>> \in Text
<1>1. "=" \in Chars /\ Quote \in Chars /\ NL \in Chars /\ "[" \in Chars /\ "]" \in Chars
  BY CharsAssumption
<1>2. \A x, y \in Chars : <<x>> \in Seq(Chars) /\ <<x, y>> \in Seq(Chars)
  OBVIOUS
<1>3. <<>> \in Seq(Chars)
  BY EmptySeq
<1>4. QED
  BY <1>1, <1>2, <1>3 DEF Text

LEMMA JoinIsText == \A s, t \in Text : s \o t \in Text
BY ConcatProperties DEF Text

\* s is how t begins.
Begins(s, t) == Len(s) <= Len(t) /\ \A i \in 1..Len(s) : s[i] = t[i]

LEMMA BeginsJoined ==
  ASSUME NEW s \in Text, NEW t \in Text, NEW u \in Text, Begins(s, t)
  PROVE  Begins(s, t \o u)
<1>1. /\ Len(s) \in Nat /\ Len(t) \in Nat /\ Len(u) \in Nat
      /\ Len(t \o u) = Len(t) + Len(u)
      /\ \A i \in 1..(Len(t) + Len(u)) : (t \o u)[i] = IF i <= Len(t) THEN t[i] ELSE u[i - Len(t)]
  BY ConcatProperties DEF Text
<1>2. Len(s) <= Len(t)
  BY DEF Begins
<1>3. ASSUME NEW i \in 1..Len(s) PROVE s[i] = (t \o u)[i]
  <2>1. i \in 1..(Len(t) + Len(u)) /\ i <= Len(t)
    BY <1>1, <1>2
  <2>2. QED
    BY <1>1, <2>1 DEF Begins
<1>4. QED
  BY <1>1, <1>2, <1>3 DEF Begins

\* Texts joined one after the other; FlattenSeq is what comes out last.
JoinedAt(ss, f, i) == IF i = 1 THEN ss[i] ELSE f[i - 1] \o ss[i]
Joined(ss) == CHOOSE f : f = [i \in 1..Len(ss) |-> JoinedAt(ss, f, i)]
Upto(ss, n) == IF n = 0 THEN <<>> ELSE Joined(ss)[n]

LEMMA FlattenIs ==
  ASSUME NEW ss \in Seq(Text)
  PROVE  FlattenSeq(ss) = Upto(ss, Len(ss))
<1>1. FlattenSeq(ss) = IF Len(ss) = 0 THEN ss ELSE Joined(ss)[Len(ss)]
  BY DEF FlattenSeq, Joined, JoinedAt
<1>2. Len(ss) = 0 => ss = <<>>
  BY EmptySeq
<1>3. QED
  BY <1>1, <1>2 DEF Upto

LEMMA JoinedIs ==
  ASSUME NEW ss \in Seq(Text)
  PROVE  \A i \in 1..Len(ss) : Joined(ss)[i] = JoinedAt(ss, Joined(ss), i)
<1> DEFINE Joins(n, f) == f = [i \in 1..n |-> JoinedAt(ss, f, i)]
           T == {n \in Nat : ~\E f : Joins(n, f)}
<1>1. T = {}
  <2> SUFFICES ASSUME T # {} PROVE FALSE
    OBVIOUS
  <2>1. PICK n \in T : \A m \in T : n <= m
    BY Least
  <2>2. CASE n = 0
    <3> DEFINE g == [i \in 1..0 |-> 0]
    <3>1. g = [i \in 1..0 |-> JoinedAt(ss, g, i)]
      OBVIOUS
    <3>2. Joins(0, g)
      BY <3>1
    <3>3. QED
      BY <2>2, <3>2
  <2>3. CASE n # 0
    <3>1. n - 1 \in Nat /\ n - 1 \notin T
      BY <2>1, <2>3
    <3>2. PICK f : Joins(n - 1, f)
      BY <3>1
    <3> DEFINE g == [i \in 1..n |-> IF i = n THEN JoinedAt(ss, f, n) ELSE f[i]]
    <3>3. ASSUME NEW i \in 1..n PROVE g[i] = JoinedAt(ss, g, i)
      <4>1. i # 1 => i - 1 \in 1..n /\ i - 1 # n
        OBVIOUS
      <4>2. i # 1 => g[i - 1] = f[i - 1]
        BY <4>1
      <4>3. JoinedAt(ss, f, i) = JoinedAt(ss, g, i)
        <5> HIDE DEF g
        <5> QED
          BY <4>2 DEF JoinedAt
      <4>4. g[i] = JoinedAt(ss, f, i)
        <5>1. CASE i = n
          BY <5>1
        <5>2. CASE i # n
          <6>1. i \in 1..(n - 1)
            BY <5>2
          <6>2. f[i] = JoinedAt(ss, f, i)
            BY <3>2, <6>1
          <6>3. QED
            BY <5>2, <6>2
        <5>3. QED
          BY <5>1, <5>2
      <4>5. QED
        BY <4>3, <4>4
    <3>4. g = [i \in 1..n |-> g[i]]
      OBVIOUS
    <3>5. Joins(n, g)
      <4> HIDE DEF g
      <4> QED
        BY <3>3, <3>4
    <3>6. QED
      BY <2>1, <3>5
  <2>4. QED
    BY <2>2, <2>3
<1>2. \E f : f = [i \in 1..Len(ss) |-> JoinedAt(ss, f, i)]
  BY <1>1
<1>3. Joined(ss) = [i \in 1..Len(ss) |-> JoinedAt(ss, Joined(ss), i)]
  BY <1>2 DEF Joined
<1>4. QED
  BY <1>3

\* One more text is appended to those that are joined.
LEMMA UptoIs ==
  ASSUME NEW ss \in Seq(Text)
  PROVE  /\ Upto(ss, 0) = <<>>
         /\ \A n \in 1..Len(ss) : Upto(ss, n) = Upto(ss, n - 1) \o ss[n]
         /\ \A n \in 0..Len(ss) : Upto(ss, n) \in Text
<1>1. Upto(ss, 0) = <<>>
  BY DEF Upto
<1>2. ASSUME NEW n \in 1..Len(ss) PROVE Upto(ss, n) = Upto(ss, n - 1) \o ss[n]
  <2>1. Joined(ss)[n] = JoinedAt(ss, Joined(ss), n)
    BY JoinedIs
  <2>2. CASE n = 1
    <3>1. ss[1] \in Seq(Chars)
      BY <2>2, ElementOfSeq DEF Text
    <3>2. Upto(ss, 1) = ss[1]
      BY <2>1, <2>2 DEF Upto, JoinedAt
    <3>3. QED
      BY <1>1, <2>2, <3>1, <3>2, ConcatEmptySeq
  <2>3. CASE n # 1
    <3>1. n # 0 /\ n - 1 # 0
      BY <2>3
    <3>2. Upto(ss, n) = Joined(ss)[n] /\ Upto(ss, n - 1) = Joined(ss)[n - 1]
      BY <3>1 DEF Upto
    <3>3. QED
      BY <2>1, <2>3, <3>2 DEF JoinedAt
  <2>4. QED
    BY <2>2, <2>3
<1> DEFINE T == {n \in Nat : n \in 0..Len(ss) /\ Upto(ss, n) \notin Text}
<1>3. T = {}
  <2> SUFFICES ASSUME T # {} PROVE FALSE
    OBVIOUS
  <2>1. PICK n \in T : \A m \in T : n <= m
    BY Least
  <2>2. n \in Nat /\ n \in 0..Len(ss) /\ Upto(ss, n) \notin Text
    OBVIOUS
  <2>3. n # 0
    BY <1>1, <2>2, CharacterTexts
  <2>4. n - 1 \in Nat /\ n - 1 \notin T /\ n - 1 \in 0..Len(ss)
    BY <2>1, <2>2, <2>3
  <2>5. Upto(ss, n - 1) \in Text
    BY <2>4
  <2>6. n \in 1..Len(ss)
    BY <2>2, <2>3
  <2>7. ss[n] \in Text /\ Upto(ss, n) = Upto(ss, n - 1) \o ss[n]
    BY <1>2, <2>6, ElementOfSeq
  <2>8. QED
    BY <2>2, <2>5, <2>7, JoinIsText
<1>4. \A n \in 0..Len(ss) : Upto(ss, n) \in Text
  BY <1>3
<1>5. QED
  BY <1>1, <1>2, <1>4

\* What is joined first is how the whole begins.
LEMMA UptoGrows ==
  ASSUME NEW ss \in Seq(Text), NEW n \in 0..Len(ss)
  PROVE  Begins(Upto(ss, n), Upto(ss, Len(ss)))
<1> DEFINE T == {m \in Nat : m \in n..Len(ss) /\ ~Begins(Upto(ss, n), Upto(ss, m))}
<1>1. Len(ss) \in Nat /\ n \in Nat
  OBVIOUS
<1>2. T = {}
  <2> SUFFICES ASSUME T # {} PROVE FALSE
    OBVIOUS
  <2>1. PICK m \in T : \A l \in T : m <= l
    BY Least
  <2>2. m \in Nat /\ m \in n..Len(ss) /\ ~Begins(Upto(ss, n), Upto(ss, m))
    OBVIOUS
  <2>3. Upto(ss, n) \in Text
    BY UptoIs
  <2>4. m # n
    BY <2>2, <2>3 DEF Begins, Text
  <2>5. m - 1 \in Nat /\ m - 1 \in n..Len(ss) /\ m - 1 \notin T /\ m \in 1..Len(ss)
    BY <1>1, <2>1, <2>2, <2>4
  <2>6. Begins(Upto(ss, n), Upto(ss, m - 1))
    BY <2>5
  <2>7. m - 1 \in 0..Len(ss) /\ m \in 1..Len(ss)
    BY <1>1, <2>5
  <2>8. /\ Upto(ss, m) = Upto(ss, m - 1) \o ss[m]
        /\ Upto(ss, m - 1) \in Text /\ ss[m] \in Text
    BY <2>7, UptoIs, ElementOfSeq
  <2>9. Begins(Upto(ss, n), Upto(ss, m))
    BY <2>3, <2>6, <2>8, BeginsJoined
  <2>10. QED
    BY <2>2, <2>9
<1>3. Len(ss) \in n..Len(ss)
  BY <1>1
<1>4. QED
  BY <1>1, <1>2, <1>3

-----------------------------------------------------------------------------
(* What is printed is a text *)

LEMMA PairsAreText ==
  ASSUME NEW table, IsTable(table)
  PROVE  PairsText(table) \in Text
<1> DEFINE keys == SetToSeq(DOMAIN table)
           ss == [i \in DOMAIN keys |-> PairText(keys[i], table[keys[i]])]
<1>1. keys \in Seq(DOMAIN table)
  BY KeysAre DEF IsTable
<1>2. ASSUME NEW k \in Text, NEW v \in Text PROVE PairText(k, v) \in Text
  <2>1. <<Quote>> \o v \o <<Quote>> \in Text
    BY CharacterTexts, JoinIsText
  <2> DEFINE w == IF NeedsQuotes(v) THEN <<Quote>> \o v \o <<Quote>> ELSE v
  <2>2. w \in Text
    BY <2>1
  <2>3. PairText(k, v) = k \o <<"=">> \o w \o <<NL>>
    BY DEF PairText
  <2> HIDE DEF w
  <2>4. k \o <<"=">> \in Text
    BY CharacterTexts, JoinIsText
  <2>5. k \o <<"=">> \o w \in Text
    BY <2>2, <2>4, JoinIsText
  <2>6. QED
    BY <2>3, <2>5, CharacterTexts, JoinIsText
<1> HIDE DEF keys
<1>3. \A i \in 1..Len(keys) : keys[i] \in DOMAIN table
  BY <1>1, ElementOfSeq
<1>4. \A i \in 1..Len(keys) : PairText(keys[i], table[keys[i]]) \in Text
  BY <1>2, <1>3 DEF IsTable
<1>5. ss \in Seq(Text)
  BY <1>1, <1>4
<1>6. PairsText(table) = FlattenSeq(ss)
  BY DEF PairsText, keys
<1> HIDE DEF ss
<1>7. Len(ss) \in 0..Len(ss)
  BY <1>5
<1>8. QED
  BY <1>5, <1>6, <1>7, FlattenIs, UptoIs

LEMMA SectionTextIsText ==
  ASSUME NEW n \in Text, NEW table, IsTable(table)
  PROVE  SectionText(n, table) \in Text
<1>1. <<"[">> \o n \in Text
  BY CharacterTexts, JoinIsText
<1>2. HeaderText(n) \in Text
  BY <1>1, CharacterTexts, JoinIsText DEF HeaderText
<1>3. QED
  BY <1>2, PairsAreText, JoinIsText DEF SectionText

\* What ini_save prints, section by section.
Parts(c, order) == [i \in DOMAIN order |-> Printed(c, order, i)]

LEMMA PartsAre ==
  ASSUME NEW c, IsContext(c), NEW order \in Seq(DOMAIN c)
  PROVE  /\ Parts(c, order) \in Seq(Text) /\ Len(Parts(c, order)) = Len(order)
         /\ \A i \in 1..Len(order) : Parts(c, order)[i] = Printed(c, order, i)
         /\ SavedText(c, order) = Upto(Parts(c, order), Len(order))
         /\ SavedText(c, order) \in Text
<1>1. ASSUME NEW i \in 1..Len(order) PROVE Printed(c, order, i) \in Text
  <2> DEFINE n == order[i]
  <2>1. n \in DOMAIN c
    BY ElementOfSeq
  <2>2. n \in Text /\ IsTable(c[n])
    BY <2>1 DEF IsContext
  <2>3. PairsText(c[n]) \in Text /\ SectionText(n, c[n]) \in Text
    BY <2>2, PairsAreText, SectionTextIsText
  <2>4. /\ (IF n = Global THEN PairsText(c[n]) ELSE SectionText(n, c[n])) \in Text
        /\ \A first \in BOOLEAN : (IF first THEN <<>> ELSE <<NL>>) \in Text
    BY <2>3, CharacterTexts
  <2> DEFINE first == \A j \in 1..(i - 1) : SkipsSection(order[j], c[order[j]])
             body == IF n = Global THEN PairsText(c[n]) ELSE SectionText(n, c[n])
             gap == IF first THEN <<>> ELSE <<NL>>
  <2>5. Printed(c, order, i) = IF SkipsSection(n, c[n]) THEN <<>> ELSE gap \o body
    BY DEF Printed
  <2>6. gap \in Text /\ body \in Text
    BY <2>4, CharacterTexts
  <2> HIDE DEF gap, body
  <2>7. QED
    BY <2>5, <2>6, CharacterTexts, JoinIsText
<1>2. Parts(c, order) \in Seq(Text) /\ Len(Parts(c, order)) = Len(order)
  BY <1>1 DEF Parts
<1>3. SavedText(c, order) = FlattenSeq(Parts(c, order))
  BY DEF SavedText, Parts
<1>4. SavedText(c, order) = Upto(Parts(c, order), Len(order))
  BY <1>2, <1>3, FlattenIs
<1>5. Len(order) \in 0..Len(Parts(c, order))
  BY <1>2
<1>6. SavedText(c, order) \in Text
  BY <1>2, <1>4, <1>5, UptoIs
<1>7. \A i \in 1..Len(order) : Parts(c, order)[i] = Printed(c, order, i)
  BY DEF Parts
<1>8. QED
  BY <1>2, <1>4, <1>6, <1>7

-----------------------------------------------------------------------------
(* Texts joined: fgets delivers what it delivered of each *)

-----------------------------------------------------------------------------
(* The pieces of joined texts *)

\* Where a piece ends: before the next start, or with the text.
LEMMA EndIsThere ==
  ASSUME NEW text \in Text, NEW i \in Starts(text)
  PROVE  EndOf(text, i) = Len(text) \/ EndOf(text, i) + 1 \in Starts(text)
<1> DEFINE S == {j \in Starts(text) : j > i}
<1>1. Len(text) \in Nat /\ Starts(text) \subseteq 1..Len(text)
  BY DEF Starts, Text
<1>2. CASE S = {}
  BY <1>2 DEF EndOf
<1>3. CASE S # {}
  <2>1. PICK j \in S : \A l \in S : j <= l
    <3>1. S \subseteq Nat
      BY <1>1
    <3> HIDE DEF S
    <3> QED
      BY <1>3, <3>1, Least
  <2> DEFINE e == CHOOSE x \in Starts(text) : x > i /\ \A l \in Starts(text) : l > i => x <= l
  <2>2. e \in Starts(text) /\ e > i /\ \A l \in Starts(text) : l > i => e <= l
    BY <2>1
  <2>3. EndOf(text, i) = e - 1
    BY <1>3 DEF EndOf
  <2> HIDE DEF e
  <2>4. QED
    BY <1>1, <2>2, <2>3
<1>4. QED
  BY <1>2, <1>3

\* And only there.
LEMMA EndIsOne ==
  ASSUME NEW text \in Text, NEW i \in Starts(text), NEW e \in i..Len(text),
         \A j \in (i + 1)..e : j \notin Starts(text),
         e = Len(text) \/ e + 1 \in Starts(text)
  PROVE  EndOf(text, i) = e
<1>1. Len(text) \in Nat /\ Starts(text) \subseteq 1..Len(text)
  BY DEF Starts, Text
<1> DEFINE d == EndOf(text, i)
<1>2. /\ d \in i..Len(text) /\ \A j \in (i + 1)..d : j \notin Starts(text)
      /\ d = Len(text) \/ d + 1 \in Starts(text)
  BY EndIs, EndIsThere
<1> HIDE DEF d
<1>3. i \in Nat
  BY <1>1
<1>4. ~(d < e)
  <2> SUFFICES ASSUME d < e PROVE FALSE
    OBVIOUS
  <2>1. d + 1 \in (i + 1)..e /\ d + 1 \in Starts(text)
    BY <1>1, <1>2, <1>3
  <2>2. QED
    BY <2>1
<1>5. ~(e < d)
  <2> SUFFICES ASSUME e < d PROVE FALSE
    OBVIOUS
  <2>1. e + 1 \in (i + 1)..d /\ e + 1 \in Starts(text)
    BY <1>1, <1>2, <1>3
  <2>2. QED
    BY <1>2, <2>1
<1>6. d = e
  BY <1>1, <1>2, <1>3, <1>4, <1>5
<1>7. QED
  BY <1>6 DEF d

\* How many of the numbers in S come up to i.
Rank(S, i) == Cardinality({j \in S : j <= i})

\* The ranks are the numbers up to how many there are, and no two are the same.
LEMMA RankIs ==
  ASSUME NEW N \in Nat, NEW S \in SUBSET (1..N)
  PROVE  /\ Cardinality(S) \in Nat
         /\ \A i \in S : Rank(S, i) \in 1..Cardinality(S)
         /\ \A i, j \in S : Rank(S, i) = Rank(S, j) => i = j
<1>1. IsFiniteSet(S) /\ Cardinality(S) \in Nat
  <2>1. IsFiniteSet(1..N)
    BY FS_Interval
  <2>2. IsFiniteSet(S)
    BY <2>1, FS_Subset
  <2>3. QED
    BY <2>2, FS_CardinalityType
<1> DEFINE U(i) == {j \in S : j <= i}
<1>2. ASSUME NEW i \in S PROVE Cardinality(U(i)) \in 1..Cardinality(S) /\ IsFiniteSet(U(i))
  <2>1. U(i) \subseteq S /\ i \in U(i)
    OBVIOUS
  <2> HIDE DEF U
  <2>2. IsFiniteSet(U(i)) /\ Cardinality(U(i)) <= Cardinality(S) /\ Cardinality(U(i)) \in Nat
    BY <1>1, <2>1, FS_Subset, FS_CardinalityType
  <2>3. Cardinality(U(i)) # 0
    BY <2>1, <2>2, FS_EmptySet
  <2>4. QED
    BY <1>1, <2>2, <2>3
<1>3. ASSUME NEW i \in S, NEW j \in S, i < j PROVE Cardinality(U(i)) < Cardinality(U(j))
  <2>1. \A x \in S : x \in Nat
    OBVIOUS
  <2>2. i \in Nat /\ j \in Nat /\ \A x \in S : x <= i => x <= j
    BY <1>3, <2>1
  <2>3. U(i) \subseteq U(j) /\ j \in U(j) /\ j \notin U(i)
    <3>1. j <= j /\ ~(j <= i)
      BY <1>3, <2>2
    <3>2. U(i) \subseteq U(j)
      BY <2>2
    <3>3. QED
      BY <3>1, <3>2
  <2> HIDE DEF U
  <2>4. U(i) # U(j)
    BY <2>3
  <2>5. Cardinality(U(i)) <= Cardinality(U(j)) /\ Cardinality(U(i)) # Cardinality(U(j))
    BY <1>2, <2>3, <2>4, FS_Subset
  <2>6. QED
    BY <1>1, <1>2, <2>5
<1>4. ASSUME NEW i \in S, NEW j \in S, Cardinality(U(i)) = Cardinality(U(j)) PROVE i = j
  <2> HIDE DEF U
  <2>1. Cardinality(U(i)) \in Nat
    BY <1>1, <1>2
  <2>2. ~(i < j) /\ ~(j < i)
    BY <1>3, <1>4, <2>1
  <2>3. QED
    BY <2>2
<1>5. QED
  BY <1>1, <1>2, <1>4 DEF Rank

\* The piece that begins at i.
LEMMA PieceAt ==
  ASSUME NEW text \in Text
  PROVE  /\ Cardinality(Starts(text)) \in Nat
         /\ Len(Pieces(text)) = Cardinality(Starts(text))
         /\ Pieces(text) \in Seq(Text)
         /\ \A i \in Starts(text) :
              /\ Rank(Starts(text), i) \in 1..Cardinality(Starts(text))
              /\ Pieces(text)[Rank(Starts(text), i)] = SubSeq(text, i, EndOf(text, i))
         /\ \A n \in 1..Cardinality(Starts(text)) : \E i \in Starts(text) : Rank(Starts(text), i) = n
<1> DEFINE S == Starts(text)
           C == Cardinality(S)
<1>1. Len(text) \in Nat /\ S \in SUBSET (1..Len(text))
  BY DEF Starts, Text
<1>2. C \in Nat /\ Pieces(text) = [n \in 1..C |->
                     SubSeq(text, StartOf(text, n), EndOf(text, StartOf(text, n)))]
  BY PieceIs, PiecesAre
<1>3. Pieces(text) \in Seq(Text) /\ Len(Pieces(text)) = C
  <2>1. \A n \in 1..C : Pieces(text)[n] \in Text
    BY PieceIs
  <2> HIDE DEF C
  <2>2. QED
    BY <1>2, <2>1
<1>4. ASSUME NEW i \in S
      PROVE  Rank(S, i) \in 1..C /\ Pieces(text)[Rank(S, i)] = SubSeq(text, i, EndOf(text, i))
  <2> DEFINE n == Rank(S, i)
  <2> HIDE DEF S
  <2>1. n \in 1..C /\ \A j \in S : Rank(S, j) = n => j = i
    BY <1>1, RankIs
  <2>2. StartOf(text, n) = i
    BY <2>1 DEF StartOf, Rank, S
  <2> HIDE DEF n, C
  <2>3. Pieces(text)[n] = SubSeq(text, i, EndOf(text, i))
    BY <1>2, <2>1, <2>2
  <2>4. QED
    BY <2>1, <2>3 DEF n
<1>5. \A n \in 1..C : \E i \in S : Rank(S, i) = n
  BY <1>1, NthExists DEF Rank
<1>6. QED
  BY <1>2, <1>3, <1>4, <1>5

\* A newline is the last character, if there is one.
EndsLine(s) == s # <<>> => s[Len(s)] = NL

\* After a text that ends its last line, columns are counted anew.
LEMMA ColumnJoined ==
  ASSUME NEW s \in Text, NEW t \in Text, EndsLine(s)
  PROVE  /\ \A i \in 0..Len(s) : Column(s \o t)[i] = Column(s)[i]
         /\ \A j \in 1..Len(t) : Column(s \o t)[Len(s) + j] = Column(t)[j]
<1> DEFINE u == s \o t
           T == {i \in Nat : i \in 0..Len(s) /\ Column(u)[i] # Column(s)[i]}
           V == {j \in Nat : j \in 1..Len(t) /\ Column(u)[Len(s) + j] # Column(t)[j]}
<1>1. /\ u \in Text /\ Len(s) \in Nat /\ Len(t) \in Nat /\ Len(u) = Len(s) + Len(t)
      /\ \A i \in 1..Len(s) : u[i] = s[i]
      /\ \A j \in 1..Len(t) : u[Len(s) + j] = t[j]
  <2>1. /\ Len(s) \in Nat /\ Len(t) \in Nat /\ Len(u) = Len(s) + Len(t) /\ u \in Text
        /\ \A i \in 1..(Len(s) + Len(t)) : u[i] = IF i <= Len(s) THEN s[i] ELSE t[i - Len(s)]
    BY ConcatProperties DEF Text
  <2> HIDE DEF u
  <2>2. \A i \in 1..Len(s) : i \in 1..(Len(s) + Len(t)) /\ i <= Len(s)
    BY <2>1
  <2>3. \A j \in 1..Len(t) : /\ Len(s) + j \in 1..(Len(s) + Len(t)) /\ ~(Len(s) + j <= Len(s))
                            /\ Len(s) + j - Len(s) = j
    BY <2>1
  <2>4. QED
    BY <2>1, <2>2, <2>3
<1>2. /\ \A i \in 0..Len(u) : Column(u)[i] = ColumnAt(u, Column(u), i)
      /\ \A i \in 0..Len(s) : Column(s)[i] = ColumnAt(s, Column(s), i)
      /\ \A i \in 0..Len(t) : Column(t)[i] = ColumnAt(t, Column(t), i)
  <2> HIDE DEF u
  <2> QED
    BY <1>1, ColumnIs
<1> HIDE DEF u
<1>3. T = {}
  <2> SUFFICES ASSUME T # {} PROVE FALSE
    OBVIOUS
  <2>1. PICK i \in T : \A l \in T : i <= l
    BY Least
  <2>2. i \in Nat /\ i \in 0..Len(s) /\ i \in 0..Len(u) /\ Column(u)[i] # Column(s)[i]
    BY <1>1
  <2>3. i # 0
    BY <1>2, <2>2 DEF ColumnAt
  <2>4. i - 1 \in Nat /\ i - 1 \in 0..Len(s) /\ i - 1 \notin T
    BY <2>1, <2>2, <2>3
  <2>5. Column(u)[i - 1] = Column(s)[i - 1]
    BY <2>4
  <2>6. i # 1 => u[i - 1] = s[i - 1]
    BY <1>1, <2>4
  <2>7. ColumnAt(u, Column(u), i) = ColumnAt(s, Column(s), i)
    BY <2>5, <2>6 DEF ColumnAt
  <2>8. QED
    BY <1>2, <2>2, <2>7
<1>4. V = {}
  <2> SUFFICES ASSUME V # {} PROVE FALSE
    OBVIOUS
  <2>1. PICK j \in V : \A l \in V : j <= l
    BY Least
  <2>2. /\ j \in Nat /\ j \in 1..Len(t) /\ j \in 0..Len(t) /\ Len(s) + j \in 0..Len(u)
        /\ Column(u)[Len(s) + j] # Column(t)[j]
    BY <1>1
  <2>3. /\ Column(u)[Len(s) + j] = ColumnAt(u, Column(u), Len(s) + j)
        /\ Column(t)[j] = ColumnAt(t, Column(t), j)
    BY <1>2, <2>2
  <2>4. CASE j = 1
    <3>1. s # <<>> => Len(s) \in 1..Len(s) /\ s[Len(s)] = NL
      BY <1>1, EmptySeq DEF EndsLine, Text
    <3>2. s = <<>> => Len(s) = 0
      BY EmptySeq
    <3>3. Len(s) + j = 1 \/ u[Len(s) + j - 1] = NL
      BY <1>1, <2>4, <3>1, <3>2
    <3>4. QED
      BY <1>1, <2>2, <2>3, <2>4, <3>3 DEF ColumnAt
  <2>5. CASE j # 1
    <3>1. j - 1 \in Nat /\ j - 1 \in 1..Len(t) /\ j - 1 \notin V
      BY <2>1, <2>2, <2>5
    <3>2. Column(u)[Len(s) + (j - 1)] = Column(t)[j - 1]
      BY <3>1
    <3>3. u[Len(s) + (j - 1)] = t[j - 1]
      BY <1>1, <3>1
    <3>4. Len(s) + (j - 1) = Len(s) + j - 1 /\ Len(s) + j # 0 /\ Len(s) + j # 1 /\ j # 0
      BY <1>1, <2>2, <2>5
    <3>5. ColumnAt(u, Column(u), Len(s) + j) = ColumnAt(t, Column(t), j)
      BY <2>5, <3>2, <3>3, <3>4 DEF ColumnAt
    <3>6. QED
      BY <2>2, <2>3, <3>5
  <2>6. QED
    BY <2>4, <2>5
<1>5. ASSUME NEW i \in 0..Len(s) PROVE Column(u)[i] = Column(s)[i]
  <2>1. i \in Nat
    BY <1>1
  <2>2. QED
    BY <1>3, <2>1
<1>6. ASSUME NEW j \in 1..Len(t) PROVE Column(u)[Len(s) + j] = Column(t)[j]
  <2>1. j \in Nat
    BY <1>1
  <2>2. QED
    BY <1>4, <2>1
<1>7. QED
  BY <1>5, <1>6 DEF u

\* So the pieces start where they started in the two texts.
LEMMA StartsJoined ==
  ASSUME NEW s \in Text, NEW t \in Text, EndsLine(s)
  PROVE  /\ \A i \in 1..Len(s) : i \in Starts(s \o t) <=> i \in Starts(s)
         /\ \A j \in 1..Len(t) : Len(s) + j \in Starts(s \o t) <=> j \in Starts(t)
         /\ \A i \in Starts(s \o t) :
              i \in 1..Len(s) \/ \E j \in 1..Len(t) : i = Len(s) + j
<1>1. Len(s) \in Nat /\ Len(t) \in Nat /\ Len(s \o t) = Len(s) + Len(t)
  BY ConcatProperties DEF Text
<1>2. ASSUME NEW i \in 1..Len(s) PROVE i \in Starts(s \o t) <=> i \in Starts(s)
  <2>1. i \in 1..Len(s \o t) /\ i \in 0..Len(s)
    BY <1>1
  <2>2. QED
    BY <2>1, ColumnJoined DEF Starts
<1>3. ASSUME NEW j \in 1..Len(t) PROVE Len(s) + j \in Starts(s \o t) <=> j \in Starts(t)
  <2>1. Len(s) + j \in 1..Len(s \o t)
    BY <1>1
  <2>2. QED
    BY <2>1, ColumnJoined DEF Starts
<1>4. ASSUME NEW i \in Starts(s \o t)
      PROVE  i \in 1..Len(s) \/ \E j \in 1..Len(t) : i = Len(s) + j
  <2>1. i \in 1..(Len(s) + Len(t))
    BY <1>1 DEF Starts
  <2>2. CASE i <= Len(s)
    BY <2>1, <2>2
  <2>3. CASE i > Len(s)
    <3>1. i - Len(s) \in 1..Len(t) /\ i = Len(s) + (i - Len(s))
      BY <1>1, <2>1, <2>3
    <3>2. QED
      BY <3>1
  <2>4. QED
    BY <1>1, <2>1, <2>2, <2>3
<1>5. QED
  BY <1>2, <1>3, <1>4

\* Numbers moved up by n are as many.
LEMMA ShiftedAsMany ==
  ASSUME NEW N \in Nat, NEW B \in SUBSET (1..N), NEW n \in Nat
  PROVE  IsFiniteSet({n + x : x \in B}) /\ Cardinality({n + x : x \in B}) = Cardinality(B)
<1> DEFINE f == [x \in B |-> n + x]
           C == {n + x : x \in B}
<1>1. IsFiniteSet(B)
  <2>1. IsFiniteSet(1..N)
    BY FS_Interval
  <2>2. QED
    BY <2>1, FS_Subset
<1>2. \A x, y \in B : n + x = n + y => x = y
  <2>1. \A x \in B : x \in Nat
    OBVIOUS
  <2>2. QED
    BY <2>1
<1>3. f \in [B -> C] /\ \A y \in C : \E x \in B : f[x] = y
  OBVIOUS
<1>4. f \in Bijection(B, C)
  BY <1>2, <1>3 DEF Bijection, Injection, Surjection, IsInjective
<1>5. ExistsBijection(B, C)
  BY <1>4 DEF ExistsBijection
<1> HIDE DEF C
<1>6. QED
  BY <1>1, <1>5, FS_Bijection DEF C

\* The pieces of the second text come after those of the first,
LEMMA RanksJoined ==
  ASSUME NEW s \in Text, NEW t \in Text, EndsLine(s)
  PROVE  /\ Cardinality(Starts(s \o t)) = Cardinality(Starts(s)) + Cardinality(Starts(t))
         /\ \A i \in Starts(s) : Rank(Starts(s \o t), i) = Rank(Starts(s), i)
         /\ \A j \in Starts(t) :
              Rank(Starts(s \o t), Len(s) + j) = Cardinality(Starts(s)) + Rank(Starts(t), j)
<1> DEFINE U == Starts(s \o t)
           A == Starts(s)
           B == Starts(t)
           n == Len(s)
<1>1. n \in Nat /\ Len(t) \in Nat /\ A \subseteq 1..n /\ B \subseteq 1..Len(t)
  BY DEF Starts, Text
<1>2. /\ \A i \in 1..n : i \in U <=> i \in A
      /\ \A j \in 1..Len(t) : n + j \in U <=> j \in B
      /\ \A i \in U : i \in 1..n \/ \E j \in 1..Len(t) : i = n + j
  BY StartsJoined
<1> HIDE DEF U, A, B, n
<1>3. IsFiniteSet(A) /\ Cardinality(A) \in Nat
  <2>1. IsFiniteSet(1..n)
    BY <1>1, FS_Interval
  <2>2. IsFiniteSet(A)
    BY <1>1, <2>1, FS_Subset
  <2>3. QED
    BY <2>2, FS_CardinalityType
<1>4. ASSUME NEW C \in SUBSET B
      PROVE  Cardinality(A \cup {n + x : x \in C}) = Cardinality(A) + Cardinality(C)
  <2> DEFINE D == {n + x : x \in C}
  <2>1. IsFiniteSet(D) /\ Cardinality(D) = Cardinality(C)
    BY <1>1, ShiftedAsMany
  <2>2. \A x \in D : ~(x \in A)
    BY <1>1
  <2> HIDE DEF D
  <2>3. A \cap D = {}
    BY <2>2
  <2>4. Cardinality(D) \in Nat /\ Cardinality(A \cap D) = 0
    BY <2>1, <2>3, FS_CardinalityType, FS_EmptySet
  <2>5. Cardinality(A \cup D) = Cardinality(A) + Cardinality(D) - Cardinality(A \cap D)
    BY <1>3, <2>1, FS_Union
  <2>6. QED
    BY <1>3, <2>1, <2>4, <2>5 DEF D
<1>5. Cardinality(U) = Cardinality(A) + Cardinality(B)
  <2>1. U = A \cup {n + x : x \in B}
    BY <1>1, <1>2
  <2>2. QED
    BY <1>4, <2>1
<1>6. ASSUME NEW i \in A PROVE Rank(U, i) = Rank(A, i)
  <2>1. i \in 1..n /\ \A j \in 1..Len(t) : ~(n + j <= i)
    BY <1>1
  <2>2. {x \in U : x <= i} = {x \in A : x <= i}
    BY <1>1, <1>2, <2>1
  <2>3. QED
    BY <2>2 DEF Rank
<1>7. ASSUME NEW j \in B PROVE Rank(U, n + j) = Cardinality(A) + Rank(B, j)
  <2> DEFINE C == {x \in B : x <= j}
  <2>1. \A x \in 1..Len(t) : n + x <= n + j <=> x <= j
    BY <1>1
  <2>2. \A x \in 1..n : x <= n + j
    BY <1>1
  <2>3. {x \in U : x <= n + j} = A \cup {n + x : x \in C}
    BY <1>1, <1>2, <2>1, <2>2
  <2>4. C \in SUBSET B
    OBVIOUS
  <2>5. Cardinality(A \cup {n + x : x \in C}) = Cardinality(A) + Cardinality(C)
    <3> HIDE DEF C
    <3> QED
      BY <1>4, <2>4
  <2>6. QED
    BY <2>3, <2>5 DEF Rank
<1>8. QED
  BY <1>5, <1>6, <1>7 DEF U, A, B, n

\* and end where they ended.
LEMMA EndsJoined ==
  ASSUME NEW s \in Text, NEW t \in Text, EndsLine(s)
  PROVE  /\ \A i \in Starts(s) : EndOf(s \o t, i) = EndOf(s, i)
         /\ \A j \in Starts(t) : EndOf(s \o t, Len(s) + j) = Len(s) + EndOf(t, j)
<1> DEFINE u == s \o t
           n == Len(s)
<1>1. /\ n \in Nat /\ Len(t) \in Nat /\ Len(u) = n + Len(t) /\ u \in Text
      /\ Starts(s) \subseteq 1..n /\ Starts(t) \subseteq 1..Len(t)
  BY ConcatProperties DEF Starts, Text
<1>2. /\ \A i \in 1..n : i \in Starts(u) <=> i \in Starts(s)
      /\ \A j \in 1..Len(t) : n + j \in Starts(u) <=> j \in Starts(t)
      /\ \A i \in Starts(u) : i \in 1..n \/ \E j \in 1..Len(t) : i = n + j
  BY StartsJoined
<1>3. Len(t) # 0 => 1 \in Starts(t)
  <2>1. Len(t) # 0 => 1 \in 1..Len(t) /\ 1 \in 0..Len(t)
    BY <1>1
  <2>2. Len(t) # 0 => Column(t)[1] = ColumnAt(t, Column(t), 1)
    BY <2>1, ColumnIs
  <2>3. QED
    BY <2>1, <2>2 DEF Starts, ColumnAt
<1> HIDE DEF u, n
<1>4. ASSUME NEW i \in Starts(s) PROVE EndOf(u, i) = EndOf(s, i)
  <2> DEFINE e == EndOf(s, i)
  <2>1. /\ e \in i..n /\ \A j \in (i + 1)..e : j \notin Starts(s)
        /\ e = n \/ e + 1 \in Starts(s)
    BY EndIs, EndIsThere DEF n
  <2> HIDE DEF e
  <2>2. i \in 1..n /\ i \in Starts(u) /\ e \in 1..n /\ e \in i..Len(u)
    BY <1>1, <1>2, <2>1
  <2>3. \A j \in (i + 1)..e : j \notin Starts(u)
    <3>1. \A j \in (i + 1)..e : j \in 1..n
      BY <1>1, <2>1, <2>2
    <3>2. QED
      BY <1>2, <2>1, <3>1
  <2>4. e = Len(u) \/ e + 1 \in Starts(u)
    <3>1. CASE e + 1 \in Starts(s)
      BY <1>1, <1>2, <3>1
    <3>2. CASE e = n /\ Len(t) # 0
      <4>1. 1 \in 1..Len(t) /\ 1 \in Starts(t)
        BY <1>1, <1>3, <3>2
      <4>2. QED
        BY <1>2, <3>2, <4>1
    <3>3. CASE e = n /\ Len(t) = 0
      BY <1>1, <3>3
    <3>4. QED
      BY <2>1, <3>1, <3>2, <3>3
  <2>5. EndOf(u, i) = e
    BY <1>1, <2>2, <2>3, <2>4, EndIsOne
  <2>6. QED
    BY <2>5 DEF e
<1>5. ASSUME NEW j \in Starts(t) PROVE EndOf(u, n + j) = n + EndOf(t, j)
  <2> DEFINE e == EndOf(t, j)
             i == n + j
             d == n + e
  <2>1. /\ e \in j..Len(t) /\ \A l \in (j + 1)..e : l \notin Starts(t)
        /\ e = Len(t) \/ e + 1 \in Starts(t)
    BY EndIs, EndIsThere
  <2> HIDE DEF e
  <2>2. j \in 1..Len(t) /\ i \in Starts(u) /\ e \in 1..Len(t) /\ d \in i..Len(u)
    BY <1>1, <1>2, <2>1
  <2>3. \A l \in (i + 1)..d : l \notin Starts(u)
    <3> TAKE l \in (i + 1)..d
    <3>1. l - n \in (j + 1)..e /\ l - n \in 1..Len(t) /\ n + (l - n) = l
      BY <1>1, <2>1, <2>2
    <3>2. QED
      BY <1>2, <2>1, <3>1
  <2>4. d = Len(u) \/ d + 1 \in Starts(u)
    <3>1. CASE e + 1 \in Starts(t)
      <4>1. e + 1 \in 1..Len(t) /\ n + (e + 1) = d + 1
        BY <1>1, <2>2, <3>1
      <4>2. QED
        BY <1>2, <3>1, <4>1
    <3>2. CASE e = Len(t)
      BY <1>1, <3>2
    <3>3. QED
      BY <2>1, <3>1, <3>2
  <2> HIDE DEF i, d
  <2>5. EndOf(u, i) = d
    BY <1>1, <2>2, <2>3, <2>4, EndIsOne
  <2>6. QED
    BY <2>5 DEF e, i, d
<1>6. QED
  BY <1>4, <1>5 DEF u, n

\* If the first text ends its last line, the pieces are those of the first
\* and those of the second.
LEMMA PiecesJoined ==
  ASSUME NEW s \in Text, NEW t \in Text, EndsLine(s)
  PROVE  Pieces(s \o t) = Pieces(s) \o Pieces(t)
<1> DEFINE u == s \o t
           n == Len(s)
           a == Cardinality(Starts(s))
           b == Cardinality(Starts(t))
           ps == Pieces(s)
           qs == Pieces(t)
           rs == Pieces(u)
<1>1. /\ n \in Nat /\ Len(t) \in Nat /\ Len(u) = n + Len(t) /\ u \in Text
      /\ Starts(s) \subseteq 1..n /\ Starts(t) \subseteq 1..Len(t)
      /\ s \in Seq(Chars) /\ t \in Seq(Chars)
  BY ConcatProperties DEF Starts, Text
<1>2. /\ a \in Nat /\ Len(ps) = a /\ ps \in Seq(Text)
      /\ b \in Nat /\ Len(qs) = b /\ qs \in Seq(Text)
      /\ Len(rs) = Cardinality(Starts(u)) /\ rs \in Seq(Text)
  BY <1>1, PieceAt
<1>3. Len(rs) = a + b
  BY <1>2, RanksJoined
<1>4. ASSUME NEW m \in 1..a PROVE rs[m] = ps[m]
  <2>1. PICK i \in Starts(s) : Rank(Starts(s), i) = m
    BY PieceAt
  <2>2. ps[m] = SubSeq(s, i, EndOf(s, i))
    BY <2>1, PieceAt
  <2>3. i \in Starts(u) /\ i \in 1..n
    BY <1>1, StartsJoined
  <2>4. rs[Rank(Starts(u), i)] = SubSeq(u, i, EndOf(u, i))
    <3> HIDE DEF u
    <3> QED
      BY <1>1, <2>3, PieceAt
  <2>5. Rank(Starts(u), i) = m /\ EndOf(u, i) = EndOf(s, i)
    BY <2>1, RanksJoined, EndsJoined
  <2>6. EndOf(s, i) \in 1..n
    <3>1. EndOf(s, i) \in i..n
      BY EndIs
    <3>2. QED
      BY <2>3, <3>1
  <2>7. SubSeq(u, i, EndOf(s, i)) = SubSeq(s, i, EndOf(s, i))
    BY <1>1, <2>3, <2>6, SubSeqOfConcat1
  <2>8. QED
    BY <2>2, <2>4, <2>5, <2>7
<1>5. ASSUME NEW m \in 1..b PROVE rs[a + m] = qs[m]
  <2>1. PICK j \in Starts(t) : Rank(Starts(t), j) = m
    BY PieceAt
  <2>2. qs[m] = SubSeq(t, j, EndOf(t, j))
    BY <2>1, PieceAt
  <2>3. n + j \in Starts(u) /\ j \in 1..Len(t)
    BY <1>1, StartsJoined
  <2>4. rs[Rank(Starts(u), n + j)] = SubSeq(u, n + j, EndOf(u, n + j))
    <3> HIDE DEF u
    <3> QED
      BY <1>1, <2>3, PieceAt
  <2>5. Rank(Starts(u), n + j) = a + m /\ EndOf(u, n + j) = n + EndOf(t, j)
    BY <2>1, RanksJoined, EndsJoined
  <2>6. EndOf(t, j) \in 1..Len(t)
    <3>1. EndOf(t, j) \in j..Len(t)
      BY EndIs
    <3>2. QED
      BY <2>3, <3>1
  <2>7. SubSeq(u, n + j, n + EndOf(t, j)) = SubSeq(t, j, EndOf(t, j))
    <3> DEFINE x == n + j
               y == n + EndOf(t, j)
    <3>1. x \in (n + 1)..(n + Len(t)) /\ y \in (n + 1)..(n + Len(t))
      BY <1>1, <2>3, <2>6
    <3>2. x - n = j /\ y - n = EndOf(t, j)
      BY <1>1, <2>3, <2>6
    <3> HIDE DEF x, y
    <3>3. SubSeq(u, x, y) = SubSeq(t, x - n, y - n)
      BY <1>1, <3>1, SubSeqOfConcat2
    <3>4. QED
      BY <3>2, <3>3 DEF x, y
  <2>8. QED
    BY <2>2, <2>4, <2>5, <2>7
<1> HIDE DEF a, b, ps, qs, rs, u
<1>6. /\ ps \o qs \in Seq(Text) /\ Len(ps \o qs) = a + b
      /\ \A i \in 1..(a + b) : (ps \o qs)[i] = IF i <= a THEN ps[i] ELSE qs[i - a]
  BY <1>2, ConcatProperties
<1>7. ASSUME NEW i \in 1..Len(rs) PROVE rs[i] = (ps \o qs)[i]
  <2>1. i \in 1..(a + b)
    BY <1>3
  <2>2. CASE i <= a
    BY <1>2, <1>4, <1>6, <2>1, <2>2
  <2>3. CASE i > a
    <3>1. i - a \in 1..b /\ a + (i - a) = i /\ ~(i <= a)
      BY <1>2, <2>1, <2>3
    <3>2. QED
      BY <1>5, <1>6, <2>1, <3>1
  <2>4. QED
    BY <1>2, <2>1, <2>2, <2>3
<1>8. rs = ps \o qs
  BY <1>2, <1>3, <1>6, <1>7, SeqEqual
<1>9. QED
  BY <1>8 DEF u, ps, qs, rs

-----------------------------------------------------------------------------
(* The pieces of one line *)

\* A line with its newline, and no more.
OneLine(r) ==
  r \in Text /\ r # <<>> /\ r[Len(r)] = NL /\ \A i \in 1..(Len(r) - 1) : r[i] # NL

\* The columns of a line are its places, as far as the buffer goes.
LEMMA LineColumns ==
  ASSUME NEW r, OneLine(r)
  PROVE  \A i \in 1..Len(r) : i < LineMax => Column(r)[i] = i
<1> DEFINE T == {i \in Nat : i \in 1..Len(r) /\ i < LineMax /\ Column(r)[i] # i}
<1>1. r \in Text /\ Len(r) \in Nat
  BY DEF OneLine, Text
<1>2. T = {}
  <2> SUFFICES ASSUME T # {} PROVE FALSE
    OBVIOUS
  <2>1. PICK i \in T : \A l \in T : i <= l
    BY Least
  <2>2. i \in Nat /\ i \in 1..Len(r) /\ i < LineMax /\ Column(r)[i] # i
    OBVIOUS
  <2>3. i \in 0..Len(r)
    BY <1>1, <2>2
  <2>4. Column(r)[i] = ColumnAt(r, Column(r), i)
    BY <1>1, <2>3, ColumnIs
  <2>5. i # 1 /\ i # 0
    BY <2>2, <2>4 DEF ColumnAt
  <2>6. i - 1 \in Nat /\ i - 1 \in 1..(Len(r) - 1) /\ i - 1 \in 1..Len(r) /\ i - 1 < LineMax - 1
    BY <1>1, <2>2, <2>5, LineMaxAssumption
  <2>7. i - 1 \notin T
    BY <2>1, <2>6
  <2>8. Column(r)[i - 1] = i - 1
    BY <2>6, <2>7, LineMaxAssumption
  <2>9. r[i - 1] # NL
    BY <2>6 DEF OneLine
  <2>10. ColumnAt(r, Column(r), i) = i
    BY <2>2, <2>5, <2>6, <2>8, <2>9, LineMaxAssumption DEF ColumnAt
  <2>11. QED
    BY <2>2, <2>4, <2>10
<1>3. QED
  BY <1>1, <1>2

\* The first piece of a line begins with it.
LEMMA FirstPiece ==
  ASSUME NEW r, OneLine(r)
  PROVE  /\ 1 \in Starts(r) /\ Rank(Starts(r), 1) = 1
         /\ 1 \in 1..Len(Pieces(r))
         /\ Pieces(r)[1] = SubSeq(r, 1, EndOf(r, 1))
<1>1. r \in Text /\ Len(r) \in Nat /\ Len(r) # 0
  BY EmptySeq DEF OneLine, Text
<1>2. 1 \in 1..Len(r) /\ 1 < LineMax
  BY <1>1, LineMaxAssumption
<1>3. 1 \in Starts(r)
  BY <1>2, LineColumns DEF Starts
<1>4. {j \in Starts(r) : j <= 1} = {1}
  <2>1. \A j \in Starts(r) : j \in 1..Len(r)
    BY DEF Starts
  <2>2. \A j \in Starts(r) : j <= 1 => j = 1
    BY <1>1, <2>1
  <2>3. QED
    BY <1>3, <2>2
<1>5. Rank(Starts(r), 1) = 1
  BY <1>4, FS_Singleton DEF Rank
<1>6. QED
  BY <1>1, <1>3, <1>5, PieceAt

\* A line that fits into the buffer is one piece.
LEMMA ShortLine ==
  ASSUME NEW r, OneLine(r), Len(r) < LineMax
  PROVE  Pieces(r) = <<r>>
<1>1. r \in Text /\ r \in Seq(Chars) /\ Len(r) \in Nat
  BY DEF OneLine, Text
<1>2. Starts(r) = {1}
  <2>1. \A i \in 1..Len(r) : i < LineMax /\ Column(r)[i] = i
    BY <1>1, LineColumns, LineMaxAssumption
  <2>2. \A i \in Starts(r) : i = 1
    BY <2>1 DEF Starts
  <2>3. QED
    BY <2>2, FirstPiece
<1>3. Len(Pieces(r)) = 1 /\ Pieces(r) \in Seq(Text)
  BY <1>1, <1>2, PieceAt, FS_Singleton
<1>4. EndOf(r, 1) = Len(r)
  <2>1. 1 \in Starts(r) /\ Len(r) \in 1..Len(r)
    <3>1. 1 \in Starts(r)
      BY FirstPiece
    <3>2. 1 \in 1..Len(r)
      BY <3>1 DEF Starts
    <3>3. QED
      BY <1>1, <3>1, <3>2
  <2>2. \A j \in (1 + 1)..Len(r) : j \notin Starts(r)
    BY <1>1, <1>2
  <2>3. QED
    BY <1>1, <2>1, <2>2, EndIsOne
<1>5. Pieces(r)[1] = r
  BY <1>1, <1>4, FirstPiece, SubSeqFull
<1>6. QED
  BY <1>3, <1>5

\* Of one that does not, the first piece fills the buffer.
LEMMA LongLine ==
  ASSUME NEW r, OneLine(r), Len(r) >= LineMax
  PROVE  1 \in 1..Len(Pieces(r)) /\ Pieces(r)[1] = SubSeq(r, 1, LineMax - 1)
<1>1. r \in Text /\ Len(r) \in Nat /\ LineMax \in Nat /\ LineMax > 2
  BY LineMaxAssumption DEF OneLine, Text
<1>2. LineMax \in Starts(r)
  <2>1. LineMax \in 0..Len(r) /\ LineMax \in 1..Len(r) /\ LineMax - 1 \in 1..Len(r)
    BY <1>1
  <2>2. Column(r)[LineMax - 1] = LineMax - 1
    BY <1>1, <2>1, LineColumns
  <2>3. Column(r)[LineMax] = ColumnAt(r, Column(r), LineMax)
    BY <1>1, <2>1, ColumnIs
  <2>4. ColumnAt(r, Column(r), LineMax) = 1
    BY <1>1, <2>2 DEF ColumnAt
  <2>5. QED
    BY <2>1, <2>3, <2>4 DEF Starts
<1>3. \A j \in (1 + 1)..(LineMax - 1) : j \notin Starts(r)
  <2> TAKE j \in (1 + 1)..(LineMax - 1)
  <2>1. j \in 1..Len(r) /\ j < LineMax /\ j # 1
    BY <1>1
  <2>2. Column(r)[j] = j
    BY <2>1, LineColumns
  <2>3. QED
    BY <2>1, <2>2 DEF Starts
<1>4. LineMax - 1 \in 1..Len(r) /\ LineMax - 1 + 1 = LineMax
  BY <1>1
<1>5. EndOf(r, 1) = LineMax - 1
  BY <1>1, <1>2, <1>3, <1>4, FirstPiece, EndIsOne
<1>6. QED
  BY <1>5, FirstPiece

-----------------------------------------------------------------------------
(* What ini_save writes: rows *)

-----------------------------------------------------------------------------
(* The lines that are printed *)

\* Two texts joined, character by character.
LEMMA JoinIs ==
  ASSUME NEW s \in Text, NEW t \in Text
  PROVE  /\ s \o t \in Text /\ Len(s) \in Nat /\ Len(t) \in Nat /\ Len(s \o t) = Len(s) + Len(t)
         /\ \A i \in 1..Len(s) : (s \o t)[i] = s[i]
         /\ \A j \in 1..Len(t) : (s \o t)[Len(s) + j] = t[j]
         /\ \A i \in 1..Len(s \o t) : i \in 1..Len(s) \/ \E j \in 1..Len(t) : i = Len(s) + j
<1> DEFINE u == s \o t
<1>1. /\ Len(s) \in Nat /\ Len(t) \in Nat /\ Len(u) = Len(s) + Len(t) /\ u \in Text
      /\ \A i \in 1..(Len(s) + Len(t)) : u[i] = IF i <= Len(s) THEN s[i] ELSE t[i - Len(s)]
  BY ConcatProperties DEF Text
<1> HIDE DEF u
<1>2. \A i \in 1..Len(s) : i \in 1..(Len(s) + Len(t)) /\ i <= Len(s)
  BY <1>1
<1>3. \A j \in 1..Len(t) : /\ Len(s) + j \in 1..(Len(s) + Len(t)) /\ ~(Len(s) + j <= Len(s))
                           /\ Len(s) + j - Len(s) = j
  BY <1>1
<1>4. ASSUME NEW i \in 1..Len(u), ~(i \in 1..Len(s)) PROVE \E j \in 1..Len(t) : i = Len(s) + j
  <2>1. i - Len(s) \in 1..Len(t) /\ i = Len(s) + (i - Len(s))
    BY <1>1, <1>4
  <2>2. QED
    BY <2>1
<1>5. QED
  BY <1>1, <1>2, <1>3, <1>4 DEF u

\* A line that begins with no blank and no comment sign, and has no NUL.
Row(r) ==
  /\ OneLine(r) /\ r[1] \notin Blanks \cup Comments
  /\ \A i \in 1..Len(r) : r[i] # NUL

\* A blank line is a row.
LEMMA BlankIsRow == Row(<<NL>>) /\ Len(<<NL>>) = 1 /\ <<NL>>[1] = NL
<1>1. <<NL>> \in Text /\ Len(<<NL>>) = 1 /\ <<NL>>[1] = NL /\ <<NL>> # <<>>
  BY CharacterTexts
<1> DEFINE r == <<NL>>
<1> HIDE DEF r
<1>2. r \in Text /\ Len(r) = 1 /\ r[1] = NL /\ r # <<>>
  BY <1>1 DEF r
<1>3. \A i \in 1..Len(r) : r[i] = NL
  BY <1>2
<1>4. NL \notin Blanks \cup Comments /\ NL # NUL
  BY DEF NL, NUL, Blanks, Comments
<1>5. Row(r)
  BY <1>2, <1>3, <1>4 DEF Row, OneLine
<1>6. QED
  BY <1>1, <1>5 DEF r

\* The characters of a header.
LEMMA HeaderIs ==
  ASSUME NEW n \in Text
  PROVE  /\ HeaderText(n) \in Text /\ Len(n) \in Nat /\ Len(HeaderText(n)) = Len(n) + 3
         /\ HeaderText(n)[1] = "["
         /\ \A i \in 1..Len(n) : HeaderText(n)[1 + i] = n[i]
         /\ HeaderText(n)[Len(n) + 2] = "]" /\ HeaderText(n)[Len(n) + 3] = NL
<1> DEFINE a == <<"[">>
           b == a \o n
           z == <<"]", NL>>
           h == b \o z
<1>1. /\ a \in Text /\ Len(a) = 1 /\ a[1] = "["
      /\ z \in Text /\ Len(z) = 2 /\ z[1] = "]" /\ z[2] = NL
  BY CharacterTexts
<1>2. HeaderText(n) = h
  BY DEF HeaderText
<1> HIDE DEF a, z
<1>3. /\ b \in Text /\ Len(n) \in Nat /\ Len(b) = 1 + Len(n) /\ b[1] = "["
      /\ \A j \in 1..Len(n) : b[1 + j] = n[j]
  <2>1. /\ b \in Text /\ Len(n) \in Nat /\ Len(b) = Len(a) + Len(n)
        /\ \A i \in 1..Len(a) : b[i] = a[i]
        /\ \A j \in 1..Len(n) : b[Len(a) + j] = n[j]
    BY <1>1, JoinIs
  <2> HIDE DEF b
  <2>2. 1 \in 1..Len(a)
    BY <1>1
  <2>3. QED
    BY <1>1, <2>1, <2>2
<1> HIDE DEF b
<1>4. /\ h \in Text /\ Len(h) = Len(b) + 2
      /\ \A i \in 1..Len(b) : h[i] = b[i]
      /\ \A j \in 1..2 : h[Len(b) + j] = z[j]
  <2>1. /\ h \in Text /\ Len(h) = Len(b) + Len(z)
        /\ \A i \in 1..Len(b) : h[i] = b[i]
        /\ \A j \in 1..Len(z) : h[Len(b) + j] = z[j]
    BY <1>1, <1>3, JoinIs
  <2> HIDE DEF h
  <2>2. QED
    BY <1>1, <2>1
<1> HIDE DEF h
<1>5. h[1] = "[" /\ \A i \in 1..Len(n) : h[1 + i] = n[i]
  <2>1. 1 \in 1..Len(b) /\ \A i \in 1..Len(n) : 1 + i \in 1..Len(b)
    BY <1>3
  <2>2. QED
    BY <1>3, <1>4, <2>1
<1>6. h[Len(b) + 1] = "]" /\ h[Len(b) + 2] = NL
  BY <1>1, <1>4
<1>7. Len(b) + 1 = Len(n) + 2 /\ Len(b) + 2 = Len(n) + 3
  BY <1>3
<1>8. QED
  BY <1>2, <1>3, <1>4, <1>5, <1>6, <1>7

\* A header is a row, and its name is found in it.
LEMMA HeaderIsRow ==
  ASSUME NEW n \in Text, ~HasAny(n, {"]", NL, NUL})
  PROVE  /\ Row(HeaderText(n)) /\ First(HeaderText(n)) = "["
         /\ IsHeader(HeaderText(n)) /\ NameOf(HeaderText(n)) = n
<1> DEFINE h == HeaderText(n)
<1>1. /\ h \in Text /\ Len(n) \in Nat /\ Len(h) = Len(n) + 3 /\ h[1] = "["
      /\ \A i \in 1..Len(n) : h[1 + i] = n[i]
      /\ h[Len(n) + 2] = "]" /\ h[Len(n) + 3] = NL
  BY HeaderIs
<1> HIDE DEF h
<1>2. \A i \in 1..Len(n) : n[i] # "]" /\ n[i] # NL /\ n[i] # NUL
  BY DEF HasAny, Text
<1>3. \A i \in 1..Len(h) : i = 1 \/ i = Len(n) + 2 \/ i = Len(n) + 3 \/ (i - 1 \in 1..Len(n) /\ h[i] = n[i - 1])
  <2> TAKE i \in 1..Len(h)
  <2>1. CASE i - 1 \in 1..Len(n)
    <3>1. 1 + (i - 1) = i
      OBVIOUS
    <3>2. QED
      BY <1>1, <2>1, <3>1
  <2>2. CASE ~(i - 1 \in 1..Len(n))
    BY <1>1, <2>2
  <2>3. QED
    BY <2>1, <2>2
<1>4. "[" # NL /\ "[" # NUL /\ "]" # NL /\ "]" # NUL /\ NL # NUL /\ "[" # "]" /\ "[" \notin Blanks \cup Comments
  BY DEF NL, NUL, Blanks, Comments
<1>5. h # <<>>
  BY <1>1, EmptySeq
<1>6. Row(h)
  <2>1. \A i \in 1..Len(h) : h[i] # NUL
    BY <1>1, <1>2, <1>3, <1>4
  <2>2. \A i \in 1..(Len(h) - 1) : h[i] # NL
    <3> TAKE i \in 1..(Len(h) - 1)
    <3>1. i \in 1..Len(h) /\ i # Len(n) + 3
      BY <1>1
    <3>2. QED
      BY <1>1, <1>2, <1>3, <1>4, <3>1
  <2>3. QED
    BY <1>1, <1>4, <1>5, <2>1, <2>2 DEF Row, OneLine
<1>7. First(h) = "["
  BY <1>1, <1>5 DEF First
<1>8. Find(h, "]") = Len(n) + 2
  <2>1. /\ Find(h, "]") \in 0..Len(h)
        /\ Find(h, "]") # 0 => h[Find(h, "]")] = "]" /\ \A i \in 1..(Find(h, "]") - 1) : h[i] # "]"
        /\ Find(h, "]") = 0 => \A i \in 1..Len(h) : h[i] # "]"
    BY <1>1, FindIs
  <2> DEFINE f == Find(h, "]")
  <2> HIDE DEF f
  <2>2. f # 0
    <3>1. Len(n) + 2 \in 1..Len(h)
      BY <1>1
    <3>2. QED
      BY <1>1, <2>1, <3>1 DEF f
  <2>3. ~(Len(n) + 2 < f)
    <3>1. Len(n) + 2 < f => Len(n) + 2 \in 1..(f - 1)
      BY <1>1, <2>1 DEF f
    <3>2. QED
      BY <1>1, <2>1, <2>2, <3>1 DEF f
  <2>4. ~(f < Len(n) + 2)
    <3> SUFFICES ASSUME f < Len(n) + 2 PROVE FALSE
      OBVIOUS
    <3>1. f \in 1..Len(h) /\ f # Len(n) + 3 /\ f # Len(n) + 2
      BY <1>1, <2>1, <2>2 DEF f
    <3>2. h[f] # "]"
      BY <1>1, <1>2, <1>3, <1>4, <3>1
    <3>3. QED
      BY <2>1, <2>2, <3>2 DEF f
  <2>5. QED
    BY <1>1, <2>1, <2>3, <2>4 DEF f
<1>9. NameOf(h) = n
  <2>1. NameOf(h) = SubSeq(h, 2, Len(n) + 2 - 1)
    BY <1>8 DEF NameOf
  <2>2. Len(n) + 2 - 1 = Len(n) + 1
    BY <1>1
  <2> DEFINE m == SubSeq(h, 2, Len(n) + 1)
  <2>3. m \in Text /\ Len(m) = Len(n) /\ \A l \in 1..Len(n) : m[l] = n[l]
    <3>1. /\ m \in Text /\ Len(m) = IF 2 <= Len(n) + 1 THEN Len(n) + 1 - 2 + 1 ELSE 0
          /\ \A l \in 1..(Len(n) + 1 - 2 + 1) : m[l] = h[2 + l - 1]
      BY <1>1, PartIsText
    <3>2. Len(n) + 1 - 2 + 1 = Len(n) /\ (~(2 <= Len(n) + 1) => Len(n) = 0)
      BY <1>1
    <3>3. \A l \in 1..Len(n) : 2 + l - 1 = 1 + l
      BY <1>1
    <3> HIDE DEF m
    <3>4. QED
      BY <1>1, <3>1, <3>2, <3>3
  <2> HIDE DEF m
  <2>4. m = n
    BY <2>3, SeqEqual DEF Text
  <2>5. QED
    BY <2>1, <2>2, <2>4 DEF m
<1>10. IsHeader(h)
  BY <1>1, <1>7, <1>8 DEF IsHeader
<1>11. QED
  BY <1>6, <1>7, <1>9, <1>10 DEF h

-----------------------------------------------------------------------------
(* Characters found, and characters taken off *)

\* The first place of a character is where none comes before it.
LEMMA FindAt ==
  ASSUME NEW s \in Text, NEW c, NEW p \in 1..Len(s), s[p] = c, \A i \in 1..(p - 1) : s[i] # c
  PROVE  Find(s, c) = p
<1> DEFINE f == Find(s, c)
<1>1. Len(s) \in Nat
  BY DEF Text
<1>2. /\ f \in 0..Len(s)
      /\ f # 0 => s[f] = c /\ \A i \in 1..(f - 1) : s[i] # c
      /\ f = 0 => \A i \in 1..Len(s) : s[i] # c
  BY FindIs
<1> HIDE DEF f
<1>3. f # 0
  BY <1>2
<1>4. ~(f < p) /\ ~(p < f)
  BY <1>1, <1>2, <1>3
<1>5. QED
  BY <1>1, <1>2, <1>4 DEF f

\* A character that is nowhere is not found.
LEMMA FindNone ==
  ASSUME NEW s \in Text, NEW c, \A i \in 1..Len(s) : s[i] # c
  PROVE  Find(s, c) = 0
<1> DEFINE f == Find(s, c)
<1>1. Len(s) \in Nat
  BY DEF Text
<1>2. f \in 0..Len(s) /\ (f # 0 => s[f] = c)
  BY FindIs
<1> HIDE DEF f
<1>3. f # 0 => f \in 1..Len(s)
  BY <1>1, <1>2
<1>4. QED
  BY <1>2, <1>3 DEF f

\* A part of a text, told character by character.
LEMMA PartEquals ==
  ASSUME NEW s \in Text, NEW i \in Nat \ {0}, NEW j \in Int, j <= Len(s),
         NEW t \in Text, Len(t) = IF i <= j THEN j - i + 1 ELSE 0,
         \A l \in 1..Len(t) : t[l] = s[i + l - 1]
  PROVE  SubSeq(s, i, j) = t
<1> DEFINE u == SubSeq(s, i, j)
<1>1. /\ u \in Text /\ Len(u) = IF i <= j THEN j - i + 1 ELSE 0
      /\ \A l \in 1..(j - i + 1) : u[l] = s[i + l - 1]
  BY PartIsText
<1> HIDE DEF u
<1>2. \A l \in 1..Len(u) : u[l] = t[l]
  BY <1>1
<1>3. u = t
  BY <1>1, <1>2, SeqEqual DEF Text
<1>4. QED
  BY <1>3 DEF u

\* TrimRight takes off what is in S, and stops at what is not.
LEMMA TrimRightTo ==
  ASSUME NEW s \in Text, NEW S
  PROVE  \E m \in 0..Len(s) : /\ TrimRight(s, S) = SubSeq(s, 1, m)
                              /\ m # 0 => s[m] \notin S
                              /\ \A i \in (m + 1)..Len(s) : s[i] \in S
<1> DEFINE I == {i \in 1..Len(s) : s[i] \notin S}
           m == IF I # {} THEN Max(I) ELSE 0
<1>1. TrimRight(s, S) = SubSeq(s, 1, m)
  BY DEF TrimRight, SelectLastInSeq
<1>2. Len(s) \in Nat /\ I \subseteq 0..Len(s)
  BY DEF Text
<1>3. I # {} => m \in I /\ \A y \in I : y <= m
  BY <1>2, MaxIs
<1>4. m \in 0..Len(s)
  BY <1>2, <1>3
<1>5. m # 0 => s[m] \notin S
  BY <1>3
<1>6. ASSUME NEW i \in (m + 1)..Len(s) PROVE s[i] \in S
  <2>1. i \in 1..Len(s) /\ ~(i <= m)
    <3> HIDE DEF m
    <3> QED
      BY <1>2, <1>4
  <2>2. I # {} => i \notin I
    BY <1>3, <2>1
  <2>3. i \notin I
    BY <2>2
  <2>4. QED
    BY <2>1, <2>3
<1> HIDE DEF m
<1>7. QED
  BY <1>1, <1>4, <1>5, <1>6

\* There is only one place where it can stop.
LEMMA TrimRightAt ==
  ASSUME NEW s \in Text, NEW S, NEW m \in 0..Len(s), m # 0 => s[m] \notin S,
         \A i \in (m + 1)..Len(s) : s[i] \in S
  PROVE  TrimRight(s, S) = SubSeq(s, 1, m)
<1>1. PICK l \in 0..Len(s) : /\ TrimRight(s, S) = SubSeq(s, 1, l)
                             /\ l # 0 => s[l] \notin S
                             /\ \A i \in (l + 1)..Len(s) : s[i] \in S
  BY TrimRightTo
<1>2. Len(s) \in Nat
  BY DEF Text
<1>3. ~(l < m) /\ ~(m < l)
  BY <1>1, <1>2
<1>4. l = m
  BY <1>2, <1>3
<1>5. QED
  BY <1>1, <1>4

\* TrimLeft takes off blanks, and stops at what is none.
LEMMA TrimLeftTo ==
  ASSUME NEW s \in Text, TrimLeft(s) # <<>>
  PROVE  \E m \in 1..Len(s) : TrimLeft(s) = SubSeq(s, m, Len(s)) /\ s[m] \notin Blanks
<1> DEFINE I == {i \in 1..Len(s) : s[i] \notin Blanks}
           m == IF I # {} THEN Min(I) ELSE 0
<1>1. TrimLeft(s) = IF m = 0 THEN <<>> ELSE SubSeq(s, m, Len(s))
  BY DEF TrimLeft, SelectInSeq
<1>2. Len(s) \in Nat /\ I \subseteq Nat
  BY DEF Text
<1>3. I # {} => m \in I
  BY <1>2, MinIs
<1>4. m # 0
  <2> HIDE DEF m
  <2> QED
    BY <1>1
<1>5. m \in 1..Len(s) /\ s[m] \notin Blanks
  BY <1>3, <1>4
<1>6. TrimLeft(s) = SubSeq(s, m, Len(s))
  <2> HIDE DEF m
  <2> QED
    BY <1>1, <1>4
<1>7. QED
  <2> HIDE DEF m
  <2> QED
    BY <1>5, <1>6

\* How a value is written.
Written(v) == IF NeedsQuotes(v) THEN <<Quote>> \o v \o <<Quote>> ELSE v

\* The characters of a value that is written, with its quotes or without.
LEMMA WrittenIs ==
  ASSUME NEW v \in Text
  PROVE  /\ Written(v) \in Text /\ Len(v) \in Nat
         /\ ~NeedsQuotes(v) => Written(v) = v
         /\ NeedsQuotes(v) => /\ Len(Written(v)) = Len(v) + 2
                              /\ Written(v)[1] = Quote /\ Written(v)[Len(v) + 2] = Quote
                              /\ \A i \in 1..Len(v) : Written(v)[1 + i] = v[i]
<1> DEFINE q == <<Quote>>
           a == q \o v
           w == a \o q
<1>1. q \in Text /\ Len(q) = 1 /\ q[1] = Quote
  BY CharacterTexts
<1>2. NeedsQuotes(v) => Written(v) = w
  BY DEF Written
<1> HIDE DEF q
<1>3. /\ a \in Text /\ Len(v) \in Nat /\ Len(a) = Len(q) + Len(v)
      /\ \A i \in 1..Len(q) : a[i] = q[i]
      /\ \A j \in 1..Len(v) : a[Len(q) + j] = v[j]
  BY <1>1, JoinIs
<1> HIDE DEF a
<1>4. /\ w \in Text /\ Len(w) = Len(a) + Len(q)
      /\ \A i \in 1..Len(a) : w[i] = a[i]
      /\ \A j \in 1..Len(q) : w[Len(a) + j] = q[j]
  BY <1>1, <1>3, JoinIs
<1> HIDE DEF w
<1>5. w[1] = Quote
  <2>1. 1 \in 1..Len(q) /\ 1 \in 1..Len(a)
    BY <1>1, <1>3
  <2>2. QED
    BY <1>1, <1>3, <1>4, <2>1
<1>6. Len(w) = Len(v) + 2 /\ w[Len(v) + 2] = Quote
  <2>1. 1 \in 1..Len(q) /\ Len(a) + 1 = Len(v) + 2
    BY <1>1, <1>3
  <2>2. QED
    BY <1>1, <1>3, <1>4, <2>1
<1>7. ASSUME NEW i \in 1..Len(v) PROVE w[1 + i] = v[i]
  <2>1. 1 + i \in 1..Len(a)
    BY <1>1, <1>3
  <2>2. QED
    BY <1>1, <1>3, <1>4, <2>1
<1>8. ~NeedsQuotes(v) => Written(v) = v
  BY DEF Written
<1>9. QED
  BY <1>2, <1>3, <1>4, <1>5, <1>6, <1>7, <1>8

\* The characters of a pair.
LEMMA PairIs ==
  ASSUME NEW k \in Text, NEW v \in Text
  PROVE  LET r == PairText(k, v)
             w == Written(v)
         IN /\ r \in Text /\ Len(k) \in Nat /\ Len(w) \in Nat /\ Len(r) = Len(k) + Len(w) + 2
            /\ \A i \in 1..Len(k) : r[i] = k[i]
            /\ r[Len(k) + 1] = "="
            /\ \A j \in 1..Len(w) : r[Len(k) + 1 + j] = w[j]
            /\ r[Len(r)] = NL
<1> DEFINE e == <<"=">>
           z == <<NL>>
           w == Written(v)
           a == k \o e
           b == a \o w
           r == b \o z
<1>1. e \in Text /\ Len(e) = 1 /\ e[1] = "=" /\ z \in Text /\ Len(z) = 1 /\ z[1] = NL
  BY CharacterTexts
<1>2. PairText(k, v) = r
  BY DEF PairText, Written
<1>3. w \in Text
  BY WrittenIs
<1> HIDE DEF e, z, w
<1>4. /\ a \in Text /\ Len(k) \in Nat /\ Len(a) = Len(k) + Len(e)
      /\ \A i \in 1..Len(k) : a[i] = k[i]
      /\ \A j \in 1..Len(e) : a[Len(k) + j] = e[j]
  BY <1>1, JoinIs
<1> HIDE DEF a
<1>5. /\ b \in Text /\ Len(w) \in Nat /\ Len(b) = Len(a) + Len(w)
      /\ \A i \in 1..Len(a) : b[i] = a[i]
      /\ \A j \in 1..Len(w) : b[Len(a) + j] = w[j]
  BY <1>3, <1>4, JoinIs
<1> HIDE DEF b
<1>6. /\ r \in Text /\ Len(r) = Len(b) + Len(z)
      /\ \A i \in 1..Len(b) : r[i] = b[i]
      /\ \A j \in 1..Len(z) : r[Len(b) + j] = z[j]
  BY <1>1, <1>5, JoinIs
<1> HIDE DEF r
<1>7. Len(a) = Len(k) + 1 /\ Len(b) = Len(k) + Len(w) + 1 /\ Len(r) = Len(k) + Len(w) + 2
  BY <1>1, <1>4, <1>5, <1>6
<1>8. ASSUME NEW i \in 1..Len(k) PROVE r[i] = k[i]
  <2>1. i \in 1..Len(a) /\ i \in 1..Len(b)
    BY <1>4, <1>5, <1>7
  <2>2. QED
    BY <1>4, <1>5, <1>6, <2>1
<1>9. r[Len(k) + 1] = "="
  <2>1. 1 \in 1..Len(e) /\ Len(k) + 1 \in 1..Len(a) /\ Len(k) + 1 \in 1..Len(b)
    BY <1>1, <1>4, <1>5, <1>7
  <2>2. QED
    BY <1>1, <1>4, <1>5, <1>6, <2>1
<1>10. ASSUME NEW j \in 1..Len(w) PROVE r[Len(k) + 1 + j] = w[j]
  <2>1. j \in Nat /\ 1 <= j /\ j <= Len(w)
    BY <1>5
  <2>2. Len(k) + 1 + j = Len(a) + j
    BY <1>7
  <2>3. Len(a) + j \in 1..Len(b)
    BY <1>4, <1>5, <1>7, <2>1
  <2>4. QED
    BY <1>5, <1>6, <2>2, <2>3
<1>11. r[Len(r)] = NL
  <2>1. 1 \in 1..Len(z) /\ Len(r) = Len(b) + 1
    BY <1>1, <1>6
  <2>2. QED
    BY <1>1, <1>6, <2>1
<1>12. QED
  BY <1>2, <1>4, <1>5, <1>6, <1>7, <1>8, <1>9, <1>10, <1>11 DEF w

-----------------------------------------------------------------------------
(* A pair is a row, and its key and its value are found in it *)

\* The same of how a text begins.
LEMMA PrefixEquals ==
  ASSUME NEW s \in Text, NEW t \in Text, Len(t) <= Len(s), \A l \in 1..Len(t) : t[l] = s[l]
  PROVE  SubSeq(s, 1, Len(t)) = t
<1>1. Len(s) \in Nat /\ Len(t) \in Nat
  BY DEF Text
<1>2. \A l \in 1..Len(t) : 1 + l - 1 = l
  OBVIOUS
<1>3. \A l \in 1..Len(t) : t[l] = s[1 + l - 1]
  BY <1>2
<1>4. 1 \in Nat \ {0} /\ Len(t) \in Int /\ Len(t) = IF 1 <= Len(t) THEN Len(t) - 1 + 1 ELSE 0
  BY <1>1
<1>5. QED
  BY <1>3, <1>4, PartEquals

\* What is between the first character and the last of those that count.
LEMMA InnerEquals ==
  ASSUME NEW s \in Text, NEW t \in Text, NEW j \in Nat, j = Len(t) + 1, j <= Len(s),
         \A l \in 1..Len(t) : t[l] = s[1 + l]
  PROVE  SubSeq(s, 2, j) = t
<1> DEFINE i == 2
<1>1. Len(s) \in Nat /\ Len(t) \in Nat
  BY DEF Text
<1>2. \A l \in 1..Len(t) : i + l - 1 = 1 + l
  OBVIOUS
<1>3. \A l \in 1..Len(t) : t[l] = s[i + l - 1]
  BY <1>2
<1>4. i \in Nat \ {0} /\ j \in Int /\ Len(t) = IF i <= j THEN j - i + 1 ELSE 0
  BY <1>1
<1> HIDE DEF i
<1>5. SubSeq(s, i, j) = t
  BY <1>3, <1>4, PartEquals
<1>6. QED
  BY <1>5 DEF i

\* Not found, exactly if it is nowhere.
LEMMA FindZero ==
  ASSUME NEW s \in Text, NEW c
  PROVE  Find(s, c) = 0 <=> \A i \in 1..Len(s) : s[i] # c
BY FindIs, FindNone

\* Quotes add no newline and no NUL.
LEMMA WrittenClean ==
  ASSUME NEW v \in Text, ~HasAny(v, {NL, NUL})
  PROVE  \A j \in 1..Len(Written(v)) : Written(v)[j] # NL /\ Written(v)[j] # NUL
<1> DEFINE w == Written(v)
<1>1. /\ w \in Text /\ Len(v) \in Nat
      /\ ~NeedsQuotes(v) => w = v
      /\ NeedsQuotes(v) => /\ Len(w) = Len(v) + 2
                           /\ w[1] = Quote /\ w[Len(v) + 2] = Quote
                           /\ \A i \in 1..Len(v) : w[1 + i] = v[i]
  BY WrittenIs
<1> HIDE DEF w
<1>2. \A i \in 1..Len(v) : v[i] # NL /\ v[i] # NUL
  BY DEF HasAny, Text
<1>3. ASSUME NEW j \in 1..Len(w) PROVE w[j] # NL /\ w[j] # NUL
  <2>1. CASE ~NeedsQuotes(v)
    BY <1>1, <1>2, <2>1
  <2>2. CASE NeedsQuotes(v)
    <3>1. j = 1 \/ j = Len(v) + 2 \/ (j - 1 \in 1..Len(v) /\ 1 + (j - 1) = j)
      BY <1>1, <2>2
    <3>2. Quote # NL /\ Quote # NUL
      BY DEF Quote, NL, NUL
    <3>3. QED
      BY <1>1, <1>2, <2>2, <3>1, <3>2
  <2>3. QED
    BY <2>1, <2>2
<1>4. QED
  BY <1>3 DEF w

\* A key that survives begins with nothing special and ends with no blank.
LEMMA KeyChars ==
  ASSUME NEW k \in Text, KeySurvives(k)
  PROVE  /\ Len(k) \in Nat /\ Len(k) # 0
         /\ k[1] \notin Blanks \cup Comments /\ k[1] # "[" /\ k[1] # CR /\ k[1] # NL
         /\ k[Len(k)] \notin Blanks
         /\ \A i \in 1..Len(k) : k[i] # "=" /\ k[i] # NL /\ k[i] # NUL
<1>1. Len(k) \in Nat /\ Len(k) # 0 /\ k # <<>>
  BY EmptySeq DEF KeySurvives, Text
<1>2. \A i \in 1..Len(k) : k[i] # "=" /\ k[i] # NL /\ k[i] # NUL
  BY DEF KeySurvives, HasAny, Text
<1>3. 1 \in 1..Len(k)
  BY <1>1
<1>4. First(k) = k[1] /\ Last(k) = k[Len(k)]
  BY <1>1 DEF First, Last
<1>5. First(k) \notin Blanks \cup Comments \cup {"[", CR} /\ Last(k) \notin Blanks
  BY DEF KeySurvives
<1>6. QED
  BY <1>1, <1>2, <1>3, <1>4, <1>5

\* A pair is a row, and its key is found in it.
LEMMA PairIsRow ==
  ASSUME NEW k \in Text, KeySurvives(k), NEW v \in Text, ~HasAny(v, {NL, NUL})
  PROVE  LET r == PairText(k, v)
         IN /\ Row(r) /\ First(r) = k[1] /\ r[1] = k[1]
            /\ Find(r, "=") = Len(k) + 1 /\ KeyOf(r) = k
            /\ AfterEquals(r) = Written(v) \o <<NL>>
<1> DEFINE r == PairText(k, v)
           w == Written(v)
<1>1. /\ r \in Text /\ Len(k) \in Nat /\ Len(w) \in Nat /\ Len(r) = Len(k) + Len(w) + 2
      /\ \A i \in 1..Len(k) : r[i] = k[i]
      /\ r[Len(k) + 1] = "="
      /\ \A j \in 1..Len(w) : r[Len(k) + 1 + j] = w[j]
      /\ r[Len(r)] = NL
  BY PairIs
<1>2. /\ Len(k) # 0
      /\ k[1] \notin Blanks \cup Comments /\ k[1] # "[" /\ k[1] # CR /\ k[1] # NL
      /\ k[Len(k)] \notin Blanks
      /\ \A i \in 1..Len(k) : k[i] # "=" /\ k[i] # NL /\ k[i] # NUL
  BY KeyChars
<1>3. w \in Text /\ \A j \in 1..Len(w) : w[j] # NL /\ w[j] # NUL
  BY WrittenIs, WrittenClean
<1> HIDE DEF r, w
<1>4. 1 \in 1..Len(k) /\ r[1] = k[1]
  BY <1>1, <1>2
<1>5. r # <<>> /\ First(r) = k[1]
  BY <1>1, <1>4, EmptySeq DEF First
<1>6. Row(r)
  <2>1. \A i \in 1..(Len(r) - 1) : r[i] # NL /\ r[i] # NUL
    <3> TAKE i \in 1..(Len(r) - 1)
    <3>1. CASE i \in 1..Len(k)
      BY <1>1, <1>2, <3>1
    <3>2. CASE i = Len(k) + 1
      <4>1. "=" # NL /\ "=" # NUL
        BY DEF NL, NUL
      <4>2. QED
        BY <1>1, <3>2, <4>1
    <3>3. CASE i > Len(k) + 1
      <4>1. i - Len(k) - 1 \in 1..Len(w) /\ Len(k) + 1 + (i - Len(k) - 1) = i
        BY <1>1, <3>3
      <4>2. r[i] = w[i - Len(k) - 1]
        BY <1>1, <4>1
      <4>3. QED
        BY <1>3, <4>1, <4>2
    <3>4. QED
      BY <1>1, <3>1, <3>2, <3>3
  <2>2. \A i \in 1..Len(r) : r[i] # NUL
    <3>1. \A i \in 1..Len(r) : i = Len(r) \/ i \in 1..(Len(r) - 1)
      BY <1>1
    <3>2. NL # NUL
      BY DEF NL, NUL
    <3>3. QED
      BY <1>1, <2>1, <3>1, <3>2
  <2>3. QED
    BY <1>1, <1>2, <1>4, <1>5, <2>1, <2>2 DEF Row, OneLine
<1>7. Find(r, "=") = Len(k) + 1
  <2> DEFINE p == Len(k) + 1
  <2>1. p \in 1..Len(r) /\ p - 1 = Len(k)
    BY <1>1
  <2>2. r[p] = "=" /\ \A i \in 1..(p - 1) : r[i] # "="
    BY <1>1, <1>2, <2>1
  <2> HIDE DEF p
  <2>3. Find(r, "=") = p
    BY <1>1, <2>1, <2>2, FindAt
  <2>4. QED
    BY <2>3 DEF p
<1>8. KeyOf(r) = k
  <2>1. SubSeq(r, 1, Len(k)) = k
    <3>1. \A l \in 1..Len(k) : 1 + l - 1 = l
      OBVIOUS
    <3>2. \A l \in 1..Len(k) : k[l] = r[1 + l - 1]
      BY <1>1, <3>1
    <3>3. Len(k) <= Len(r) /\ Len(k) = IF 1 <= Len(k) THEN Len(k) - 1 + 1 ELSE 0
      BY <1>1, <1>2
    <3>4. QED
      BY <1>1, <3>2, <3>3, PartEquals
  <2>2. TrimRight(k, Blanks) = SubSeq(k, 1, Len(k))
    <3>1. Len(k) \in 0..Len(k) /\ \A i \in (Len(k) + 1)..Len(k) : k[i] \in Blanks
      BY <1>1
    <3>2. QED
      BY <1>2, <3>1, TrimRightAt
  <2>3. SubSeq(k, 1, Len(k)) = k
    BY SubSeqFull DEF Text
  <2>4. Find(r, "=") - 1 = Len(k)
    BY <1>1, <1>7
  <2>5. QED
    BY <2>1, <2>2, <2>3, <2>4 DEF KeyOf
<1>9. AfterEquals(r) = w \o <<NL>>
  <2> DEFINE z == <<NL>>
             t == w \o z
  <2>1. z \in Text /\ Len(z) = 1 /\ z[1] = NL
    BY CharacterTexts
  <2> HIDE DEF z
  <2>2. /\ t \in Text /\ Len(t) = Len(w) + Len(z)
        /\ \A i \in 1..Len(w) : t[i] = w[i]
        /\ \A j \in 1..Len(z) : t[Len(w) + j] = z[j]
    BY <1>3, <2>1, JoinIs
  <2> HIDE DEF t
  <2>3. t[Len(w) + 1] = NL /\ Len(t) = Len(w) + 1
    <3>1. 1 \in 1..Len(z)
      BY <2>1
    <3>2. QED
      BY <2>1, <2>2, <3>1
  <2>4. ASSUME NEW l \in 1..Len(t) PROVE t[l] = r[Len(k) + 2 + l - 1]
    <3>1. Len(k) + 2 + l - 1 = Len(k) + 1 + l
      BY <1>1
    <3>2. CASE l \in 1..Len(w)
      BY <1>1, <2>2, <3>1, <3>2
    <3>3. CASE l = Len(w) + 1
      <4>1. Len(k) + 1 + l = Len(r)
        BY <1>1, <3>3
      <4>2. QED
        BY <1>1, <2>3, <3>1, <3>3, <4>1
    <3>4. QED
      BY <1>1, <2>3, <3>2, <3>3
  <2>5. /\ Len(k) + 2 \in Nat \ {0} /\ Len(r) \in Int /\ Len(r) <= Len(r)
        /\ Len(t) = IF Len(k) + 2 <= Len(r) THEN Len(r) - (Len(k) + 2) + 1 ELSE 0
    BY <1>1, <2>3
  <2>6. SubSeq(r, Len(k) + 2, Len(r)) = t
    <3> DEFINE i == Len(k) + 2
    <3>1. \A l \in 1..Len(t) : t[l] = r[i + l - 1]
      BY <2>4
    <3>2. /\ i \in Nat \ {0} /\ Len(r) \in Int /\ Len(r) <= Len(r)
          /\ Len(t) = IF i <= Len(r) THEN Len(r) - i + 1 ELSE 0
      BY <2>5
    <3> HIDE DEF i
    <3>3. SubSeq(r, i, Len(r)) = t
      BY <1>1, <2>2, <3>1, <3>2, PartEquals
    <3>4. QED
      BY <3>3 DEF i
  <2>7. Find(r, "=") + 1 = Len(k) + 2
    BY <1>1, <1>7
  <2>8. QED
    BY <2>6, <2>7 DEF AfterEquals, t, z
<1>10. QED
  BY <1>4, <1>5, <1>6, <1>7, <1>8, <1>9 DEF r, w

\* A line that ini_good accepts, and that ini_load reads value v from.
ReadsAs(t, v) == GoodValue(t) /\ ValueOf(t) = v

\* In quotes a value is read as it was; what counts is the first quote after
\* the opening one.
LEMMA QuotedReadsBack ==
  ASSUME NEW t, NEW v \in Text, ~HasAny(v, {NL, NUL}), NeedsQuotes(v),
         AfterEquals(t) = Written(v) \o <<NL>>
  PROVE  ReadsAs(t, v) <=> ValueSurvives(v)
<1> DEFINE w == Written(v)
           z == <<NL>>
           x == w \o z
           n == Len(v)
           rest == Tail(x)
           q == Find(v, Quote)
<1>1. /\ w \in Text /\ n \in Nat /\ Len(w) = n + 2
      /\ w[1] = Quote /\ w[n + 2] = Quote /\ \A i \in 1..n : w[1 + i] = v[i]
  BY WrittenIs
<1>2. \A i \in 1..n : v[i] # NL /\ v[i] # NUL
  BY DEF HasAny, Text
<1>3. z \in Text /\ Len(z) = 1 /\ z[1] = NL
  BY CharacterTexts
<1>4. AfterEquals(t) = x
  OBVIOUS
<1> HIDE DEF w, z
<1>5. /\ x \in Text /\ Len(x) = n + 3
      /\ \A i \in 1..(n + 2) : x[i] = w[i]
      /\ x[n + 3] = NL
  <2>1. /\ x \in Text /\ Len(x) = Len(w) + Len(z)
        /\ \A i \in 1..Len(w) : x[i] = w[i]
        /\ \A j \in 1..Len(z) : x[Len(w) + j] = z[j]
    BY <1>1, <1>3, JoinIs
  <2> HIDE DEF x
  <2>2. 1 \in 1..Len(z) /\ Len(w) + 1 = n + 3
    BY <1>1, <1>3
  <2>3. QED
    BY <1>1, <1>3, <2>1, <2>2
<1> HIDE DEF x
<1>6. x[1] = Quote /\ x[n + 2] = Quote /\ \A i \in 1..n : x[1 + i] = v[i]
  <2>1. 1 \in 1..(n + 2) /\ n + 2 \in 1..(n + 2) /\ \A i \in 1..n : 1 + i \in 1..(n + 2)
    BY <1>1
  <2>2. QED
    BY <1>1, <1>5, <2>1
<1>7. x # <<>> /\ First(x) = Quote
  BY <1>1, <1>5, <1>6, EmptySeq DEF First
<1>8. TrimLeft(x) = x
  <2>1. Quote \notin Blanks
    BY DEF Quote, Blanks
  <2>2. QED
    BY <1>5, <1>7, <2>1, TrimLeftIs
<1>9. /\ rest \in Text /\ Len(rest) = n + 2
      /\ \A i \in 1..n : rest[i] = v[i]
      /\ rest[n + 1] = Quote /\ rest[n + 2] = NL
  <2>1. /\ rest \in Text /\ Len(rest) = Len(x) - 1
        /\ \A i \in 1..Len(rest) : rest[i] = x[i + 1]
    BY <1>5, <1>7, HeadTailProperties DEF Text
  <2> HIDE DEF rest
  <2>2. /\ \A i \in 1..n : i \in 1..Len(rest) /\ i + 1 = 1 + i
        /\ n + 1 \in 1..Len(rest) /\ n + 1 + 1 = n + 2
        /\ n + 2 \in 1..Len(rest) /\ n + 2 + 1 = n + 3
    BY <1>1, <1>5, <2>1
  <2>3. Len(rest) = n + 2
    BY <1>1, <1>5, <2>1
  <2>4. rest[n + 1] = x[n + 2] /\ rest[n + 2] = x[n + 3]
    BY <2>1, <2>2
  <2>5. \A i \in 1..n : rest[i] = x[1 + i]
    BY <2>1, <2>2
  <2>6. QED
    BY <1>5, <1>6, <2>1, <2>3, <2>4, <2>5
<1>10. /\ q \in 0..n
       /\ q # 0 => v[q] = Quote /\ \A i \in 1..(q - 1) : v[i] # Quote
       /\ q = 0 => \A i \in 1..n : v[i] # Quote
  BY FindIs
<1> HIDE DEF rest, q, n
<1>11. Find(rest, Quote) = IF q = 0 THEN n + 1 ELSE q
  <2>1. CASE q = 0
    <3> DEFINE p == n + 1
    <3>1. p \in 1..Len(rest) /\ p - 1 = n /\ rest[p] = Quote
      BY <1>1, <1>9
    <3>2. \A i \in 1..(p - 1) : rest[i] # Quote
      BY <1>9, <1>10, <2>1, <3>1
    <3> HIDE DEF p
    <3>3. Find(rest, Quote) = p
      BY <1>9, <3>1, <3>2, FindAt
    <3>4. QED
      BY <2>1, <3>3 DEF p
  <2>2. CASE q # 0
    <3>1. q \in 1..n /\ q \in 1..Len(rest) /\ \A i \in 1..(q - 1) : i \in 1..n
      BY <1>1, <1>9, <1>10, <2>2
    <3>2. rest[q] = Quote /\ \A i \in 1..(q - 1) : rest[i] # Quote
      BY <1>9, <1>10, <2>2, <3>1
    <3>3. Find(rest, Quote) = q
      BY <1>9, <3>1, <3>2, FindAt
    <3>4. QED
      BY <2>2, <3>3
  <2>3. QED
    BY <2>1, <2>2
<1>12. GoodValue(t) <=> LET close == Find(rest, Quote)
                        IN close # 0 /\ (close = Len(rest) \/ rest[close + 1] \in {NL} \cup Comments)
  BY <1>4, <1>7, <1>8 DEF GoodValue, rest
<1>13. GoodValue(t) <=> q = 0 \/ (q < n /\ v[q + 1] \in Comments)
  <2>1. CASE q = 0
    <3>1. n + 1 + 1 = n + 2 /\ n + 1 # 0
      BY <1>1
    <3>2. rest[n + 1 + 1] = NL
      BY <1>9, <3>1
    <3>3. QED
      BY <1>11, <1>12, <2>1, <3>1, <3>2
  <2>2. CASE q # 0 /\ q < n
    <3>1. q + 1 \in 1..n /\ q # Len(rest)
      BY <1>1, <1>9, <1>10, <2>2
    <3>2. rest[q + 1] = v[q + 1] /\ v[q + 1] # NL
      BY <1>2, <1>9, <3>1
    <3>3. QED
      BY <1>11, <1>12, <2>2, <3>1, <3>2
  <2>3. CASE q # 0 /\ q = n
    <3>1. rest[q + 1] = Quote /\ q # Len(rest)
      BY <1>1, <1>9, <2>3
    <3>2. Quote \notin {NL} \cup Comments
      BY DEF Quote, NL, Comments
    <3>3. ~(q < n)
      BY <1>1, <2>3
    <3>4. QED
      BY <1>11, <1>12, <2>3, <3>1, <3>2, <3>3
  <2>4. QED
    BY <1>1, <1>10, <2>1, <2>2, <2>3
<1>14. ValueOf(t) = v
  <2> DEFINE S == Blanks \cup {NL, CR}
             m == n + 2
  <2>1. m \in 0..Len(x) /\ x[m] \notin S /\ \A i \in (m + 1)..Len(x) : x[i] \in S
    <3>1. \A i \in (m + 1)..Len(x) : i = n + 3
      BY <1>1, <1>5
    <3>2. Quote \notin S
      BY DEF Quote, NL, CR, Blanks
    <3>3. QED
      BY <1>1, <1>5, <1>6, <3>1, <3>2
  <2> HIDE DEF m
  <2>2. TrimRight(x, S) = SubSeq(x, 1, m)
    BY <1>5, <2>1, TrimRightAt
  <2>3. SubSeq(x, 1, m) = w
    <3>1. Len(w) <= Len(x) /\ m = Len(w) /\ \A l \in 1..Len(w) : w[l] = x[l]
      BY <1>1, <1>5 DEF m
    <3>2. QED
      BY <1>1, <1>5, <3>1, PrefixEquals
  <2>4. First(w) = Quote /\ Last(w) = Quote
    <3>1. w # <<>>
      BY <1>1, EmptySeq
    <3>2. QED
      BY <1>1, <3>1 DEF First, Last
  <2>5. ValueOf(t) = SubSeq(w, 2, Len(w) - 1)
    BY <1>4, <1>8, <2>2, <2>3, <2>4 DEF ValueOf
  <2>6. SubSeq(w, 2, n + 1) = v
    <3> DEFINE j == n + 1
    <3>1. j \in Nat /\ j = Len(v) + 1 /\ j <= Len(w) /\ \A l \in 1..Len(v) : v[l] = w[1 + l]
      BY <1>1 DEF n
    <3> HIDE DEF j
    <3>2. SubSeq(w, 2, j) = v
      BY <1>1, <3>1, InnerEquals
    <3>3. QED
      BY <3>2 DEF j
  <2>7. Len(w) - 1 = n + 1
    BY <1>1
  <2>8. QED
    BY <2>5, <2>6, <2>7
<1>15. ~HasAny(v, {NL, NUL})
  OBVIOUS
<1>16. ValueSurvives(v) <=> q = 0 \/ (q < n /\ v[q + 1] \in Comments)
  BY <1>15 DEF ValueSurvives, q, n
<1>17. QED
  BY <1>13, <1>14, <1>16 DEF ReadsAs

\* Without quotes: not a quote first, no comma, no carriage return last.
LEMMA PlainReadsBack ==
  ASSUME NEW t, NEW v \in Text, ~HasAny(v, {NL, NUL}), ~NeedsQuotes(v),
         AfterEquals(t) = Written(v) \o <<NL>>
  PROVE  ReadsAs(t, v) <=> ValueSurvives(v)
<1> DEFINE z == <<NL>>
           x == v \o z
           n == Len(v)
           S == Blanks \cup {NL, CR}
           y == TrimRight(x, S)
           q == Find(v, Quote)
           survives == q # 1 /\ Find(v, ",") = 0 /\ (v = <<>> \/ Last(v) # CR)
<1>1. n \in Nat /\ \A i \in 1..n : v[i] \notin Blanks \cup Comments /\ v[i] # NL
  BY DEF HasAny, NeedsQuotes, Text
<1>2. z \in Text /\ Len(z) = 1 /\ z[1] = NL
  BY CharacterTexts
<1>3. AfterEquals(t) = x
  BY WrittenIs
<1>4. /\ ~HasAny(v, {NL, NUL})
      /\ ValueSurvives(v) <=> survives
  BY DEF ValueSurvives
<1> HIDE DEF z
<1>5. x \in Text /\ Len(x) = n + 1 /\ x[n + 1] = NL /\ \A i \in 1..n : x[i] = v[i]
  <2>1. /\ x \in Text /\ Len(x) = Len(v) + Len(z)
        /\ \A i \in 1..Len(v) : x[i] = v[i]
        /\ \A j \in 1..Len(z) : x[Len(v) + j] = z[j]
    BY <1>2, JoinIs
  <2> HIDE DEF x
  <2>2. 1 \in 1..Len(z)
    BY <1>2
  <2>3. QED
    BY <1>2, <2>1, <2>2
<1> HIDE DEF x
<1>6. x # <<>> /\ First(x) = x[1] /\ (n # 0 => 1 \in 1..n /\ x[1] = v[1]) /\ (n = 0 => x[1] = NL)
  BY <1>1, <1>5, EmptySeq DEF First
<1>7. TrimLeft(x) = x
  <2>1. NL \notin Blanks
    BY DEF NL, Blanks
  <2>2. First(x) \notin Blanks
    BY <1>1, <1>6, <2>1
  <2>3. QED
    BY <1>5, <2>2, TrimLeftIs
<1>8. /\ q \in 0..n
      /\ q # 0 => v[q] = Quote /\ \A i \in 1..(q - 1) : v[i] # Quote
      /\ q = 0 => \A i \in 1..n : v[i] # Quote
  BY FindIs
<1>9. Quote # NL /\ "," # NL /\ Quote \notin S
  BY DEF Quote, NL, CR, Blanks
<1> HIDE DEF q
<1>10. First(x) = Quote <=> q = 1
  <2>1. CASE n = 0
    <3>1. q = 0
      BY <1>8, <2>1
    <3>2. First(x) = NL
      BY <1>6, <2>1
    <3>3. First(x) # Quote
      BY <1>9, <3>2
    <3>4. q # 1
      BY <3>1
    <3>5. QED
      BY <3>3, <3>4
  <2>2. CASE n # 0
    <3>1. First(x) = v[1] /\ 1 \in 1..n
      BY <1>6, <2>2
    <3>2. q = 1 => v[1] = Quote
      BY <1>8
    <3>3. ASSUME v[1] = Quote PROVE q = 1
      <4>1. q # 0
        BY <1>8, <3>1, <3>3
      <4>2. ~(1 \in 1..(q - 1))
        BY <1>8, <3>3, <4>1
      <4>3. QED
        BY <1>8, <4>1, <4>2
    <3>4. QED
      BY <3>1, <3>2, <3>3
  <2>3. QED
    BY <2>1, <2>2
<1>11. Find(x, ",") = 0 <=> Find(v, ",") = 0
  <2>1. Find(x, ",") = 0 <=> \A i \in 1..Len(x) : x[i] # ","
    BY <1>5, FindZero
  <2>2. Find(v, ",") = 0 <=> \A i \in 1..n : v[i] # ","
    BY FindZero
  <2> HIDE DEF n
  <2>3. \A i \in 1..n : i \in 1..Len(x)
    BY <1>1, <1>5
  <2>4. \A i \in 1..Len(x) : i \in 1..n \/ i = n + 1
    BY <1>1, <1>5
  <2>5. QED
    BY <1>5, <1>9, <2>1, <2>2, <2>3, <2>4
<1>12. PICK m \in 0..Len(x) : /\ y = SubSeq(x, 1, m)
                              /\ m # 0 => x[m] \notin S
                              /\ \A i \in (m + 1)..Len(x) : x[i] \in S
  BY <1>5, TrimRightTo
<1>13. ValueOf(t) = IF First(y) = Quote /\ Last(y) = Quote THEN SubSeq(y, 2, Len(y) - 1) ELSE y
  BY <1>3, <1>7 DEF ValueOf
<1>14. m \in 0..n
  <2>1. m # n + 1
    <3>1. NL \in S /\ n + 1 # 0
      BY <1>1
    <3>2. QED
      BY <1>5, <1>12, <3>1
  <2>2. QED
    BY <1>1, <1>5, <1>12, <2>1
<1>15. y \in Text /\ Len(y) = m /\ \A i \in 1..m : y[i] = v[i]
  <2>1. /\ SubSeq(x, 1, m) \in Text
        /\ Len(SubSeq(x, 1, m)) = IF 1 <= m THEN m - 1 + 1 ELSE 0
        /\ \A l \in 1..(m - 1 + 1) : SubSeq(x, 1, m)[l] = x[1 + l - 1]
    BY <1>5, PartIsText
  <2>2. \A l \in 1..m : l \in 1..(m - 1 + 1) /\ 1 + l - 1 = l /\ l \in 1..n
    BY <1>1, <1>14
  <2> HIDE DEF y, n
  <2>3. y \in Text /\ Len(y) = m
    BY <1>1, <1>12, <1>14, <2>1
  <2>4. ASSUME NEW l \in 1..m PROVE y[l] = v[l]
    BY <1>5, <1>12, <2>1, <2>2
  <2>5. QED
    BY <2>3, <2>4
<1> HIDE DEF y, S
<1>16. y = v <=> v = <<>> \/ Last(v) # CR
  <2>1. y = v <=> m = n
    <3>1. y = v => m = n
      BY <1>15
    <3>2. m = n => y = v
      BY <1>15, SeqEqual DEF Text
    <3>3. QED
      BY <3>1, <3>2
  <2>2. v = <<>> <=> n = 0
    BY EmptySeq DEF Text
  <2>3. Last(v) = v[n]
    BY DEF Last
  <2> HIDE DEF n
  <2>4. ASSUME m = n, n # 0 PROVE v[n] # CR
    <3>1. n \in 1..n /\ x[n] \notin S
      BY <1>1, <1>12, <2>4
    <3>2. QED
      BY <1>5, <3>1 DEF S
  <2>5. ASSUME m # n PROVE n # 0 /\ v[n] = CR
    <3>1. n \in (m + 1)..Len(x) /\ n \in 1..n
      BY <1>1, <1>5, <1>14, <2>5
    <3>2. v[n] \in S
      BY <1>5, <1>12, <3>1
    <3>3. v[n] = CR
      BY <1>1, <3>1, <3>2 DEF S
    <3>4. QED
      BY <3>1, <3>3
  <2>6. QED
    BY <1>1, <1>14, <2>1, <2>2, <2>3, <2>4, <2>5
<1>17. CASE q # 1
  <2>1. GoodValue(t) <=> Find(v, ",") = 0
    BY <1>3, <1>7, <1>10, <1>11, <1>17 DEF GoodValue
  <2>2. First(y) # Quote
    <3>1. CASE y = <<>>
      BY <1>9, <3>1 DEF First
    <3>2. CASE y # <<>>
      <4>1. Len(y) # 0 /\ 1 \in 1..m /\ 1 \in 1..n
        BY <1>1, <1>14, <1>15, <3>2, EmptySeq DEF Text
      <4>2. First(y) = v[1] /\ First(x) = v[1]
        BY <1>5, <1>6, <1>15, <3>2, <4>1 DEF First
      <4>3. QED
        BY <1>10, <1>17, <4>2
    <3>3. QED
      BY <3>1, <3>2
  <2>3. ValueOf(t) = y
    BY <1>13, <2>2
  <2>4. QED
    BY <1>4, <1>16, <1>17, <2>1, <2>3 DEF ReadsAs
<1>18. CASE q = 1
  <2>1. ~ReadsAs(t, v)
    <3> SUFFICES ASSUME ReadsAs(t, v) PROVE FALSE
      OBVIOUS
    <3>1. v[1] = Quote /\ n # 0 /\ 1 \in 1..n
      BY <1>1, <1>8, <1>18
    <3>2. 1 \in 1..m
      <4>1. m # 0
        <5>1. m = 0 => 1 \in (m + 1)..Len(x)
          BY <1>1, <1>5
        <5>2. x[1] = Quote
          BY <1>5, <3>1
        <5>3. QED
          BY <1>9, <1>12, <5>1, <5>2
      <4>2. QED
        BY <1>14, <4>1
    <3>3. y # <<>> /\ First(y) = Quote
      BY <1>15, <3>1, <3>2, EmptySeq DEF First
    <3>4. Last(y) # Quote
      <4> SUFFICES ASSUME Last(y) = Quote PROVE FALSE
        OBVIOUS
      <4>1. v = SubSeq(y, 2, Len(y) - 1)
        BY <1>13, <3>3 DEF ReadsAs
      <4>2. Len(y) - 1 \in Int /\ Len(y) - 1 <= Len(y)
        BY <1>15, <3>2
      <4>3. Len(SubSeq(y, 2, Len(y) - 1)) = IF 2 <= Len(y) - 1 THEN Len(y) - 1 - 2 + 1 ELSE 0
        BY <1>15, <4>2, PartIsText
      <4>4. n = IF 2 <= m - 1 THEN m - 1 - 2 + 1 ELSE 0
        BY <1>15, <4>1, <4>3
      <4>5. QED
        BY <1>1, <1>14, <3>1, <4>4
    <3>5. y = v
      BY <1>13, <3>4 DEF ReadsAs
    <3>6. v[n] # Quote
      <4>1. Last(y) = v[n]
        BY <3>5 DEF Last
      <4>2. QED
        BY <3>4, <4>1
    <3> DEFINE rest == Tail(x)
               f == Find(rest, Quote)
    <3>7. rest \in Text /\ Len(rest) = n /\ \A i \in 1..n : rest[i] = x[i + 1]
      <4>1. /\ rest \in Text /\ Len(rest) = Len(x) - 1
            /\ \A i \in 1..Len(rest) : rest[i] = x[i + 1]
        BY <1>5, <1>6, HeadTailProperties DEF Text
      <4> HIDE DEF rest, n
      <4>2. QED
        BY <1>1, <1>5, <4>1
    <3>8. f # 0 /\ (f = Len(rest) \/ rest[f + 1] \in {NL} \cup Comments)
      BY <1>3, <1>7, <1>10, <1>18 DEF ReadsAs, GoodValue
    <3>9. f \in 0..n /\ (f # 0 => rest[f] = Quote)
      BY <3>7, FindIs
    <3> HIDE DEF rest, f, n
    <3>10. f \in 1..n /\ x[f + 1] = Quote
      <4>1. f \in 1..n
        BY <1>1, <3>8, <3>9
      <4>2. QED
        BY <3>7, <3>8, <3>9, <4>1
    <3>11. f # n
      BY <1>5, <1>9, <3>10
    <3>12. f + 1 \in 1..n /\ f + 1 + 1 \in 1..(n + 1) /\ rest[f + 1] = x[f + 1 + 1]
      <4>1. f + 1 \in 1..n /\ f + 1 + 1 \in 1..(n + 1)
        BY <1>1, <3>10, <3>11
      <4>2. QED
        BY <3>7, <4>1
    <3>13. f + 1 # n
      <4> SUFFICES ASSUME f + 1 = n PROVE FALSE
        OBVIOUS
      <4>1. x[n] = Quote
        BY <3>10
      <4>2. x[n] = v[n]
        BY <1>5, <3>12
      <4>3. QED
        BY <3>6, <4>1, <4>2
    <3>14. f + 1 + 1 \in 1..n
      BY <1>1, <3>12, <3>13
    <3>15. x[f + 1 + 1] \notin {NL} \cup Comments
      BY <1>1, <1>5, <3>14
    <3>16. QED
      BY <3>7, <3>8, <3>11, <3>12, <3>15
  <2>2. QED
    BY <1>4, <1>18, <2>1
<1>19. QED
  BY <1>17, <1>18

\* A value is read back, and accepted, exactly if it survives.
LEMMA ValueReadsBack ==
  ASSUME NEW t, NEW v \in Text, ~HasAny(v, {NL, NUL}), AfterEquals(t) = Written(v) \o <<NL>>
  PROVE  ReadsAs(t, v) <=> ValueSurvives(v)
<1>1. CASE NeedsQuotes(v)
  BY <1>1, QuotedReadsBack
<1>2. CASE ~NeedsQuotes(v)
  BY <1>2, PlainReadsBack
<1>3. QED
  BY <1>1, <1>2

-----------------------------------------------------------------------------
(* Rows joined: lines as they are, or one that is cut *)

\* A piece that ini_good turns down: a buffer full of a line that begins with
\* nothing that would hide it.
Cut(p) ==
  /\ p \in Text /\ Len(p) = LineMax - 1 /\ p[LineMax - 1] # NL
  /\ p[1] \notin {NL} \cup Blanks \cup Comments
  /\ \A i \in 1..Len(p) : p[i] # NUL

\* There is such a piece.
HasCut(s) == \E i \in 1..Len(Pieces(s)) : Cut(Pieces(s)[i])

\* ini_good does not accept a text with such a piece.
LEMMA CutIsBad ==
  ASSUME NEW text \in Text, HasCut(WithoutBom(text))
  PROVE  ~Good(text)
<1> DEFINE ps == Pieces(WithoutBom(text))
           ts == Lines(text)
<1>1. PICK i \in 1..Len(ps) : Cut(ps[i])
  BY DEF HasCut
<1> DEFINE p == ps[i]
<1>2. i \in DOMAIN ts /\ ts[i] = TrimLeft(UpToNul(p))
  <2>1. ps \in Seq(Text)
    BY WithoutBomIsText, PieceAt
  <2>2. i \in DOMAIN ps
    BY <2>1
  <2>3. QED
    BY <2>2, LinesAre
<1> HIDE DEF p, ps, ts
<1>3. /\ p \in Text /\ Len(p) = LineMax - 1 /\ p[LineMax - 1] # NL
      /\ p[1] \notin {NL} \cup Blanks \cup Comments
      /\ \A l \in 1..Len(p) : p[l] # NUL
  BY <1>1 DEF Cut, p
<1>4. p # <<>>
  BY <1>3, LineMaxAssumption, EmptySeq
<1>5. First(p) = p[1]
  BY <1>4 DEF First
<1>6. ts[i] = p
  <2>1. UpToNul(p) = p
    BY <1>3, FindNone, UpToNulIs
  <2>2. QED
    BY <1>2, <1>3, <1>5, <2>1, TrimLeftIs
<1>7. TooLong(ts[i]) /\ ~GoodSkips(ts[i])
  BY <1>3, <1>5, <1>6, LineMaxAssumption DEF TooLong, GoodSkips
<1>8. ~GoodLine(ts, i)
  BY <1>7 DEF GoodLine
<1>9. QED
  BY <1>2, <1>8 DEF Good, ts

\* A row longer than the buffer is cut.
LEMMA LongRow ==
  ASSUME NEW r, Row(r), Len(r) >= LineMax
  PROVE  HasCut(r)
<1> DEFINE p == Pieces(r)[1]
           n == LineMax - 1
<1>1. /\ OneLine(r) /\ r \in Text /\ Len(r) \in Nat
      /\ r[1] \notin Blanks \cup Comments
      /\ \A i \in 1..Len(r) : r[i] # NUL
      /\ \A i \in 1..(Len(r) - 1) : r[i] # NL
  BY DEF Row, OneLine, Text
<1>2. 1 \in 1..Len(Pieces(r)) /\ p = SubSeq(r, 1, n)
  BY <1>1, LongLine
<1>3. n \in Nat /\ n >= 2 /\ n <= Len(r)
  BY <1>1, LineMaxAssumption
<1>4. /\ SubSeq(r, 1, n) \in Text
      /\ Len(SubSeq(r, 1, n)) = IF 1 <= n THEN n - 1 + 1 ELSE 0
      /\ \A l \in 1..(n - 1 + 1) : SubSeq(r, 1, n)[l] = r[1 + l - 1]
  BY <1>1, <1>3, PartIsText
<1> HIDE DEF p
<1>5. n = LineMax - 1
  OBVIOUS
<1> HIDE DEF n
<1>6. p \in Text /\ Len(p) = n /\ \A l \in 1..n : p[l] = r[l]
  <2>1. Len(p) = n
    BY <1>2, <1>3, <1>4
  <2>2. ASSUME NEW l \in 1..n PROVE p[l] = r[l]
    <3>1. l \in 1..(n - 1 + 1) /\ 1 + l - 1 = l
      BY <1>3
    <3>2. QED
      BY <1>2, <1>4, <3>1
  <2>3. QED
    BY <1>2, <1>4, <2>1, <2>2
<1>7. /\ 1 \in 1..(Len(r) - 1) /\ n \in 1..(Len(r) - 1) /\ 1 \in 1..n /\ n \in 1..n
      /\ \A l \in 1..n : l \in 1..Len(r)
  BY <1>1, <1>3, <1>5, LineMaxAssumption
<1>8. p[1] = r[1] /\ r[1] # NL /\ p[n] = r[n] /\ r[n] # NL
  BY <1>1, <1>6, <1>7
<1>9. \A i \in 1..n : p[i] # NUL
  BY <1>1, <1>6, <1>7
<1>10. Cut(p)
  BY <1>1, <1>5, <1>6, <1>8, <1>9 DEF Cut
<1>11. QED
  BY <1>2, <1>10 DEF HasCut, p

\* What is cut stays cut when lines come before it or after it.
LEMMA CutJoined ==
  ASSUME NEW s \in Text, NEW t \in Text, EndsLine(s), HasCut(s) \/ HasCut(t)
  PROVE  HasCut(s \o t)
<1> DEFINE a == Pieces(s)
           b == Pieces(t)
<1>1. Pieces(s \o t) = a \o b
  BY PiecesJoined
<1>2. a \in Seq(Text) /\ b \in Seq(Text)
  BY PieceAt
<1> HIDE DEF a, b
<1>3. /\ Len(a) \in Nat /\ Len(b) \in Nat /\ Len(a \o b) = Len(a) + Len(b)
      /\ \A i \in 1..Len(a) : (a \o b)[i] = a[i]
      /\ \A i \in 1..Len(b) : (a \o b)[Len(a) + i] = b[i]
  BY <1>2
<1>4. ASSUME NEW i \in 1..Len(a), Cut(a[i]) PROVE HasCut(s \o t)
  <2>1. i \in 1..Len(a \o b) /\ (a \o b)[i] = a[i]
    BY <1>3
  <2>2. QED
    BY <1>1, <1>4, <2>1 DEF HasCut
<1>5. ASSUME NEW i \in 1..Len(b), Cut(b[i]) PROVE HasCut(s \o t)
  <2> DEFINE j == Len(a) + i
  <2>1. j \in 1..Len(a \o b)
    BY <1>3
  <2>2. (a \o b)[j] = b[i]
    BY <1>3
  <2> HIDE DEF j
  <2>3. QED
    BY <1>1, <1>5, <2>1, <2>2 DEF HasCut
<1>6. QED
  BY <1>4, <1>5 DEF HasCut, a, b

\* Text s is the rows rs one after the other; fgets delivers them as they are
\* if they all fit into the buffer.
Short(rs) == \A i \in 1..Len(rs) : Len(rs[i]) < LineMax

Spells(s, rs) ==
  /\ rs \in Seq(Text) /\ \A i \in 1..Len(rs) : Row(rs[i])
  /\ s \in Text /\ EndsLine(s)
  /\ rs = <<>> => s = <<>>
  /\ rs # <<>> => s # <<>> /\ s[1] = rs[1][1]
  /\ Short(rs) => Pieces(s) = rs
  /\ ~Short(rs) => HasCut(s)

\* No rows, no text.
LEMMA NothingSpelled == Spells(<<>>, <<>>)
<1>1. <<>> \in Text /\ Len(<<>>) = 0 /\ <<>> \in Seq(Text)
  BY CharacterTexts, EmptySeq
<1>2. Starts(<<>>) = {}
  BY <1>1 DEF Starts
<1>3. Len(Pieces(<<>>)) = 0 /\ Pieces(<<>>) \in Seq(Text)
  BY <1>1, <1>2, PieceAt, FS_EmptySet
<1>4. Pieces(<<>>) = <<>>
  BY <1>3, EmptySeq
<1>5. \A i \in 1..Len(<<>>) : FALSE
  BY <1>1
<1>6. QED
  BY <1>1, <1>4, <1>5 DEF Spells, Short, EndsLine

\* A row spells itself.
LEMMA RowSpelled ==
  ASSUME NEW r, Row(r)
  PROVE  Spells(r, <<r>>)
<1>1. r \in Text /\ OneLine(r) /\ r # <<>> /\ EndsLine(r)
  BY DEF Row, OneLine, EndsLine
<1> DEFINE rs == <<r>>
<1>2. rs \in Seq(Text) /\ Len(rs) = 1 /\ rs[1] = r /\ rs # <<>>
  BY <1>1
<1>3. Len(r) < LineMax => Pieces(r) = rs
  BY <1>1, ShortLine
<1>4. Len(r) \in Nat
  BY <1>1 DEF Text
<1>5. ~(Len(r) < LineMax) => HasCut(r)
  BY <1>4, LongRow, LineMaxAssumption
<1> HIDE DEF rs
<1>6. Short(rs) <=> Len(r) < LineMax
  BY <1>2 DEF Short
<1>7. Spells(r, rs)
  BY <1>1, <1>2, <1>3, <1>5, <1>6 DEF Spells
<1>8. QED
  BY <1>7 DEF rs

\* Two lists of rows joined, row by row.
LEMMA RowsJoined ==
  ASSUME NEW a \in Seq(Text), NEW b \in Seq(Text)
  PROVE  /\ a \o b \in Seq(Text)
         /\ Len(a) \in Nat /\ Len(b) \in Nat /\ Len(a \o b) = Len(a) + Len(b)
         /\ \A i \in 1..Len(a) : (a \o b)[i] = a[i]
         /\ \A j \in 1..Len(b) : (a \o b)[Len(a) + j] = b[j]
         /\ \A i \in 1..Len(a \o b) : i \in 1..Len(a) \/ \E j \in 1..Len(b) : i = Len(a) + j
<1> DEFINE ab == a \o b
<1>1. /\ ab \in Seq(Text) /\ Len(a) \in Nat /\ Len(b) \in Nat /\ Len(ab) = Len(a) + Len(b)
      /\ \A i \in 1..(Len(a) + Len(b)) : ab[i] = IF i <= Len(a) THEN a[i] ELSE b[i - Len(a)]
  BY ConcatProperties
<1> HIDE DEF ab
<1>2. ASSUME NEW i \in 1..Len(a) PROVE ab[i] = a[i]
  BY <1>1
<1>3. ASSUME NEW j \in 1..Len(b) PROVE ab[Len(a) + j] = b[j]
  <2> DEFINE i == Len(a) + j
  <2>1. i \in 1..(Len(a) + Len(b)) /\ ~(i <= Len(a)) /\ i - Len(a) = j
    BY <1>1
  <2> HIDE DEF i
  <2>2. ab[i] = b[j]
    BY <1>1, <2>1
  <2>3. QED
    BY <2>2 DEF i
<1>4. ASSUME NEW i \in 1..Len(ab), i \notin 1..Len(a)
      PROVE  \E j \in 1..Len(b) : i = Len(a) + j
  <2>1. i - Len(a) \in 1..Len(b) /\ i = Len(a) + (i - Len(a))
    BY <1>1, <1>4
  <2>2. QED
    BY <2>1
<1>5. QED
  BY <1>1, <1>2, <1>3, <1>4 DEF ab

\* Two texts joined have the rows of both.
LEMMA SpelledJoined ==
  ASSUME NEW s, NEW t, NEW a, NEW b, Spells(s, a), Spells(t, b)
  PROVE  Spells(s \o t, a \o b)
<1> DEFINE st == s \o t
           ab == a \o b
<1>1. /\ s \in Text /\ t \in Text /\ a \in Seq(Text) /\ b \in Seq(Text)
      /\ EndsLine(s) /\ EndsLine(t)
      /\ \A i \in 1..Len(a) : Row(a[i])
      /\ \A i \in 1..Len(b) : Row(b[i])
  BY DEF Spells
<1>2. /\ ab \in Seq(Text)
      /\ Len(a) \in Nat /\ Len(b) \in Nat /\ Len(ab) = Len(a) + Len(b)
      /\ \A i \in 1..Len(a) : ab[i] = a[i]
      /\ \A j \in 1..Len(b) : ab[Len(a) + j] = b[j]
      /\ \A i \in 1..Len(ab) : i \in 1..Len(a) \/ \E j \in 1..Len(b) : i = Len(a) + j
  BY <1>1, RowsJoined
<1>3. /\ st \in Text /\ Len(s) \in Nat /\ Len(t) \in Nat /\ Len(st) = Len(s) + Len(t)
      /\ \A i \in 1..Len(s) : st[i] = s[i]
      /\ \A j \in 1..Len(t) : st[Len(s) + j] = t[j]
  BY <1>1, JoinIs
<1>4. Short(a) /\ Short(b) => Pieces(st) = ab
  BY <1>1, PiecesJoined DEF Spells
<1>5. HasCut(s) \/ HasCut(t) => HasCut(st)
  BY <1>1, CutJoined
<1>6. (a = <<>> <=> Len(a) = 0) /\ (b = <<>> <=> Len(b) = 0) /\ (ab = <<>> <=> Len(ab) = 0)
  BY <1>1, <1>2, EmptySeq
<1>7. (s = <<>> <=> Len(s) = 0) /\ (t = <<>> <=> Len(t) = 0) /\ (st = <<>> <=> Len(st) = 0)
  BY <1>1, <1>3, EmptySeq DEF Text
<1>8. a = <<>> => st = t /\ ab = b
  BY <1>1, ConcatEmptySeq DEF Spells, Text
<1> HIDE DEF st, ab
<1>9. \A i \in 1..Len(ab) : Row(ab[i])
  BY <1>1, <1>2
<1>10. Short(ab) <=> Short(a) /\ Short(b)
  <2>1. ASSUME Short(ab) PROVE Short(a) /\ Short(b)
    <3>1. \A i \in 1..Len(a) : i \in 1..Len(ab)
      BY <1>2
    <3>2. ASSUME NEW j \in 1..Len(b) PROVE Len(b[j]) < LineMax
      <4> DEFINE i == Len(a) + j
      <4>1. i \in 1..Len(ab) /\ ab[i] = b[j]
        BY <1>2
      <4> HIDE DEF i
      <4>2. QED
        BY <2>1, <4>1 DEF Short
    <3>3. QED
      BY <1>2, <2>1, <3>1, <3>2 DEF Short
  <2>2. ASSUME Short(a), Short(b) PROVE Short(ab)
    BY <1>2, <2>2 DEF Short
  <2>3. QED
    BY <2>1, <2>2
<1>11. EndsLine(st)
  <2>1. CASE t = <<>>
    <3>1. st = s
      BY <1>1, <2>1, ConcatEmptySeq DEF st, Text
    <3>2. QED
      BY <1>1, <3>1
  <2>2. CASE t # <<>>
    <3>1. Len(t) \in 1..Len(t) /\ t[Len(t)] = NL
      BY <1>1, <1>3, <1>7, <2>2 DEF EndsLine
    <3>2. st[Len(s) + Len(t)] = NL
      BY <1>3, <3>1
    <3>3. QED
      BY <1>3, <3>2 DEF EndsLine
  <2>3. QED
    BY <2>1, <2>2
<1>12. CASE a = <<>>
  <2>1. Short(a)
    BY <1>6, <1>12 DEF Short
  <2>2. QED
    BY <1>8, <1>12 DEF st, ab
<1>13. CASE a # <<>>
  <2>1. s # <<>> /\ s[1] = a[1][1]
    BY <1>13 DEF Spells
  <2>2. 1 \in 1..Len(a) /\ 1 \in 1..Len(s)
    BY <1>2, <1>3, <1>6, <1>7, <1>13, <2>1
  <2>3. ab # <<>> /\ st # <<>>
    BY <1>2, <1>3, <1>6, <1>7, <1>13, <2>1
  <2>4. st[1] = ab[1][1]
    BY <1>2, <1>3, <2>1, <2>2
  <2>5. ~Short(ab) => HasCut(st)
    BY <1>5, <1>10 DEF Spells
  <2>6. Spells(st, ab)
    BY <1>2, <1>3, <1>4, <1>9, <1>10, <1>11, <2>3, <2>4, <2>5 DEF Spells
  <2>7. QED
    BY <2>6 DEF st, ab
<1>14. QED
  BY <1>12, <1>13

\* Rows joined spell a text, and so does what comes after the first of them.
LEMMA RowsSpelled ==
  ASSUME NEW ss \in Seq(Text), \A i \in 1..Len(ss) : Row(ss[i]), NEW n \in 0..Len(ss)
  PROVE  \E s : /\ FlattenSeq(ss) = Upto(ss, n) \o s
                /\ Spells(s, SubSeq(ss, n + 1, Len(ss)))
<1> DEFINE a == n + 1
           Rest(m) == \E s : Upto(ss, m) = Upto(ss, n) \o s /\ Spells(s, SubSeq(ss, a, m))
           T == {m \in Nat : m \in n..Len(ss) /\ ~Rest(m)}
<1>1. Len(ss) \in Nat /\ n \in Nat /\ a \in Nat /\ a >= 1 /\ a = n + 1
  OBVIOUS
<1> HIDE DEF a
<1>2. T = {}
  <2> SUFFICES ASSUME T # {} PROVE FALSE
    OBVIOUS
  <2>1. PICK m \in T : \A l \in T : m <= l
    BY Least
  <2>2. m \in Nat /\ m \in n..Len(ss) /\ ~Rest(m)
    OBVIOUS
  <2>3. CASE m = n
    <3>1. Upto(ss, n) \in Seq(Chars)
      BY UptoIs DEF Text
    <3>2. Upto(ss, n) = Upto(ss, n) \o <<>>
      BY <3>1, ConcatEmptySeq
    <3>3. SubSeq(ss, a, m) = <<>>
      BY <1>1, <2>3, SubSeqEmpty
    <3>4. Spells(<<>>, SubSeq(ss, a, m))
      BY <3>3, NothingSpelled
    <3>5. QED
      BY <2>2, <2>3, <3>2, <3>4
  <2>4. CASE m # n
    <3> DEFINE p == m - 1
    <3>1. p \in Nat /\ p \in n..Len(ss) /\ p \in 0..Len(ss) /\ ~(m <= p)
      BY <1>1, <2>2, <2>4
    <3>2. m \in 1..Len(ss) /\ a \in 1..Len(ss) /\ m \in a..Len(ss)
      BY <1>1, <2>2, <2>4
    <3>3. Upto(ss, m) = Upto(ss, p) \o ss[m]
      BY <3>2, UptoIs
    <3>4. SubSeq(ss, a, m) = SubSeq(ss, a, p) \o <<ss[m]>>
      BY <3>2, SubSeqRecursiveSecond
    <3> HIDE DEF p
    <3>5. p \notin T
      BY <2>1, <3>1
    <3>6. Rest(p)
      BY <3>1, <3>5
    <3>7. PICK s : Upto(ss, p) = Upto(ss, n) \o s /\ Spells(s, SubSeq(ss, a, p))
      BY <3>6
    <3>8. Row(ss[m]) /\ ss[m] \in Text
      BY <3>2
    <3>9. Spells(s \o ss[m], SubSeq(ss, a, m))
      BY <3>4, <3>7, <3>8, RowSpelled, SpelledJoined
    <3>10. s \in Seq(Chars) /\ ss[m] \in Seq(Chars) /\ Upto(ss, n) \in Seq(Chars)
      BY <3>7, <3>8, UptoIs DEF Spells, Text
    <3> DEFINE x == Upto(ss, n)
               y == ss[m]
    <3>11. Upto(ss, m) = Upto(ss, n) \o (s \o ss[m])
      <4>1. x \in Seq(Chars) /\ s \in Seq(Chars) /\ y \in Seq(Chars)
        BY <3>10
      <4> HIDE DEF x, y
      <4>2. (x \o s) \o y = x \o (s \o y)
        BY <4>1, ConcatAssociative, SMTT(30)
      <4>3. QED
        BY <3>3, <3>7, <4>2 DEF x, y
    <3>12. QED
      BY <2>2, <3>9, <3>11
  <2>5. QED
    BY <2>3, <2>4
<1>3. Rest(Len(ss))
  BY <1>1, <1>2
<1>4. QED
  BY <1>3, FlattenIs DEF a

\* All of them.
LEMMA AllSpelled ==
  ASSUME NEW ss \in Seq(Text), \A i \in 1..Len(ss) : Row(ss[i])
  PROVE  Spells(FlattenSeq(ss), ss)
<1>1. 0 \in 0..Len(ss)
  OBVIOUS
<1>2. PICK s : FlattenSeq(ss) = Upto(ss, 0) \o s /\ Spells(s, SubSeq(ss, 0 + 1, Len(ss)))
  BY <1>1, RowsSpelled
<1>3. SubSeq(ss, 0 + 1, Len(ss)) = ss
  BY SubSeqFull
<1>4. s \in Seq(Chars)
  BY <1>2 DEF Spells, Text
<1>5. <<>> \o s = s
  BY <1>4, ConcatEmptySeq
<1>6. QED
  BY <1>2, <1>3, <1>5, UptoIs

-----------------------------------------------------------------------------
(* What the lines of a context that is written tell of it *)

\* No character in it is one that a file cannot hold where it is.
Printable(c) ==
  \A n \in DOMAIN c :
    /\ ~HasAny(n, {"]", NL, NUL})
    /\ \A k \in DOMAIN c[n] : KeySurvives(k) /\ ~HasAny(c[n][k], {NL, NUL})

\* Headers and pairs of a printable context are rows, tell the name, the key and the
\* value, and are told apart.
LEMMA RowKinds ==
  ASSUME NEW c, IsContext(c), Printable(c), NEW n \in DOMAIN c
  PROVE  /\ n \in Text /\ IsTable(c[n])
         /\ Row(HeaderText(n)) /\ First(HeaderText(n)) = "["
         /\ IsHeader(HeaderText(n)) /\ NameOf(HeaderText(n)) = n
         /\ HeaderText(n) # <<NL>>
         /\ \A k \in DOMAIN c[n] :
              LET r == PairText(k, c[n][k])
              IN /\ k \in Text /\ c[n][k] \in Text /\ KeySurvives(k)
                 /\ ~HasAny(c[n][k], {NL, NUL})
                 /\ Row(r) /\ First(r) = r[1] /\ r[1] = k[1] /\ First(r) # "[" /\ First(r) # NL
                 /\ First(r) # CR
                 /\ First(r) \notin Comments
                 /\ KeyOf(r) = k /\ Find(r, "=") > 1
                 /\ AfterEquals(r) = Written(c[n][k]) \o <<NL>>
         /\ \A m \in DOMAIN c : HeaderText(m) = HeaderText(n) => m = n
<1>1. n \in Text /\ IsTable(c[n]) /\ ~HasAny(n, {"]", NL, NUL})
  BY DEF IsContext, Printable
<1>2. \A m \in DOMAIN c : /\ Row(HeaderText(m)) /\ First(HeaderText(m)) = "["
                          /\ IsHeader(HeaderText(m)) /\ NameOf(HeaderText(m)) = m
  BY HeaderIsRow DEF IsContext, Printable
<1>3. HeaderText(n) # <<NL>>
  <2>1. "[" # NL /\ <<NL>> # <<>> /\ <<NL>>[1] = NL
    BY DEF NL
  <2>2. First(<<NL>>) = NL
    BY <2>1 DEF First
  <2>3. QED
    BY <1>2, <2>1, <2>2
<1>4. ASSUME NEW k \in DOMAIN c[n]
      PROVE  LET r == PairText(k, c[n][k])
             IN /\ k \in Text /\ c[n][k] \in Text /\ KeySurvives(k)
                /\ ~HasAny(c[n][k], {NL, NUL})
                /\ Row(r) /\ First(r) = r[1] /\ r[1] = k[1] /\ First(r) # "[" /\ First(r) # NL
                /\ First(r) # CR
                /\ First(r) \notin Comments
                /\ KeyOf(r) = k /\ Find(r, "=") > 1
                /\ AfterEquals(r) = Written(c[n][k]) \o <<NL>>
  <2> DEFINE r == PairText(k, c[n][k])
  <2>1. k \in Text /\ c[n][k] \in Text
    BY <1>1 DEF IsTable
  <2>2. KeySurvives(k) /\ ~HasAny(c[n][k], {NL, NUL})
    BY DEF Printable
  <2>3. /\ Row(r) /\ First(r) = k[1] /\ r[1] = k[1]
        /\ Find(r, "=") = Len(k) + 1 /\ KeyOf(r) = k
        /\ AfterEquals(r) = Written(c[n][k]) \o <<NL>>
    BY <2>1, <2>2, PairIsRow
  <2> HIDE DEF r
  <2>4. /\ Len(k) \in Nat /\ Len(k) # 0
        /\ k[1] \notin Blanks \cup Comments /\ k[1] # "[" /\ k[1] # CR /\ k[1] # NL
    BY <2>1, <2>2, KeyChars
  <2>5. Find(r, "=") > 1
    BY <2>3, <2>4
  <2>6. QED
    BY <2>1, <2>2, <2>3, <2>4, <2>5 DEF r
<1>5. QED
  BY <1>1, <1>2, <1>3, <1>4

\* Row i comes under the header of section n.
Under(rs, i, n) ==
  \E j \in 1..(i - 1) : rs[j] = HeaderText(n) /\ \A l \in (j + 1)..(i - 1) : First(rs[l]) # "["

\* Row i is the pair with key k of section n, in the place for it.
IsPair(c, rs, i, n, k) ==
  rs[i] = PairText(k, c[n][k]) /\ (n # Global => Under(rs, i, n))

\* The rows rs are blank, or tell of the sections in S; they tell all of these,
\* and each header once.
OnlyTold(rs, c, S) ==
  \A i \in 1..Len(rs) :
    \/ rs[i] = <<NL>>
    \/ \E n \in S \ {Global} : rs[i] = HeaderText(n)
    \/ \E n \in S : \E k \in DOMAIN c[n] : IsPair(c, rs, i, n, k)
HeadersTold(rs, S) ==
  \A n \in S \ {Global} : \E i \in 1..Len(rs) : rs[i] = HeaderText(n)
OnceTold(rs, S) ==
  \A n \in S \ {Global} : \A i, j \in 1..Len(rs) :
    rs[i] = HeaderText(n) /\ rs[j] = HeaderText(n) => i = j
PairsTold(rs, c, S) ==
  \A n \in S : \A k \in DOMAIN c[n] : \E i \in 1..Len(rs) : IsPair(c, rs, i, n, k)
Told(rs, c, S) ==
  OnlyTold(rs, c, S) /\ HeadersTold(rs, S) /\ OnceTold(rs, S) /\ PairsTold(rs, c, S)

\* Rows before or after do not take a row from under its header.
LEMMA UnderJoined ==
  ASSUME NEW a \in Seq(Text), NEW b \in Seq(Text), NEW n
  PROVE  /\ \A i \in 1..Len(a) : Under(a, i, n) => Under(a \o b, i, n)
         /\ \A i \in 1..Len(b) : Under(b, i, n) => Under(a \o b, Len(a) + i, n)
<1> DEFINE ab == a \o b
<1>1. /\ Len(a) \in Nat /\ Len(b) \in Nat
      /\ \A i \in 1..Len(a) : ab[i] = a[i]
      /\ \A j \in 1..Len(b) : ab[Len(a) + j] = b[j]
  BY RowsJoined
<1> HIDE DEF ab
<1>2. ASSUME NEW i \in 1..Len(a), Under(a, i, n) PROVE Under(ab, i, n)
  <2>1. PICK j \in 1..(i - 1) : /\ a[j] = HeaderText(n)
                                /\ \A l \in (j + 1)..(i - 1) : First(a[l]) # "["
    BY <1>2 DEF Under
  <2>2. \A l \in 1..(i - 1) : l \in 1..Len(a)
    BY <1>1
  <2>3. \A l \in (j + 1)..(i - 1) : l \in 1..(i - 1)
    BY <1>1
  <2>4. ab[j] = HeaderText(n) /\ \A l \in (j + 1)..(i - 1) : First(ab[l]) # "["
    BY <1>1, <2>1, <2>2, <2>3
  <2>5. QED
    BY <2>4 DEF Under
<1>3. ASSUME NEW i \in 1..Len(b), Under(b, i, n) PROVE Under(ab, Len(a) + i, n)
  <2>1. PICK j \in 1..(i - 1) : /\ b[j] = HeaderText(n)
                                /\ \A l \in (j + 1)..(i - 1) : First(b[l]) # "["
    BY <1>3 DEF Under
  <2> DEFINE x == Len(a) + i
             y == Len(a) + j
  <2>2. x \in Nat /\ y \in 1..(x - 1) /\ j \in 1..Len(b)
    BY <1>1
  <2>3. ab[y] = HeaderText(n)
    BY <1>1, <2>1, <2>2
  <2>4. ASSUME NEW l \in (y + 1)..(x - 1) PROVE First(ab[l]) # "["
    <3> DEFINE m == l - Len(a)
    <3>1. m \in (j + 1)..(i - 1) /\ m \in 1..Len(b) /\ l = Len(a) + m
      BY <1>1
    <3> HIDE DEF m
    <3>2. ab[Len(a) + m] = b[m] /\ First(b[m]) # "["
      BY <1>1, <2>1, <3>1
    <3>3. QED
      BY <3>1, <3>2
  <2> HIDE DEF x, y
  <2>5. Under(ab, x, n)
    BY <2>2, <2>3, <2>4 DEF Under
  <2>6. QED
    BY <2>5 DEF x
<1>4. QED
  BY <1>2, <1>3 DEF ab

\* A row that is the header of a section tells of one of those in S.
LEMMA HeaderFrom ==
  ASSUME NEW c, IsContext(c), Printable(c), NEW S \in SUBSET DOMAIN c, NEW rs, OnlyTold(rs, c, S),
         NEW n \in DOMAIN c, NEW i \in 1..Len(rs), rs[i] = HeaderText(n)
  PROVE  n \in S \ {Global}
<1>1. HeaderText(n) # <<NL>> /\ First(HeaderText(n)) = "["
  BY RowKinds
<1>2. \A m \in S : HeaderText(n) = HeaderText(m) => m = n
  BY RowKinds
<1>3. \A m \in S : \A k \in DOMAIN c[m] : First(PairText(k, c[m][k])) # "["
  BY RowKinds
<1>4. \A m \in S : \A k \in DOMAIN c[m] : ~IsPair(c, rs, i, m, k)
  BY <1>1, <1>3 DEF IsPair
<1>5. \E m \in S \ {Global} : rs[i] = HeaderText(m)
  BY <1>1, <1>4 DEF OnlyTold
<1>6. QED
  BY <1>2, <1>5

\* Pairs stay in their place when rows are joined.
LEMMA PairJoined ==
  ASSUME NEW a \in Seq(Text), NEW b \in Seq(Text), NEW c, NEW n, NEW k
  PROVE  /\ \A i \in 1..Len(a) : IsPair(c, a, i, n, k) => IsPair(c, a \o b, i, n, k)
         /\ \A i \in 1..Len(b) : IsPair(c, b, i, n, k) => IsPair(c, a \o b, Len(a) + i, n, k)
BY RowsJoined, UnderJoined DEF IsPair

\* What one text tells of some sections and the next of others, both tell of
\* all of them.
LEMMA ToldJoined ==
  ASSUME NEW c, IsContext(c), Printable(c),
         NEW S \in SUBSET DOMAIN c, NEW U \in SUBSET DOMAIN c, S \cap U = {},
         NEW a \in Seq(Text), NEW b \in Seq(Text), Told(a, c, S), Told(b, c, U)
  PROVE  Told(a \o b, c, S \cup U)
<1> DEFINE ab == a \o b
           V == S \cup U
<1>1. /\ ab \in Seq(Text) /\ Len(a) \in Nat /\ Len(b) \in Nat /\ Len(ab) = Len(a) + Len(b)
      /\ \A i \in 1..Len(a) : ab[i] = a[i]
      /\ \A j \in 1..Len(b) : ab[Len(a) + j] = b[j]
      /\ \A i \in 1..Len(ab) : i \in 1..Len(a) \/ \E j \in 1..Len(b) : i = Len(a) + j
  BY RowsJoined
<1>2. \A n, k : /\ \A i \in 1..Len(a) : IsPair(c, a, i, n, k) => IsPair(c, ab, i, n, k)
                /\ \A i \in 1..Len(b) : IsPair(c, b, i, n, k) => IsPair(c, ab, Len(a) + i, n, k)
  BY PairJoined
<1>3. /\ OnlyTold(a, c, S) /\ HeadersTold(a, S) /\ OnceTold(a, S) /\ PairsTold(a, c, S)
      /\ OnlyTold(b, c, U) /\ HeadersTold(b, U) /\ OnceTold(b, U) /\ PairsTold(b, c, U)
  BY DEF Told
<1> DEFINE At(j) == Len(a) + j
<1>4. /\ \A i \in 1..Len(a) : i \in 1..Len(ab)
      /\ \A j \in 1..Len(b) : At(j) \in 1..Len(ab) /\ At(j) \notin 1..Len(a)
      /\ \A i, j \in 1..Len(b) : At(i) = At(j) => i = j
  BY <1>1
<1>5. /\ \A j \in 1..Len(b) : ab[At(j)] = b[j]
      /\ \A i \in 1..Len(ab) : i \in 1..Len(a) \/ \E j \in 1..Len(b) : i = At(j)
      /\ \A n, k : \A i \in 1..Len(b) : IsPair(c, b, i, n, k) => IsPair(c, ab, At(i), n, k)
  BY <1>1, <1>2
<1> HIDE DEF ab, At
<1>6. OnlyTold(ab, c, V)
  <2> SUFFICES ASSUME NEW i \in 1..Len(ab)
               PROVE  \/ ab[i] = <<NL>>
                      \/ \E n \in V \ {Global} : ab[i] = HeaderText(n)
                      \/ \E n \in V : \E k \in DOMAIN c[n] : IsPair(c, ab, i, n, k)
    BY DEF OnlyTold
  <2>1. CASE i \in 1..Len(a)
    <3>1. \/ a[i] = <<NL>>
          \/ \E n \in S \ {Global} : a[i] = HeaderText(n)
          \/ \E n \in S : \E k \in DOMAIN c[n] : IsPair(c, a, i, n, k)
      BY <1>3, <2>1 DEF OnlyTold
    <3>2. ab[i] = a[i]
      BY <1>1, <2>1
    <3>3. CASE \E n \in S : \E k \in DOMAIN c[n] : IsPair(c, a, i, n, k)
      BY <1>2, <2>1, <3>3
    <3>4. QED
      BY <3>1, <3>2, <3>3
  <2>2. ASSUME NEW j \in 1..Len(b), i = At(j)
        PROVE  \/ ab[i] = <<NL>>
               \/ \E n \in V \ {Global} : ab[i] = HeaderText(n)
               \/ \E n \in V : \E k \in DOMAIN c[n] : IsPair(c, ab, i, n, k)
    <3>1. \/ b[j] = <<NL>>
          \/ \E n \in U \ {Global} : b[j] = HeaderText(n)
          \/ \E n \in U : \E k \in DOMAIN c[n] : IsPair(c, b, j, n, k)
      BY <1>3 DEF OnlyTold
    <3>2. ab[i] = b[j]
      BY <1>5, <2>2
    <3>3. CASE \E n \in U : \E k \in DOMAIN c[n] : IsPair(c, b, j, n, k)
      BY <1>5, <2>2, <3>3
    <3>4. QED
      BY <3>1, <3>2, <3>3
  <2>3. QED
    BY <1>5, <2>1, <2>2
<1>7. HeadersTold(ab, V)
  <2> SUFFICES ASSUME NEW n \in V \ {Global} PROVE \E i \in 1..Len(ab) : ab[i] = HeaderText(n)
    BY DEF HeadersTold
  <2>1. CASE n \in S
    <3>1. PICK i \in 1..Len(a) : a[i] = HeaderText(n)
      BY <1>3, <2>1 DEF HeadersTold
    <3>2. QED
      BY <1>1, <1>4, <3>1
  <2>2. CASE n \in U
    <3>1. PICK i \in 1..Len(b) : b[i] = HeaderText(n)
      BY <1>3, <2>2 DEF HeadersTold
    <3>2. QED
      BY <1>4, <1>5, <3>1
  <2>3. QED
    BY <2>1, <2>2
<1>8. OnceTold(ab, V)
  <2> SUFFICES ASSUME NEW n \in V \ {Global}, NEW i \in 1..Len(ab), NEW j \in 1..Len(ab),
                      ab[i] = HeaderText(n), ab[j] = HeaderText(n)
               PROVE  i = j
    BY DEF OnceTold
  <2>1. n \in DOMAIN c
    OBVIOUS
  <2>2. \A x \in 1..Len(a) : ab[x] = HeaderText(n) => n \in S
    BY <1>1, <1>3, <2>1, HeaderFrom
  <2>3. \A x \in 1..Len(b) : ab[At(x)] = HeaderText(n) => n \in U
    BY <1>3, <1>5, <2>1, HeaderFrom
  <2>4. CASE n \in S
    <3>1. i \in 1..Len(a) /\ j \in 1..Len(a)
      BY <1>5, <2>3, <2>4
    <3>2. a[i] = HeaderText(n) /\ a[j] = HeaderText(n)
      BY <1>1, <3>1
    <3>3. QED
      BY <1>3, <2>4, <3>1, <3>2 DEF OnceTold
  <2>5. CASE n \in U
    <3>1. PICK x \in 1..Len(b) : i = At(x)
      BY <1>5, <2>2, <2>5
    <3>2. PICK y \in 1..Len(b) : j = At(y)
      BY <1>5, <2>2, <2>5
    <3>3. b[x] = HeaderText(n) /\ b[y] = HeaderText(n)
      BY <1>5, <3>1, <3>2
    <3>4. x = y
      BY <1>3, <2>5, <3>3 DEF OnceTold
    <3>5. QED
      BY <3>1, <3>2, <3>4
  <2>6. QED
    BY <2>4, <2>5
<1>9. PairsTold(ab, c, V)
  <2> SUFFICES ASSUME NEW n \in V, NEW k \in DOMAIN c[n]
               PROVE  \E i \in 1..Len(ab) : IsPair(c, ab, i, n, k)
    BY DEF PairsTold
  <2>1. CASE n \in S
    <3>1. PICK i \in 1..Len(a) : IsPair(c, a, i, n, k)
      BY <1>3, <2>1 DEF PairsTold
    <3>2. QED
      BY <1>2, <1>4, <3>1
  <2>2. CASE n \in U
    <3>1. PICK i \in 1..Len(b) : IsPair(c, b, i, n, k)
      BY <1>3, <2>2 DEF PairsTold
    <3>2. QED
      BY <1>4, <1>5, <3>1
  <2>3. QED
    BY <2>1, <2>2
<1>10. QED
  BY <1>6, <1>7, <1>8, <1>9 DEF Told, ab

\* The pairs of a table, row by row.
PairRows(table) ==
  LET keys == SetToSeq(DOMAIN table) IN [i \in DOMAIN keys |-> PairText(keys[i], table[keys[i]])]

\* The pairs of a table are printed row by row, all of them and no other.
LEMMA TableRows ==
  ASSUME NEW c, IsContext(c), Printable(c), NEW n \in DOMAIN c
  PROVE  /\ Spells(PairsText(c[n]), PairRows(c[n]))
         /\ \A i \in 1..Len(PairRows(c[n])) :
              \E k \in DOMAIN c[n] : PairRows(c[n])[i] = PairText(k, c[n][k])
         /\ \A k \in DOMAIN c[n] :
              \E i \in 1..Len(PairRows(c[n])) : PairRows(c[n])[i] = PairText(k, c[n][k])
<1> DEFINE table == c[n]
           keys == SetToSeq(DOMAIN table)
           rs == PairRows(table)
<1>1. IsTable(table) /\ IsFiniteSet(DOMAIN table)
  BY RowKinds DEF IsTable
<1>2. keys \in Seq(DOMAIN table) /\ DOMAIN table = {keys[i] : i \in DOMAIN keys}
  BY <1>1, KeysAre
<1>3. rs = [i \in DOMAIN keys |-> PairText(keys[i], table[keys[i]])]
  BY DEF PairRows
<1>4. PairsText(table) = FlattenSeq(rs)
  BY DEF PairsText, PairRows
<1>5. \A k \in DOMAIN table : Row(PairText(k, table[k])) /\ PairText(k, table[k]) \in Text
  BY RowKinds DEF Row, OneLine
<1> HIDE DEF keys, rs
<1>6. Len(keys) \in Nat /\ DOMAIN keys = 1..Len(keys) /\ \A i \in 1..Len(keys) : keys[i] \in DOMAIN table
  BY <1>2
<1>7. rs \in Seq(Text) /\ Len(rs) = Len(keys)
  BY <1>3, <1>5, <1>6
<1>8. \A i \in 1..Len(rs) : rs[i] = PairText(keys[i], table[keys[i]])
  BY <1>3, <1>6, <1>7
<1>9. Spells(FlattenSeq(rs), rs)
  BY <1>5, <1>6, <1>7, <1>8, AllSpelled
<1>10. \A i \in 1..Len(rs) : \E k \in DOMAIN table : rs[i] = PairText(k, table[k])
  BY <1>6, <1>7, <1>8
<1>11. \A k \in DOMAIN table : \E i \in 1..Len(rs) : rs[i] = PairText(k, table[k])
  BY <1>2, <1>6, <1>7, <1>8
<1>12. QED
  BY <1>4, <1>9, <1>10, <1>11 DEF rs

-----------------------------------------------------------------------------
(* What a text tells of a context, section by section *)

\* A blank line tells nothing.
LEMMA BlankTold ==
  ASSUME NEW c
  PROVE  Told(<<<<NL>>>>, c, {}) /\ Spells(<<NL>>, <<<<NL>>>>)
<1>1. Len(<<<<NL>>>>) = 1 /\ <<<<NL>>>>[1] = <<NL>>
  OBVIOUS
<1>2. OnlyTold(<<<<NL>>>>, c, {})
  BY <1>1 DEF OnlyTold
<1>3. QED
  BY <1>2, BlankIsRow, RowSpelled DEF Told, HeadersTold, OnceTold, PairsTold

\* The global section has no header.
LEMMA GlobalTold ==
  ASSUME NEW c, IsContext(c), Printable(c), Global \in DOMAIN c
  PROVE  Told(PairRows(c[Global]), c, {Global})
<1> DEFINE rs == PairRows(c[Global])
<1>1. \A i \in 1..Len(rs) : \E k \in DOMAIN c[Global] : rs[i] = PairText(k, c[Global][k])
  BY TableRows
<1>2. \A k \in DOMAIN c[Global] : \E i \in 1..Len(rs) : rs[i] = PairText(k, c[Global][k])
  BY TableRows
<1> HIDE DEF rs
<1>3. OnlyTold(rs, c, {Global})
  BY <1>1 DEF OnlyTold, IsPair
<1>4. PairsTold(rs, c, {Global})
  BY <1>2 DEF PairsTold, IsPair
<1>5. HeadersTold(rs, {Global}) /\ OnceTold(rs, {Global})
  BY DEF HeadersTold, OnceTold
<1>6. QED
  BY <1>3, <1>4, <1>5 DEF Told, rs

\* Every other section has one, and its pairs come under it.
LEMMA SectionTold ==
  ASSUME NEW c, IsContext(c), Printable(c), NEW n \in DOMAIN c, n # Global
  PROVE  LET rs == <<HeaderText(n)>> \o PairRows(c[n])
         IN Spells(SectionText(n, c[n]), rs) /\ Told(rs, c, {n})
<1> DEFINE h == <<HeaderText(n)>>
           ps == PairRows(c[n])
           rs == h \o ps
<1>1. /\ Spells(PairsText(c[n]), ps)
      /\ \A i \in 1..Len(ps) : \E k \in DOMAIN c[n] : ps[i] = PairText(k, c[n][k])
      /\ \A k \in DOMAIN c[n] : \E i \in 1..Len(ps) : ps[i] = PairText(k, c[n][k])
  BY TableRows
<1>2. Row(HeaderText(n)) /\ HeaderText(n) \in Text /\ First(HeaderText(n)) = "["
  BY RowKinds DEF Row, OneLine
<1>3. \A k \in DOMAIN c[n] : First(PairText(k, c[n][k])) # "["
  BY RowKinds
<1>4. h \in Seq(Text) /\ Len(h) = 1 /\ h[1] = HeaderText(n)
  BY <1>2
<1>5. Spells(HeaderText(n), h)
  BY <1>2, RowSpelled
<1> HIDE DEF h, ps
<1>6. Spells(SectionText(n, c[n]), rs)
  BY <1>1, <1>5, SpelledJoined DEF SectionText
<1>7. ps \in Seq(Text)
  BY <1>1 DEF Spells
<1>8. /\ rs \in Seq(Text) /\ Len(ps) \in Nat /\ Len(rs) = 1 + Len(ps)
      /\ rs[1] = HeaderText(n)
      /\ \A j \in 1..Len(ps) : rs[1 + j] = ps[j]
  <2>1. 1 \in 1..Len(h)
    BY <1>4
  <2>2. QED
    BY <1>4, <1>7, <2>1, RowsJoined
<1> HIDE DEF rs
<1> DEFINE At(j) == 1 + j
<1>9. /\ 1 \in 1..Len(rs)
      /\ \A j \in 1..Len(ps) : At(j) \in 1..Len(rs) /\ At(j) # 1 /\ rs[At(j)] = ps[j]
      /\ \A i \in 1..Len(rs) : i = 1 \/ \E j \in 1..Len(ps) : i = At(j)
  <2>1. ASSUME NEW i \in 1..Len(rs), i # 1 PROVE \E j \in 1..Len(ps) : i = At(j)
    <3>1. i - 1 \in 1..Len(ps) /\ i = At(i - 1)
      BY <1>8, <2>1
    <3>2. QED
      BY <3>1
  <2>2. 1 \in 1..Len(rs)
    BY <1>8
  <2>3. ASSUME NEW j \in 1..Len(ps) PROVE At(j) \in 1..Len(rs) /\ At(j) # 1 /\ rs[At(j)] = ps[j]
    BY <1>8
  <2> HIDE DEF At
  <2>4. QED
    BY <2>1, <2>2, <2>3
<1> HIDE DEF At
<1>10. ASSUME NEW j \in 1..Len(ps) PROVE First(rs[At(j)]) # "["
  <2>1. PICK k \in DOMAIN c[n] : ps[j] = PairText(k, c[n][k])
    BY <1>1
  <2>2. First(ps[j]) # "["
    BY <1>3, <2>1
  <2>3. QED
    BY <1>9, <2>2
<1>11. ASSUME NEW j \in 1..Len(ps) PROVE Under(rs, At(j), n)
  <2>1. 1 \in 1..(At(j) - 1) /\ \A l \in (1 + 1)..(At(j) - 1) : l \in 1..Len(rs) /\ l # 1
    BY <1>8 DEF At
  <2>2. \A l \in (1 + 1)..(At(j) - 1) : First(rs[l]) # "["
    BY <1>9, <1>10, <2>1
  <2>3. QED
    BY <1>8, <2>1, <2>2 DEF Under
<1>12. \A j \in 1..Len(ps), k \in DOMAIN c[n] :
         ps[j] = PairText(k, c[n][k]) => IsPair(c, rs, At(j), n, k)
  BY <1>9, <1>11 DEF IsPair
<1>13. OnlyTold(rs, c, {n})
  <2>1. ASSUME NEW j \in 1..Len(ps)
        PROVE  \E k \in DOMAIN c[n] : IsPair(c, rs, At(j), n, k)
    BY <1>1, <1>12
  <2>2. \A i \in 1..Len(rs) : rs[i] = HeaderText(n) \/ \E k \in DOMAIN c[n] : IsPair(c, rs, i, n, k)
    BY <1>8, <1>9, <2>1
  <2>3. QED
    BY <2>2 DEF OnlyTold
<1>14. HeadersTold(rs, {n})
  BY <1>8, <1>9 DEF HeadersTold
<1>15. OnceTold(rs, {n})
  <2>1. \A i \in 1..Len(rs) : rs[i] = HeaderText(n) => i = 1
    BY <1>2, <1>9, <1>10
  <2>2. QED
    BY <2>1 DEF OnceTold
<1>16. PairsTold(rs, c, {n})
  <2>1. ASSUME NEW k \in DOMAIN c[n] PROVE \E i \in 1..Len(rs) : IsPair(c, rs, i, n, k)
    <3>1. PICK j \in 1..Len(ps) : ps[j] = PairText(k, c[n][k])
      BY <1>1
    <3>2. QED
      BY <1>9, <1>12, <3>1
  <2>2. QED
    BY <2>1 DEF PairsTold
<1>17. QED
  BY <1>6, <1>13, <1>14, <1>15, <1>16 DEF Told, rs, h, ps

\* What is printed of one section tells of it.
LEMMA PartTold ==
  ASSUME NEW c, IsContext(c), Printable(c), NEW order \in Seq(DOMAIN c), NEW i \in 1..Len(order)
  PROVE  \E rs : Spells(Printed(c, order, i), rs) /\ Told(rs, c, {order[i]})
<1> DEFINE n == order[i]
           first == \A j \in 1..(i - 1) : SkipsSection(order[j], c[order[j]])
           body == IF n = Global THEN PairsText(c[n]) ELSE SectionText(n, c[n])
           gap == IF first THEN <<>> ELSE <<NL>>
<1>1. n \in DOMAIN c
  BY ElementOfSeq
<1>2. Printed(c, order, i) = IF SkipsSection(n, c[n]) THEN <<>> ELSE gap \o body
  BY DEF Printed
<1>3. \E rs : Spells(body, rs) /\ Told(rs, c, {n})
  <2>1. CASE n = Global
    BY <1>1, <2>1, TableRows, GlobalTold
  <2>2. CASE n # Global
    BY <1>1, <2>2, SectionTold
  <2>3. QED
    BY <2>1, <2>2
<1>4. gap = <<>> \/ gap = <<NL>>
  OBVIOUS
<1> HIDE DEF n, gap, body
<1>5. CASE SkipsSection(n, c[n])
  <2>1. n = Global /\ DOMAIN c[n] = {}
    BY <1>5 DEF SkipsSection
  <2>2. OnlyTold(<<>>, c, {n})
    BY DEF OnlyTold
  <2>3. Told(<<>>, c, {n})
    BY <2>1, <2>2 DEF Told, HeadersTold, OnceTold, PairsTold
  <2>4. QED
    BY <1>2, <1>5, <2>3, NothingSpelled DEF n
<1>6. CASE ~SkipsSection(n, c[n])
  <2>1. PICK rs : Spells(body, rs) /\ Told(rs, c, {n})
    BY <1>3
  <2>2. Printed(c, order, i) = gap \o body
    BY <1>2, <1>6
  <2>3. CASE gap = <<>>
    <3>1. body \in Seq(Chars)
      BY <2>1 DEF Spells, Text
    <3>2. gap \o body = body
      BY <2>3, <3>1, ConcatEmptySeq
    <3>3. QED
      BY <2>1, <2>2, <3>2 DEF n
  <2>4. CASE gap = <<NL>>
    <3> DEFINE b == <<<<NL>>>>
    <3>1. Told(b, c, {}) /\ Spells(gap, b)
      BY <2>4, BlankTold
    <3> HIDE DEF b
    <3>2. b \in Seq(Text) /\ rs \in Seq(Text)
      BY <2>1, <3>1 DEF Spells
    <3>3. Told(b \o rs, c, {} \cup {n})
      BY <1>1, <2>1, <3>1, <3>2, ToldJoined
    <3>4. Spells(gap \o body, b \o rs)
      BY <2>1, <3>1, SpelledJoined
    <3>5. {} \cup {n} = {n}
      OBVIOUS
    <3>6. QED
      BY <2>2, <3>3, <3>4, <3>5 DEF n
  <2>5. QED
    BY <1>4, <2>3, <2>4
<1>7. QED
  BY <1>5, <1>6

\* What ini_save writes tells of the whole context.
LEMMA SavedTold ==
  ASSUME NEW c, IsContext(c), Printable(c), NEW order \in SetToSeqs(DOMAIN c)
  PROVE  \E rs : Spells(SavedText(c, order), rs) /\ Told(rs, c, DOMAIN c)
<1> DEFINE ss == Parts(c, order)
           Names(m) == {order[j] : j \in 1..m}
           Tells(m) == \E rs : Spells(Upto(ss, m), rs) /\ Told(rs, c, Names(m))
           T == {m \in Nat : m \in 0..Len(order) /\ ~Tells(m)}
<1>1. order \in Seq(DOMAIN c) /\ DOMAIN c = {order[i] : i \in DOMAIN order}
  <2> DEFINE S == DOMAIN c
  <2>1. IsFiniteSet(S) /\ order \in SetToSeqs(S)
    BY DEF IsContext
  <2> HIDE DEF S
  <2>2. order \in Seq(S) /\ S = {order[i] : i \in DOMAIN order}
    BY <2>1, OrderOf
  <2>3. QED
    BY <2>2 DEF S
<1>2. \A i, j \in 1..Len(order) : order[i] = order[j] => i = j
  <2> DEFINE n == Cardinality(DOMAIN c)
  <2>1. n \in Nat
    BY FS_CardinalityType DEF IsContext
  <2>2. order \in [1..n -> DOMAIN c] /\ \A i, j \in 1..n : i # j => order[i] # order[j]
    BY DEF SetToSeqs
  <2>3. DOMAIN order = 1..Len(order) /\ DOMAIN order = 1..n
    BY <1>1, <2>2
  <2>4. QED
    BY <2>2, <2>3
<1>3. /\ ss \in Seq(Text) /\ Len(ss) = Len(order)
      /\ \A i \in 1..Len(order) : ss[i] = Printed(c, order, i)
      /\ SavedText(c, order) = Upto(ss, Len(order))
  BY <1>1, PartsAre
<1>4. Len(order) \in Nat /\ Names(Len(order)) = DOMAIN c /\ \A m \in 0..Len(order) : Names(m) \subseteq DOMAIN c
  BY <1>1
<1> HIDE DEF ss
<1>5. T = {}
  <2> SUFFICES ASSUME T # {} PROVE FALSE
    OBVIOUS
  <2>1. PICK m \in T : \A l \in T : m <= l
    BY Least
  <2>2. m \in Nat /\ m \in 0..Len(order) /\ ~Tells(m)
    OBVIOUS
  <2>3. CASE m = 0
    <3>1. Upto(ss, m) = <<>>
      BY <1>3, <2>3, UptoIs
    <3>2. Names(m) = {}
      BY <2>3
    <3>3. OnlyTold(<<>>, c, {})
      BY DEF OnlyTold
    <3>4. Told(<<>>, c, {})
      BY <3>3 DEF Told, HeadersTold, OnceTold, PairsTold
    <3>5. QED
      BY <2>2, <3>1, <3>2, <3>4, NothingSpelled
  <2>4. CASE m # 0
    <3> DEFINE p == m - 1
    <3>1. p \in Nat /\ p \in 0..Len(order) /\ ~(m <= p) /\ m \in 1..Len(order)
      BY <1>4, <2>2, <2>4
    <3>2. Upto(ss, m) = Upto(ss, p) \o ss[m]
      BY <1>3, <3>1, UptoIs
    <3>3. Names(m) = Names(p) \cup {order[m]} /\ Names(p) \cap {order[m]} = {}
      <4>1. 1..m = 1..p \cup {m} /\ m \notin 1..p
        BY <3>1
      <4>2. \A j \in 1..p : j \in 1..Len(order) /\ j # m
        BY <1>4, <3>1
      <4> HIDE DEF p
      <4>3. \A j \in 1..p : order[j] # order[m]
        BY <1>2, <3>1, <4>2
      <4>4. QED
        BY <4>1, <4>3
    <3> HIDE DEF p
    <3>4. p \notin T
      BY <2>1, <3>1
    <3>5. Tells(p)
      BY <3>1, <3>4
    <3>6. PICK a : Spells(Upto(ss, p), a) /\ Told(a, c, Names(p))
      BY <3>5
    <3>7. PICK b : Spells(ss[m], b) /\ Told(b, c, {order[m]})
      BY <1>1, <1>3, <3>1, PartTold
    <3>8. a \in Seq(Text) /\ b \in Seq(Text)
      BY <3>6, <3>7 DEF Spells
    <3>9. Names(p) \subseteq DOMAIN c /\ order[m] \in DOMAIN c
      BY <1>1, <1>4, <3>1
    <3>10. Spells(Upto(ss, m), a \o b)
      BY <3>2, <3>6, <3>7, SpelledJoined
    <3>11. Told(a \o b, c, Names(m))
      <4> HIDE DEF Names
      <4>1. Told(a \o b, c, Names(p) \cup {order[m]})
        BY <3>3, <3>6, <3>7, <3>8, <3>9, ToldJoined
      <4>2. QED
        BY <3>3, <4>1
    <3>12. QED
      BY <2>2, <3>10, <3>11
  <2>5. QED
    BY <2>3, <2>4
<1>6. Len(order) \in 0..Len(order)
  BY <1>4
<1>7. Tells(Len(order))
  BY <1>4, <1>5, <1>6
<1>8. QED
  BY <1>3, <1>4, <1>7

-----------------------------------------------------------------------------
(* What ini_good and ini_load make of the rows *)

\* Rows that fit come as lines.
LEMMA RowLines ==
  ASSUME NEW text, NEW rs, Spells(text, rs), Short(rs), First(text) # BOM
  PROVE  Lines(text) = rs
<1> DEFINE Line(p) == TrimLeft(UpToNul(p))
<1>1. /\ rs \in Seq(Text) /\ Pieces(text) = rs /\ text \in Text
      /\ \A i \in 1..Len(rs) : Row(rs[i])
  BY DEF Spells
<1>2. WithoutBom(text) = text
  BY DEF WithoutBom
<1>3. Lines(text) = [i \in DOMAIN rs |-> Line(rs[i])]
  BY <1>1, <1>2 DEF Lines
<1>4. ASSUME NEW r, Row(r) PROVE Line(r) = r
  <2>1. r \in Text /\ r # <<>> /\ r[1] \notin Blanks /\ \A i \in 1..Len(r) : r[i] # NUL
    BY <1>4 DEF Row, OneLine
  <2>2. UpToNul(r) = r
    BY <2>1, FindNone, UpToNulIs
  <2>3. First(r) \notin Blanks
    BY <2>1 DEF First
  <2>4. QED
    BY <2>1, <2>2, <2>3, TrimLeftIs
<1> HIDE DEF Line
<1>5. DOMAIN rs = 1..Len(rs) /\ rs = [i \in DOMAIN rs |-> rs[i]]
  BY <1>1
<1>6. \A i \in DOMAIN rs : Line(rs[i]) = rs[i]
  BY <1>1, <1>4, <1>5
<1>7. QED
  BY <1>3, <1>5, <1>6

\* What a row is, to ini_load.
LEMMA RowsRead ==
  ASSUME NEW c, IsContext(c), Printable(c), NEW ts \in Seq(Text), OnlyTold(ts, c, DOMAIN c)
  PROVE  /\ \A i \in 1..Len(ts), n \in DOMAIN c :
              ts[i] = HeaderText(n) => i \in Headers(ts) /\ NameOf(ts[i]) = n
         /\ \A i \in Headers(ts) : /\ i \in 1..Len(ts)
                                   /\ \E n \in DOMAIN c \ {Global} : ts[i] = HeaderText(n)
         /\ \A i \in 1..Len(ts), n \in DOMAIN c : \A k \in DOMAIN c[n] :
              IsPair(c, ts, i, n, k) => i \in Pairs(ts) /\ KeyOf(ts[i]) = k
         /\ \A i \in Pairs(ts) : /\ i \in 1..Len(ts)
                                 /\ \E n \in DOMAIN c : \E k \in DOMAIN c[n] : IsPair(c, ts, i, n, k)
<1>1. DOMAIN ts = 1..Len(ts)
  OBVIOUS
<1>2. /\ \A n \in DOMAIN c : /\ First(HeaderText(n)) = "["
                             /\ IsHeader(HeaderText(n)) /\ NameOf(HeaderText(n)) = n
      /\ \A n \in DOMAIN c : \A k \in DOMAIN c[n] :
           LET r == PairText(k, c[n][k])
           IN /\ KeySurvives(k) /\ First(r) # "[" /\ First(r) # NL /\ First(r) # CR
              /\ First(r) \notin Comments /\ KeyOf(r) = k /\ Find(r, "=") > 1
  BY RowKinds
<1>3. First(<<NL>>) = NL /\ "[" # NL
  BY EmptySeq DEF First, NL
<1>4. ASSUME NEW i \in 1..Len(ts), NEW n \in DOMAIN c, ts[i] = HeaderText(n)
      PROVE  i \in Headers(ts) /\ NameOf(ts[i]) = n
  BY <1>1, <1>2, <1>4 DEF Headers
<1>5. ASSUME NEW i \in 1..Len(ts), NEW n \in DOMAIN c, NEW k \in DOMAIN c[n],
             IsPair(c, ts, i, n, k)
      PROVE  i \in Pairs(ts) /\ KeyOf(ts[i]) = k /\ i \notin Headers(ts)
  <2> DEFINE r == PairText(k, c[n][k])
  <2>1. ts[i] = r
    BY <1>5 DEF IsPair
  <2>2. /\ KeySurvives(k) /\ First(r) # "[" /\ First(r) # NL /\ First(r) # CR
        /\ First(r) \notin Comments /\ KeyOf(r) = k /\ Find(r, "=") > 1
    BY <1>2
  <2> HIDE DEF r
  <2>3. Find(r, "=") # 0
    BY <2>2
  <2>4. k # <<>> /\ ~LoadSkips(r)
    BY <2>2 DEF KeySurvives, LoadSkips
  <2>5. QED
    BY <1>1, <2>1, <2>2, <2>3, <2>4 DEF Pairs, Headers, IsHeader
<1>6. \A i \in 1..Len(ts) : ts[i] = <<NL>> => i \notin Headers(ts) /\ i \notin Pairs(ts)
  BY <1>3 DEF Headers, IsHeader, Pairs, LoadSkips
<1>7. \A i \in 1..Len(ts) : \/ ts[i] = <<NL>>
                            \/ \E n \in DOMAIN c \ {Global} : ts[i] = HeaderText(n)
                            \/ \E n \in DOMAIN c : \E k \in DOMAIN c[n] : IsPair(c, ts, i, n, k)
  BY DEF OnlyTold
<1>8. \A i \in Headers(ts) : i \in 1..Len(ts)
  BY <1>1 DEF Headers
<1>9. \A i \in Headers(ts) : \E n \in DOMAIN c \ {Global} : ts[i] = HeaderText(n)
  BY <1>5, <1>6, <1>7, <1>8
<1>10. \A i \in Pairs(ts) : i \in 1..Len(ts) /\ First(ts[i]) # "["
  BY <1>1 DEF Pairs
<1>11. \A i \in Pairs(ts) : \E n \in DOMAIN c : \E k \in DOMAIN c[n] : IsPair(c, ts, i, n, k)
  BY <1>2, <1>6, <1>7, <1>10
<1>12. QED
  BY <1>4, <1>5, <1>8, <1>9, <1>10, <1>11

\* A row under a header is in its section, to ini_load and to ini_good.
LEMMA UnderIs ==
  ASSUME NEW c, IsContext(c), Printable(c), NEW ts \in Seq(Text), OnlyTold(ts, c, DOMAIN c),
         NEW n \in DOMAIN c, NEW i \in 1..Len(ts), Under(ts, i, n)
  PROVE  SectionOf(ts, i) = n /\ InSection(ts, i)
<1> DEFINE before == {j \in Headers(ts) : j < i}
<1>1. PICK j \in 1..(i - 1) : ts[j] = HeaderText(n) /\ \A l \in (j + 1)..(i - 1) : First(ts[l]) # "["
  BY DEF Under
<1>2. j \in 1..Len(ts) /\ j < i
  OBVIOUS
<1>3. j \in Headers(ts) /\ NameOf(ts[j]) = n /\ IsHeader(ts[j])
  BY <1>1, <1>2, RowsRead DEF Headers
<1>4. ASSUME NEW l \in before PROVE l \in 1..Len(ts) /\ l < i /\ l <= j
  <2>1. l \in 1..Len(ts) /\ l < i /\ First(ts[l]) = "["
    BY DEF Headers, IsHeader
  <2>2. l \notin (j + 1)..(i - 1)
    BY <1>1, <2>1
  <2>3. QED
    BY <2>1, <2>2
<1>5. j \in before
  BY <1>2, <1>3
<1> HIDE DEF before
<1>6. before \in SUBSET (0..Len(ts)) /\ before # {} /\ Len(ts) \in Nat
  <2>1. \A l \in before : l \in 0..Len(ts)
    BY <1>4
  <2>2. QED
    BY <1>5, <2>1
<1>7. SectionOf(ts, i) = NameOf(ts[Max(before)])
  BY <1>6 DEF SectionOf, before
<1>8. Max(before) \in before /\ \A y \in before : y <= Max(before)
  BY <1>6, MaxIs
<1>9. Max(before) = j
  <2> DEFINE m == Max(before)
  <2>1. m \in before /\ j <= m
    BY <1>5, <1>8
  <2> HIDE DEF m
  <2>2. m \in 1..Len(ts) /\ m <= j
    BY <1>4, <2>1
  <2>3. m = j
    BY <2>1, <2>2
  <2>4. QED
    BY <2>3 DEF m
<1>10. InSection(ts, i)
  BY <1>1, <1>3 DEF InSection
<1>11. QED
  BY <1>3, <1>7, <1>9, <1>10

\* The sections that ini_load makes of lines.
Sections(ts) == {NameOf(ts[i]) : i \in Headers(ts)} \cup {SectionOf(ts, i) : i \in Pairs(ts)}

\* Loaded, with names for its parts.
LEMMA LoadedAs ==
  ASSUME NEW text
  PROVE  Loaded(text) = [n \in Sections(Lines(text)) |-> TableOf(Lines(text), n)]
BY DEF Loaded, Sections, TableOf, Assigning

\* The rows of a context give back its sections and its keys, and the values as
\* they are read.
LEMMA RowsLoaded ==
  ASSUME NEW c, IsContext(c), Printable(c), Global \notin DOMAIN c,
         NEW ts \in Seq(Text), Told(ts, c, DOMAIN c)
  PROVE  /\ Sections(ts) = DOMAIN c
         /\ \A n \in DOMAIN c :
              TableOf(ts, n) = [k \in DOMAIN c[n] |-> ValueOf(PairText(k, c[n][k]))]
<1>1. OnlyTold(ts, c, DOMAIN c) /\ HeadersTold(ts, DOMAIN c) /\ PairsTold(ts, c, DOMAIN c)
  BY DEF Told
<1>2. DOMAIN c \ {Global} = DOMAIN c
  OBVIOUS
<1>3. /\ \A i \in 1..Len(ts), n \in DOMAIN c :
           ts[i] = HeaderText(n) => i \in Headers(ts) /\ NameOf(ts[i]) = n
      /\ \A i \in Headers(ts) : i \in 1..Len(ts) /\ \E n \in DOMAIN c : ts[i] = HeaderText(n)
      /\ \A i \in 1..Len(ts), n \in DOMAIN c : \A k \in DOMAIN c[n] :
           IsPair(c, ts, i, n, k) => i \in Pairs(ts) /\ KeyOf(ts[i]) = k
      /\ \A i \in Pairs(ts) : /\ i \in 1..Len(ts)
                              /\ \E n \in DOMAIN c : \E k \in DOMAIN c[n] : IsPair(c, ts, i, n, k)
  BY <1>1, <1>2, RowsRead
<1>4. \A i \in 1..Len(ts), n \in DOMAIN c : \A k \in DOMAIN c[n] :
        IsPair(c, ts, i, n, k) => SectionOf(ts, i) = n /\ ts[i] = PairText(k, c[n][k])
  BY <1>1, UnderIs DEF IsPair
<1>5. Sections(ts) = DOMAIN c
  <2>1. \A i \in Headers(ts) : NameOf(ts[i]) \in DOMAIN c
    BY <1>3
  <2>2. \A i \in Pairs(ts) : SectionOf(ts, i) \in DOMAIN c
    BY <1>3, <1>4
  <2>3. \A n \in DOMAIN c : \E i \in Headers(ts) : NameOf(ts[i]) = n
    BY <1>1, <1>2, <1>3 DEF HeadersTold
  <2>4. QED
    BY <2>1, <2>2, <2>3 DEF Sections
<1>6. ASSUME NEW n \in DOMAIN c
      PROVE  TableOf(ts, n) = [k \in DOMAIN c[n] |-> ValueOf(PairText(k, c[n][k]))]
  <2> DEFINE A == Assigning(ts, n)
             At(k) == {i \in A : KeyOf(ts[i]) = k}
  <2>1. \A i \in A : /\ i \in Pairs(ts) /\ i \in 1..Len(ts)
                     /\ \E k \in DOMAIN c[n] : IsPair(c, ts, i, n, k) /\ KeyOf(ts[i]) = k
    <3> SUFFICES ASSUME NEW i \in A
                 PROVE  /\ i \in Pairs(ts) /\ i \in 1..Len(ts)
                        /\ \E k \in DOMAIN c[n] : IsPair(c, ts, i, n, k) /\ KeyOf(ts[i]) = k
      OBVIOUS
    <3>1. i \in Pairs(ts) /\ SectionOf(ts, i) = n
      BY DEF Assigning
    <3>2. PICK m \in DOMAIN c : \E k \in DOMAIN c[m] : IsPair(c, ts, i, m, k)
      BY <1>3, <3>1
    <3>3. i \in 1..Len(ts)
      BY <1>3, <3>1
    <3>4. m = n
      BY <1>4, <3>1, <3>2, <3>3
    <3>5. QED
      BY <1>3, <3>1, <3>2, <3>3, <3>4
  <2>2. ASSUME NEW k \in DOMAIN c[n] PROVE At(k) # {}
    <3>1. PICK i \in 1..Len(ts) : IsPair(c, ts, i, n, k)
      BY <1>1 DEF PairsTold
    <3>2. i \in Pairs(ts) /\ KeyOf(ts[i]) = k /\ SectionOf(ts, i) = n
      BY <1>3, <1>4, <3>1
    <3>3. QED
      BY <3>2 DEF Assigning
  <2>3. {KeyOf(ts[i]) : i \in A} = DOMAIN c[n]
    <3>1. \A i \in A : KeyOf(ts[i]) \in DOMAIN c[n]
      BY <2>1
    <3>2. \A k \in DOMAIN c[n] : \E i \in A : KeyOf(ts[i]) = k
      BY <2>2
    <3> HIDE DEF A
    <3>3. QED
      BY <3>1, <3>2
  <2>4. ASSUME NEW k \in DOMAIN c[n] PROVE ValueOf(ts[Max(At(k))]) = ValueOf(PairText(k, c[n][k]))
    <3>1. At(k) \in SUBSET (0..Len(ts)) /\ Len(ts) \in Nat
      BY <2>1
    <3>2. At(k) # {}
      BY <2>2
    <3> DEFINE i == Max(At(k))
    <3>3. i \in At(k)
      <4> HIDE DEF At
      <4> QED
        BY <3>1, <3>2, MaxIs
    <3> HIDE DEF i
    <3>4. i \in A /\ KeyOf(ts[i]) = k
      BY <3>3
    <3>5. IsPair(c, ts, i, n, k) /\ i \in 1..Len(ts)
      BY <2>1, <3>4
    <3>6. ts[i] = PairText(k, c[n][k])
      BY <1>4, <3>5
    <3>7. QED
      BY <3>6 DEF i
  <2>5. TableOf(ts, n) = [k \in {KeyOf(ts[i]) : i \in A} |-> ValueOf(ts[Max(At(k))])]
    BY DEF TableOf
  <2> HIDE DEF A, At
  <2>6. QED
    BY <2>3, <2>4, <2>5
<1>7. QED
  BY <1>5, <1>6

\* All that is written of a context fits into the buffer.
Fits(c) ==
  \A n \in DOMAIN c :
    /\ n # Global => Len(HeaderText(n)) < LineMax
    /\ \A k \in DOMAIN c[n] : Len(PairText(k, c[n][k])) < LineMax

\* That is, all rows do.
LEMMA FitsIs ==
  ASSUME NEW c, NEW rs, Told(rs, c, DOMAIN c)
  PROVE  Short(rs) <=> Fits(c)
<1>1. ASSUME Fits(c), NEW i \in 1..Len(rs) PROVE Len(rs[i]) < LineMax
  <2>1. Len(<<NL>>) < LineMax
    <3>1. Len(<<NL>>) = 1
      BY CharacterTexts
    <3>2. QED
      BY <3>1, LineMaxAssumption
  <2>2. QED
    BY <1>1, <2>1 DEF Told, OnlyTold, IsPair, Fits
<1>2. ASSUME Short(rs) PROVE Fits(c)
  <2>1. ASSUME NEW n \in DOMAIN c, n # Global PROVE Len(HeaderText(n)) < LineMax
    <3>1. \E i \in 1..Len(rs) : rs[i] = HeaderText(n)
      BY <2>1 DEF Told, HeadersTold
    <3>2. QED
      BY <1>2, <3>1 DEF Short
  <2>2. ASSUME NEW n \in DOMAIN c, NEW k \in DOMAIN c[n] PROVE Len(PairText(k, c[n][k])) < LineMax
    <3>1. \E i \in 1..Len(rs) : rs[i] = PairText(k, c[n][k])
      BY DEF Told, PairsTold, IsPair
    <3>2. QED
      BY <1>2, <3>1 DEF Short
  <2>3. QED
    BY <2>1, <2>2 DEF Fits
<1>3. QED
  BY <1>1, <1>2 DEF Short

\* Without a global section the text begins with a header, or a blank line.
LEMMA BeginsPlain ==
  ASSUME NEW c, IsContext(c), Printable(c), Global \notin DOMAIN c,
         NEW text, NEW rs, Spells(text, rs), Told(rs, c, DOMAIN c)
  PROVE  First(text) # BOM /\ (DOMAIN c # {} => text # <<>> /\ rs # <<>>)
<1>1. rs \in Seq(Text) /\ Len(rs) \in Nat
  BY DEF Spells
<1>2. CASE rs = <<>>
  <2>1. text = <<>>
    BY <1>2 DEF Spells
  <2>2. First(text) # BOM
    BY <2>1 DEF First, NL, BOM
  <2>3. Len(rs) = 0
    BY <1>2
  <2>4. \A n \in DOMAIN c \ {Global} : FALSE
    BY <2>3 DEF Told, HeadersTold
  <2>5. QED
    BY <2>2, <2>4
<1>3. CASE rs # <<>>
  <2>1. text # <<>> /\ text[1] = rs[1][1] /\ 1 \in 1..Len(rs)
    BY <1>1, <1>3, EmptySeq DEF Spells
  <2>2. \A n : ~Under(rs, 1, n)
    BY DEF Under
  <2>3. \/ rs[1] = <<NL>>
        \/ \E n \in DOMAIN c : rs[1] = HeaderText(n)
    BY <2>1, <2>2 DEF Told, OnlyTold, IsPair
  <2>4. rs[1][1] = NL \/ rs[1][1] = "["
    <3>1. \A n \in DOMAIN c : HeaderText(n)[1] = "["
      BY HeaderIs DEF IsContext
    <3>2. QED
      BY <2>3, <3>1
  <2>5. First(text) # BOM
    BY <2>1, <2>4 DEF First, NL, BOM
  <2>6. QED
    BY <1>3, <2>1, <2>5
<1>4. QED
  BY <1>2, <1>3

\* ini_good accepts the text if and only if it accepts the values.
LEMMA RowsGood ==
  ASSUME NEW c, IsContext(c), Printable(c), Global \notin DOMAIN c, DOMAIN c # {},
         NEW text, NEW ts, Spells(text, ts), Told(ts, c, DOMAIN c), Short(ts)
  PROVE  /\ Good(text) <=> \A n \in DOMAIN c : \A k \in DOMAIN c[n] : GoodValue(PairText(k, c[n][k]))
         /\ ~RepeatsHeader(text)
<1>1. First(text) # BOM /\ text # <<>>
  BY BeginsPlain
<1>2. Lines(text) = ts
  BY <1>1, RowLines
<1>3. /\ ts \in Seq(Text) /\ DOMAIN ts = 1..Len(ts)
      /\ \A i \in 1..Len(ts) : Row(ts[i]) /\ Len(ts[i]) < LineMax
  BY DEF Spells, Short
<1>4. OnlyTold(ts, c, DOMAIN c) /\ OnceTold(ts, DOMAIN c) /\ PairsTold(ts, c, DOMAIN c)
  BY DEF Told
<1>5. ASSUME NEW i \in 1..Len(ts) PROVE ~TooLong(ts[i])
  <2>1. ts[i] \in Text /\ ts[i][Len(ts[i])] = NL /\ Len(ts[i]) \in Nat /\ Len(ts[i]) < LineMax
    BY <1>3 DEF Row, OneLine, Text
  <2>2. Len(ts[i]) >= LineMax - 1 => Len(ts[i]) = LineMax - 1
    BY <2>1, LineMaxAssumption
  <2>3. QED
    BY <2>1, <2>2 DEF TooLong
<1>6. ASSUME NEW i \in 1..Len(ts), ts[i] = <<NL>> PROVE GoodLine(ts, i)
  <2>1. First(<<NL>>) = NL
    BY EmptySeq DEF First
  <2>2. QED
    BY <1>6, <2>1 DEF GoodLine, GoodSkips
<1>7. ASSUME NEW i \in 1..Len(ts), NEW n \in DOMAIN c, ts[i] = HeaderText(n) PROVE GoodLine(ts, i)
  <2>1. IsHeader(ts[i])
    BY <1>7, RowKinds
  <2>2. QED
    BY <1>5, <2>1 DEF GoodLine
<1>8. ASSUME NEW i \in 1..Len(ts), NEW n \in DOMAIN c, NEW k \in DOMAIN c[n], IsPair(c, ts, i, n, k)
      PROVE  GoodLine(ts, i) <=> GoodValue(PairText(k, c[n][k]))
  <2> DEFINE r == PairText(k, c[n][k])
  <2>1. ts[i] = r /\ Under(ts, i, n)
    BY <1>8 DEF IsPair
  <2>2. InSection(ts, i)
    BY <1>3, <1>4, <2>1, UnderIs
  <2>3. First(r) # "[" /\ First(r) # NL /\ First(r) \notin Comments /\ Find(r, "=") > 1
    BY RowKinds
  <2> HIDE DEF r
  <2>4. HasKey(r) /\ ~IsHeader(r) /\ ~GoodSkips(r)
    BY <2>3 DEF HasKey, IsHeader, GoodSkips
  <2>5. GoodLine(ts, i) <=> GoodValue(r)
    BY <1>5, <2>1, <2>2, <2>4 DEF GoodLine
  <2>6. QED
    BY <2>5 DEF r
<1>9. Good(text) <=> \A i \in 1..Len(ts) : GoodLine(ts, i)
  BY <1>1, <1>2, <1>3 DEF Good
<1>10. ASSUME \A n \in DOMAIN c : \A k \in DOMAIN c[n] : GoodValue(PairText(k, c[n][k])),
              NEW i \in 1..Len(ts)
       PROVE  GoodLine(ts, i)
  BY <1>4, <1>6, <1>7, <1>8, <1>10 DEF OnlyTold
<1>11. ASSUME \A i \in 1..Len(ts) : GoodLine(ts, i), NEW n \in DOMAIN c, NEW k \in DOMAIN c[n]
       PROVE  GoodValue(PairText(k, c[n][k]))
  BY <1>4, <1>8, <1>11 DEF PairsTold
<1>12. ~RepeatsHeader(text)
  <2> SUFFICES ASSUME NEW i \in Headers(ts), NEW j \in Headers(ts), NameOf(ts[i]) = NameOf(ts[j])
               PROVE  i = j
    BY <1>2 DEF RepeatsHeader
  <2>1. /\ i \in 1..Len(ts) /\ \E n \in DOMAIN c \ {Global} : ts[i] = HeaderText(n)
        /\ j \in 1..Len(ts) /\ \E n \in DOMAIN c \ {Global} : ts[j] = HeaderText(n)
    BY <1>3, <1>4, RowsRead
  <2>2. \A n \in DOMAIN c : NameOf(HeaderText(n)) = n
    BY RowKinds
  <2>3. PICK n \in DOMAIN c \ {Global} : ts[i] = HeaderText(n) /\ ts[j] = HeaderText(n)
    BY <2>1, <2>2
  <2>4. QED
    BY <1>4, <2>1, <2>3 DEF OnceTold
<1>13. QED
  BY <1>9, <1>10, <1>11, <1>12

\* All values are of those that survive.
ValuesSurvive(c) == \A n \in DOMAIN c : \A k \in DOMAIN c[n] : ValueSurvives(c[n][k])

\* A context of printable sections is read back exactly if it fits and its
\* values survive.
LEMMA PrintableReadsBack ==
  ASSUME NEW c, IsContext(c), Printable(c), Global \notin DOMAIN c, DOMAIN c # {},
         NEW order \in SetToSeqs(DOMAIN c)
  PROVE  LET text == SavedText(c, order)
         IN Loadable(text) /\ Loaded(text) = c <=> Fits(c) /\ ValuesSurvive(c)
<1> DEFINE text == SavedText(c, order)
<1>1. PICK ts : Spells(text, ts) /\ Told(ts, c, DOMAIN c)
  BY SavedTold
<1> HIDE DEF text
<1>2. First(text) # BOM
  BY <1>1, BeginsPlain
<1>3. CASE ~Fits(c)
  <2>1. HasCut(text) /\ text \in Text
    BY <1>1, <1>3, FitsIs DEF Spells
  <2>2. WithoutBom(text) = text
    BY <1>2 DEF WithoutBom
  <2>3. ~Good(text)
    BY <2>1, <2>2, CutIsBad
  <2>4. QED
    BY <1>3, <2>3 DEF Loadable, text
<1>4. CASE Fits(c)
  <2>1. Short(ts) /\ Lines(text) = ts /\ ts \in Seq(Text)
    <3>1. Short(ts)
      BY <1>1, <1>4, FitsIs
    <3>2. QED
      BY <1>1, <1>2, <3>1, RowLines DEF Spells
  <2>2. Loadable(text) <=> \A n \in DOMAIN c : \A k \in DOMAIN c[n] : GoodValue(PairText(k, c[n][k]))
    BY <1>1, <2>1, RowsGood DEF Loadable
  <2> DEFINE Read(n) == [k \in DOMAIN c[n] |-> ValueOf(PairText(k, c[n][k]))]
  <2>3. Sections(ts) = DOMAIN c /\ \A n \in DOMAIN c : TableOf(ts, n) = Read(n)
    BY <1>1, <2>1, RowsLoaded
  <2>4. Loaded(text) = [n \in Sections(ts) |-> TableOf(ts, n)]
    BY <2>1, LoadedAs
  <2> HIDE DEF Read
  <2>5. Loaded(text) = [n \in DOMAIN c |-> Read(n)]
    BY <2>3, <2>4
  <2>6. c = [n \in DOMAIN c |-> c[n]]
    BY DEF IsContext
  <2>7. Loaded(text) = c <=> \A n \in DOMAIN c : Read(n) = c[n]
    BY <2>5, <2>6
  <2>8. ASSUME NEW n \in DOMAIN c
        PROVE  Read(n) = c[n] <=> \A k \in DOMAIN c[n] : ValueOf(PairText(k, c[n][k])) = c[n][k]
    <3>1. c[n] = [k \in DOMAIN c[n] |-> c[n][k]]
      BY DEF IsContext, IsTable
    <3>2. QED
      BY <3>1 DEF Read
  <2>9. ASSUME NEW n \in DOMAIN c, NEW k \in DOMAIN c[n]
        PROVE  ValueSurvives(c[n][k])
                 <=> GoodValue(PairText(k, c[n][k])) /\ ValueOf(PairText(k, c[n][k])) = c[n][k]
    <3> DEFINE v == c[n][k]
               r == PairText(k, v)
    <3>1. v \in Text /\ ~HasAny(v, {NL, NUL}) /\ AfterEquals(r) = Written(v) \o <<NL>>
      <4>1. \A y \in DOMAIN c[n] :
           LET q == PairText(y, c[n][y])
           IN /\ y \in Text /\ c[n][y] \in Text /\ KeySurvives(y)
              /\ ~HasAny(c[n][y], {NL, NUL})
              /\ Row(q) /\ First(q) = q[1] /\ q[1] = y[1] /\ First(q) # "[" /\ First(q) # NL
              /\ First(q) # CR
              /\ First(q) \notin Comments
              /\ KeyOf(q) = y /\ Find(q, "=") > 1
              /\ AfterEquals(q) = Written(c[n][y]) \o <<NL>>
        BY RowKinds
      <4>2. QED
        BY <4>1
    <3> HIDE DEF v, r
    <3>2. ReadsAs(r, v) <=> ValueSurvives(v)
      BY <3>1, ValueReadsBack
    <3>3. QED
      BY <3>2 DEF ReadsAs, v, r
  <2>10. Loadable(text) /\ Loaded(text) = c <=> ValuesSurvive(c)
    BY <2>2, <2>7, <2>8, <2>9 DEF ValuesSurvive
  <2>11. QED
    BY <1>4, <2>10 DEF text
<1>5. QED
  BY <1>3, <1>4

-----------------------------------------------------------------------------
(* What ini_load makes of a text can be written again *)

\* A line has no NUL, and a newline only last.
Clean(t) ==
  t \in Text /\ \A l \in 1..Len(t) : t[l] # NUL /\ (t[l] = NL => l = Len(t))

\* A name, a key or a value has neither.
Pure(t) == t \in Text /\ \A l \in 1..Len(t) : t[l] # NUL /\ t[l] # NL

\* So it can be written.
LEMMA PureIsPrintable ==
  ASSUME NEW t, Pure(t)
  PROVE  t \in Text /\ ~HasAny(t, {NL, NUL})
BY DEF Pure, HasAny, Text

\* Parts of a line are such, if they leave out the newline.
LEMMA CleanPart ==
  ASSUME NEW t, Clean(t), NEW i \in Nat \ {0}, NEW j \in Int, j <= Len(t)
  PROVE  /\ j = Len(t) => Clean(SubSeq(t, i, j))
         /\ j < Len(t) \/ t[j] # NL => Pure(SubSeq(t, i, j))
<1> DEFINE u == SubSeq(t, i, j)
<1>1. t \in Text /\ Len(t) \in Nat
  BY DEF Clean, Text
<1>2. /\ u \in Text /\ Len(u) = IF i <= j THEN j - i + 1 ELSE 0
      /\ \A l \in 1..(j - i + 1) : u[l] = t[i + l - 1]
  BY <1>1, PartIsText
<1> HIDE DEF u
<1>3. ASSUME NEW l \in 1..Len(u)
      PROVE  \E x \in 1..Len(t) : /\ u[l] = t[x] /\ x <= j /\ (x = Len(t) => l = Len(u) /\ x = j)
  <2> DEFINE x == i + l - 1
  <2>1. l \in 1..(j - i + 1) /\ i <= j /\ Len(u) = j - i + 1
    BY <1>2
  <2>2. x \in 1..Len(t) /\ x <= j /\ (x = Len(t) => l = Len(u) /\ x = j)
    BY <1>1, <2>1
  <2>3. u[l] = t[x]
    BY <1>2, <2>1
  <2> HIDE DEF x
  <2>4. QED
    BY <2>2, <2>3
<1>4. Clean(u)
  BY <1>2, <1>3 DEF Clean
<1>5. ASSUME j < Len(t) \/ t[j] # NL PROVE Pure(u)
  <2>1. ASSUME NEW l \in 1..Len(u) PROVE u[l] # NUL /\ u[l] # NL
    <3>1. PICK x \in 1..Len(t) : /\ u[l] = t[x] /\ x <= j
                                 /\ (x = Len(t) => l = Len(u) /\ x = j)
      BY <1>3
    <3>2. t[x] # NUL /\ (t[x] = NL => x = Len(t))
      BY DEF Clean
    <3>3. ~(x = j /\ j < Len(t) /\ x = Len(t))
      BY <1>1
    <3>4. QED
      BY <1>5, <3>1, <3>2, <3>3
  <2>2. QED
    BY <1>2, <2>1 DEF Pure
<1>6. QED
  BY <1>4, <1>5 DEF u

\* The lines of a text are clean, and trimmed.
LEMMA LinesClean ==
  ASSUME NEW text \in Text, NEW i \in DOMAIN Lines(text)
  PROVE  /\ Clean(Lines(text)[i])
         /\ Lines(text)[i] # <<>> => Lines(text)[i][1] \notin Blanks
<1> DEFINE b == WithoutBom(text)
           p == Pieces(b)[i]
           u == UpToNul(p)
           t == Lines(text)[i]
<1>1. /\ p \in Text /\ t = TrimLeft(u) /\ i \in DOMAIN Pieces(b) /\ b \in Text /\ t \in Text
  BY LinesAre, WithoutBomIsText
<1>2. PICK s \in Starts(b) : p = SubSeq(b, s, EndOf(b, s))
  BY <1>1, PieceIs
<1>3. \A l \in 1..Len(p) : p[l] = NL => l = Len(p)
  BY <1>1, <1>2, NewlineEnds
<1> HIDE DEF b, p, t
<1>4. u \in Text /\ u = IF Find(p, NUL) = 0 THEN p ELSE SubSeq(p, 1, Find(p, NUL) - 1)
  BY <1>1, UpToNulIs DEF UpToNul
<1> DEFINE f == Find(p, NUL)
<1>5. /\ f \in 0..Len(p) /\ Len(p) \in Nat
      /\ f # 0 => \A l \in 1..(f - 1) : p[l] # NUL
      /\ f = 0 => \A l \in 1..Len(p) : p[l] # NUL
  BY <1>1, FindIs DEF Text
<1> HIDE DEF f
<1>6. Clean(u)
  <2>1. CASE f = 0
    BY <1>1, <1>3, <1>4, <1>5, <2>1 DEF Clean, f
  <2>2. CASE f # 0
    <3> DEFINE n == f - 1
    <3>1. n \in Nat /\ n <= Len(p) /\ n < Len(p)
      BY <1>5, <2>2
    <3>2. /\ Len(SubSeq(p, 1, n)) = IF 1 <= n THEN n - 1 + 1 ELSE 0
          /\ \A l \in 1..(n - 1 + 1) : SubSeq(p, 1, n)[l] = p[1 + l - 1]
      BY <1>1, <3>1, PartIsText
    <3>3. u = SubSeq(p, 1, n)
      BY <1>4, <2>2 DEF f
    <3> HIDE DEF u
    <3>4. Len(u) = n
      BY <3>1, <3>2, <3>3
    <3>5. ASSUME NEW l \in 1..Len(u) PROVE u[l] # NUL /\ u[l] # NL
      <4>1. l \in 1..(n - 1 + 1) /\ 1 + l - 1 = l /\ l \in 1..(f - 1) /\ l \in 1..Len(p) /\ l # Len(p)
        BY <3>1, <3>4
      <4>2. u[l] = p[l]
        BY <3>2, <3>3, <4>1
      <4>3. QED
        BY <1>3, <1>5, <2>2, <4>1, <4>2
    <3>6. QED
      BY <1>4, <3>5 DEF Clean, u
  <2>3. QED
    BY <2>1, <2>2
<1> HIDE DEF u
<1>7. t # <<>> => t[1] \notin Blanks
  BY <1>1, <1>4, TrimLeftIs
<1>8. Clean(t)
  <2>1. CASE t = <<>>
    <3>1. Len(t) = 0
      BY <2>1
    <3>2. QED
      BY <1>1, <3>1 DEF Clean
  <2>2. CASE t # <<>>
    <3>1. PICK m \in 1..Len(u) : t = SubSeq(u, m, Len(u))
      BY <1>1, <1>4, <2>2, TrimLeftTo
    <3>2. Len(u) \in Nat /\ m \in Nat \ {0}
      BY <1>4 DEF Text
    <3>3. QED
      BY <1>6, <3>1, <3>2, CleanPart
  <2>3. QED
    BY <2>1, <2>2
<1>9. QED
  BY <1>7, <1>8 DEF t

\* The name in a header can be written,
LEMMA NameIsPrintable ==
  ASSUME NEW t, Clean(t), IsHeader(t)
  PROVE  ~HasAny(NameOf(t), {"]", NL, NUL})
<1> DEFINE b == Find(t, "]")
           j == b - 1
           n == SubSeq(t, 2, j)
<1>1. t \in Text /\ Len(t) \in Nat
  BY DEF Clean, Text
<1>2. b \in 0..Len(t) /\ b # 0 /\ \A l \in 1..(b - 1) : t[l] # "]"
  BY <1>1, FindIs DEF IsHeader
<1>3. NameOf(t) = n
  BY DEF NameOf
<1> HIDE DEF b
<1>4. j \in Nat /\ j < Len(t) /\ j <= Len(t) /\ j = b - 1
  BY <1>1, <1>2
<1> HIDE DEF j
<1>5. Pure(n)
  BY <1>4, CleanPart
<1>6. /\ Len(n) = IF 2 <= j THEN j - 2 + 1 ELSE 0
      /\ \A l \in 1..(j - 2 + 1) : n[l] = t[2 + l - 1]
  BY <1>1, <1>4, PartIsText
<1> HIDE DEF n
<1>7. ASSUME NEW l \in 1..Len(n) PROVE n[l] # "]"
  <2>1. l \in 1..(j - 2 + 1) /\ 2 + l - 1 \in 1..(b - 1)
    BY <1>4, <1>6
  <2>2. QED
    BY <1>2, <1>6, <2>1
<1>8. DOMAIN n = 1..Len(n)
  BY <1>5 DEF Pure, Text
<1>9. ~HasAny(n, {"]", NL, NUL})
  BY <1>5, <1>7, <1>8 DEF HasAny, Pure
<1>10. QED
  BY <1>3, <1>9

\* so can the key of a pair,
LEMMA KeyIsPrintable ==
  ASSUME NEW t, Clean(t), t # <<>> => t[1] \notin Blanks,
         ~LoadSkips(t), First(t) # "[", Find(t, "=") # 0, KeyOf(t) # <<>>
  PROVE  KeySurvives(KeyOf(t))
<1> DEFINE e == Find(t, "=")
           j == e - 1
           u == SubSeq(t, 1, j)
           k == KeyOf(t)
<1>1. t \in Text /\ Len(t) \in Nat /\ t # <<>> /\ First(t) = t[1]
  BY DEF Clean, Text, LoadSkips, First
<1>2. e \in 0..Len(t) /\ e # 0 /\ \A l \in 1..(e - 1) : t[l] # "="
  BY <1>1, FindIs
<1>3. k = TrimRight(u, Blanks)
  BY DEF KeyOf
<1> HIDE DEF e, k
<1>4. j \in Nat /\ j < Len(t) /\ j <= Len(t) /\ j = e - 1
  BY <1>1, <1>2
<1> HIDE DEF j
<1>5. Pure(u)
  BY <1>4, CleanPart
<1>6. /\ Len(u) = IF 1 <= j THEN j - 1 + 1 ELSE 0
      /\ \A l \in 1..(j - 1 + 1) : u[l] = t[1 + l - 1]
  BY <1>1, <1>4, PartIsText
<1> HIDE DEF u
<1>7. /\ Len(u) = j /\ \A l \in 1..j : u[l] = t[l] /\ t[l] # "="
  <2>1. \A l \in 1..j : l \in 1..(j - 1 + 1) /\ 1 + l - 1 = l /\ l \in 1..(e - 1)
    BY <1>4
  <2>2. Len(u) = j
    BY <1>4, <1>6
  <2>3. QED
    BY <1>2, <1>6, <2>1, <2>2
<1>8. u \in Text
  BY <1>5 DEF Pure
<1>9. PICK m \in 0..Len(u) : /\ TrimRight(u, Blanks) = SubSeq(u, 1, m)
                             /\ m # 0 => u[m] \notin Blanks
  BY <1>8, TrimRightTo
<1>10. m \in Nat /\ m <= j /\ m <= Len(u)
  BY <1>4, <1>7
<1>11. /\ SubSeq(u, 1, m) \in Text
       /\ Len(SubSeq(u, 1, m)) = IF 1 <= m THEN m - 1 + 1 ELSE 0
       /\ \A l \in 1..(m - 1 + 1) : SubSeq(u, 1, m)[l] = u[1 + l - 1]
  BY <1>8, <1>10, PartIsText
<1>12. k \in Text /\ Len(k) = m /\ \A l \in 1..m : k[l] = u[l]
  <2>1. \A l \in 1..m : l \in 1..(m - 1 + 1) /\ 1 + l - 1 = l
    BY <1>10
  <2>2. Len(k) = m
    BY <1>3, <1>9, <1>10, <1>11
  <2>3. QED
    BY <1>3, <1>9, <1>11, <2>1, <2>2
<1>13. k # <<>> /\ m # 0 /\ 1 \in 1..m /\ m \in 1..m
  <2>1. k # <<>>
    BY DEF k
  <2>2. m # 0
    BY <1>12, <2>1, EmptySeq DEF Text
  <2>3. QED
    BY <1>10, <2>1, <2>2
<1>14. \A l \in 1..m : k[l] = t[l] /\ k[l] # "=" /\ k[l] # NL /\ k[l] # NUL
  <2>1. \A l \in 1..m : l \in 1..j /\ l \in 1..Len(u)
    BY <1>7, <1>10
  <2>2. QED
    BY <1>5, <1>7, <1>12, <2>1 DEF Pure
<1>15. First(k) = t[1] /\ Last(k) = u[m]
  BY <1>12, <1>13, <1>14 DEF First, Last
<1>16. t[1] \notin Blanks \cup Comments \cup {"[", CR}
  BY <1>1 DEF LoadSkips
<1>17. DOMAIN k = 1..m
  BY <1>12 DEF Text
<1>18. ~HasAny(k, {"=", NL, NUL})
  BY <1>14, <1>17 DEF HasAny
<1>19. KeySurvives(k)
  BY <1>9, <1>13, <1>15, <1>16, <1>18 DEF KeySurvives
<1>20. QED
  BY <1>19 DEF k

\* and its value.
LEMMA ValueIsPrintable ==
  ASSUME NEW t, Clean(t)
  PROVE  ~HasAny(ValueOf(t), {NL, NUL})
<1> DEFINE S == Blanks \cup {NL, CR}
           e == Find(t, "=")
           x == AfterEquals(t)
           y == TrimLeft(x)
           v == TrimRight(y, S)
<1>1. t \in Text /\ Len(t) \in Nat
  BY DEF Clean, Text
<1>2. e \in 0..Len(t) /\ e + 1 \in Nat \ {0}
  BY <1>1, FindIs
<1>3. x = SubSeq(t, e + 1, Len(t))
  BY DEF AfterEquals
<1> HIDE DEF e, x
<1>4. Clean(x) /\ x \in Text /\ Len(x) \in Nat
  <2>1. Clean(x)
    BY <1>1, <1>2, <1>3, CleanPart
  <2>2. QED
    BY <2>1 DEF Clean, Text
<1>5. Clean(y) /\ y \in Text /\ Len(y) \in Nat
  <2>1. y \in Text
    BY <1>4, TrimLeftIs
  <2>2. CASE y = <<>>
    <3>1. Len(y) = 0
      BY <2>2
    <3>2. QED
      BY <2>1, <3>1 DEF Clean
  <2>3. CASE y # <<>>
    <3>1. PICK m \in 1..Len(x) : y = SubSeq(x, m, Len(x))
      BY <1>4, <2>3, TrimLeftTo
    <3>2. m \in Nat \ {0}
      OBVIOUS
    <3>3. Clean(y)
      BY <1>4, <3>1, <3>2, CleanPart
    <3>4. QED
      BY <3>3 DEF Clean, Text
  <2>4. QED
    BY <2>2, <2>3
<1> HIDE DEF y
<1>6. PICK m \in 0..Len(y) : v = SubSeq(y, 1, m) /\ (m # 0 => y[m] \notin S)
  BY <1>5, TrimRightTo
<1>7. NL \in S
  OBVIOUS
<1> HIDE DEF S, v
<1>8. Pure(v)
  <2>1. CASE m = 0
    <3>1. /\ SubSeq(y, 1, m) \in Text /\ Len(SubSeq(y, 1, m)) = IF 1 <= m THEN m - 1 + 1 ELSE 0
      BY <1>5, <2>1, PartIsText
    <3>2. v \in Text /\ Len(v) = 0
      BY <1>6, <2>1, <3>1
    <3>3. QED
      BY <3>2 DEF Pure
  <2>2. CASE m # 0
    <3>1. y[m] # NL /\ m \in Nat /\ m <= Len(y)
      BY <1>5, <1>6, <1>7, <2>2
    <3>2. QED
      BY <1>5, <1>6, <3>1, CleanPart
  <2>3. QED
    BY <2>1, <2>2
<1>9. Clean(v) /\ Len(v) \in Nat
  BY <1>8 DEF Pure, Clean, Text
<1>10. CASE ValueOf(t) = v
  BY <1>8, <1>10, PureIsPrintable
<1>11. CASE ValueOf(t) = SubSeq(v, 2, Len(v) - 1)
  <2> DEFINE j == Len(v) - 1
  <2>1. j \in Int /\ j <= Len(v) /\ j < Len(v)
    BY <1>9
  <2> HIDE DEF j
  <2>2. Pure(SubSeq(v, 2, j))
    BY <1>9, <2>1, CleanPart
  <2>3. QED
    BY <1>11, <2>2, PureIsPrintable DEF j
<1>12. ValueOf(t) = v \/ ValueOf(t) = SubSeq(v, 2, Len(v) - 1)
  BY DEF ValueOf, v, y, x, S
<1>13. QED
  BY <1>10, <1>11, <1>12

\* What ini_load makes of a text can be written.
LEMMA LoadedIsPrintable ==
  ASSUME NEW text \in Text
  PROVE  Printable(Loaded(text))
<1> DEFINE ts == Lines(text)
           c == Loaded(text)
<1>1. c = [n \in Sections(ts) |-> TableOf(ts, n)]
  BY LoadedAs
<1>2. PICK m \in Nat : DOMAIN ts = 1..m
  BY LinesAre
<1>3. \A i \in DOMAIN ts : Clean(ts[i]) /\ (ts[i] # <<>> => ts[i][1] \notin Blanks)
  BY LinesClean
<1> HIDE DEF ts, c
<1>4. \A i \in Headers(ts) : ~HasAny(NameOf(ts[i]), {"]", NL, NUL})
  BY <1>3, NameIsPrintable DEF Headers
<1>5. ASSUME NEW i PROVE ~HasAny(SectionOf(ts, i), {"]", NL, NUL})
  <2> DEFINE before == {j \in Headers(ts) : j < i}
  <2>1. SectionOf(ts, i) = IF before = {} THEN Global ELSE NameOf(ts[Max(before)])
    BY DEF SectionOf
  <2>2. before \in SUBSET (0..m) /\ before \subseteq Headers(ts)
    BY <1>2 DEF Headers
  <2> HIDE DEF before
  <2>3. before # {} => Max(before) \in Headers(ts)
    BY <2>2, MaxIs
  <2>4. ~HasAny(Global, {"]", NL, NUL})
    BY DEF HasAny, Global
  <2>5. QED
    BY <1>4, <2>1, <2>3, <2>4
<1>6. ASSUME NEW n \in DOMAIN c PROVE ~HasAny(n, {"]", NL, NUL})
  <2>1. n \in Sections(ts)
    BY <1>1
  <2>2. QED
    BY <1>4, <1>5, <2>1 DEF Sections
<1>7. ASSUME NEW n \in DOMAIN c, NEW k \in DOMAIN c[n]
      PROVE  KeySurvives(k) /\ ~HasAny(c[n][k], {NL, NUL})
  <2> DEFINE A == Assigning(ts, n)
             At == {i \in A : KeyOf(ts[i]) = k}
  <2>1. c[n] = TableOf(ts, n)
    BY <1>1
  <2>2. k \in {KeyOf(ts[i]) : i \in A} /\ c[n][k] = ValueOf(ts[Max(At)])
    BY <2>1 DEF TableOf
  <2>3. A \subseteq Pairs(ts) /\ Pairs(ts) \subseteq 1..m
    BY <1>2 DEF Assigning, Pairs
  <2> HIDE DEF A
  <2>4. PICK i \in A : KeyOf(ts[i]) = k
    BY <2>2
  <2>5. KeySurvives(k)
    BY <1>2, <1>3, <2>3, <2>4, KeyIsPrintable DEF Pairs
  <2>6. At \in SUBSET (0..m) /\ At # {} /\ At \subseteq DOMAIN ts
    BY <1>2, <2>3, <2>4
  <2> HIDE DEF At
  <2>7. Max(At) \in DOMAIN ts
    BY <2>6, MaxIs
  <2>8. QED
    BY <1>3, <2>2, <2>5, <2>7, ValueIsPrintable
<1>8. QED
  BY <1>6, <1>7 DEF Printable, c

-----------------------------------------------------------------------------
(* The global section is not read back *)

\* A finite set can be put in order, with any member first.
LEMMA OrderWith ==
  ASSUME NEW S, IsFiniteSet(S)
  PROVE  /\ \E order \in SetToSeqs(S) : TRUE
         /\ \A x \in S : \E order \in SetToSeqs(S) : order \in Seq(S) /\ Len(order) >= 1 /\ order[1] = x
<1> DEFINE n == Cardinality(S)
           f == SetToSeq(S)
<1>1. n \in Nat /\ ExistsBijection(1..n, S)
  BY FS_CardinalityType
<1>2. \E g \in [1..n -> S] : IsInjective(g)
  BY <1>1 DEF ExistsBijection, Bijection, Injection
<1>3. f \in [1..n -> S] /\ IsInjective(f)
  BY <1>2 DEF SetToSeq
<1> HIDE DEF f
<1>4. \A i, j \in 1..n : f[i] = f[j] => i = j
  BY <1>3 DEF IsInjective
<1>5. f \in SetToSeqs(S)
  BY <1>3, <1>4 DEF SetToSeqs
<1>6. S = {f[i] : i \in DOMAIN f}
  BY <1>5, OrderOf
<1>7. ASSUME NEW x \in S
      PROVE  \E order \in SetToSeqs(S) : order \in Seq(S) /\ Len(order) >= 1 /\ order[1] = x
  <2>1. PICK p \in 1..n : f[p] = x
    BY <1>3, <1>6
  <2> DEFINE order == [i \in 1..n |-> IF i = 1 THEN x ELSE IF i = p THEN f[1] ELSE f[i]]
  <2>2. 1 \in 1..n /\ n >= 1
    BY <1>1, <2>1
  <2>3. order \in [1..n -> S]
    BY <1>3, <2>2
  <2>4. ASSUME NEW i \in 1..n, NEW j \in 1..n, i # j PROVE order[i] # order[j]
    BY <1>4, <2>1, <2>2, <2>4
  <2>5. order[1] = x
    BY <2>2
  <2> HIDE DEF order
  <2>6. order \in SetToSeqs(S)
    BY <2>3, <2>4 DEF SetToSeqs
  <2>7. order \in Seq(S) /\ Len(order) = n
    BY <1>1, <2>3
  <2>8. QED
    BY <2>2, <2>5, <2>6, <2>7
<1>8. QED
  BY <1>5, <1>7

\* Where another section is written first, the global one is not read back: its
\* pairs come under a header.
LEMMA GlobalIsLost ==
  ASSUME NEW c, IsContext(c), Printable(c), Global \in DOMAIN c,
         NEW order \in SetToSeqs(DOMAIN c), order \in Seq(DOMAIN c), Len(order) >= 1, order[1] # Global
  PROVE  LET text == SavedText(c, order) IN ~(Loadable(text) /\ Loaded(text) = c)
<1> DEFINE text == SavedText(c, order)
           ss == Parts(c, order)
           m == order[1]
<1>1. PICK ts : Spells(text, ts) /\ Told(ts, c, DOMAIN c)
  BY SavedTold
<1>2. /\ ss \in Seq(Text) /\ Len(ss) = Len(order)
      /\ \A i \in 1..Len(order) : ss[i] = Printed(c, order, i)
      /\ text = Upto(ss, Len(order)) /\ text \in Text
  BY PartsAre
<1>3. 1 \in 1..Len(order) /\ m \in DOMAIN c /\ m \in Text /\ IsTable(c[m])
  BY DEF IsContext
<1> HIDE DEF text, ss
<1>4. text # <<>> /\ text[1] = "["
  <2> DEFINE h == HeaderText(m)
             p == PairsText(c[m])
             hp == h \o p
  <2>1. Printed(c, order, 1) = <<>> \o hp
    BY DEF Printed, SkipsSection, SectionText
  <2>2. h \in Text /\ p \in Text /\ Len(h) >= 3 /\ Len(h) \in Nat /\ h[1] = "["
    BY <1>3, HeaderIs, PairsAreText DEF Text
  <2> HIDE DEF h, p
  <2>3. hp \in Text /\ Len(hp) >= 1 /\ hp[1] = "["
    <3>1. 1 \in 1..Len(h)
      BY <2>2
    <3>2. QED
      BY <2>2, <3>1, JoinIs
  <2> HIDE DEF hp
  <2>4. ss[1] = hp
    BY <1>2, <1>3, <2>1, <2>3, ConcatEmptySeq DEF Text
  <2>5. 1 \in 0..Len(ss) /\ 1 \in 1..Len(ss) /\ 1 - 1 = 0
    BY <1>2, <1>3
  <2>6. Upto(ss, 1) = <<>> \o ss[1]
    BY <1>2, <2>5, UptoIs
  <2>7. Upto(ss, 1) = hp
    BY <2>3, <2>4, <2>6, ConcatEmptySeq DEF Text
  <2>8. Begins(hp, text)
    BY <1>2, <2>5, <2>7, UptoGrows
  <2>9. 1 \in 1..Len(hp) /\ Len(text) \in Nat /\ Len(text) # 0
    BY <1>2, <2>3, <2>8 DEF Begins, Text
  <2>10. QED
    BY <1>2, <2>3, <2>8, <2>9, EmptySeq DEF Begins
<1>5. First(text) # BOM
  BY <1>4 DEF First, BOM
<1>6. ts \in Seq(Text) /\ ts # <<>> /\ ts[1][1] = "[" /\ 1 \in 1..Len(ts) /\ Len(ts) \in Nat
  <2>1. ts \in Seq(Text) /\ ts # <<>> /\ ts[1][1] = "["
    BY <1>1, <1>4 DEF Spells
  <2>2. QED
    BY <2>1, EmptySeq
<1>7. CASE ~Short(ts)
  <2>1. HasCut(text) /\ WithoutBom(text) = text
    BY <1>1, <1>5, <1>7 DEF Spells, WithoutBom
  <2>2. ~Good(text)
    BY <1>2, <2>1, CutIsBad
  <2>3. QED
    BY <2>2 DEF Loadable, text
<1>8. CASE Short(ts)
  <2>1. Lines(text) = ts
    BY <1>1, <1>5, <1>8, RowLines
  <2>2. OnlyTold(ts, c, DOMAIN c)
    BY <1>1 DEF Told
  <2>3. /\ \A i \in Headers(ts) : /\ i \in 1..Len(ts)
                                  /\ \E n \in DOMAIN c \ {Global} : ts[i] = HeaderText(n)
        /\ \A i \in 1..Len(ts), n \in DOMAIN c :
             ts[i] = HeaderText(n) => i \in Headers(ts) /\ NameOf(ts[i]) = n
        /\ \A i \in Pairs(ts) : i \in 1..Len(ts)
    BY <1>6, <2>2, RowsRead
  <2>4. \A i \in Headers(ts) : NameOf(ts[i]) # Global
    BY <2>3
  <2>5. \E n \in DOMAIN c : ts[1] = HeaderText(n)
    <3>1. ts[1] # <<NL>>
      BY <1>6 DEF NL
    <3>2. \A n \in DOMAIN c : \A k \in DOMAIN c[n] : ts[1] # PairText(k, c[n][k])
      <4>1. \A n \in DOMAIN c : \A k \in DOMAIN c[n] : PairText(k, c[n][k])[1] # "["
        BY RowKinds
      <4>2. QED
        BY <1>6, <4>1
    <3>3. QED
      BY <1>6, <2>2, <3>1, <3>2 DEF OnlyTold, IsPair
  <2>6. 1 \in Headers(ts) /\ 1 \notin Pairs(ts)
    <3>1. 1 \in Headers(ts)
      BY <1>6, <2>3, <2>5
    <3>2. QED
      BY <3>1 DEF Headers, IsHeader, Pairs
  <2>7. ASSUME NEW i \in Pairs(ts) PROVE SectionOf(ts, i) # Global
    <3> DEFINE before == {j \in Headers(ts) : j < i}
    <3>1. 1 \in before
      BY <2>3, <2>6
    <3>2. SectionOf(ts, i) = NameOf(ts[Max(before)])
      BY <3>1 DEF SectionOf
    <3>3. before \in SUBSET (0..Len(ts)) /\ before \subseteq Headers(ts)
      BY <2>3
    <3> HIDE DEF before
    <3>4. Max(before) \in Headers(ts)
      BY <1>6, <3>1, <3>3, MaxIs
    <3>5. QED
      BY <2>4, <3>2, <3>4
  <2>8. Global \notin Sections(ts)
    BY <2>4, <2>7 DEF Sections
  <2>9. DOMAIN Loaded(text) = Sections(ts)
    BY <2>1, LoadedAs
  <2>10. QED
    BY <2>8, <2>9 DEF text
<1>9. QED
  BY <1>7, <1>8

\* How long a value is at most.
LEMMA ValueLength ==
  ASSUME NEW t \in Text, NEW x, x = AfterEquals(t)
  PROVE  /\ x \in Text /\ Len(x) \in Nat /\ Len(ValueOf(t)) \in Nat
         /\ Len(ValueOf(t)) <= Len(x)
         /\ Len(x) # 0 /\ x[Len(x)] = NL => Len(ValueOf(t)) < Len(x)
<1> DEFINE S == Blanks \cup {NL, CR}
           e == Find(t, "=")
           y == TrimLeft(x)
           v == TrimRight(y, S)
<1>1. Len(t) \in Nat /\ e \in 0..Len(t)
  BY FindIs DEF Text
<1>2. x \in Text /\ Len(x) \in Nat
  <2>1. e + 1 \in Nat \ {0} /\ Len(t) \in Int /\ Len(t) <= Len(t)
    BY <1>1
  <2> HIDE DEF e
  <2>2. SubSeq(t, e + 1, Len(t)) \in Text
    BY <2>1, PartIsText
  <2>3. QED
    BY <2>2 DEF AfterEquals, e, Text
<1>3. /\ y \in Text /\ Len(y) \in Nat /\ Len(y) <= Len(x)
      /\ Len(y) = Len(x) /\ Len(x) # 0 => y = x
  <2>1. y \in Text /\ Len(y) \in Nat
    BY <1>2, TrimLeftIs DEF Text
  <2>2. CASE y = <<>>
    BY <1>2, <2>1, <2>2, EmptySeq
  <2>3. CASE y # <<>>
    <3>1. PICK m \in 1..Len(x) : y = SubSeq(x, m, Len(x))
      BY <1>2, <2>3, TrimLeftTo
    <3>2. Len(SubSeq(x, m, Len(x))) = IF m <= Len(x) THEN Len(x) - m + 1 ELSE 0
      BY <1>2, PartIsText
    <3> HIDE DEF y
    <3>3. Len(y) = Len(x) - m + 1
      BY <1>2, <3>1, <3>2
    <3>4. m = 1 => y = x
      BY <1>2, <3>1, SubSeqFull DEF Text
    <3>5. QED
      BY <1>2, <2>1, <3>3, <3>4
  <2>4. QED
    BY <2>2, <2>3
<1> HIDE DEF y
<1>4. PICK m \in 0..Len(y) : v = SubSeq(y, 1, m) /\ (m # 0 => y[m] \notin S)
  BY <1>3, TrimRightTo
<1>5. v \in Text /\ Len(v) = m
  <2>1. m \in Int /\ m <= Len(y)
    BY <1>3
  <2>2. SubSeq(y, 1, m) \in Text /\ Len(SubSeq(y, 1, m)) = IF 1 <= m THEN m - 1 + 1 ELSE 0
    BY <1>3, <2>1, PartIsText
  <2> HIDE DEF v
  <2>3. QED
    BY <1>3, <1>4, <2>2
<1>6. NL \in S
  OBVIOUS
<1>7. ValueOf(t) = v \/ (v # <<>> /\ ValueOf(t) = SubSeq(v, 2, Len(v) - 1))
  BY DEF ValueOf, v, y, S, First, Quote, NL
<1> HIDE DEF v, S
<1>8. Len(ValueOf(t)) \in Nat /\ Len(ValueOf(t)) <= m
  <2>1. CASE ValueOf(t) = v
    BY <1>3, <1>5, <2>1
  <2>2. CASE v # <<>> /\ ValueOf(t) = SubSeq(v, 2, Len(v) - 1)
    <3> DEFINE j == Len(v) - 1
    <3>1. j \in Int /\ j <= Len(v) /\ j = m - 1
      BY <1>3, <1>5
    <3> HIDE DEF j
    <3>2. Len(SubSeq(v, 2, j)) = IF 2 <= j THEN j - 2 + 1 ELSE 0
      BY <1>5, <3>1, PartIsText
    <3>3. ValueOf(t) = SubSeq(v, 2, j)
      BY <2>2 DEF j
    <3>4. QED
      BY <1>3, <3>1, <3>2, <3>3
  <2>3. QED
    BY <1>7, <2>1, <2>2
<1>9. ASSUME Len(x) # 0, x[Len(x)] = NL PROVE m < Len(x)
  <2> SUFFICES ASSUME m = Len(x) PROVE FALSE
    BY <1>2, <1>3
  <2>1. y = x
    BY <1>2, <1>3, <1>9
  <2>2. QED
    BY <1>4, <1>6, <1>9, <2>1
<1>10. QED
  BY <1>2, <1>3, <1>8, <1>9

\* When the mark is taken off a pair, what is left of its line does not hold the
\* pair: the key would come again in the value, and the rest of the line is
\* shorter than the value.
LEMMA PairIsLost ==
  ASSUME NEW k \in Text, NEW v \in Text, KeySurvives(k), k[1] = BOM, ~HasAny(v, {NL, NUL}),
         NEW t \in Text, NEW d \in Nat \ {0}, d + Len(t) <= Len(PairText(k, v)),
         \A l \in 1..Len(t) : t[l] = PairText(k, v)[d + l],
         Find(t, "=") # 0
  PROVE  ~(KeyOf(t) = k /\ ValueOf(t) = v)
<1> SUFFICES ASSUME KeyOf(t) = k, ValueOf(t) = v PROVE FALSE
  OBVIOUS
<1> DEFINE r == PairText(k, v)
           w == Written(v)
           n == Len(k)
           e == Find(t, "=")
           j == e - 1
           u == SubSeq(t, 1, j)
           x == AfterEquals(t)
<1>1. /\ r \in Text /\ n \in Nat /\ Len(w) \in Nat /\ Len(r) = n + Len(w) + 2
      /\ r[n + 1] = "=" /\ r[Len(r)] = NL
      /\ \A i \in 1..Len(w) : r[n + 1 + i] = w[i]
  BY PairIs
<1>2. n # 0 /\ \A i \in 1..n : k[i] # "="
  BY KeyChars
<1>3. /\ d + Len(t) <= Len(r) /\ Len(t) \in Nat /\ \A l \in 1..Len(t) : t[l] = r[d + l]
  BY DEF Text
<1>4. e \in 1..Len(t)
  <2>1. e \in 0..Len(t)
    BY FindIs
  <2>2. QED
    BY <1>3, <2>1
<1>5. k = TrimRight(u, Blanks)
  BY DEF KeyOf
<1>6. x = SubSeq(t, e + 1, Len(t))
  BY DEF AfterEquals
<1> HIDE DEF e, r, w
<1>7. j \in Nat /\ j <= Len(t) /\ j = e - 1
  BY <1>3, <1>4
<1> HIDE DEF j
<1>8. u \in Text /\ Len(u) = j /\ \A l \in 1..j : u[l] = t[l]
  <2>1. /\ u \in Text /\ Len(u) = IF 1 <= j THEN j - 1 + 1 ELSE 0
        /\ \A l \in 1..(j - 1 + 1) : u[l] = t[1 + l - 1]
    BY <1>7, PartIsText
  <2> HIDE DEF u
  <2>2. \A l \in 1..j : l \in 1..(j - 1 + 1) /\ 1 + l - 1 = l
    BY <1>7
  <2>3. Len(u) = j
    BY <1>7, <2>1
  <2>4. QED
    BY <2>1, <2>2, <2>3
<1> HIDE DEF u
<1>9. n <= j /\ \A l \in 1..n : k[l] = t[l]
  <2>1. PICK m \in 0..Len(u) : k = SubSeq(u, 1, m)
    BY <1>5, <1>8, TrimRightTo
  <2>2. /\ Len(SubSeq(u, 1, m)) = IF 1 <= m THEN m - 1 + 1 ELSE 0
        /\ \A l \in 1..(m - 1 + 1) : SubSeq(u, 1, m)[l] = u[1 + l - 1]
    BY <1>7, <1>8, PartIsText
  <2>3. n = m
    BY <1>7, <1>8, <2>1, <2>2
  <2>4. \A l \in 1..m : l \in 1..(m - 1 + 1) /\ 1 + l - 1 = l /\ l \in 1..j
    BY <1>7, <1>8
  <2>5. \A l \in 1..m : k[l] = u[l]
    BY <2>1, <2>2, <2>4
  <2>6. QED
    BY <1>7, <1>8, <2>3, <2>4, <2>5
<1> HIDE DEF n
<1>10. d >= n + 1
  <2> SUFFICES ASSUME d <= n PROVE FALSE
    BY <1>1
  <2> DEFINE l == n + 1 - d
  <2>1. l \in 1..n /\ l \in 1..Len(t) /\ d + l = n + 1
    BY <1>1, <1>3, <1>7, <1>9
  <2> HIDE DEF l
  <2>2. k[l] = r[d + l]
    BY <1>3, <1>9, <2>1
  <2>3. QED
    BY <1>1, <1>2, <2>1, <2>2
<1>11. /\ x \in Text /\ Len(x) \in Nat /\ Len(v) \in Nat /\ Len(v) <= Len(x)
       /\ Len(x) # 0 /\ x[Len(x)] = NL => Len(v) < Len(x)
  BY ValueLength
<1>12. /\ Len(x) = Len(t) - e
       /\ Len(x) # 0 => x[Len(x)] = t[Len(t)]
  <2> DEFINE a == e + 1
  <2>1. a \in Nat \ {0} /\ a = e + 1
    BY <1>4
  <2> HIDE DEF a
  <2>2. /\ Len(SubSeq(t, a, Len(t))) = IF a <= Len(t) THEN Len(t) - a + 1 ELSE 0
        /\ \A l \in 1..(Len(t) - a + 1) : SubSeq(t, a, Len(t))[l] = t[a + l - 1]
    BY <1>3, <2>1, PartIsText
  <2>3. x = SubSeq(t, a, Len(t))
    BY <1>6 DEF a
  <2> HIDE DEF x
  <2>4. Len(x) = Len(t) - e
    BY <1>3, <1>4, <2>1, <2>2, <2>3
  <2>5. Len(x) # 0 => Len(x) \in 1..(Len(t) - a + 1) /\ a + Len(x) - 1 = Len(t)
    BY <1>3, <1>4, <2>1, <2>4
  <2>6. QED
    BY <2>2, <2>3, <2>4, <2>5
<1> HIDE DEF x
<1>13. Len(x) <= Len(w) - n
  BY <1>1, <1>3, <1>4, <1>7, <1>9, <1>10, <1>12
<1>14. CASE ~NeedsQuotes(v)
  <2>1. w = v
    BY <1>14, WrittenIs DEF w
  <2>2. QED
    BY <1>1, <1>2, <1>11, <1>13, <2>1
<1>15. CASE NeedsQuotes(v)
  <2>1. Len(w) = Len(v) + 2 /\ w[1] = Quote
    BY <1>15, WrittenIs DEF w
  <2>2. Len(v) # 0
    <3>1. DOMAIN v = 1..Len(v)
      BY DEF Text
    <3>2. QED
      BY <1>11, <1>15, <3>1 DEF NeedsQuotes, HasAny
  <2>3. d # n + 1
    <3> SUFFICES ASSUME d = n + 1 PROVE FALSE
      OBVIOUS
    <3>1. 1 \in 1..n /\ 1 \in 1..Len(t) /\ 1 \in 1..Len(w)
      BY <1>1, <1>2, <1>3, <1>7, <1>9, <1>11, <2>1
    <3>2. k[1] = t[1] /\ t[1] = r[d + 1] /\ r[n + 1 + 1] = w[1]
      BY <1>1, <1>3, <1>9, <3>1
    <3>3. QED
      BY <2>1, <3>2 DEF Quote, BOM
  <2>4. Len(x) <= Len(v) + 1 - n /\ (Len(x) >= Len(v) => d + Len(t) = Len(r))
    BY <1>1, <1>2, <1>3, <1>4, <1>7, <1>9, <1>10, <1>11, <1>12, <2>1, <2>3
  <2>5. d + Len(t) = Len(r) /\ Len(x) # 0 /\ Len(x) = Len(v)
    BY <1>1, <1>2, <1>11, <2>2, <2>4
  <2>6. t[Len(t)] = NL
    <3>1. Len(t) \in 1..Len(t)
      BY <1>3, <1>4
    <3>2. QED
      BY <1>1, <1>3, <2>5, <3>1
  <2>7. QED
    BY <1>11, <1>12, <2>5, <2>6
<1>16. QED
  BY <1>14, <1>15

\* A row without its first character.
LEMMA RowTail ==
  ASSUME NEW r, Row(r), Len(r) >= 2
  PROVE  /\ Tail(r) \in Text /\ Len(Tail(r)) = Len(r) - 1
         /\ \A i \in 1..Len(Tail(r)) : Tail(r)[i] = r[i + 1] /\ Tail(r)[i] # NUL
         /\ EndsLine(Tail(r))
<1> DEFINE q == Tail(r)
<1>1. r \in Text /\ Len(r) \in Nat /\ r # <<>> /\ r[Len(r)] = NL /\ \A i \in 1..Len(r) : r[i] # NUL
  BY DEF Row, OneLine, Text
<1>2. q \in Text /\ Len(q) = Len(r) - 1 /\ \A i \in 1..Len(q) : q[i] = r[i + 1]
  BY <1>1, HeadTailProperties DEF Text
<1> HIDE DEF q
<1>3. ASSUME NEW i \in 1..Len(q) PROVE q[i] # NUL
  <2> DEFINE l == i + 1
  <2>1. l \in 1..Len(r) /\ q[i] = r[l]
    BY <1>1, <1>2
  <2> HIDE DEF l
  <2>2. QED
    BY <1>1, <2>1
<1>4. q[Len(q)] = NL
  <2>1. Len(q) \in 1..Len(q) /\ Len(q) + 1 = Len(r)
    BY <1>1, <1>2
  <2>2. QED
    BY <1>1, <1>2, <2>1
<1>5. QED
  BY <1>2, <1>3, <1>4 DEF EndsLine, q

\* What an entry (x, y) of a printable context and its line q are.
Kind(x, y, q) == /\ x \in Text /\ y \in Text /\ KeySurvives(x) /\ ~HasAny(y, {NL, NUL})
                 /\ Row(q) /\ First(q) = q[1] /\ q[1] = x[1] /\ First(q) # "[" /\ First(q) # NL
                 /\ First(q) \notin Comments /\ KeyOf(q) = x

\* Every entry of a printable context is of that kind.
LEMMA PairKind ==
  ASSUME NEW c, IsContext(c), Printable(c), NEW n \in DOMAIN c, NEW x \in DOMAIN c[n]
  PROVE  Kind(x, c[n][x], PairText(x, c[n][x]))
<1> DEFINE q == PairText(x, c[n][x])
<1>1. \A k \in DOMAIN c[n] :
     LET r == PairText(k, c[n][k])
     IN /\ k \in Text /\ c[n][k] \in Text /\ KeySurvives(k)
        /\ ~HasAny(c[n][k], {NL, NUL})
        /\ Row(r) /\ First(r) = r[1] /\ r[1] = k[1] /\ First(r) # "[" /\ First(r) # NL
        /\ First(r) # CR
        /\ First(r) \notin Comments
        /\ KeyOf(r) = k /\ Find(r, "=") > 1
        /\ AfterEquals(r) = Written(c[n][k]) \o <<NL>>
  BY RowKinds
<1>2. /\ x \in Text /\ c[n][x] \in Text /\ KeySurvives(x)
      /\ ~HasAny(c[n][x], {NL, NUL})
      /\ Row(q) /\ First(q) = q[1] /\ q[1] = x[1] /\ First(q) # "[" /\ First(q) # NL
      /\ First(q) # CR
      /\ First(q) \notin Comments
      /\ KeyOf(q) = x /\ Find(q, "=") > 1
      /\ AfterEquals(q) = Written(c[n][x]) \o <<NL>>
  BY <1>1
<1> HIDE DEF q
<1>3. Kind(x, c[n][x], q)
  BY <1>2 DEF Kind
<1>4. QED
  BY <1>3 DEF q

\* t is q from some place d on.
PartOf(t, q) == \E d \in Nat : d + Len(t) <= Len(q) /\ \A l \in 1..Len(t) : t[l] = q[d + l]

\* Lines that come of a text without NUL are parts of it.
LEMMA LineOfTail ==
  ASSUME NEW q \in Text, \A i \in 1..Len(q) : q[i] # NUL,
         NEW i \in 1..Len(Pieces(q)), NEW t, t = TrimLeft(UpToNul(Pieces(q)[i])), t # <<>>
  PROVE  /\ t \in Text
         /\ PartOf(t, q)
<1> DEFINE p == Pieces(q)[i]
<1>1. Pieces(q) \in Seq(Text) /\ Len(q) \in Nat
  BY PieceAt DEF Text
<1>2. i \in DOMAIN Pieces(q)
  BY <1>1
<1>3. PICK s \in Starts(q) : p = SubSeq(q, s, EndOf(q, s)) /\ p \in Text
  BY <1>2, PieceIs
<1> DEFINE e == EndOf(q, s)
<1>4. s \in 1..Len(q) /\ e \in s..Len(q)
  BY EndIs DEF Starts
<1> HIDE DEF e, p
<1>5. /\ Len(SubSeq(q, s, e)) = IF s <= e THEN e - s + 1 ELSE 0
      /\ \A l \in 1..(e - s + 1) : SubSeq(q, s, e)[l] = q[s + l - 1]
  BY <1>1, <1>4, PartIsText
<1>6. p = SubSeq(q, s, e)
  BY <1>3 DEF e
<1>7. Len(p) = e - s + 1 /\ \A l \in 1..Len(p) : p[l] = q[s + l - 1]
  BY <1>1, <1>4, <1>5, <1>6
<1>8. \A l \in 1..Len(p) : s + l - 1 \in 1..Len(q)
  BY <1>1, <1>4, <1>7
<1>9. \A l \in 1..Len(p) : p[l] # NUL
  BY <1>7, <1>8
<1>10. UpToNul(p) = p
  BY <1>3, <1>9, FindNone, UpToNulIs
<1>11. t = TrimLeft(p)
  BY <1>10 DEF p
<1>12. p \in Text /\ Len(p) \in Nat
  BY <1>3 DEF Text
<1>13. PICK m \in 1..Len(p) : t = SubSeq(p, m, Len(p))
  BY <1>11, <1>12, TrimLeftTo
<1>14. /\ t \in Text /\ Len(t) = Len(p) - m + 1
       /\ \A l \in 1..Len(t) : t[l] = p[m + l - 1]
  <2>1. /\ SubSeq(p, m, Len(p)) \in Text
        /\ Len(SubSeq(p, m, Len(p))) = IF m <= Len(p) THEN Len(p) - m + 1 ELSE 0
        /\ \A l \in 1..(Len(p) - m + 1) : SubSeq(p, m, Len(p))[l] = p[m + l - 1]
    BY <1>12, PartIsText
  <2>2. Len(t) = Len(p) - m + 1
    BY <1>12, <1>13, <2>1
  <2>3. QED
    BY <1>13, <2>1, <2>2
<1> DEFINE d == s + m - 2
<1>15. d \in Nat /\ d + Len(t) <= Len(q)
  BY <1>1, <1>4, <1>7, <1>12, <1>14
<1>16. ASSUME NEW l \in 1..Len(t) PROVE t[l] = q[d + l]
  <2> DEFINE x == m + l - 1
  <2>1. x \in 1..Len(p) /\ s + x - 1 = d + l
    BY <1>4, <1>12, <1>14
  <2>2. t[l] = p[x]
    BY <1>14
  <2> HIDE DEF x, d
  <2>3. p[x] = q[s + x - 1]
    BY <1>7, <2>1
  <2>4. QED
    BY <2>1, <2>2, <2>3
<1> HIDE DEF d
<1>17. QED
  BY <1>14, <1>15, <1>16 DEF PartOf

\* Nor is the global section where it is the only one: ini_good accepts no pair
\* before a header.  It could overlook the first pair if the key began with a byte
\* order mark, which it would take off; but then this pair is lost, and no other
\* row has its key.
LEMMA GlobalAlone ==
  ASSUME NEW c, IsContext(c), Printable(c), DOMAIN c = {Global}, NEW order \in SetToSeqs(DOMAIN c)
  PROVE  LET text == SavedText(c, order) IN ~(Loadable(text) /\ Loaded(text) = c)
<1> DEFINE text == SavedText(c, order)
           table == c[Global]
           keys == SetToSeq(DOMAIN table)
           rs == PairRows(table)
<1>1. /\ Global \in DOMAIN c /\ IsTable(table) /\ IsFiniteSet(DOMAIN table)
      /\ IsContext(c) /\ Printable(c)
  BY DEF IsContext, IsTable
<1>2. /\ order \in Seq(DOMAIN c) /\ DOMAIN c = {order[i] : i \in DOMAIN order}
      /\ \A i, j \in 1..Len(order) : order[i] = order[j] => i = j
      /\ Len(order) \in Nat /\ DOMAIN order = 1..Len(order)
  <2>1. IsFiniteSet(DOMAIN c)
    BY DEF IsContext
  <2>2. order \in Seq(DOMAIN c) /\ DOMAIN c = {order[i] : i \in DOMAIN order}
    BY <2>1, OrderOf
  <2>3. \A i, j \in DOMAIN order : order[i] = order[j] => i = j
    BY DEF SetToSeqs
  <2>4. QED
    BY <2>2, <2>3
<1>3. Len(order) = 1 /\ order[1] = Global
  <2>1. \A i \in 1..Len(order) : order[i] = Global
    BY <1>2
  <2>2. 1 \in 1..Len(order)
    BY <1>2
  <2>3. 2 \notin 1..Len(order)
    BY <1>2, <2>1, <2>2
  <2>4. QED
    BY <1>2, <2>1, <2>2, <2>3
<1> SUFFICES ASSUME Good(text), Loaded(text) = c PROVE FALSE
  BY DEF Loadable
<1>4. Good(text) /\ Loaded(text) = c
  OBVIOUS
<1>5. text = PairsText(table) /\ DOMAIN table # {} /\ text # <<>> /\ text \in Text
  <2> DEFINE ss == Parts(c, order)
             p == PairsText(table)
  <2>1. /\ ss \in Seq(Text) /\ Len(ss) = 1 /\ ss[1] = Printed(c, order, 1)
        /\ text = Upto(ss, 1) /\ text \in Text
    BY <1>1, <1>2, <1>3, PartsAre
  <2>2. Printed(c, order, 1) = IF DOMAIN table = {} THEN <<>> ELSE <<>> \o p
    BY <1>3 DEF Printed, SkipsSection
  <2>3. p \in Text
    BY <1>1, PairsAreText
  <2> HIDE DEF p, ss, text
  <2>4. Upto(ss, 1) = <<>> \o ss[1]
    <3>1. 1 \in 1..Len(ss) /\ 1 - 1 = 0
      BY <2>1
    <3>2. QED
      BY <2>1, <3>1, UptoIs
  <2>5. text # <<>>
    BY <1>4 DEF Good
  <2>6. <<>> \o <<>> = <<>>
    OBVIOUS
  <2>7. DOMAIN table # {}
    BY <2>1, <2>2, <2>4, <2>5, <2>6
  <2>8. text = p
    BY <2>1, <2>2, <2>3, <2>4, <2>7, ConcatEmptySeq DEF Text
  <2>9. QED
    BY <2>1, <2>5, <2>7, <2>8 DEF p
<1>6. Spells(text, rs) /\ rs # <<>> /\ text = PairsText(table)
  <2>1. Spells(text, rs) /\ \A x \in DOMAIN table : \E i \in 1..Len(rs) : rs[i] = PairText(x, table[x])
    BY <1>1, <1>5, TableRows
  <2>2. QED
    BY <1>5, <2>1
<1>7. keys \in Seq(DOMAIN table) /\ \A i, j \in 1..Len(keys) : keys[i] = keys[j] => i = j
  BY <1>1, KeysAre
<1>8. Len(rs) = Len(keys) /\ \A i \in 1..Len(keys) : rs[i] = PairText(keys[i], table[keys[i]])
  <2>1. rs = [i \in DOMAIN keys |-> PairText(keys[i], table[keys[i]])]
    BY DEF PairRows
  <2> HIDE DEF rs, keys
  <2>2. QED
    BY <1>7, <2>1
<1> HIDE DEF rs, keys, table
<1>9. /\ rs \in Seq(Text) /\ Len(rs) \in Nat /\ rs # <<>> /\ text[1] = rs[1][1]
      /\ \A i \in 1..Len(rs) : Row(rs[i])
      /\ text \in Text
  BY <1>5, <1>6 DEF Spells
<1>10. 1 \in 1..Len(rs) /\ 1 \in 1..Len(keys)
  BY <1>8, <1>9, EmptySeq
<1> DEFINE k == keys[1]
           v == table[k]
           r == PairText(k, v)
<1>11. \A i \in 1..Len(keys) : keys[i] \in DOMAIN table
  BY <1>7
<1>12. \A x \in DOMAIN table : Kind(x, table[x], PairText(x, table[x]))
  BY <1>1, PairKind DEF table
<1>13. k \in DOMAIN table /\ rs[1] = r
  BY <1>8, <1>10, <1>11
<1>14. /\ k \in Text /\ v \in Text /\ KeySurvives(k) /\ ~HasAny(v, {NL, NUL})
       /\ Row(r) /\ First(r) = r[1] /\ r[1] = k[1] /\ First(r) # "[" /\ First(r) # NL
       /\ First(r) \notin Comments
  <2>1. Kind(k, v, r)
    BY <1>12, <1>13
  <2> HIDE DEF k, v, r
  <2>2. QED
    BY <2>1 DEF Kind
<1> HIDE DEF k, v, r
<1>15. First(text) = k[1]
  BY <1>5, <1>9, <1>13, <1>14 DEF First
<1>16. CASE First(text) # BOM
  <2>1. Short(rs)
    <3>1. HasCut(text) => ~Good(text)
      BY <1>9, <1>16, CutIsBad DEF WithoutBom
    <3>2. QED
      BY <1>4, <1>6, <3>1 DEF Spells
  <2>2. Lines(text) = rs
    BY <1>6, <1>16, <2>1, RowLines
  <2>3. GoodLine(rs, 1)
    BY <1>4, <1>9, <1>10, <2>2 DEF Good
  <2>4. ~InSection(rs, 1)
    BY DEF InSection
  <2>5. ~GoodSkips(rs[1]) /\ ~IsHeader(rs[1])
    BY <1>13, <1>14 DEF GoodSkips, IsHeader
  <2>6. QED
    BY <2>3, <2>4, <2>5 DEF GoodLine
<1>17. CASE First(text) = BOM
  <2> DEFINE ts == Lines(text)
             q == Tail(r)
  <2>1. Len(r) >= 2 /\ r \in Text /\ r # <<>>
    <3>1. r \in Text /\ Len(k) \in Nat /\ Len(Written(v)) \in Nat /\ Len(r) = Len(k) + Len(Written(v)) + 2
      BY <1>14, PairIs DEF r
    <3>2. QED
      BY <1>14, <3>1 DEF Row, OneLine
  <2>2. /\ q \in Text /\ Len(q) = Len(r) - 1 /\ EndsLine(q)
        /\ \A i \in 1..Len(q) : q[i] = r[i + 1] /\ q[i] # NUL
    BY <1>14, <2>1, RowTail
  <2> DEFINE a == SubSeq(rs, 2, Len(rs))
  <2>3. PICK s : text = r \o s /\ Spells(s, a)
    <3>1. 1 \in 0..Len(rs) /\ 1 + 1 = 2 /\ 1 - 1 = 0
      BY <1>9, <1>10
    <3>2. PICK s : FlattenSeq(rs) = Upto(rs, 1) \o s /\ Spells(s, SubSeq(rs, 1 + 1, Len(rs)))
      BY <1>9, <3>1, RowsSpelled
    <3>3. Upto(rs, 1) = <<>> \o r
      BY <1>9, <1>10, <1>13, <3>1, UptoIs
    <3>4. Upto(rs, 1) = r
      BY <2>1, <3>3, ConcatEmptySeq DEF Text
    <3>5. FlattenSeq(rs) = text
      BY <1>6 DEF PairsText, PairRows, rs
    <3>6. QED
      BY <3>1, <3>2, <3>4, <3>5
  <2>4. Tail(text) = q \o s
    <3>1. r \in Seq(Chars) /\ s \in Seq(Chars) /\ r # <<>>
      BY <2>1, <2>3 DEF Spells, Text
    <3>2. Tail(r \o s) = Tail(r) \o s
      BY <3>1
    <3>3. QED
      BY <2>3, <3>2
  <2> HIDE DEF q
  <2>5. WithoutBom(text) = q \o s
    BY <1>17, <2>4 DEF WithoutBom
  <2>6. s \in Text
    BY <2>3 DEF Spells
  <2> DEFINE A == Pieces(q)
             B == Pieces(s)
  <2>7. Pieces(WithoutBom(text)) = A \o B /\ A \in Seq(Text) /\ B \in Seq(Text)
    BY <2>2, <2>5, <2>6, PiecesJoined, PieceAt
  <2>8. Short(a) /\ B = a
    <3>1. ~HasCut(s)
      BY <1>4, <1>9, <2>2, <2>5, <2>6, CutJoined, CutIsBad
    <3>2. QED
      BY <2>3, <3>1 DEF Spells
  <2> HIDE DEF A
  <2>9. \E i \in Pairs(ts) : KeyOf(ts[i]) = k /\ ValueOf(ts[i]) = v
    <3>1. Loaded(text) = [n \in Sections(ts) |-> TableOf(ts, n)]
      BY LoadedAs
    <3>2. Global \in Sections(ts) /\ TableOf(ts, Global) = table
      BY <1>1, <1>4, <3>1 DEF table
    <3> DEFINE P == Assigning(ts, Global)
               At == {i \in P : KeyOf(ts[i]) = k}
    <3>3. k \in {KeyOf(ts[i]) : i \in P} /\ v = ValueOf(ts[Max(At)])
      BY <1>13, <3>2 DEF TableOf, v
    <3>4. PICK m \in Nat : DOMAIN ts = 1..m
      BY <1>9, LinesAre
    <3>5. P \subseteq Pairs(ts) /\ P \subseteq 1..m
      BY <3>4 DEF Assigning, Pairs
    <3> HIDE DEF P, ts
    <3>6. At \in SUBSET (0..m) /\ At # {}
      BY <3>3, <3>5
    <3>7. \A i \in At : i \in Pairs(ts) /\ KeyOf(ts[i]) = k
      BY <3>5
    <3> HIDE DEF At
    <3>8. Max(At) \in At
      BY <3>6, MaxIs
    <3>9. QED
      BY <3>3, <3>7, <3>8
  <2>10. PICK i \in Pairs(ts) : KeyOf(ts[i]) = k /\ ValueOf(ts[i]) = v
    BY <2>9
  <2>11. /\ i \in DOMAIN ts /\ Find(ts[i], "=") # 0 /\ ~LoadSkips(ts[i])
         /\ i \in DOMAIN Pieces(WithoutBom(text))
         /\ ts[i] = TrimLeft(UpToNul(Pieces(WithoutBom(text))[i]))
    <3>1. i \in DOMAIN ts /\ Find(ts[i], "=") # 0 /\ ~LoadSkips(ts[i])
      BY DEF Pairs
    <3>2. QED
      BY <1>9, <3>1, LinesAre
  <2> HIDE DEF ts, B
  <2>12. /\ Len(A) \in Nat /\ Len(B) \in Nat
         /\ \A x \in 1..Len(A) : (A \o B)[x] = A[x]
         /\ \A j \in 1..Len(B) : (A \o B)[Len(A) + j] = B[j]
         /\ \A x \in 1..Len(A \o B) : x \in 1..Len(A) \/ \E j \in 1..Len(B) : x = Len(A) + j
         /\ A \o B \in Seq(Text)
    BY <2>7, RowsJoined
  <2>13. i \in 1..Len(A \o B)
    BY <2>7, <2>11, <2>12
  <2>14. ts[i] # <<>>
    BY <2>11 DEF LoadSkips, First
  <2>15. CASE i \in 1..Len(A)
    <3> DEFINE t == ts[i]
    <3>1. t = TrimLeft(UpToNul(Pieces(q)[i])) /\ i \in 1..Len(Pieces(q)) /\ t # <<>>
      BY <2>7, <2>11, <2>12, <2>14, <2>15 DEF A
    <3>2. Find(t, "=") # 0 /\ KeyOf(t) = k /\ ValueOf(t) = v
      BY <2>10, <2>11
    <3> HIDE DEF t
    <3>3. t \in Text /\ PartOf(t, q)
      BY <2>2, <3>1, LineOfTail
    <3>4. PICK d \in Nat : d + Len(t) <= Len(q) /\ \A l \in 1..Len(t) : t[l] = q[d + l]
      BY <3>3 DEF PartOf
    <3> DEFINE b == d + 1
    <3>5. Len(t) \in Nat /\ Len(r) \in Nat
      BY <2>1, <3>3 DEF Text
    <3>6. b \in Nat \ {0} /\ b + Len(t) <= Len(r)
      BY <2>2, <3>4, <3>5
    <3>7. ASSUME NEW l \in 1..Len(t) PROVE t[l] = r[b + l]
      <4> DEFINE x == d + l
      <4>1. x \in 1..Len(q) /\ x + 1 = b + l
        BY <2>2, <3>4, <3>5
      <4>2. t[l] = q[x]
        BY <3>4
      <4> HIDE DEF x, b
      <4>3. q[x] = r[x + 1]
        BY <2>2, <4>1
      <4>4. QED
        BY <4>1, <4>2, <4>3
    <3> HIDE DEF b
    <3>8. k[1] = BOM
      BY <1>15, <1>17
    <3>9. ~(KeyOf(t) = k /\ ValueOf(t) = v)
      BY <1>14, <3>2, <3>3, <3>6, <3>7, <3>8, PairIsLost DEF r
    <3>10. QED
      BY <3>2, <3>9
  <2>16. ASSUME NEW j \in 1..Len(B), i = Len(A) + j PROVE FALSE
    <3>1. ts[i] = TrimLeft(UpToNul(B[j]))
      BY <2>7, <2>11, <2>12, <2>16
    <3> DEFINE x == j + 1
    <3>2. x \in 1..Len(rs) /\ x # 1 /\ B[j] = rs[x]
      <4>1. B = SubSeq(rs, 2, Len(rs))
        BY <2>8
      <4>2. /\ Len(SubSeq(rs, 2, Len(rs))) = IF 2 <= Len(rs) THEN Len(rs) - 2 + 1 ELSE 0
            /\ \A l \in 1..(Len(rs) - 2 + 1) : SubSeq(rs, 2, Len(rs))[l] = rs[2 + l - 1]
        <5>1. \A l \in 2..Len(rs) : rs[l] \in Text
          BY <1>9
        <5>2. QED
          BY <1>9, <5>1, SubSeqProperties
      <4>3. j \in 1..(Len(rs) - 2 + 1) /\ 2 + j - 1 = x /\ x \in 1..Len(rs) /\ x # 1
        BY <1>9, <4>1, <4>2
      <4>4. QED
        BY <4>1, <4>2, <4>3
    <3> HIDE DEF x
    <3>3. Row(rs[x]) /\ rs[x] = PairText(keys[x], table[keys[x]]) /\ keys[x] \in DOMAIN table /\ x \in 1..Len(keys)
      BY <1>8, <1>9, <1>11, <3>2
    <3>4. ts[i] = rs[x]
      <4> DEFINE y == rs[x]
      <4>1. y \in Text /\ y # <<>> /\ y[1] \notin Blanks /\ \A l \in 1..Len(y) : y[l] # NUL
        BY <3>3 DEF Row, OneLine
      <4>2. ts[i] = TrimLeft(UpToNul(y))
        BY <3>1, <3>2
      <4> HIDE DEF y
      <4>3. UpToNul(y) = y
        BY <4>1, FindNone, UpToNulIs
      <4>4. First(y) \notin Blanks
        BY <4>1 DEF First
      <4>5. TrimLeft(y) = y
        BY <4>1, <4>4, TrimLeftIs
      <4>6. QED
        BY <4>2, <4>3, <4>5 DEF y
    <3>5. KeyOf(ts[i]) = keys[x]
      BY <1>12, <3>3, <3>4 DEF Kind
    <3>6. keys[x] = keys[1]
      BY <2>10, <3>5 DEF k
    <3>7. QED
      BY <1>7, <1>10, <3>2, <3>3, <3>6
  <2>17. QED
    BY <2>12, <2>13, <2>15, <2>16
<1>18. QED
  BY <1>16, <1>17

-----------------------------------------------------------------------------
(* What is read back *)

\* Representable, in the parts that the lemmas above speak of.
LEMMA RepresentableIs ==
  ASSUME NEW c
  PROVE  Representable(c) <=> /\ DOMAIN c # {} /\ Global \notin DOMAIN c
                              /\ Printable(c) /\ Fits(c) /\ ValuesSurvive(c)
<1>1. ASSUME Representable(c)
      PROVE  /\ DOMAIN c # {} /\ Global \notin DOMAIN c
             /\ Printable(c) /\ Fits(c) /\ ValuesSurvive(c)
  <2>1. /\ DOMAIN c # {}
        /\ \A n \in DOMAIN c :
             /\ n # Global /\ ~HasAny(n, {"]", NL, NUL}) /\ Len(HeaderText(n)) < LineMax
             /\ \A k \in DOMAIN c[n] :
                  /\ KeySurvives(k) /\ ValueSurvives(c[n][k])
                  /\ Len(PairText(k, c[n][k])) < LineMax
    BY <1>1 DEF Representable, NameSurvives
  <2>2. \A n \in DOMAIN c : \A k \in DOMAIN c[n] : ~HasAny(c[n][k], {NL, NUL})
    BY <2>1 DEF ValueSurvives
  <2>3. Printable(c)
    BY <2>1, <2>2 DEF Printable
  <2>4. Fits(c) /\ ValuesSurvive(c)
    BY <2>1 DEF Fits, ValuesSurvive
  <2>5. QED
    BY <2>1, <2>3, <2>4
<1>2. ASSUME DOMAIN c # {}, Global \notin DOMAIN c, Printable(c), Fits(c), ValuesSurvive(c)
      PROVE  Representable(c)
  <2>1. ASSUME NEW n \in DOMAIN c
        PROVE  /\ NameSurvives(n) /\ Len(HeaderText(n)) < LineMax
               /\ \A k \in DOMAIN c[n] :
                    /\ KeySurvives(k) /\ ValueSurvives(c[n][k])
                    /\ Len(PairText(k, c[n][k])) < LineMax
    <3>1. n # Global /\ ~HasAny(n, {"]", NL, NUL}) /\ Len(HeaderText(n)) < LineMax
      BY <1>2 DEF Printable, Fits
    <3>2. ASSUME NEW k \in DOMAIN c[n]
          PROVE  KeySurvives(k) /\ ValueSurvives(c[n][k]) /\ Len(PairText(k, c[n][k])) < LineMax
      BY <1>2 DEF Printable, Fits, ValuesSurvive
    <3>3. QED
      BY <3>1, <3>2 DEF NameSurvives
  <2>2. QED
    BY <1>2, <2>1 DEF Representable
<1>3. QED
  BY <1>1, <1>2

\* In whatever order the iterator gives the sections, ini_load reads back what
\* ini_save wrote of a context exactly if Representable holds of it: that there is
\* something to save, no section is the global one, no name, key or value has a
\* character it would be cut or changed at, and no line is too long.
THEOREM RoundTrip ==
  \A c : IsContext(c) => (ReadBack(c) <=> Representable(c))
<1> SUFFICES ASSUME NEW c, IsContext(c) PROVE ReadBack(c) <=> Representable(c)
  OBVIOUS
<1>1. IsFiniteSet(DOMAIN c)
  BY DEF IsContext
<1>2. ASSUME Representable(c) PROVE ReadBack(c)
  <2>1. DOMAIN c # {} /\ Global \notin DOMAIN c /\ Printable(c) /\ Fits(c) /\ ValuesSurvive(c)
    BY <1>2, RepresentableIs
  <2>2. ASSUME NEW order \in SetToSeqs(DOMAIN c)
        PROVE  Loadable(SavedText(c, order)) /\ Loaded(SavedText(c, order)) = c
    <3> DEFINE text == SavedText(c, order)
    <3>1. Loadable(text) /\ Loaded(text) = c <=> Fits(c) /\ ValuesSurvive(c)
      BY <2>1, PrintableReadsBack
    <3>2. QED
      BY <2>1, <3>1
  <2>3. QED
    BY <2>2 DEF ReadBack
<1>3. ASSUME ReadBack(c) PROVE Representable(c)
  <2>1. PICK order \in SetToSeqs(DOMAIN c) : TRUE
    BY <1>1, OrderWith
  <2> DEFINE text == SavedText(c, order)
  <2>2. Loadable(text) /\ Loaded(text) = c
    BY <1>3 DEF ReadBack
  <2>3. order \in Seq(DOMAIN c) /\ DOMAIN c = {order[i] : i \in DOMAIN order}
    <3> DEFINE S == DOMAIN c
    <3>1. IsFiniteSet(S) /\ order \in SetToSeqs(S)
      BY <1>1
    <3> HIDE DEF S
    <3>2. order \in Seq(S) /\ S = {order[i] : i \in DOMAIN order}
      BY <3>1, OrderOf
    <3>3. QED
      BY <3>2 DEF S
  <2>4. text \in Text /\ text = Upto(Parts(c, order), Len(order))
    BY <2>3, PartsAre
  <2> HIDE DEF text
  <2>5. Printable(c)
    BY <2>2, <2>4, LoadedIsPrintable
  <2>6. DOMAIN c # {}
    <3> SUFFICES ASSUME DOMAIN c = {} PROVE FALSE
      OBVIOUS
    <3>1. Len(order) \in Nat /\ DOMAIN order = 1..Len(order)
      BY <2>3
    <3>2. Len(order) = 0
      BY <2>3, <3>1
    <3>3. text = <<>>
      BY <2>4, <3>2 DEF Upto
    <3>4. QED
      BY <2>2, <3>3 DEF Loadable, Good
  <2>7. Global \notin DOMAIN c
    <3> SUFFICES ASSUME Global \in DOMAIN c PROVE FALSE
      OBVIOUS
    <3>1. CASE DOMAIN c = {Global}
      <4>1. LET s == SavedText(c, order) IN ~(Loadable(s) /\ Loaded(s) = c)
        BY <2>5, <3>1, GlobalAlone
      <4>2. QED
        BY <2>2, <4>1 DEF text
    <3>2. CASE DOMAIN c # {Global}
      <4>1. PICK m \in DOMAIN c : m # Global
        BY <3>2
      <4>2. PICK o \in SetToSeqs(DOMAIN c) : o \in Seq(DOMAIN c) /\ Len(o) >= 1 /\ o[1] = m
        BY <1>1, OrderWith
      <4>3. LET s == SavedText(c, o) IN ~(Loadable(s) /\ Loaded(s) = c)
        BY <2>5, <4>1, <4>2, GlobalIsLost
      <4>4. QED
        BY <1>3, <4>3 DEF ReadBack
    <3>3. QED
      BY <3>1, <3>2
  <2>8. Fits(c) /\ ValuesSurvive(c)
    BY <2>2, <2>5, <2>6, <2>7, PrintableReadsBack DEF text
  <2>9. QED
    BY <2>5, <2>6, <2>7, <2>8, RepresentableIs
<1>4. QED
  BY <1>2, <1>3

\* Of what ini_load has made of any text, be it good or not, names and keys always
\* survive: without a global section, it is read back exactly if no line is too
\* long with its quotes and the values survive.
THEOREM LoadedReadsBack ==
  \A text \in Text :
    DOMAIN Loaded(text) # {} /\ Global \notin DOMAIN Loaded(text) =>
      (ReadBack(Loaded(text)) <=> Fits(Loaded(text)) /\ ValuesSurvive(Loaded(text)))
<1> SUFFICES ASSUME NEW text \in Text, NEW c, c = Loaded(text), DOMAIN c # {}, Global \notin DOMAIN c
             PROVE  ReadBack(c) <=> Fits(c) /\ ValuesSurvive(c)
  OBVIOUS
<1>1. IsContext(c) /\ Printable(c)
  BY LoadedIsContext, LoadedIsPrintable
<1>2. QED
  BY <1>1, RoundTrip, RepresentableIs
=============================================================================
