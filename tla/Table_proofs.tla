---------------------------- MODULE Table_proofs ----------------------------
(***************************************************************************)
(* The table, for any number of items, members and columns, and the ages   *)
(* in it, for any time and clock.                                          *)
(*                                                                         *)
(* The invariant of the table says what a cell and a type may say: what    *)
(* the item says at the member of the column, or nothing if a value of     *)
(* that item was cut off.  Cells are only bound by it while the cache is   *)
(* valid; types are at all times, which is why a removal that takes the    *)
(* type along keeps it and why a draw between two others cannot undo it.   *)
(* Its proof needs what the recursion over the columns gives (Iteration)   *)
(* and where FlattenSeq puts the cell of a row (Flattened).                *)
(*                                                                         *)
(* The ages follow from two facts about numbers: Age cuts seconds into     *)
(* units such that an eighth is left out at most, and days_from_epoch is   *)
(* the calendar, because a year that begins in March has its months in     *)
(* groups of 153 days and its leap day at the end.                         *)
(***************************************************************************)
EXTENDS TableView, Duration, FiniteSetTheorems, SequenceTheorems,
        WellFoundedInduction, TLAPS

-----------------------------------------------------------------------------
(* Recursion and sequences.                                                *)

\* Every set of numbers that is not empty has a least one.
LEMMA LeastNumber ==
    ASSUME NEW T, T \subseteq Nat, T # {}
    PROVE  \E x \in T : \A y \in T : x <= y
<1> DEFINE less == {pair \in Nat \X Nat : pair[1] < pair[2]}
<1>1. IsWellFoundedOn(less, Nat)
  BY NatLessThanWellFounded, Zenon DEF OpToRel
<1>2. PICK x \in T : \A y \in T : <<y, x>> \notin less
  BY <1>1, WFMin, Zenon
<1>3. \A y \in T : ~(y < x)
  BY <1>2
<1> QED
  BY <1>3

\* Induction, of a set instead of a predicate.
LEMMA Induction ==
    ASSUME NEW T, 0 \in T, \A n \in Nat : n \in T => n + 1 \in T
    PROVE  Nat \subseteq T
<1> SUFFICES ASSUME Nat \ T # {} PROVE FALSE
  BY Zenon
<1>1. PICK x \in Nat \ T : \A y \in Nat \ T : x <= y
  BY LeastNumber
<1>2. x # 0 /\ x - 1 \in Nat /\ x - 1 \in T
  BY <1>1
<1> QED
  BY <1>1, <1>2

\* step gives a value for each of n steps and the value before it, and f has
\* the values from base on.
IsStep(step, n, V) == step \in [(1..n) \X V -> V]

Iterates(f, step, n, base, V) ==
    /\ f \in [0..n -> V]
    /\ f[0] = base /\ \A c \in 1..n : f[c] = step[<<c, f[c - 1]>>]

\* What every recursion over an initial part of the numbers rests on.
LEMMA Iteration ==
    ASSUME NEW V, NEW n \in Nat, NEW base \in V, NEW step, IsStep(step, n, V)
    PROVE  \E f : Iterates(f, step, n, base, V)
<1> DEFINE Good(m, f) == /\ f \in [0..m -> V]
                         /\ f[0] = base /\ \A c \in 1..m : f[c] = step[<<c, f[c - 1]>>]
           T == {m \in Nat : m <= n => \E f : Good(m, f)}
<1>1. 0 \in T
  <2>1. [c \in 0..0 |-> base] \in [0..0 -> V]
    OBVIOUS
  <2>2. Good(0, [c \in 0..0 |-> base])
    BY <2>1
  <2> QED
    BY <2>2
<1>2. ASSUME NEW m \in Nat, m \in T PROVE m + 1 \in T
  <2> SUFFICES ASSUME m + 1 <= n PROVE \E f : Good(m + 1, f)
    OBVIOUS
  <2>1. PICK f : Good(m, f)
    BY <1>2
  <2> DEFINE last == step[<<m + 1, f[m]>>]
             g == [c \in 0..m + 1 |-> IF c = m + 1 THEN last ELSE f[c]]
  <2>2. /\ f \in [0..m -> V]
        /\ f[0] = base /\ \A c \in 1..m : f[c] = step[<<c, f[c - 1]>>]
    BY <2>1
  <2>3. f[m] \in V /\ m + 1 \in 1..n
    BY <2>2
  <2>4. last \in V
    BY <2>3 DEF IsStep
  <2> HIDE DEF last
  <2>5. g \in [0..m + 1 -> V]
    BY <2>2, <2>4
  <2>6. \A c \in 0..m : g[c] = f[c]
    OBVIOUS
  <2>7. g[m + 1] = last
    OBVIOUS
  <2> HIDE DEF g
  <2>8. g[0] = base
    BY <2>2, <2>6
  <2>9. ASSUME NEW c \in 1..m + 1 PROVE g[c] = step[<<c, g[c - 1]>>]
    <3>1. g[c - 1] = f[c - 1]
      BY <2>6
    <3>2. CASE c = m + 1
      BY <2>7, <3>1, <3>2 DEF last
    <3>3. CASE c # m + 1
      <4>1. c \in 1..m /\ c \in 0..m
        BY <3>3
      <4> QED
        BY <2>2, <2>6, <3>1, <4>1
    <3> QED
      BY <3>2, <3>3
  <2> QED
    BY <2>5, <2>8, <2>9
<1>3. n \in T
  <2> HIDE DEF T
  <2> QED
    BY <1>1, <1>2, Induction
<1>4. PICK f : Good(n, f)
  BY <1>3
<1>5. Iterates(f, step, n, base, V)
  BY <1>4 DEF Iterates
<1> QED
  BY <1>5

\* A sequence without its i-th element.
LEMMA RemoveAtIs ==
    ASSUME NEW S, NEW s \in Seq(S), NEW i \in 1..Len(s)
    PROVE  /\ RemoveAt(s, i) \in Seq(S) /\ Len(RemoveAt(s, i)) = Len(s) - 1
           /\ \A j \in 1..Len(s) - 1 :
                 RemoveAt(s, i)[j] = IF j < i THEN s[j] ELSE s[j + 1]
<1> DEFINE head == SubSeq(s, 1, i - 1)
           tail == SubSeq(s, i + 1, Len(s))
           n == Len(s)
<1>0. n \in Nat /\ i \in 1..n
  OBVIOUS
<1>1. /\ head \in Seq(S) /\ Len(head) = i - 1
      /\ \A j \in 1..i - 1 : head[j] = s[j]
  <2>1. \A j \in 1..i - 1 : s[j] \in S
    OBVIOUS
  <2> QED
    BY <2>1, SubSeqProperties
<1>2. /\ tail \in Seq(S) /\ Len(tail) = n - i
      /\ \A j \in 1..n - i : tail[j] = s[i + j]
  <2>1. \A j \in i + 1..Len(s) : s[j] \in S
    OBVIOUS
  <2> QED
    BY <2>1, SubSeqProperties
<1>3. RemoveAt(s, i) = head \o tail
  BY DEF RemoveAt
<1> HIDE DEF head, tail, n
<1>4. /\ head \o tail \in Seq(S) /\ Len(head \o tail) = (i - 1) + (n - i)
      /\ \A j \in 1..(i - 1) + (n - i) : (head \o tail)[j] =
            IF j <= i - 1 THEN head[j] ELSE tail[j - (i - 1)]
  BY <1>1, <1>2, ConcatProperties
<1>5. (i - 1) + (n - i) = n - 1
  BY <1>0
<1>6. ASSUME NEW j \in 1..n - 1
      PROVE  (head \o tail)[j] = IF j < i THEN s[j] ELSE s[j + 1]
  <2>1. CASE j < i
    BY <1>0, <1>1, <1>4, <1>5, <2>1
  <2>2. CASE ~(j < i)
    <3>1. j - (i - 1) \in 1..n - i /\ i + (j - (i - 1)) = j + 1 /\ ~(j <= i - 1)
      BY <1>0, <2>2
    <3> QED
      BY <1>2, <1>4, <1>5, <2>2, <3>1
  <2> QED
    BY <2>1, <2>2
<1> QED
  BY <1>3, <1>4, <1>5, <1>6 DEF n

\* Rows of k places, one after the other: where the places of a row are.
LEMMA RowPlaces ==
    ASSUME NEW k \in Nat, NEW i \in Nat
    PROVE  /\ i * k \in Nat /\ i * k + k = (i + 1) * k
           /\ \A r \in 1..i, c \in 1..k :
                 k * (r - 1) \in Nat /\ c + k * (r - 1) \in 1..i * k
           /\ \A c \in 1..k : c + k * ((i + 1) - 1) = i * k + c
<1>1. \A a, b \in Nat : a * b \in Nat
  OBVIOUS
<1>2. i * k + k = (i + 1) * k
  OBVIOUS
<1>3. ASSUME NEW r \in 1..i, NEW c \in 1..k
      PROVE  k * (r - 1) \in Nat /\ c + k * (r - 1) \in 1..i * k
  <2>1. PICK d \in Nat : i = r + d
    <3>1. i - r \in Nat /\ i = r + (i - r)
      OBVIOUS
    <3> QED
      BY <3>1
  <2>2. PICK q \in Nat : r = q + 1
    <3>1. r - 1 \in Nat /\ r = (r - 1) + 1
      OBVIOUS
    <3> QED
      BY <3>1
  <2>3. i * k = k * q + k + d * k
    BY <2>1, <2>2
  <2>4. k * q \in Nat /\ d * k \in Nat
    BY <1>1
  <2>5. k * (r - 1) = k * q
    BY <2>2
  <2> QED
    BY <2>3, <2>4, <2>5
<1>4. \A c \in 1..k : c + k * ((i + 1) - 1) = i * k + c
  OBVIOUS
<1> QED
  BY <1>1, <1>2, <1>3, <1>4

\* n rows of k elements, and the same in one sequence.
AreRows(s, n, k, S) == s \in [1..n -> [1..k -> S]]

IsFlat(q, s, n, k, S) ==
    /\ q \in Seq(S) /\ Len(q) = n * k
    /\ \A r \in 1..n, c \in 1..k : q[c + k * (r - 1)] = s[r][c]

\* FlattenSeq puts rows of the same length one after the other.
LEMMA Flattened ==
    ASSUME NEW S, NEW n \in Nat \ {0}, NEW k \in Nat, NEW s, AreRows(s, n, k, S)
    PROVE  IsFlat(FlattenSeq(s), s, n, k, S)
<1> DEFINE V == Seq(S)
           Row(f, i) == IF i = 1 THEN s[i] ELSE f[i - 1] \o s[i]
           step == [p \in (1..n) \X V |-> IF p[1] = 1 THEN s[p[1]] ELSE p[2] \o s[p[1]]]
<1>0. s \in [1..n -> [1..k -> S]]
  BY DEF AreRows
<1>1. \A i \in 1..n : s[i] \in V /\ Len(s[i]) = k
  BY <1>0
<1>2. step \in [(1..n) \X V -> V]
  <2> SUFFICES ASSUME NEW p \in (1..n) \X V
               PROVE  (IF p[1] = 1 THEN s[p[1]] ELSE p[2] \o s[p[1]]) \in V
    OBVIOUS
  <2>1. p[1] \in 1..n /\ p[2] \in V
    OBVIOUS
  <2> QED
    BY <1>1, <2>1, ConcatProperties
<1>3. <<>> \in V
  OBVIOUS
<1>4. PICK f \in [0..n -> V] :
          f[0] = <<>> /\ \A i \in 1..n : f[i] = step[<<i, f[i - 1]>>]
  <2>1. n \in Nat
    OBVIOUS
  <2>2. IsStep(step, n, V)
    BY <1>2 DEF IsStep
  <2> HIDE DEF V, step
  <2>3. PICK f : Iterates(f, step, n, <<>>, V)
    BY <1>3, <2>1, <2>2, Iteration
  <2> QED
    BY <2>3 DEF Iterates
<1>5. \A i \in 1..n : f[i - 1] \in V /\ f[i] = Row(f, i)
  <2> TAKE i \in 1..n
  <2>1. i - 1 \in 0..n
    OBVIOUS
  <2>2. f[i - 1] \in V
    BY <1>4, <2>1
  <2>3. <<i, f[i - 1]>> \in (1..n) \X V
    BY <2>2
  <2>4. f[i] = step[<<i, f[i - 1]>>]
    BY <1>4
  <2> QED
    BY <2>2, <2>3, <2>4
<1> HIDE DEF step
<1>6. \E g : g = [i \in 1..n |-> Row(g, i)]
  <2> DEFINE g == [i \in 1..n |-> f[i]]
  <2>1. ASSUME NEW i \in 1..n PROVE f[i] = Row(g, i)
    <3>1. i # 1 => g[i - 1] = f[i - 1]
      OBVIOUS
    <3> QED
      BY <1>5, <3>1
  <2>2. g = [i \in 1..n |-> Row(g, i)]
    BY <2>1
  <2> QED
    BY <2>2
<1>7. PICK g : g = [i \in 1..n |-> Row(g, i)] /\ FlattenSeq(s) = g[n]
  <2>1. Len(s) = n
    BY <1>0
  <2>2. FlattenSeq(s) = (CHOOSE g : g = [i \in 1..n |-> Row(g, i)])[n]
    BY <2>1, Zenon DEF FlattenSeq
  <2> QED
    BY <1>6, <2>2, Zenon
<1> DEFINE Whole(i) == /\ g[i] \in V /\ Len(g[i]) = i * k
                       /\ \A r \in 1..i, c \in 1..k : g[i][c + k * (r - 1)] = s[r][c]
           T == {i \in Nat : i + 1 \in 1..n => Whole(i + 1)}
<1>8. 0 \in T
  <2>1. g[1] = s[1] /\ 1 \in 1..n
    BY <1>7
  <2>2. g[1] \in V /\ Len(g[1]) = 1 * k
    BY <1>1, <2>1
  <2>3. \A r \in 1..1, c \in 1..k : c + k * (r - 1) = c /\ r = 1
    OBVIOUS
  <2>4. Whole(1)
    BY <2>1, <2>2, <2>3
  <2>5. 0 + 1 = 1 /\ 0 \in Nat
    OBVIOUS
  <2> HIDE DEF Whole
  <2> QED
    BY <2>4, <2>5
<1>9. ASSUME NEW m \in Nat, m \in T PROVE m + 1 \in T
  <2> DEFINE i == m + 1
  <2> HIDE DEF Whole
  <2> SUFFICES ASSUME i + 1 \in 1..n PROVE Whole(i + 1)
    OBVIOUS
  <2>1. i \in Nat /\ i \in 1..n /\ i + 1 # 1 /\ (i + 1) - 1 = i
    OBVIOUS
  <2>2. Whole(i)
    BY <1>9, <2>1
  <2> HIDE DEF i
  <2>3. g[i + 1] = g[i] \o s[i + 1]
    BY <1>7, <2>1
  <2>4. /\ g[i] \in V /\ Len(g[i]) = i * k
        /\ \A r \in 1..i, c \in 1..k : g[i][c + k * (r - 1)] = s[r][c]
    BY <2>2 DEF Whole
  <2>5. s[i + 1] \in V /\ Len(s[i + 1]) = k
    BY <1>1
  <2>6. /\ i * k \in Nat /\ i * k + k = (i + 1) * k
        /\ \A r \in 1..i, c \in 1..k :
              k * (r - 1) \in Nat /\ c + k * (r - 1) \in 1..i * k
        /\ \A c \in 1..k : c + k * ((i + 1) - 1) = i * k + c
    BY <2>1, RowPlaces
  <2>7. /\ g[i + 1] \in V /\ Len(g[i + 1]) = i * k + k
        /\ \A j \in 1..i * k + k :
              g[i + 1][j] = IF j <= i * k THEN g[i][j] ELSE s[i + 1][j - i * k]
    <3> DEFINE a == g[i]
               b == s[i + 1]
    <3>1. a \in Seq(S) /\ b \in Seq(S) /\ Len(a) = i * k /\ Len(b) = k
      BY <2>4, <2>5
    <3>2. g[i + 1] = a \o b
      BY <2>3
    <3> HIDE DEF a, b
    <3>3. /\ a \o b \in Seq(S) /\ Len(a \o b) = Len(a) + Len(b)
          /\ \A j \in 1..Len(a) + Len(b) :
                (a \o b)[j] = IF j <= Len(a) THEN a[j] ELSE b[j - Len(a)]
      BY <3>1, ConcatProperties
    <3> QED
      BY <3>1, <3>2, <3>3, Zenon DEF a, b
  <2>8. ASSUME NEW r \in 1..i + 1, NEW c \in 1..k
        PROVE  g[i + 1][c + k * (r - 1)] = s[r][c]
    <3> DEFINE j == c + k * (r - 1)
    <3>1. CASE r = i + 1
      <4>1. j = i * k + c
        BY <2>6, <3>1
      <4>2. i * k + c \in 1..i * k + k /\ ~(i * k + c <= i * k) /\ (i * k + c) - i * k = c
        <5>1. \A x \in Nat : x + c \in 1..x + k /\ ~(x + c <= x) /\ (x + c) - x = c
          OBVIOUS
        <5> QED
          BY <2>6, <5>1, Zenon
      <4> HIDE DEF j
      <4>3. g[i + 1][j] = s[i + 1][c]
        BY <2>7, <4>1, <4>2
      <4> QED
        BY <3>1, <4>3 DEF j
    <3>2. CASE r # i + 1
      <4>1. r \in 1..i
        BY <2>1, <3>2
      <4>2. j \in 1..i * k /\ g[i][j] = s[r][c]
        BY <2>4, <2>6, <4>1
      <4> HIDE DEF j
      <4>3. j \in 1..i * k + k /\ j <= i * k
        BY <2>6, <4>2
      <4> QED
        BY <2>7, <4>2, <4>3 DEF j
    <3> QED
      BY <3>1, <3>2
  <2> QED
    BY <2>6, <2>7, <2>8 DEF Whole
<1>10. Whole(n)
  <2> HIDE DEF T, Whole
  <2>1. n - 1 \in T
    <3>1. Nat \subseteq T
      BY <1>8, <1>9, Induction
    <3> QED
      BY <3>1
  <2>2. (n - 1) + 1 = n /\ n \in 1..n
    OBVIOUS
  <2> QED
    BY <2>1, <2>2 DEF T
<1>11. IsFlat(g[n], s, n, k, S)
  BY <1>10, Zenon DEF IsFlat
<1>12. FlattenSeq(s) = g[n]
  BY <1>7, Zenon
<1> QED
  BY <1>11, <1>12, Zenon

-----------------------------------------------------------------------------
(* The cache.                                                              *)

\* What a value says of a member: its type, unless something of the item was
\* cut off.
Says(kind, r, member) ==
    kind = items[r][member] \/ (kind = "UNK" /\ cut[r] # {})

\* The cells of a valid cache.
CellsInv ==
    ~invalid =>
        /\ Len(ele) = NRows * Len(cols) /\ Len(kttype) = Len(cols)
        /\ \A r \in Rows, c \in 1..Len(cols) :
              /\ TbValue(r, c).row = r
              /\ TbValue(r, c).member = cols[c].member
              /\ Says(TbValue(r, c).kind, r, cols[c].member)

\* Headers and popup, and the types of the columns that have one, whether or
\* not the cache is valid.
TypesInv ==
    /\ heads = cols /\ popup = cols
    /\ \A c \in 1..Len(kttype) : Says(kttype[c], 1, cols[c].member)

\* Bits are those of columns there are, as long as raw is kept.
RawInv == raw # << >> =>
    /\ hmask \subseteq 1..Len(cols)
    /\ \A c \in 1..Len(cols) : raw[c] <=> c \in hmask

TableInv == TypeOK /\ CellsInv /\ TypesInv /\ RawInv /\ FaultHasCause

\* What a column adds to the members of item r that are cut off.
Cuts(r, col, before) ==
    IF IsAdded(r, col, before) THEN before \union {col.member} ELSE before

\* The recursion of CutBy is sound.
LEMMA CutByIs ==
    ASSUME TypeOK, NEW r \in Rows
    PROVE  /\ CutBy(r) \in [0..Len(cols) -> SUBSET Members]
           /\ CutBy(r)[0] = cut[r]
           /\ \A c \in 1..Len(cols) : CutBy(r)[c] = Cuts(r, cols[c], CutBy(r)[c - 1])
<1> DEFINE V == SUBSET Members
           n == Len(cols)
           Cut(f, c) == IF c = 0 THEN cut[r]
                        ELSE IF IsAdded(r, cols[c], f[c - 1])
                             THEN f[c - 1] \union {cols[c].member}
                             ELSE f[c - 1]
           step == [p \in (1..n) \X V |-> Cuts(r, cols[p[1]], p[2])]
<1>1. n \in Nat /\ cut[r] \in V /\ \A c \in 1..n : cols[c].member \in Members
  <2>1. cols \in Seq(Columns) /\ cut \in [Rows -> SUBSET Members]
    BY DEF TypeOK
  <2>2. \A c \in 1..n : cols[c] \in Columns
    BY <2>1
  <2> QED
    BY <2>1, <2>2 DEF Columns
<1> HIDE DEF n
<1>2. step \in [(1..n) \X V -> V]
  <2> SUFFICES ASSUME NEW p \in (1..n) \X V PROVE Cuts(r, cols[p[1]], p[2]) \in V
    OBVIOUS
  <2>1. p[1] \in 1..n /\ p[2] \in V
    OBVIOUS
  <2> QED
    BY <1>1, <2>1 DEF Cuts
<1>3. PICK f : Iterates(f, step, n, cut[r], V)
  <2>1. IsStep(step, n, V)
    BY <1>2 DEF IsStep
  <2> HIDE DEF V, step
  <2> QED
    BY <1>1, <2>1, Iteration
<1>4. /\ f \in [0..n -> V] /\ f[0] = cut[r]
      /\ \A c \in 1..n : f[c] = Cuts(r, cols[c], f[c - 1])
  <2>1. f \in [0..n -> V] /\ f[0] = cut[r]
    BY <1>3 DEF Iterates
  <2>2. ASSUME NEW c \in 1..n PROVE f[c] = Cuts(r, cols[c], f[c - 1])
    <3>1. f[c - 1] \in V
      BY <1>1, <2>1
    <3>2. f[c] = step[<<c, f[c - 1]>>]
      BY <1>3 DEF Iterates
    <3>3. <<c, f[c - 1]>> \in (1..n) \X V
      BY <3>1
    <3> QED
      BY <3>2, <3>3
  <2> QED
    BY <2>1, <2>2
<1>5. f = [c \in 0..n |-> Cut(f, c)]
  <2>1. ASSUME NEW c \in 0..n PROVE f[c] = Cut(f, c)
    <3>1. CASE c = 0
      BY <1>4, <3>1
    <3>2. CASE c # 0
      <4>1. c \in 1..n
        BY <1>1, <3>2
      <4> QED
        BY <1>4, <3>2, <4>1 DEF Cuts
    <3> QED
      BY <3>1, <3>2
  <2> HIDE DEF Cut
  <2> QED
    BY <1>4, <2>1
<1>6. CutBy(r) = CHOOSE g : g = [c \in 0..n |-> Cut(g, c)]
  BY DEF CutBy, n
<1>7. PICK g : g = [c \in 0..n |-> Cut(g, c)] /\ CutBy(r) = g
  <2> HIDE DEF Cut
  <2> QED
    BY <1>5, <1>6, Zenon
<1>8. \A c \in 0..n : g[c] = f[c]
  <2> DEFINE T == {c \in Nat : c \in 0..n => g[c] = f[c]}
  <2>1. 0 \in T
    BY <1>4, <1>7
  <2>2. ASSUME NEW c \in Nat, c \in T PROVE c + 1 \in T
    <3> SUFFICES ASSUME c + 1 \in 0..n PROVE g[c + 1] = f[c + 1]
      OBVIOUS
    <3>1. c \in 0..n /\ c + 1 # 0 /\ (c + 1) - 1 = c
      BY <1>1
    <3>2. g[c] = f[c]
      BY <2>2, <3>1
    <3>3. g[c + 1] = Cut(g, c + 1) /\ f[c + 1] = Cut(f, c + 1)
      <4> HIDE DEF Cut
      <4> QED
        BY <1>5, <1>7
    <3> QED
      BY <3>1, <3>2, <3>3
  <2>3. Nat \subseteq T
    <3> HIDE DEF T
    <3> QED
      BY <2>1, <2>2, Induction
  <2> QED
    BY <1>1, <2>3
<1>9. g = f
  <2>1. DOMAIN g = 0..n /\ g = [c \in 0..n |-> g[c]]
    <3> HIDE DEF Cut
    <3> QED
      BY <1>7
  <2> QED
    BY <1>4, <1>8, <2>1
<1> QED
  BY <1>4, <1>7, <1>9 DEF n

\* What was cut off stays so.
LEMMA CutByGrows ==
    ASSUME TypeOK, NEW r \in Rows
    PROVE  \A c \in 0..Len(cols) : /\ cut[r] \subseteq CutBy(r)[c]
                                   /\ CutBy(r)[c] \subseteq CutBy(r)[Len(cols)]
<1> DEFINE n == Len(cols)
           A == CutBy(r)
           T == {d \in Nat : d <= n => \A c \in 0..d : A[c] \subseteq A[d]}
<1>1. n \in Nat
  BY DEF TypeOK
<1>2. A[0] = cut[r] /\ \A c \in 1..n : A[c - 1] \subseteq A[c]
  BY CutByIs DEF Cuts
<1> HIDE DEF A, n
<1>3. 0 \in T
  <2>1. \A c \in 0..0 : c = 0
    OBVIOUS
  <2> QED
    BY <2>1
<1>4. ASSUME NEW d \in Nat, d \in T PROVE d + 1 \in T
  <2> SUFFICES ASSUME d + 1 <= n, NEW c \in 0..d + 1 PROVE A[c] \subseteq A[d + 1]
    OBVIOUS
  <2>1. d + 1 \in 1..n /\ (d + 1) - 1 = d /\ d <= n
    BY <1>1
  <2>2. A[d] \subseteq A[d + 1]
    BY <1>2, <2>1
  <2>3. CASE c = d + 1
    BY <2>3
  <2>4. CASE c # d + 1
    <3>1. c \in 0..d
      BY <2>4
    <3> QED
      BY <1>4, <2>1, <2>2, <3>1
  <2> QED
    BY <2>3, <2>4
<1>5. Nat \subseteq T
  <2> HIDE DEF T
  <2> QED
    BY <1>3, <1>4, Induction
<1>6. ASSUME NEW c \in 0..n PROVE cut[r] \subseteq A[c] /\ A[c] \subseteq A[n]
  <2>1. c \in Nat /\ c <= n /\ 0 \in 0..c /\ c \in 0..n /\ n <= n
    BY <1>1
  <2>2. c \in T /\ n \in T
    BY <1>1, <1>5, <2>1
  <2> QED
    BY <1>2, <2>1, <2>2
<1> QED
  BY <1>6 DEF A, n

\* The cells of an item are of its columns, and say what the item says or
\* that something of it was cut off.
LEMMA FilledIs ==
    ASSUME TypeOK, NEW r \in Rows
    PROVE  /\ Filled(r) \in [1..Len(cols) -> Cells]
           /\ \A c \in 1..Len(cols) :
                 /\ Filled(r)[c].row = r /\ Filled(r)[c].member = cols[c].member
                 /\ \/ Filled(r)[c].kind = items[r][cols[c].member]
                    \/ Filled(r)[c].kind = "UNK" /\ CutBy(r)[Len(cols)] # {}
<1> DEFINE n == Len(cols)
           Kind(c) == IF Found(r, cols[c].member, CutBy(r)[c - 1])
                      THEN items[r][cols[c].member] ELSE "UNK"
<1>1. /\ n \in Nat /\ \A c \in 1..n : cols[c].member \in Members
      /\ \A m \in Members : items[r][m] \in KDataType
  <2>1. cols \in Seq(Columns) /\ items \in [Rows -> [Members -> Kinds]]
    BY DEF TypeOK
  <2>2. \A c \in 1..n : cols[c] \in Columns
    BY <2>1
  <2> QED
    BY <2>1, <2>2, TableAssumption DEF Columns
<1>2. Filled(r) = [c \in 1..n |->
                      [row |-> r, member |-> cols[c].member, kind |-> Kind(c)]]
  BY DEF Filled
<1>3. \A c \in 1..n : CutBy(r)[c - 1] \subseteq CutBy(r)[n]
  <2>1. \A c \in 1..n : c - 1 \in 0..n
    BY <1>1
  <2> QED
    BY <2>1, CutByGrows
<1> HIDE DEF n
<1>4. ASSUME NEW c \in 1..n
      PROVE  /\ Kind(c) \in KDataType
             /\ Kind(c) = items[r][cols[c].member] \/ (Kind(c) = "UNK" /\ CutBy(r)[n] # {})
  <2>1. Kind(c) \in KDataType
    BY <1>1 DEF KDataType
  <2>2. ASSUME CutBy(r)[n] = {} PROVE Kind(c) = items[r][cols[c].member]
    <3>1. CutBy(r)[c - 1] = {}
      BY <1>3, <2>2
    <3>2. CASE items[r][cols[c].member] = "UNK"
      BY <3>2
    <3>3. CASE items[r][cols[c].member] # "UNK"
      <4>1. cols[c].member \in Present(r)
        BY <1>1, <3>3 DEF Present
      <4> QED
        BY <3>1, <4>1 DEF Found
    <3> QED
      BY <3>2, <3>3
  <2>3. Kind(c) = items[r][cols[c].member] \/ Kind(c) = "UNK"
    OBVIOUS
  <2> QED
    BY <2>1, <2>2, <2>3
<1> HIDE DEF Kind
<1>5. Filled(r) \in [1..n -> Cells]
  BY <1>1, <1>2, <1>4 DEF Cells
<1> QED
  BY <1>2, <1>4, <1>5 DEF n

\* A draw leaves a valid cache: it fills it, or finds it so.
LEMMA CacheStep ==
    ASSUME TableInv, TbCache, UNCHANGED <<items, cols, heads, popup>>
    PROVE  /\ ~invalid' /\ CellsInv' /\ TypesInv'
           /\ cut' \in [Rows -> SUBSET Members]
           /\ kttype' \in Seq(KDataType) /\ ele' \in Seq(Cells)
<1>type. /\ TypeOK /\ CellsInv /\ TypesInv /\ invalid \in BOOLEAN
         /\ 1 \in Rows /\ NRows \in Nat \ {0} /\ Rows = 1..NRows
  BY TableAssumption DEF TableInv, TypeOK, Rows
<1>n. Len(cols) \in Nat
  BY <1>type DEF TypeOK
<1>1. CASE ~invalid
  <2>1. UNCHANGED <<ele, kttype, cut, invalid>>
    BY <1>1 DEF TbCache
  <2>2. \A k, r, m : Says(k, r, m)' <=> Says(k, r, m)
    BY <2>1 DEF Says
  <2>3. \A r, c : TbValue(r, c)' = TbValue(r, c)
    BY <2>1 DEF TbValue
  <2>4. CellsInv'
    BY <1>type, <1>1, <2>1, <2>2, <2>3 DEF CellsInv
  <2>5. TypesInv'
    BY <1>type, <2>1, <2>2 DEF TypesInv
  <2> QED
    BY <1>type, <1>1, <2>1, <2>4, <2>5 DEF TypeOK
<1>2. CASE invalid
  <2> DEFINE n == Len(cols)
             s == [r \in Rows |-> Filled(r)]
  <2>1. /\ ele' = FlattenSeq(s)
        /\ kttype' = [c \in 1..n |-> Filled(1)[c].kind]
        /\ cut' = [r \in Rows |-> CutBy(r)[n]]
        /\ invalid' = FALSE
    BY <1>2 DEF TbCache
  <2>2. \A r \in Rows :
          /\ Filled(r) \in [1..n -> Cells]
          /\ \A c \in 1..n :
                /\ Filled(r)[c].row = r /\ Filled(r)[c].member = cols[c].member
                /\ \/ Filled(r)[c].kind = items[r][cols[c].member]
                   \/ Filled(r)[c].kind = "UNK" /\ CutBy(r)[n] # {}
    BY <1>type, FilledIs
  <2>3. \A r \in Rows : s[r] = Filled(r)
    OBVIOUS
  <2>4. AreRows(s, NRows, n, Cells)
    BY <1>type, <2>2 DEF AreRows
  <2> HIDE DEF s
  <2>5. /\ ele' \in Seq(Cells) /\ Len(ele') = NRows * n
        /\ \A r \in Rows, c \in 1..n : ele'[c + n * (r - 1)] = Filled(r)[c]
    <3>1. IsFlat(FlattenSeq(s), s, NRows, n, Cells)
      <4>1. n \in Nat /\ NRows \in Nat \ {0}
        BY <1>type, <1>n
      <4> HIDE DEF n
      <4> QED
        BY <2>4, <4>1, Flattened
    <3> QED
      BY <1>type, <2>1, <2>3, <3>1 DEF IsFlat
  <2>6. \A r \in Rows : cut'[r] = CutBy(r)[n]
    BY <2>1
  <2>7. cut' \in [Rows -> SUBSET Members]
    <3>1. \A r \in Rows : CutBy(r)[n] \in SUBSET Members
      <4>1. n \in 0..n
        BY <1>n
      <4> QED
        BY <1>type, <4>1, CutByIs
    <3> QED
      BY <2>1, <3>1
  <2>8. ASSUME NEW r \in Rows, NEW c \in 1..n, NEW k, k = Filled(r)[c].kind
        PROVE  k = items'[r][cols'[c].member] \/ (k = "UNK" /\ cut'[r] # {})
    BY <2>2, <2>6, <2>8
  <2>9. \A r \in Rows, c \in 1..n : TbValue(r, c)' = Filled(r)[c]
    BY <2>5 DEF TbValue, Position
  <2>10. /\ kttype' \in Seq(KDataType) /\ Len(kttype') = n
         /\ \A c \in 1..n : kttype'[c] = Filled(1)[c].kind
    <3>1. \A c \in 1..n : Filled(1)[c].kind \in KDataType
      BY <1>type, <2>2 DEF Cells
    <3> HIDE DEF n
    <3>2. kttype' \in [1..n -> KDataType]
      BY <2>1, <3>1
    <3> QED
      BY <1>n, <2>1, <3>2 DEF n
  <2>11. CellsInv'
    BY <2>2, <2>5, <2>8, <2>9, <2>10 DEF CellsInv, Says
  <2>12. TypesInv'
    BY <1>type, <2>8, <2>10 DEF TypesInv, Says
  <2> QED
    BY <2>1, <2>5, <2>7, <2>10, <2>11, <2>12
<1> QED
  BY <1>type, <1>1, <1>2

-----------------------------------------------------------------------------
(* Every step.                                                             *)

\* The configured columns have neither cells nor types.
LEMMA InitTable == Init => TableInv
<1> SUFFICES ASSUME Init PROVE TableInv
  OBVIOUS
<1>1. PICK n \in 1..MaxCols : cols \in [1..n -> Columns]
  BY DEF Init
<1>2. cols \in Seq(Columns) /\ Len(cols) = n /\ n \in Nat /\ n \in 1..MaxCols
  BY <1>1, TableAssumption
<1>3. /\ raw \in Seq(BOOLEAN) /\ Len(raw) = Len(cols)
      /\ \A c \in 1..Len(cols) : raw[c] = FALSE
  <2>1. raw = [c \in 1..Len(cols) |-> FALSE]
    BY DEF Init
  <2>2. raw \in [1..n -> BOOLEAN]
    BY <1>2, <2>1
  <2> QED
    BY <1>2, <2>1, <2>2
<1>4. cut \in [Rows -> SUBSET Members]
  BY DEF Init
<1>5. kttype = <<>> /\ ele = <<>> /\ hmask = {} /\ invalid = TRUE /\ fault = "none"
  BY DEF Init
<1>6. TypeOK
  <2>1. kttype \in Seq(KDataType) /\ Len(kttype) = 0 /\ ele \in Seq(Cells)
    BY <1>5
  <2> QED
    BY <1>2, <1>3, <1>4, <1>5, <2>1 DEF Init, TypeOK
<1>7. CellsInv /\ FaultHasCause
  BY <1>5 DEF CellsInv, FaultHasCause
<1>8. TypesInv
  <2>1. Len(kttype) = 0
    BY <1>5
  <2> QED
    BY <2>1 DEF Init, TypesInv
<1>9. RawInv
  BY <1>3, <1>5 DEF RawInv
<1> QED
  BY <1>6, <1>7, <1>8, <1>9 DEF TableInv

\* A column is added at the end, without a type.
LEMMA AddStep ==
    ASSUME TableInv, NEW col \in Columns, OnColAdd(col)
    PROVE  TableInv'
<1> DEFINE n == Len(cols)
<1>1. /\ TypeOK /\ cols \in Seq(Columns) /\ n \in Nat /\ n \in 1..MaxCols
      /\ kttype \in Seq(KDataType) /\ Len(kttype) <= n
      /\ raw \in Seq(BOOLEAN) /\ Len(raw) \in {0, n}
      /\ heads = cols /\ popup = cols
  BY TableAssumption DEF TableInv, TypeOK, TypesInv
<1>2. /\ cols' = Append(cols, col) /\ heads' = cols' /\ popup' = cols'
      /\ invalid' = TRUE /\ n # MaxCols /\ fault' = "none"
      /\ UNCHANGED <<items, cut, kttype, ele, hmask>>
      /\ raw' = IF raw = << >> THEN raw ELSE Append(raw, FALSE)
  BY <1>1 DEF OnColAdd
<1>3. /\ cols' \in Seq(Columns) /\ Len(cols') = n + 1 /\ n + 1 \in 1..MaxCols
      /\ \A c \in 1..n : cols'[c] = cols[c]
  <2>1. n + 1 \in 1..MaxCols
    BY <1>1, <1>2, TableAssumption
  <2> QED
    BY <1>1, <1>2, <2>1, AppendProperties
<1>4. /\ raw' \in Seq(BOOLEAN) /\ Len(raw') \in {0, n + 1}
      /\ raw' # <<>> => /\ raw # <<>> /\ Len(raw) = n
                        /\ raw'[n + 1] = FALSE
                        /\ \A c \in 1..n : raw'[c] = raw[c]
  <2>1. CASE raw = <<>>
    BY <1>2, <2>1
  <2>2. CASE raw # <<>>
    <3>1. Len(raw) = n
      BY <1>1, <2>2
    <3>2. PICK f \in BOOLEAN : f = FALSE
      OBVIOUS
    <3>3. raw' = Append(raw, f)
      BY <1>2, <2>2, <3>2, Zenon
    <3> HIDE DEF n
    <3>4. /\ raw' \in Seq(BOOLEAN) /\ Len(raw') = n + 1
          /\ raw'[n + 1] = f
          /\ \A c \in 1..n : raw'[c] = raw[c]
      BY <1>1, <3>1, <3>3, AppendProperties
    <3>5. raw'[n + 1] = FALSE
      BY <3>2, <3>4, Zenon
    <3>6. Len(raw') \in {0, n + 1}
      BY <3>4
    <3> QED
      BY <2>2, <3>1, <3>4, <3>5, <3>6, Zenon
  <2> QED
    BY <2>1, <2>2
<1> HIDE DEF n
<1>5. TypeOK'
  <2>1. Len(kttype) <= n + 1
    BY <1>1
  <2>2. /\ Len(cols') \in 1..MaxCols /\ Len(kttype') <= Len(cols')
        /\ Len(raw') \in {0, Len(cols')}
    BY <1>2, <1>3, <1>4, <2>1
  <2>3. /\ items \in [Rows -> [Members -> Kinds]] /\ cut \in [Rows -> SUBSET Members]
        /\ ele \in Seq(Cells) /\ hmask \subseteq 1..MaxCols
    BY <1>1 DEF TypeOK
  <2> QED
    BY <1>1, <1>2, <1>3, <1>4, <2>2, <2>3 DEF TypeOK
<1>6. CellsInv' /\ FaultHasCause'
  BY <1>2 DEF CellsInv, FaultHasCause
<1>7. TypesInv'
  <2>1. \A c \in 1..Len(kttype) : c \in 1..n
    BY <1>1
  <2> QED
    BY <1>2, <1>3, <2>1 DEF TableInv, TypesInv, Says
<1>8. RawInv'
  <2> SUFFICES ASSUME raw' # <<>>
               PROVE  /\ hmask' \subseteq 1..n + 1
                      /\ \A c \in 1..n + 1 : raw'[c] <=> c \in hmask'
    BY <1>3 DEF RawInv
  <2>1. hmask \subseteq 1..n /\ \A c \in 1..n : raw[c] <=> c \in hmask
    BY <1>4 DEF TableInv, RawInv, n
  <2>2. \A c \in 1..n + 1 : c = n + 1 \/ c \in 1..n
    BY <1>1
  <2>3. n + 1 \notin 1..n /\ 1..n \subseteq 1..n + 1
    BY <1>1
  <2>4. hmask' = hmask
    BY <1>2
  <2> QED
    BY <1>4, <2>1, <2>2, <2>3, <2>4
<1> QED
  BY <1>5, <1>6, <1>7, <1>8 DEF TableInv

\* A column is removed with its header, its name in the popup and its type, and
\* without its bit.
LEMMA RemoveStep ==
    ASSUME TableInv, NEW s \in 1..MaxCols, OnColRem(s)
    PROVE  TableInv'
<1> DEFINE n == Len(cols)
<1>1. /\ TypeOK /\ cols \in Seq(Columns) /\ n \in Nat /\ n <= MaxCols
      /\ kttype \in Seq(KDataType) /\ Len(kttype) <= n /\ Len(kttype) \in Nat
      /\ raw \in Seq(BOOLEAN) /\ Len(raw) \in {0, n}
      /\ heads = cols /\ popup = cols
  BY TableAssumption DEF TableInv, TypeOK, TypesInv
<1>2. /\ cols' = RemoveAt(cols, s) /\ heads' = cols' /\ popup' = cols'
      /\ invalid' = TRUE /\ s \in 1..n /\ n > 1 /\ n - 1 \in 1..MaxCols
      /\ UNCHANGED <<items, cut, ele, hmask>>
      /\ RemoveType(s) /\ fault = "none"
      /\ raw' = IF raw = << >> \/ \E bit \in hmask : bit >= s
                THEN << >> ELSE RemoveAt(raw, s)
  <2>1. s <= n /\ n + 1 > 2
    BY <1>1 DEF OnColRem
  <2>2. s \in 1..n /\ n > 1 /\ n - 1 \in 1..MaxCols
    BY <1>1, <2>1, TableAssumption
  <2> QED
    BY <1>1, <2>2 DEF OnColRem
<1>3. /\ cols' \in Seq(Columns) /\ Len(cols') = n - 1
      /\ \A c \in 1..n - 1 : cols'[c] = IF c < s THEN cols[c] ELSE cols[c + 1]
  BY <1>1, <1>2, RemoveAtIs
<1>4. /\ kttype' \in Seq(KDataType) /\ Len(kttype') \in Nat /\ Len(kttype') <= n - 1
      /\ fault' \in {"none", "delete"}
      /\ \A c \in 1..Len(kttype') :
            /\ c \in 1..n - 1
            /\ \E d \in 1..Len(kttype) :
                  kttype'[c] = kttype[d] /\ cols'[c] = cols[d]
  <2>1. CASE s <= Len(kttype)
    <3> DEFINE m == Len(kttype)
    <3>1. m \in Nat /\ s \in 1..m /\ m <= n
      BY <1>1, <1>2, <2>1
    <3>2. kttype' = RemoveAt(kttype, s) /\ fault' = "none"
      BY <1>2, <2>1 DEF RemoveType
    <3>3. /\ kttype' \in Seq(KDataType) /\ Len(kttype') = m - 1
          /\ \A c \in 1..m - 1 : kttype'[c] = IF c < s THEN kttype[c] ELSE kttype[c + 1]
      BY <1>1, <3>1, <3>2, RemoveAtIs
    <3> HIDE DEF m, n
    <3>4. ASSUME NEW c \in 1..m - 1
          PROVE  /\ c \in 1..n - 1
                 /\ \E d \in 1..m : kttype'[c] = kttype[d] /\ cols'[c] = cols[d]
      <4>1. c \in 1..n - 1 /\ c \in 1..m /\ c + 1 \in 1..m
        BY <1>1, <3>1
      <4>2. CASE c < s
        BY <1>3, <3>3, <4>1, <4>2
      <4>3. CASE ~(c < s)
        BY <1>3, <3>3, <4>1, <4>3
      <4> QED
        BY <4>1, <4>2, <4>3
    <3>5. Len(kttype') \in Nat /\ Len(kttype') <= n - 1
      BY <1>1, <3>1, <3>3
    <3> QED
      BY <3>2, <3>3, <3>4, <3>5 DEF m
  <2>2. CASE ~(s <= Len(kttype))
    <3>1. kttype' = kttype /\ fault' = "delete"
      BY <1>2, <2>2 DEF RemoveType
    <3>2. ASSUME NEW c \in 1..Len(kttype)
          PROVE  c \in 1..n - 1 /\ c < s
      BY <1>1, <1>2, <2>2
    <3>3. Len(kttype) <= n - 1
      BY <1>1, <1>2, <2>2
    <3> QED
      BY <1>1, <1>3, <3>1, <3>2, <3>3
  <2> QED
    BY <2>1, <2>2
<1>5. /\ raw' \in Seq(BOOLEAN) /\ Len(raw') \in {0, n - 1}
      /\ raw' # <<>> =>
            /\ raw # <<>> /\ \A bit \in hmask : ~(bit >= s)
            /\ \A c \in 1..n - 1 : raw'[c] = IF c < s THEN raw[c] ELSE raw[c + 1]
  <2>1. CASE raw = << >> \/ \E bit \in hmask : bit >= s
    <3>1. raw' = << >>
      BY <1>2, <2>1
    <3>2. raw' \in Seq(BOOLEAN) /\ Len(raw') = 0
      BY <3>1
    <3> QED
      BY <3>1, <3>2
  <2>2. CASE ~(raw = << >> \/ \E bit \in hmask : bit >= s)
    <3>1. raw' = RemoveAt(raw, s) /\ Len(raw) = n /\ raw # <<>>
      BY <1>1, <1>2, <2>2
    <3>2. /\ raw' \in Seq(BOOLEAN) /\ Len(raw') = n - 1
          /\ \A c \in 1..n - 1 : raw'[c] = IF c < s THEN raw[c] ELSE raw[c + 1]
      <4> HIDE DEF n
      <4>1. PICK B : B = BOOLEAN
        OBVIOUS
      <4>2. raw \in Seq(B)
        BY <1>1, <4>1, Zenon
      <4>3. s \in 1..Len(raw)
        BY <1>2, <3>1
      <4>4. /\ RemoveAt(raw, s) \in Seq(B) /\ Len(RemoveAt(raw, s)) = Len(raw) - 1
            /\ \A c \in 1..Len(raw) - 1 :
                  RemoveAt(raw, s)[c] = IF c < s THEN raw[c] ELSE raw[c + 1]
        BY <4>2, <4>3, RemoveAtIs
      <4> QED
        BY <3>1, <4>1, <4>4, Zenon
    <3>3. Len(raw') \in {0, n - 1}
      BY <3>2
    <3>4. \A bit \in hmask : ~(bit >= s)
      BY <2>2
    <3> QED
      BY <3>1, <3>2, <3>3, <3>4, Zenon
  <2> QED
    BY <2>1, <2>2
<1> HIDE DEF n
<1>6. TypeOK'
  BY <1>1, <1>2, <1>3, <1>4, <1>5 DEF TypeOK
<1>7. CellsInv' /\ FaultHasCause'
  BY <1>2, <1>3, <1>4 DEF CellsInv, FaultHasCause
<1>8. TypesInv'
  BY <1>2, <1>4 DEF TableInv, TypesInv, Says
<1>9. RawInv'
  <2> SUFFICES ASSUME raw' # <<>>
               PROVE  /\ hmask' \subseteq 1..n - 1
                      /\ \A c \in 1..n - 1 : raw'[c] <=> c \in hmask'
    BY <1>3 DEF RawInv
  <2>1. hmask \subseteq 1..n /\ \A c \in 1..n : raw[c] <=> c \in hmask
    BY <1>5 DEF TableInv, RawInv, n
  <2>2. \A bit \in hmask : bit \in 1..n /\ bit < s
    BY <1>1, <1>2, <1>5, <2>1
  <2>3. hmask \subseteq 1..n - 1
    BY <1>1, <1>2, <2>2
  <2>4. ASSUME NEW c \in 1..n - 1 PROVE raw'[c] <=> c \in hmask
    <3>1. CASE c < s
      <4>1. c \in 1..n
        BY <1>1
      <4>2. raw'[c] = raw[c]
        BY <1>5, <3>1
      <4> QED
        BY <2>1, <4>1, <4>2, Zenon
    <3>2. CASE ~(c < s)
      <4>1. c + 1 \in 1..n /\ ~(c + 1 < s) /\ c \in 1..n
        BY <1>1, <1>2, <3>2
      <4>2. c \notin hmask /\ c + 1 \notin hmask
        BY <2>2, <3>2, <4>1
      <4>3. raw'[c] = raw[c + 1]
        BY <1>5, <3>2
      <4>4. raw[c + 1] <=> c + 1 \in hmask
        BY <2>1, <4>1, Zenon
      <4> QED
        BY <4>2, <4>3, <4>4, Zenon
    <3> QED
      BY <3>1, <3>2
  <2> QED
    BY <1>2, <2>3, <2>4
<1> QED
  BY <1>6, <1>7, <1>8, <1>9 DEF TableInv


\* A click toggles one bit, and that of a column while raw is kept.
LEMMA HeaderStep ==
    ASSUME TableInv, NEW c \in 1..MaxCols, OnHeader(c)
    PROVE  TableInv'
<1> DEFINE n == Len(cols)
<1>1. /\ TypeOK /\ cols \in Seq(Columns) /\ n \in Nat /\ n <= MaxCols
      /\ raw \in Seq(BOOLEAN) /\ Len(raw) \in {0, n}
      /\ heads = cols /\ hmask \subseteq 1..MaxCols
  BY TableAssumption DEF TableInv, TypeOK, TypesInv
<1>2. /\ fault = "none" /\ hmask' = Toggled(c)
      /\ UNCHANGED <<items, cut, cols, heads, popup, kttype, ele, invalid, fault>>
      /\ raw' = IF c > Len(raw) THEN << >> ELSE [raw EXCEPT ![c] = ~@]
  BY <1>1 DEF OnHeader
<1>3. /\ hmask' \subseteq hmask \union {c}
      /\ c \in hmask' <=> c \notin hmask
      /\ \A d : d # c => (d \in hmask' <=> d \in hmask)
  BY <1>2 DEF Toggled
<1>4. /\ raw' \in Seq(BOOLEAN) /\ Len(raw') \in {0, n}
      /\ raw' # <<>> =>
            /\ raw # <<>> /\ c \in 1..n /\ (raw'[c] <=> ~raw[c])
            /\ \A d \in 1..n : d # c => raw'[d] = raw[d]
  <2>1. CASE c > Len(raw)
    <3>1. raw' = <<>>
      BY <1>2, <2>1
    <3>2. raw' \in Seq(BOOLEAN) /\ Len(raw') = 0
      BY <3>1
    <3> QED
      BY <3>1, <3>2
  <2>2. CASE ~(c > Len(raw))
    <3>1. Len(raw) = n /\ raw # <<>> /\ c \in 1..n
      BY <1>1, <2>2
    <3> HIDE DEF n
    <3>2. raw \in [1..n -> BOOLEAN]
      BY <1>1, <3>1
    <3>3. raw' = [raw EXCEPT ![c] = ~@]
      BY <1>2, <2>2
    <3>4. /\ raw' \in [1..n -> BOOLEAN]
          /\ raw'[c] <=> ~raw[c]
          /\ \A d \in 1..n : d # c => raw'[d] = raw[d]
      BY <3>1, <3>2, <3>3, Zenon
    <3>5. PICK B : B = BOOLEAN
      OBVIOUS
    <3>6. raw' \in [1..n -> B]
      BY <3>4, <3>5, Zenon
    <3>7. raw' \in Seq(B) /\ Len(raw') = n
      BY <1>1, <3>6
    <3>8. Len(raw') \in {0, n}
      BY <3>7
    <3> QED
      BY <3>1, <3>4, <3>5, <3>7, <3>8, Zenon
  <2> QED
    BY <2>1, <2>2
<1>5. TypeOK'
  <2>1. hmask' \subseteq 1..MaxCols
    BY <1>1, <1>3
  <2>2. Len(raw') \in {0, Len(cols')}
    BY <1>2, <1>4
  <2> QED
    BY <1>1, <1>2, <1>4, <2>1, <2>2 DEF TypeOK
<1>6. CellsInv' /\ TypesInv' /\ FaultHasCause'
  BY <1>2 DEF TableInv, CellsInv, TypesInv, FaultHasCause, Says, TbValue
<1>7. RawInv'
  <2> SUFFICES ASSUME raw' # <<>>
               PROVE  /\ hmask' \subseteq 1..n
                      /\ \A d \in 1..n : raw'[d] <=> d \in hmask'
    BY <1>2 DEF RawInv
  <2>1. hmask \subseteq 1..n /\ \A d \in 1..n : raw[d] <=> d \in hmask
    BY <1>4 DEF TableInv, RawInv
  <2>2. hmask' \subseteq 1..n
    BY <1>3, <1>4, <2>1
  <2>3. ASSUME NEW d \in 1..n PROVE raw'[d] <=> d \in hmask'
    <3>1. CASE d = c
      BY <1>2, <1>3, <1>4, <2>1, <3>1, Zenon
    <3>2. CASE d # c
      BY <1>3, <1>4, <2>1, <3>2, Zenon
    <3> QED
      BY <3>1, <3>2
  <2> QED
    BY <2>2, <2>3
<1> QED
  BY <1>5, <1>6, <1>7 DEF TableInv

\* A draw fills the cache, or finds it filled, and fails on a value it reads.
LEMMA DrawStep ==
    ASSUME TableInv, NEW rows \in SUBSET Rows,
           NEW columns \in SUBSET (1..Len(cols)), Draw(rows, columns)
    PROVE  TableInv'
<1>1. /\ TbCache /\ UNCHANGED <<items, cols, heads, popup, hmask, raw>>
      /\ fault' \in {"none", "time"}
  BY DEF Draw
<1>2. /\ ~invalid' /\ CellsInv' /\ TypesInv'
      /\ cut' \in [Rows -> SUBSET Members]
      /\ kttype' \in Seq(KDataType) /\ ele' \in Seq(Cells)
  BY <1>1, CacheStep
<1>3. TypeOK'
  <2>1. Len(kttype') = Len(cols') /\ Len(cols') \in Nat
    BY <1>1, <1>2 DEF CellsInv, TableInv, TypeOK
  <2>2. Len(kttype') <= Len(cols')
    BY <2>1
  <2>3. invalid' \in BOOLEAN
    BY <1>1 DEF TbCache, TableInv, TypeOK
  <2> QED
    BY <1>1, <1>2, <2>2, <2>3 DEF TableInv, TypeOK
<1>4. RawInv'
  BY <1>1 DEF TableInv, RawInv
<1>5. FaultHasCause'
  <2> SUFFICES ASSUME fault' = "time"
               PROVE  \E c \in 1..Len(cols'), r \in Rows :
                          /\ items'[1][cols'[c].member] = "TIM"
                          /\ ~IsString(items'[r][cols'[c].member]) \/ cut'[r] # {}
    BY <1>1 DEF FaultHasCause
  <2>1. PICK r \in rows, c \in columns : Fails(kttype'[c], TbValue(r, c)'.kind)
    BY DEF Draw
  <2>2. r \in Rows /\ c \in 1..Len(cols') /\ c \in 1..Len(kttype')
    BY <1>1, <1>2 DEF CellsInv
  <2>3. kttype'[c] = "TIM" /\ ~IsString(TbValue(r, c)'.kind)
    BY <2>1 DEF Fails
  <2>4. \/ kttype'[c] = items'[1][cols'[c].member]
        \/ kttype'[c] = "UNK"
    BY <1>2, <2>2 DEF TypesInv, Says
  <2>5. \/ TbValue(r, c)'.kind = items'[r][cols'[c].member]
        \/ cut'[r] # {}
    BY <1>2, <2>2 DEF CellsInv, Says
  <2> QED
    BY <2>2, <2>3, <2>4, <2>5 DEF IsString
<1> QED
  BY <1>2, <1>3, <1>4, <1>5 DEF TableInv

LEMMA StepTable == TableInv /\ [Next]_vars => TableInv'
<1> SUFFICES ASSUME TableInv, [Next]_vars PROVE TableInv'
  OBVIOUS
<1>1. ASSUME NEW col \in Columns, OnColAdd(col) PROVE TableInv'
  BY <1>1, AddStep
<1>2. ASSUME NEW c \in 1..MaxCols, OnColRem(c) PROVE TableInv'
  BY <1>2, RemoveStep
<1>3. ASSUME NEW c \in 1..MaxCols, OnHeader(c) PROVE TableInv'
  BY <1>3, HeaderStep
<1>4. ASSUME NEW rows \in SUBSET Rows, NEW first \in 1..Len(cols),
             Draw(rows, {1} \union first..Len(cols))
      PROVE  TableInv'
  <2>1. {1} \union first..Len(cols) \in SUBSET (1..Len(cols))
    BY DEF TableInv, TypeOK
  <2> QED
    BY <1>4, <2>1, DrawStep
<1>5. CASE UNCHANGED vars
  <2>1. TypeOK'
    BY <1>5 DEF TableInv, TypeOK, vars
  <2>2. CellsInv' /\ TypesInv' /\ RawInv' /\ FaultHasCause'
    BY <1>5 DEF TableInv, CellsInv, TypesInv, RawInv, FaultHasCause, Says, TbValue, vars
  <2> QED
    BY <2>1, <2>2 DEF TableInv
<1> QED
  BY <1>1, <1>2, <1>3, <1>4, <1>5 DEF Next

LEMMA TableHolds == Spec => []TableInv
<1> QED
  BY InitTable, StepTable, PTL DEF Spec

-----------------------------------------------------------------------------
(* The theorems.                                                           *)

\* The variables have their types; in particular there are never more types
\* than columns.
THEOREM TypeCorrect == Spec => []TypeOK
<1>1. TableInv => TypeOK
  BY DEF TableInv
<1> QED
  BY <1>1, TableHolds, PTL

\* However columns are added and removed between two draws, the draw reads,
\* by row and column, the cell of that item and that column (tb_cache,
\* get_tb_value), for any number of items, members and columns.
THEOREM CellIsOfItsColumnTheorem == Spec => []CellIsOfItsColumn
<1>1. TableInv => CellIsOfItsColumn
  BY DEF TableInv, CellsInv, CellIsOfItsColumn, Says
<1> QED
  BY <1>1, TableHolds, PTL

\* The headers, the popup and the types that were taken at the last draw stay
\* those of the columns they stand at (onCol_add, onCol_rem).
THEOREM ColumnsAgreeTheorem == Spec => []ColumnsAgree
<1>1. TableInv => ColumnsAgree
  <2>1. TableInv => TypeOK /\ CellsInv /\ TypesInv
    BY DEF TableInv
  <2>2. 1 \in Rows
    BY TableAssumption DEF Rows
  <2> QED
    BY <2>1, <2>2 DEF TypeOK, CellsInv, TypesInv, ColumnsAgree, Says
<1> QED
  BY <1>1, TableHolds, PTL

\* A column shows full times exactly if its header was clicked for it, as long
\* as no column was removed at or before one of those, or under the mouse and
\* clicked all the same (tb_OnHeader, onCol_rem).
THEOREM RawAsAskedTheorem == Spec => []RawAsAsked
<1>1. TableInv => RawAsAsked
  BY DEF TableInv, RawInv, RawAsAsked
<1> QED
  BY <1>1, TableHolds, PTL

\* The two ways in which the program fails on the table have no other cause
\* than the removal of a column never drawn and an item without the time its
\* column is of (onCol_rem, fill_tempstr).
THEOREM FaultHasCauseTheorem == Spec => []FaultHasCause
<1>1. TableInv => FaultHasCause
  BY DEF TableInv
<1> QED
  BY <1>1, TableHolds, PTL

-----------------------------------------------------------------------------
(* The ages in the table.                                                  *)

\* What an age tells of a number of seconds.
IsAgeOf(age, seconds) ==
    /\ age \in Seq([n : Nat, unit : Units]) /\ (Len(age) = 1 \/ Len(age) = 2)
    /\ Len(age) = 2 =>
        age[2].n > 0 /\ Seconds[age[2].unit] < Seconds[age[1].unit]
    /\ InSeconds(age) <= seconds
    /\ 8 * (seconds - InSeconds(age)) <= seconds

\* One number of a unit is an age if what is left out is at most an eighth.
LEMMA OnePart ==
    ASSUME NEW n \in Nat, NEW unit \in Units, NEW seconds \in Nat,
           n * Seconds[unit] <= seconds,
           8 * (seconds - n * Seconds[unit]) <= seconds
    PROVE  IsAgeOf(<<Part(n, unit)>>, seconds)
<1>1. <<Part(n, unit)>> \in Seq([n : Nat, unit : Units])
  BY DEF Part
<1>2. InSeconds(<<Part(n, unit)>>) = n * Seconds[unit]
  BY DEF InSeconds, Part
<1> QED
  BY <1>1, <1>2 DEF IsAgeOf

\* A number and a rest in a smaller unit are an age in the same way.
LEMMA TwoParts ==
    ASSUME NEW n \in Nat, NEW unit \in Units, NEW rest \in Nat,
           NEW smaller \in Units, NEW seconds \in Nat,
           Seconds[smaller] < Seconds[unit],
           n * Seconds[unit] + rest * Seconds[smaller] <= seconds,
           8 * (seconds - (n * Seconds[unit] + rest * Seconds[smaller])) <= seconds
    PROVE  IsAgeOf(Parts(n, unit, rest, smaller), seconds)
<1>0. Seconds[smaller] \in Nat /\ Seconds[unit] \in Nat
  BY DEF Seconds, Units
<1>1. CASE rest = 0
  <2>1. n * Seconds[unit] + rest * Seconds[smaller] = n * Seconds[unit]
    BY <1>0, <1>1
  <2> QED
    BY <1>1, <2>1, OnePart DEF Parts
<1>2. CASE rest # 0
  <2>1. <<Part(n, unit), Part(rest, smaller)>> \in Seq([n : Nat, unit : Units])
    BY DEF Part
  <2>2. InSeconds(<<Part(n, unit), Part(rest, smaller)>>)
            = n * Seconds[unit] + rest * Seconds[smaller]
    BY DEF InSeconds, Part
  <2> QED
    BY <1>2, <2>1, <2>2 DEF IsAgeOf, Parts, Part
<1> QED
  BY <1>1, <1>2

\* Quotients and remainders, each by its bounds.
LEMMA Division ==
    ASSUME NEW n \in Nat, NEW k \in Nat, k > 0
    PROVE  /\ n \div k \in Nat /\ n % k \in Nat /\ n % k < k
           /\ n = k * (n \div k) + (n % k)
  OBVIOUS

\* Hours are minutes over sixty as well as seconds over 3600.
LEMMA HoursOfMinutes ==
    ASSUME NEW seconds \in Nat
    PROVE  (seconds \div 60) \div 60 = seconds \div 3600
<1> DEFINE minutes == seconds \div 60
           hours   == minutes \div 60
<1>1. minutes \in Nat /\ seconds % 60 \in Nat /\ seconds % 60 < 60
      /\ seconds = 60 * minutes + (seconds % 60)
  BY Division
<1> HIDE DEF minutes
<1>2. hours \in Nat /\ minutes % 60 \in Nat /\ minutes % 60 < 60
      /\ minutes = 60 * hours + (minutes % 60)
  BY <1>1, Division
<1> HIDE DEF hours
<1>3. seconds \div 3600 \in Nat /\ seconds % 3600 \in Nat /\ seconds % 3600 < 3600
      /\ seconds = 3600 * (seconds \div 3600) + (seconds % 3600)
  BY Division
<1>4. hours = seconds \div 3600
  BY <1>1, <1>2, <1>3
<1> QED
  BY <1>4 DEF hours, minutes

\* human_duration, range by range: every age is true, and leaves out at most
\* an eighth.
THEOREM AgeIsAge == \A seconds \in Nat : IsAgeOf(Age(seconds), seconds)
<1> SUFFICES ASSUME NEW seconds \in Nat PROVE IsAgeOf(Age(seconds), seconds)
  OBVIOUS
<1> DEFINE minutes == seconds \div 60
           s       == seconds % 60
           hours   == seconds \div 3600
           m       == minutes % 60
           days    == hours \div 24
           h       == hours % 24
           years   == days \div 365
           d       == days % 365
<1>u. "s" \in Units /\ "m" \in Units /\ "h" \in Units /\ "d" \in Units /\ "y" \in Units
  BY DEF Seconds, Units
<1>1. /\ Seconds["s"] = 1 /\ Seconds["m"] = 60 /\ Seconds["h"] = 3600
      /\ Seconds["d"] = 86400 /\ Seconds["y"] = 31536000
  BY DEF Seconds, Units
<1>a. /\ (seconds < 60 * 2)
            => Age(seconds) = <<Part(seconds, "s")>>
      /\ (~(seconds < 60 * 2) /\ minutes < 10)
            => Age(seconds) = Parts(minutes, "m", s, "s")
      /\ (~(seconds < 60 * 2) /\ ~(minutes < 10) /\ minutes < 60 * 3)
            => Age(seconds) = <<Part(minutes, "m")>>
      /\ (~(seconds < 60 * 2) /\ ~(minutes < 10) /\ ~(minutes < 60 * 3) /\
         hours < 8)
            => Age(seconds) = Parts(hours, "h", m, "m")
      /\ (~(seconds < 60 * 2) /\ ~(minutes < 10) /\ ~(minutes < 60 * 3) /\
         ~(hours < 8) /\ hours < 48)
            => Age(seconds) = <<Part(hours, "h")>>
      /\ (~(seconds < 60 * 2) /\ ~(minutes < 10) /\ ~(minutes < 60 * 3) /\
         ~(hours < 8) /\ ~(hours < 48) /\ hours < 24 * 8)
            => Age(seconds) = Parts(days, "d", h, "h")
      /\ (~(seconds < 60 * 2) /\ ~(minutes < 10) /\ ~(minutes < 60 * 3) /\
         ~(hours < 8) /\ ~(hours < 48) /\ ~(hours < 24 * 8) /\
         hours < 24 * 365 * 2)
            => Age(seconds) = <<Part(days, "d")>>
      /\ (~(seconds < 60 * 2) /\ ~(minutes < 10) /\ ~(minutes < 60 * 3) /\
         ~(hours < 8) /\ ~(hours < 48) /\ ~(hours < 24 * 8) /\
         ~(hours < 24 * 365 * 2) /\ hours < 24 * 365 * 8)
            => Age(seconds) = Parts(years, "y", d, "d")
      /\ (~(seconds < 60 * 2) /\ ~(minutes < 10) /\ ~(minutes < 60 * 3) /\
         ~(hours < 8) /\ ~(hours < 48) /\ ~(hours < 24 * 8) /\
         ~(hours < 24 * 365 * 2) /\ ~(hours < 24 * 365 * 8))
            => Age(seconds) = <<Part(years, "y")>>
  BY DEF Age
<1>2. minutes \in Nat /\ s \in Nat /\ s < 60 /\ seconds = 60 * minutes + s
  BY Division
<1>3. minutes \div 60 = hours
  BY HoursOfMinutes
<1> HIDE DEF minutes, s
<1>4. m \in Nat /\ m < 60 /\ minutes = 60 * (minutes \div 60) + m /\ minutes \div 60 \in Nat
  BY <1>2, Division
<1>5. hours \in Nat /\ minutes = 60 * hours + m
  BY <1>3, <1>4
<1> HIDE DEF hours, m
<1>6. days \in Nat /\ h \in Nat /\ h < 24 /\ hours = 24 * days + h
  BY <1>5, Division
<1> HIDE DEF days, h
<1>7. years \in Nat /\ d \in Nat /\ d < 365 /\ days = 365 * years + d
  BY <1>6, Division
<1> HIDE DEF years, d
<1>8. CASE /\ seconds < 60 * 2
  <2>1. /\ seconds * Seconds["s"] <= seconds
        /\ 8 * (seconds - seconds * Seconds["s"]) <= seconds
    BY <1>1, <1>8
  <2>2. IsAgeOf(<<Part(seconds, "s")>>, seconds)
    BY <1>u, <2>1, OnePart
  <2> QED
    BY <1>a, <1>8, <2>2
<1>9. CASE /\ ~(seconds < 60 * 2) /\ minutes < 10
  <2>1. /\ minutes * Seconds["m"] + s * Seconds["s"] <= seconds
        /\ 8 * (seconds - (minutes * Seconds["m"] + s * Seconds["s"])) <= seconds
        /\ Seconds["s"] < Seconds["m"]
    BY <1>1, <1>2, <1>9
  <2>2. IsAgeOf(Parts(minutes, "m", s, "s"), seconds)
    BY <1>u, <1>2, <2>1, TwoParts
  <2> QED
    BY <1>a, <1>9, <2>2
<1>10. CASE /\ ~(seconds < 60 * 2) /\ ~(minutes < 10) /\ minutes < 60 * 3
  <2>1. /\ minutes * Seconds["m"] <= seconds
        /\ 8 * (seconds - minutes * Seconds["m"]) <= seconds
    BY <1>1, <1>2, <1>10
  <2>2. IsAgeOf(<<Part(minutes, "m")>>, seconds)
    BY <1>u, <1>2, <2>1, OnePart
  <2> QED
    BY <1>a, <1>10, <2>2
<1>11. CASE /\ ~(seconds < 60 * 2) /\ ~(minutes < 10) /\ ~(minutes < 60 * 3)
            /\ hours < 8
  <2>1. /\ hours * Seconds["h"] + m * Seconds["m"] <= seconds
        /\ 8 * (seconds - (hours * Seconds["h"] + m * Seconds["m"])) <= seconds
        /\ Seconds["m"] < Seconds["h"]
    BY <1>1, <1>2, <1>4, <1>5, <1>11
  <2>2. IsAgeOf(Parts(hours, "h", m, "m"), seconds)
    BY <1>u, <1>4, <1>5, <2>1, TwoParts
  <2> QED
    BY <1>a, <1>11, <2>2
<1>12. CASE /\ ~(seconds < 60 * 2) /\ ~(minutes < 10) /\ ~(minutes < 60 * 3)
            /\ ~(hours < 8) /\ hours < 48
  <2>1. /\ hours * Seconds["h"] <= seconds
        /\ 8 * (seconds - hours * Seconds["h"]) <= seconds
    BY <1>1, <1>2, <1>4, <1>5, <1>12
  <2>2. IsAgeOf(<<Part(hours, "h")>>, seconds)
    BY <1>u, <1>5, <2>1, OnePart
  <2> QED
    BY <1>a, <1>12, <2>2
<1>13. CASE /\ ~(seconds < 60 * 2) /\ ~(minutes < 10) /\ ~(minutes < 60 * 3)
            /\ ~(hours < 8) /\ ~(hours < 48) /\ hours < 24 * 8
  <2>1. /\ days * Seconds["d"] + h * Seconds["h"] <= seconds
        /\ 8 * (seconds - (days * Seconds["d"] + h * Seconds["h"])) <= seconds
        /\ Seconds["h"] < Seconds["d"]
    BY <1>1, <1>2, <1>4, <1>5, <1>6, <1>13
  <2>2. IsAgeOf(Parts(days, "d", h, "h"), seconds)
    BY <1>u, <1>6, <2>1, TwoParts
  <2> QED
    BY <1>a, <1>13, <2>2
<1>14. CASE /\ ~(seconds < 60 * 2) /\ ~(minutes < 10) /\ ~(minutes < 60 * 3)
            /\ ~(hours < 8) /\ ~(hours < 48) /\ ~(hours < 24 * 8)
            /\ hours < 24 * 365 * 2
  <2>1. /\ days * Seconds["d"] <= seconds
        /\ 8 * (seconds - days * Seconds["d"]) <= seconds
    BY <1>1, <1>2, <1>4, <1>5, <1>6, <1>14
  <2>2. IsAgeOf(<<Part(days, "d")>>, seconds)
    BY <1>u, <1>6, <2>1, OnePart
  <2> QED
    BY <1>a, <1>14, <2>2
<1>15. CASE /\ ~(seconds < 60 * 2) /\ ~(minutes < 10) /\ ~(minutes < 60 * 3)
            /\ ~(hours < 8) /\ ~(hours < 48) /\ ~(hours < 24 * 8)
            /\ ~(hours < 24 * 365 * 2) /\ hours < 24 * 365 * 8
  <2>1. /\ years * Seconds["y"] + d * Seconds["d"] <= seconds
        /\ 8 * (seconds - (years * Seconds["y"] + d * Seconds["d"])) <= seconds
        /\ Seconds["d"] < Seconds["y"]
    BY <1>1, <1>2, <1>4, <1>5, <1>6, <1>7, <1>15
  <2>2. IsAgeOf(Parts(years, "y", d, "d"), seconds)
    BY <1>u, <1>7, <2>1, TwoParts
  <2> QED
    BY <1>a, <1>15, <2>2
<1>16. CASE /\ ~(seconds < 60 * 2) /\ ~(minutes < 10) /\ ~(minutes < 60 * 3)
            /\ ~(hours < 8) /\ ~(hours < 48) /\ ~(hours < 24 * 8)
            /\ ~(hours < 24 * 365 * 2) /\ ~(hours < 24 * 365 * 8)
  <2>1. /\ years * Seconds["y"] <= seconds
        /\ 8 * (seconds - years * Seconds["y"]) <= seconds
    BY <1>1, <1>2, <1>4, <1>5, <1>6, <1>7, <1>16
  <2>2. IsAgeOf(<<Part(years, "y")>>, seconds)
    BY <1>u, <1>7, <2>1, OnePart
  <2> QED
    BY <1>a, <1>16, <2>2
<1> QED
  BY <1>8, <1>9, <1>10, <1>11, <1>12, <1>13, <1>14, <1>15, <1>16

-----------------------------------------------------------------------------

\* ktimegm gives a whole number for every time, overrunning months included.
LEMMA KTimeGmType == \A t \in Stamps : KTimeGm(t) \in Int
<1> SUFFICES ASSUME NEW t \in Stamps PROVE KTimeGm(t) \in Int
  OBVIOUS
<1>1. t.year \in Int /\ t.month \in Int /\ t.day \in Int /\ t.time \in Int
  <2>1. t.year \in Years /\ t.month \in 0..19 /\ t.day \in 0..39 /\ t.time \in Times
    BY DEF Stamps
  <2>2. Years \subseteq Nat /\ Times \subseteq Nat
    BY DurationAssumption
  <2>3. t.year \in Nat /\ t.time \in Nat
    BY <2>1, <2>2, Zenon
  <2> QED
    BY <2>1, <2>3
<1>2. \A y, m, d \in Int : DaysFromEpoch(y, m, d) \in Int
  <2> SUFFICES ASSUME NEW y \in Int, NEW m \in Int, NEW d \in Int
               PROVE  DaysFromEpoch(y, m, d) \in Int
    OBVIOUS
  <2> DEFINE yr  == IF m <= 2 THEN y - 1 ELSE y
             era == yr \div 400
             yoe == yr - era * 400
             doy == (153 * Shifted(m) + 2) \div 5 + d - 1
             doe == yoe * 365 + yoe \div 4 - yoe \div 100 + doy
  <2>1. Shifted(m) \in Int /\ yr \in Int
    BY DEF Shifted
  <2> HIDE DEF yr
  <2>2. era \in Int
    BY <2>1
  <2> HIDE DEF era
  <2>3. yoe \in Int
    BY <2>1, <2>2
  <2>4. doy \in Int
    BY <2>1
  <2> HIDE DEF yoe, doy
  <2>5. doe \in Int
    BY <2>3, <2>4
  <2> HIDE DEF doe
  <2>6. era * 146097 + doe - 719468 \in Int
    BY <2>2, <2>5
  <2>7. DaysFromEpoch(y, m, d) = era * 146097 + doe - 719468
    BY DEF DaysFromEpoch, yr, era, yoe, doy, doe
  <2> QED
    BY <2>6, <2>7
<1>3. \A y, n \in Int : YearAndMonth(y, n) \in Int \X Int
  <2> SUFFICES ASSUME NEW y \in Int, NEW n \in Int
               PROVE  YearAndMonth(y, n) \in Int \X Int
    OBVIOUS
  <2>1. n \div 12 \in Int /\ n % 12 \in Int /\ (11 - n) \div 12 \in Int
    OBVIOUS
  <2>2. CASE n > 11
    BY <2>1, <2>2 DEF YearAndMonth
  <2>3. CASE ~(n > 11) /\ n < 0
    <3> DEFINE diff == (11 - n) \div 12
    <3>1. YearAndMonth(y, n) = <<y - diff, n + 12 * diff>>
      BY <2>3, Zenon DEF YearAndMonth
    <3>2. diff \in Int
      BY <2>1
    <3> HIDE DEF diff
    <3> QED
      BY <3>1, <3>2
  <2>4. CASE ~(n > 11) /\ ~(n < 0)
    BY <2>4 DEF YearAndMonth
  <2> QED
    BY <2>2, <2>3, <2>4
<1> DEFINE norm == YearAndMonth(t.year, t.month - 1)
           days == DaysFromEpoch(norm[1], norm[2] + 1, t.day)
<1>4. norm[1] \in Int /\ norm[2] + 1 \in Int
  <2>1. t.month - 1 \in Int
    BY <1>1
  <2>2. norm \in Int \X Int
    BY <1>1, <1>3, <2>1, Zenon
  <2> HIDE DEF norm
  <2> QED
    BY <2>2
<1>5. days \in Int
  BY <1>1, <1>2, <1>4, Zenon
<1>6. KTimeGm(t) = 86400 * days + t.time
  BY DEF KTimeGm
<1> HIDE DEF days
<1>7. 86400 * days + t.time \in Int
  BY <1>1, <1>5
<1> QED
  BY <1>6, <1>7

\* What is shown is always an age of the difference it was drawn for.
AgeInv ==
    /\ then \in Stamps
    /\ now \in Int
    /\ shown # Unknown =>
        now - KTimeGm(then) \in Nat /\ IsAgeOf(shown, now - KTimeGm(then))

LEMMA InitAge == AgeInit => AgeInv
  BY KTimeGmType DEF AgeInit, AgeInv

LEMMA StepAge == AgeInv /\ [AgeNext]_ageVars => AgeInv'
<1> SUFFICES ASSUME AgeInv, [AgeNext]_ageVars PROVE AgeInv'
  OBVIOUS
<1>1. ASSUME NEW age \in Int, DrawAge(age) PROVE AgeInv'
  <2>1. then' = then /\ now' = KTimeGm(then) + age
        /\ shown' = HumanDuration(then, now')
    BY <1>1 DEF DrawAge
  <2>2. KTimeGm(then) \in Int /\ now' - KTimeGm(then) = age /\ now' \in Int
    BY <2>1, KTimeGmType DEF AgeInv
  <2>3. CASE now' < KTimeGm(then)
    BY <2>1, <2>2, <2>3 DEF AgeInv, HumanDuration
  <2>4. CASE ~(now' < KTimeGm(then))
    <3>1. age \in Nat /\ shown' = Age(age)
      BY <2>1, <2>2, <2>4 DEF HumanDuration
    <3>2. IsAgeOf(Age(age), age)
      BY <3>1, AgeIsAge
    <3> QED
      BY <2>1, <2>2, <3>1, <3>2 DEF AgeInv
  <2> QED
    BY <2>3, <2>4
<1>2. CASE UNCHANGED ageVars
  BY <1>2 DEF ageVars, AgeInv
<1>3. \A age \in Ages : age \in Int /\ -age \in Int
  BY DurationAssumption
<1> QED
  BY <1>1, <1>2, <1>3 DEF AgeNext

\* The age of the table is never more than the true one and leaves out at
\* most an eighth of it, whatever the times and the clock.
THEOREM AgeIsTrueTheorem == AgeSpec => []AgeIsTrue
<1>1. AgeInv => AgeIsTrue
  BY DEF AgeInv, AgeIsTrue, IsAgeOf
<1> QED
  BY <1>1, InitAge, StepAge, PTL DEF AgeSpec

\* Type correctness: one or two parts, in descending units.
THEOREM AgeTypeCorrect == AgeSpec => []AgeTypeOK
<1>1. AgeInv => AgeTypeOK
  <2> SUFFICES ASSUME AgeInv PROVE AgeTypeOK
    OBVIOUS
  <2>1. CASE shown = Unknown
    BY <2>1 DEF AgeInv, AgeTypeOK, Unknown
  <2>2. CASE shown # Unknown
    <3>1. IsAgeOf(shown, now - KTimeGm(then)) /\ then \in Stamps /\ now \in Int
      BY <2>2 DEF AgeInv
    <3>2. Len(shown) <= 2
      <4>1. Len(shown) = 1 \/ Len(shown) = 2
        BY <3>1, Zenon DEF IsAgeOf
      <4>2. \A n \in {1, 2} : n <= 2
        OBVIOUS
      <4> QED
        BY <4>1, <4>2, Zenon
    <3> QED
      BY <3>1, <3>2, Zenon DEF AgeTypeOK, IsAgeOf
  <2> QED
    BY <2>1, <2>2
<1> QED
  BY <1>1, InitAge, StepAge, PTL DEF AgeSpec

-----------------------------------------------------------------------------
(* The calendar.                                                           *)

\* Leap days of the years up to n, those before 1970 included.
LeapDays(n) == (n \div 4) - (n \div 100) + (n \div 400)

\* A year adds a day if the reference has a leap day in it.
LEMMA LeapDay ==
    ASSUME NEW n \in Nat, n > 0
    PROVE  LeapDays(n) = LeapDays(n - 1) + (IF IsLeap(n) THEN 1 ELSE 0)
<1> DEFINE q == n \div 400
           r == n % 400
<1>1. q \in Nat /\ r \in 0..399 /\ n = 400 * q + r
  OBVIOUS
<1>2. /\ n \div 4 = 100 * q + r \div 4 /\ n \div 100 = 4 * q + r \div 100
      /\ n % 4 = r % 4 /\ n % 100 = r % 100
  BY <1>1
<1> HIDE DEF q, r
<1>3. n \div 400 = q /\ n % 400 = r
  BY DEF q, r
<1>4. CASE r = 0
  <2>1. /\ (n - 1) \div 4 = 100 * q - 1 /\ (n - 1) \div 100 = 4 * q - 1
        /\ (n - 1) \div 400 = q - 1
    BY <1>1, <1>4
  <2>2. IsLeap(n)
    BY <1>2, <1>3, <1>4 DEF IsLeap
  <2> QED
    BY <1>1, <1>2, <1>3, <1>4, <2>1, <2>2 DEF LeapDays
<1>5. CASE r # 0
  <2>1. /\ (n - 1) \div 4 = 100 * q + (r - 1) \div 4
        /\ (n - 1) \div 100 = 4 * q + (r - 1) \div 100
        /\ (n - 1) \div 400 = q
    BY <1>1, <1>5
  <2>2. IsLeap(n) <=> r % 4 = 0 /\ r % 100 # 0
    BY <1>2, <1>3, <1>5 DEF IsLeap
  <2>3. /\ r \div 4 = (r - 1) \div 4 + (IF r % 4 = 0 THEN 1 ELSE 0)
        /\ r \div 100 = (r - 1) \div 100 + (IF r % 100 = 0 THEN 1 ELSE 0)
    BY <1>1, <1>5
  <2>4. r % 100 = 0 => r % 4 = 0
    BY <1>1
  <2> QED
    BY <1>1, <1>2, <1>3, <2>1, <2>2, <2>3, <2>4 DEF LeapDays
<1> QED
  BY <1>4, <1>5

\* The leap years from 1970 on, counted.
LEMMA LeapYears ==
    ASSUME NEW n \in Nat, n >= 1968
    PROVE  Cardinality({y \in 1970..n : IsLeap(y)}) = LeapDays(n) - 477
<1> DEFINE Leap(m) == {y \in 1970..m : IsLeap(y)}
           T == {k \in Nat : /\ IsFiniteSet(Leap(1969 + k))
                             /\ Cardinality(Leap(1969 + k)) = LeapDays(1969 + k) - 477}
<1>1. 0 \in T
  <2>1. Leap(1969 + 0) = {}
    OBVIOUS
  <2>2. LeapDays(1969 + 0) = 477
    BY DEF LeapDays
  <2>3. IsFiniteSet({}) /\ Cardinality({}) = 0
    BY FS_EmptySet
  <2> HIDE DEF Leap
  <2> QED
    BY <2>1, <2>2, <2>3
<1>2. ASSUME NEW k \in Nat, k \in T PROVE k + 1 \in T
  <2> DEFINE m == 1969 + k
             x == 1969 + (k + 1)
  <2>1. x \in Nat /\ x > 0 /\ x - 1 = m /\ x \notin Leap(m) /\ m \in Nat
    OBVIOUS
  <2>2. LeapDays(x) = LeapDays(m) + (IF IsLeap(x) THEN 1 ELSE 0)
    BY <2>1, LeapDay
  <2>3. IsFiniteSet(Leap(m)) /\ Cardinality(Leap(m)) = LeapDays(m) - 477
    BY <1>2
  <2>4. LeapDays(m) \in Int
    BY <2>1 DEF LeapDays
  <2>5. CASE IsLeap(x)
    <3>1. Leap(x) = Leap(m) \cup {x}
      BY <2>5
    <3>2. IsFiniteSet(Leap(x)) /\ Cardinality(Leap(x)) = Cardinality(Leap(m)) + 1
      <4> HIDE DEF Leap, x, m
      <4> QED
        BY <2>1, <2>3, <3>1, FS_AddElement
    <3> HIDE DEF Leap
    <3> QED
      BY <2>2, <2>3, <2>4, <2>5, <3>2
  <2>6. CASE ~IsLeap(x)
    <3>1. Leap(x) = Leap(m)
      BY <2>6
    <3> HIDE DEF Leap
    <3> QED
      BY <2>2, <2>3, <2>4, <2>6, <3>1
  <2> QED
    BY <2>5, <2>6
<1>3. Nat \subseteq T
  <2> HIDE DEF T
  <2> QED
    BY <1>1, <1>2, Induction
<1>4. CASE n = 1968
  <2>1. {y \in 1970..n : IsLeap(y)} = {} /\ LeapDays(n) = 477
    BY <1>4 DEF LeapDays
  <2> QED
    BY <2>1, FS_EmptySet
<1>5. CASE n # 1968
  <2>1. n - 1969 \in Nat /\ 1969 + (n - 1969) = n
    BY <1>5
  <2>2. n - 1969 \in T
    BY <1>3, <2>1
  <2> HIDE DEF LeapDays
  <2> QED
    BY <2>1, <2>2
<1> QED
  BY <1>4, <1>5

\* The first days of the months, as the reference adds them up.
LEMMA MonthsAdded ==
    ASSUME NEW year
    PROVE  /\ DaysOfMonths(year)[0] = 0
           /\ \A m \in 1..11 : DaysOfMonths(year)[m]
                                   = DaysOfMonths(year)[m - 1] + MonthLength(year, m)
<1> DEFINE Sum(f, m) == IF m = 0 THEN 0 ELSE f[m - 1] + MonthLength(year, m)
           step == [p \in (1..11) \X Nat |-> p[2] + MonthLength(year, p[1])]
<1>1. \A m : MonthLength(year, m) \in Nat
  BY DEF MonthLength
<1>2. IsStep(step, 11, Nat)
  BY <1>1 DEF IsStep
<1>3. PICK f : Iterates(f, step, 11, 0, Nat)
  <2> HIDE DEF step
  <2> QED
    BY <1>2, Iteration
<1>4. /\ f \in [0..11 -> Nat] /\ f[0] = 0
      /\ \A m \in 1..11 : f[m] = f[m - 1] + MonthLength(year, m)
  <2>1. f \in [0..11 -> Nat] /\ f[0] = 0
    BY <1>3 DEF Iterates
  <2>2. ASSUME NEW m \in 1..11 PROVE f[m] = f[m - 1] + MonthLength(year, m)
    <3>1. f[m - 1] \in Nat
      BY <2>1
    <3>2. f[m] = step[<<m, f[m - 1]>>]
      BY <1>3 DEF Iterates
    <3>3. <<m, f[m - 1]>> \in (1..11) \X Nat
      BY <3>1
    <3> QED
      BY <3>2, <3>3
  <2> QED
    BY <2>1, <2>2
<1>5. f = [m \in 0..11 |-> Sum(f, m)]
  <2>1. \A m \in 0..11 : f[m] = Sum(f, m)
    BY <1>4
  <2> HIDE DEF Sum
  <2> QED
    BY <1>4, <2>1
<1>6. DaysOfMonths(year) = CHOOSE g : g = [m \in 0..11 |-> Sum(g, m)]
  BY DEF DaysOfMonths
<1>7. DaysOfMonths(year) = [m \in 0..11 |-> Sum(DaysOfMonths(year), m)]
  <2> HIDE DEF Sum
  <2> QED
    BY <1>5, <1>6, Zenon
<1>8. \A m \in 0..11 : DaysOfMonths(year)[m] = Sum(DaysOfMonths(year), m)
  <2> HIDE DEF Sum
  <2> QED
    BY <1>7, Zenon
<1> QED
  BY <1>8

\* A year that begins in March has its months in groups of 153 days.
LEMMA MonthsAre ==
    ASSUME NEW year, NEW m \in 1..12
    PROVE  DaysOfMonths(year)[m - 1] =
               IF m <= 2 THEN 31 * (m - 1)
               ELSE 59 + (IF IsLeap(year) THEN 1 ELSE 0) + (153 * (m - 3) + 2) \div 5
<1> DEFINE D == DaysOfMonths(year)
           leap == IF IsLeap(year) THEN 1 ELSE 0
<1>1. leap \in {0, 1} /\ (leap = 1 <=> IsLeap(year))
  OBVIOUS
<1>2. /\ MonthLength(year, 1) = 31 /\ MonthLength(year, 2) = 28 + leap
      /\ MonthLength(year, 3) = 31 /\ MonthLength(year, 4) = 30
      /\ MonthLength(year, 5) = 31 /\ MonthLength(year, 6) = 30
      /\ MonthLength(year, 7) = 31 /\ MonthLength(year, 8) = 31
      /\ MonthLength(year, 9) = 30 /\ MonthLength(year, 10) = 31
      /\ MonthLength(year, 11) = 30
  BY DEF MonthLength
<1>3. D[0] = 0 /\ \A k \in 1..11 : D[k] = D[k - 1] + MonthLength(year, k)
  BY MonthsAdded
<1> HIDE DEF D, leap
<1>4. D[1] = 31 /\ D[2] = 59 + leap
  BY <1>1, <1>2, <1>3
<1>5. D[3] = 90 + leap /\ D[4] = 120 + leap /\ D[5] = 151 + leap
  BY <1>1, <1>2, <1>3, <1>4
<1>6. D[6] = 181 + leap /\ D[7] = 212 + leap /\ D[8] = 243 + leap
  BY <1>1, <1>2, <1>3, <1>5
<1>7. D[9] = 273 + leap /\ D[10] = 304 + leap /\ D[11] = 334 + leap
  BY <1>1, <1>2, <1>3, <1>6
<1>8. D[m - 1] = IF m <= 2 THEN 31 * (m - 1)
                 ELSE 59 + leap + (153 * (m - 3) + 2) \div 5
  BY <1>1, <1>3, <1>4, <1>5, <1>6, <1>7
<1> QED
  BY <1>8 DEF D, leap

\* days_from_epoch is the day of the calendar, and runs over with the days.
LEMMA DaysFromEpochIs ==
    ASSUME NEW y \in Nat, y >= 1969, NEW m \in 1..12, NEW d \in Int
    PROVE  DaysFromEpoch(y, m, d) = DaysBefore(y, m) + d - 1
<1> DEFINE yr     == IF m <= 2 THEN y - 1 ELSE y
           era    == yr \div 400
           yoe    == yr - era * 400
           months == (153 * Shifted(m) + 2) \div 5
           leap   == IF IsLeap(y) THEN 1 ELSE 0
           sum    == DaysOfMonths(y)[m - 1]
           count  == Cardinality({z \in 1970..y - 1 : IsLeap(z)})
<1>1. DaysFromEpoch(y, m, d) = 365 * yr + LeapDays(yr) + (months + d - 1) - 719468
  <2>1. DaysFromEpoch(y, m, d) =
            era * 146097 + (yoe * 365 + yoe \div 4 - yoe \div 100 + (months + d - 1)) - 719468
    BY DEF DaysFromEpoch
  <2>2. yr \in Nat /\ months \in Int
    BY DEF Shifted
  <2> HIDE DEF yr, months
  <2>3. era \in Nat /\ yoe \in 0..399 /\ yr = 400 * era + yoe
    BY <2>2
  <2> HIDE DEF era, yoe
  <2>4. yr \div 4 = 100 * era + yoe \div 4 /\ yr \div 100 = 4 * era + yoe \div 100
        /\ yr \div 400 = era /\ yoe \div 4 \in Nat /\ yoe \div 100 \in Nat
    BY <2>3
  <2>5. LeapDays(yr) = 97 * era + yoe \div 4 - yoe \div 100
    BY <2>3, <2>4 DEF LeapDays
  <2> QED
    BY <2>1, <2>2, <2>3, <2>4, <2>5
<1>2. LeapDays(y) = LeapDays(y - 1) + leap
  BY LeapDay
<1>3. count = LeapDays(y - 1) - 477
  BY LeapYears
<1>4. DaysBefore(y, m) = 365 * (y - 1970) + count + sum
  BY DEF DaysBefore
<1>5. sum = IF m <= 2 THEN 31 * (m - 1) ELSE 59 + leap + (153 * (m - 3) + 2) \div 5
  BY MonthsAre
<1>6. LeapDays(y - 1) \in Int
  BY DEF LeapDays
<1>7. leap \in {0, 1}
  OBVIOUS
<1> HIDE DEF leap, sum, count
<1>8. CASE m <= 2
  <2>1. yr = y - 1 /\ months = (153 * (m + 9) + 2) \div 5
    BY <1>8 DEF Shifted
  <2>2. months = 306 + 31 * (m - 1) /\ sum = 31 * (m - 1)
    BY <1>5, <1>8, <2>1
  <2> HIDE DEF yr, months
  <2> QED
    BY <1>1, <1>3, <1>4, <1>6, <2>1, <2>2
<1>9. CASE ~(m <= 2)
  <2>1. yr = y /\ months = (153 * (m - 3) + 2) \div 5 /\ months \in Int
    BY <1>9 DEF Shifted
  <2>2. sum = 59 + leap + months
    BY <1>5, <1>9, <2>1
  <2> HIDE DEF yr, months
  <2> QED
    BY <1>1, <1>2, <1>3, <1>4, <1>6, <1>7, <2>1, <2>2
<1> QED
  BY <1>8, <1>9

\* The carry of ktimegm gives the month the calendar gives.
LEMMA CarryIs ==
    ASSUME NEW year \in Nat, NEW mon \in Int, mon >= -1, mon <= 18
    PROVE  LET months == 12 * year + mon
           IN  /\ YearAndMonth(year, mon)[1] = months \div 12
               /\ YearAndMonth(year, mon)[2] = months % 12
<1> DEFINE months == 12 * year + mon
<1>1. CASE mon > 11
  <2>1. YearAndMonth(year, mon) = <<year + mon \div 12, mon % 12>>
    BY <1>1 DEF YearAndMonth
  <2>2. mon \div 12 = 1 /\ mon % 12 = mon - 12
    BY <1>1
  <2>3. months \div 12 = year + 1 /\ months % 12 = mon - 12
    BY <1>1
  <2> QED
    BY <2>1, <2>2, <2>3
<1>2. CASE mon < 0
  <2>1. YearAndMonth(year, mon) = <<year - (11 - mon) \div 12, mon + 12 * ((11 - mon) \div 12)>>
    BY <1>2 DEF YearAndMonth
  <2>2. mon = -1 /\ (11 - mon) \div 12 = 1
    BY <1>2
  <2>3. months \div 12 = year - 1 /\ months % 12 = 11
    BY <2>2
  <2> QED
    BY <2>1, <2>2, <2>3
<1>3. CASE ~(mon > 11) /\ ~(mon < 0)
  <2>1. YearAndMonth(year, mon) = <<year, mon>>
    BY <1>3 DEF YearAndMonth
  <2>2. months \div 12 = year /\ months % 12 = mon
    BY <1>3
  <2> QED
    BY <2>1, <2>2
<1> QED
  BY <1>1, <1>2, <1>3

\* ktimegm gives the second of the calendar for every time that the pattern of
\* the table lets pass: leap years, the turns of the centuries, months, days
\* and hours that run over.
THEOREM KTimeGmIsInstant == \A t \in Stamps : KTimeGm(t) = Instant(t)
<1> SUFFICES ASSUME NEW t \in Stamps PROVE KTimeGm(t) = Instant(t)
  OBVIOUS
<1>1. /\ t.year \in Nat /\ t.year >= 1970 /\ t.month \in 0..19
      /\ t.day \in 0..39 /\ t.time \in Nat
  <2>1. t.year \in Years /\ t.month \in 0..19 /\ t.day \in 0..39 /\ t.time \in Times
    BY DEF Stamps
  <2>2. Times \subseteq Nat
    BY DurationAssumption
  <2>3. t.year \in Nat /\ t.year >= 1970
    BY <2>1, DurationAssumption
  <2>4. t.time \in Nat
    BY <2>1, <2>2, Zenon
  <2> QED
    BY <2>1, <2>3, <2>4
<1> DEFINE mon    == t.month - 1
           months == 12 * t.year + mon
           norm   == YearAndMonth(t.year, mon)
           y      == months \div 12
           m      == months % 12
<1>2. mon \in Int /\ mon >= -1 /\ mon <= 18
  BY <1>1
<1>3. norm[1] = y /\ norm[2] = m
  <2>1. \A year \in Nat, k \in Int : k >= -1 /\ k <= 18 =>
            /\ YearAndMonth(year, k)[1] = (12 * year + k) \div 12
            /\ YearAndMonth(year, k)[2] = (12 * year + k) % 12
    BY CarryIs, Zenon
  <2>2. t.year \in Nat
    BY <1>1
  <2> HIDE DEF mon
  <2>3. /\ YearAndMonth(t.year, mon)[1] = (12 * t.year + mon) \div 12
        /\ YearAndMonth(t.year, mon)[2] = (12 * t.year + mon) % 12
    BY <1>2, <2>1, <2>2
  <2> QED
    BY <2>3
<1>4. y \in Nat /\ y >= 1969 /\ m + 1 \in 1..12 /\ t.day \in Int
  BY <1>1, <1>2
<1>5. KTimeGm(t) = 86400 * DaysFromEpoch(norm[1], norm[2] + 1, t.day) + t.time
  BY DEF KTimeGm
<1>6. Instant(t) = 86400 * (DaysBefore(y, m + 1) + t.day - 1) + t.time
  <2>1. 12 * t.year + t.month - 1 = months
    BY <1>1
  <2> HIDE DEF months
  <2> QED
    BY <2>1 DEF Instant
<1> HIDE DEF norm, y, m
<1>7. DaysFromEpoch(y, m + 1, t.day) = DaysBefore(y, m + 1) + t.day - 1
  BY <1>4, DaysFromEpochIs
<1> QED
  BY <1>3, <1>5, <1>6, <1>7

\* The time a cell is drawn for is that of the calendar (list.c, ktimegm).
THEOREM TimeIsCalendarTheorem == AgeSpec => []TimeIsCalendar
<1>1. AgeInv => TimeIsCalendar
  BY KTimeGmIsInstant DEF AgeInv, TimeIsCalendar
<1> QED
  BY <1>1, InitAge, StepAge, PTL DEF AgeSpec
=============================================================================
