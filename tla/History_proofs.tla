---------------------------- MODULE History_proofs ----------------------------
(***************************************************************************)
(* What the history file and the completion keep, for alphabets, buffers,  *)
(* lines and files of any size.                                            *)
(*                                                                         *)
(* A load is a recursive function over the cells of a file.  That it is    *)
(* one, that it reads two pieces of a file one after the other when the    *)
(* first is whole, and that it reads from pieces written by history_append *)
(* nothing that could be completed to more than a line, is shown by        *)
(* induction over sets of positions.                                       *)
(*                                                                         *)
(* The type of the command line rests on the file: what is proposed to the *)
(* user is what some file was read as, also one another instance wrote     *)
(* into or that was left incomplete.  IsPieces says what such a file can   *)
(* look like, FileIsTree what the others do.                               *)
(***************************************************************************)
EXTENDS History, SequenceTheorems, FiniteSetTheorems, WellFoundedInduction, TLAPS

\* Every set of numbers that is not empty has a least one.
LEMMA LeastNumber ==
    ASSUME NEW T, T \subseteq Nat, T # {}
    PROVE  \E x \in T : \A y \in T : x <= y
<1> DEFINE less == {pair \in Nat \X Nat : pair[1] < pair[2]}
<1>1. IsWellFoundedOn(less, Nat)
  BY NatLessThanWellFounded, Zenon DEF OpToRel
<1>2. PICK x \in T : \A y \in T : <<y, x>> \notin less
  BY <1>1, WFMin, Zenon
<1>3. \A y \in T : ~(y < x)
  BY <1>2
<1> QED
  BY <1>3

\* Induction, of a set instead of a predicate.
LEMMA Induction ==
    ASSUME NEW T, 0 \in T, \A n \in Nat : n \in T => n + 1 \in T
    PROVE  Nat \subseteq T
<1> SUFFICES ASSUME Nat \ T # {} PROVE FALSE
  BY Zenon
<1>1. PICK x \in Nat \ T : \A y \in Nat \ T : x <= y
  BY LeastNumber
<1>2. x # 0 /\ x - 1 \in Nat /\ x - 1 \in T
  BY <1>1
<1> QED
  BY <1>1, <1>2

\* Induction from the end of a range to its beginning.
LEMMA Downward ==
    ASSUME NEW n \in Nat, NEW T,
           \A i \in 1..n : (\A j \in i + 1..n : j \in T) => i \in T
    PROVE  1..n \subseteq T
<1> DEFINE D == {d \in Nat : d < n /\ n - d \notin T}
<1>1. SUFFICES ASSUME D # {} PROVE FALSE
  <2>1. ASSUME NEW i \in 1..n, i \notin T PROVE n - i \in D
    <3>1. n - i \in Nat /\ n - i < n /\ n - (n - i) = i
      OBVIOUS
    <3> QED
      BY <2>1, <3>1
  <2> QED
    BY <2>1
<1>2. D \subseteq Nat
  OBVIOUS
<1>3. PICK d \in D : \A e \in D : d <= e
  <2> HIDE DEF D
  <2> QED
    BY <1>1, <1>2, LeastNumber
<1>4. n - d \in 1..n /\ d \in Nat
  OBVIOUS
<1>5. ASSUME NEW j \in (n - d) + 1..n, j \notin T PROVE FALSE
  <2>1. n - j \in Nat /\ n - j < n /\ n - (n - j) = j /\ n - j < d
    BY <1>4
  <2>2. n - j \in D
    BY <1>5, <2>1
  <2> QED
    BY <1>3, <1>4, <2>1, <2>2
<1> QED
  BY <1>4, <1>5

-----------------------------------------------------------------------------
(* What a load reads.                                                      *)

\* One step of the load: what it makes of the rest of the file.
Read(f, i, From) ==
    IF i > Len(f) THEN [whole |-> TRUE, entries |-> {<<>>}]
    ELSE IF i + f[i] > Len(f) THEN [whole |-> FALSE, entries |-> {<<>>}]
    ELSE [From[i + f[i] + 1] EXCEPT
             !.entries = @ \union {SubSeq(f, i + 1, i + f[i])}]

\* The step looks ahead only.
LEMMA ReadLooksAhead ==
    ASSUME NEW f \in Seq(Nat), NEW i \in 1..Len(f) + 1, NEW F, NEW G,
           \A j \in i + 1..Len(f) + 1 : F[j] = G[j]
    PROVE  Read(f, i, F) = Read(f, i, G)
<1>1. CASE i > Len(f) \/ i + f[i] > Len(f)
  BY <1>1 DEF Read
<1>2. CASE ~(i > Len(f)) /\ ~(i + f[i] > Len(f))
  <2>1. i + f[i] + 1 \in i + 1..Len(f) + 1
    <3>1. i \in 1..Len(f)
      BY <1>2
    <3>2. f[i] \in Nat
      BY <3>1, ElementOfSeq
    <3> QED
      BY <1>2, <3>1, <3>2
  <2>2. F[i + f[i] + 1] = G[i + f[i] + 1]
    BY <2>1
  <2> QED
    BY <1>2, <2>2 DEF Read
<1> QED
  BY <1>1, <1>2

\* The recursion of Reading is sound: it ends, as every step looks ahead.
LEMMA ReadingIs ==
    ASSUME NEW f \in Seq(Nat)
    PROVE  Reading(f) = [i \in 1..Len(f) + 1 |-> Read(f, i, Reading(f))]
<1> DEFINE L == Len(f)
           Good(n, F) == F = [i \in L + 1 - n..L + 1 |-> Read(f, i, F)]
           T == {n \in Nat : n <= L => \E F : Good(n, F)}
<1>0. L \in Nat
  OBVIOUS
<1>1. 0 \in T
  <2> DEFINE F == [i \in L + 1..L + 1 |-> [whole |-> TRUE, entries |-> {<<>>}]]
  <2>1. \A i \in L + 1 - 0..L + 1 : Read(f, i, F) = [whole |-> TRUE, entries |-> {<<>>}]
    <3> TAKE i \in L + 1 - 0..L + 1
    <3>1. i > Len(f)
      BY <1>0
    <3> QED
      BY <3>1 DEF Read
  <2>2. L + 1 - 0 = L + 1
    BY <1>0
  <2>3. Good(0, F)
    BY <2>1, <2>2
  <2> QED
    BY <2>3
<1>2. ASSUME NEW n \in Nat, n \in T PROVE n + 1 \in T
  <2> SUFFICES ASSUME n + 1 <= L PROVE \E F : Good(n + 1, F)
    BY <1>0
  <2>1. PICK F : Good(n, F)
    BY <1>0, <1>2
  <2> DEFINE k == L - n
             G == [i \in k..L + 1 |-> IF i = k THEN Read(f, k, F) ELSE F[i]]
  <2>2. k \in 1..L /\ L + 1 - n = k + 1 /\ L + 1 - (n + 1) = k
    BY <1>0
  <2> HIDE DEF k
  <2>3. F = [i \in k + 1..L + 1 |-> Read(f, i, F)]
    BY <2>1, <2>2
  <2>4. \A j \in k + 1..L + 1 : j \in k..L + 1 /\ j # k /\ G[j] = F[j]
    BY <1>0, <2>2
  <2>5. ASSUME NEW i \in k..L + 1 PROVE G[i] = Read(f, i, G)
    <3>1. i \in 1..L + 1
      BY <1>0, <2>2
    <3>2. \A j \in i + 1..L + 1 : j \in k + 1..L + 1
      BY <1>0, <2>2
    <3>3. \A j \in i + 1..Len(f) + 1 : F[j] = G[j]
      BY <2>4, <3>2
    <3> HIDE DEF G
    <3>4. Read(f, i, F) = Read(f, i, G)
      BY <3>1, <3>3, ReadLooksAhead
    <3>5. CASE i = k
      BY <3>4, <3>5 DEF G
    <3>6. CASE i # k
      <4>1. i \in k + 1..L + 1
        BY <1>0, <2>2, <3>6
      <4>2. F[i] = Read(f, i, F)
        BY <2>3, <4>1
      <4> QED
        BY <2>4, <3>4, <4>1, <4>2
    <3> QED
      BY <3>5, <3>6
  <2>6. G = [i \in k..L + 1 |-> Read(f, i, G)]
    BY <2>5
  <2>7. Good(n + 1, G)
    BY <2>2, <2>6
  <2> QED
    BY <2>7
<1>3. L \in T
  <2> HIDE DEF T
  <2> QED
    BY <1>0, <1>1, <1>2, Induction
<1>4. \E F : F = [i \in 1..Len(f) + 1 |-> Read(f, i, F)]
  <2>1. PICK F : Good(L, F)
    BY <1>0, <1>3
  <2>2. L + 1 - L = 1
    BY <1>0
  <2> QED
    BY <2>1, <2>2
<1>5. Reading(f) = CHOOSE F : F = [i \in 1..Len(f) + 1 |-> Read(f, i, F)]
  BY DEF Reading, Read
<1> QED
  BY <1>4, <1>5, Zenon

\* Where the next entry is read, if there is one.
After(f, i) == i + f[i] + 1

\* The cases of the recursion, and what holds in all of them: a load reads
\* finitely many entries of cells, the empty one among them.
LEMMA ReadingCases ==
    ASSUME NEW f \in Seq(Nat)
    PROVE  /\ Reading(f)[Len(f) + 1] = [whole |-> TRUE, entries |-> {<<>>}]
           /\ \A i \in 1..Len(f) :
                 /\ f[i] \in Nat
                 /\ i + f[i] > Len(f) =>
                       Reading(f)[i] = [whole |-> FALSE, entries |-> {<<>>}]
                 /\ ~(i + f[i] > Len(f)) =>
                       /\ After(f, i) \in i + 1..Len(f) + 1
                       /\ Reading(f)[i] =
                             [Reading(f)[After(f, i)] EXCEPT
                                 !.entries = @ \union {SubSeq(f, i + 1, i + f[i])}]
<1> DEFINE L == Len(f)
           R == Reading(f)
<1>0. L \in Nat
  OBVIOUS
<1>1. \A i \in 1..L + 1 : R[i] = Read(f, i, R)
  BY ReadingIs, Zenon
<1> HIDE DEF R
<1>2. R[L + 1] = [whole |-> TRUE, entries |-> {<<>>}]
  <2>1. L + 1 \in 1..L + 1 /\ L + 1 > Len(f)
    BY <1>0
  <2> QED
    BY <1>1, <2>1 DEF Read
<1>3. ASSUME NEW i \in 1..L
      PROVE  /\ f[i] \in Nat
             /\ i + f[i] > L => R[i] = [whole |-> FALSE, entries |-> {<<>>}]
             /\ ~(i + f[i] > L) =>
                   /\ After(f, i) \in i + 1..L + 1
                   /\ R[i] = [R[After(f, i)] EXCEPT
                                !.entries = @ \union {SubSeq(f, i + 1, i + f[i])}]
  <2>1. i \in 1..L + 1 /\ ~(i > Len(f)) /\ f[i] \in Nat
    BY <1>0, ElementOfSeq
  <2>2. R[i] = Read(f, i, R)
    BY <1>1, <2>1
  <2>3. ~(i + f[i] > L) => After(f, i) \in i + 1..L + 1
    BY <1>0, <2>1 DEF After
  <2> QED
    BY <2>1, <2>2, <2>3 DEF Read, After
<1> QED
  BY <1>2, <1>3 DEF R

LEMMA ReadingType ==
    ASSUME NEW f \in Seq(Nat)
    PROVE  \A i \in 1..Len(f) + 1 :
              /\ Reading(f)[i] \in [whole : BOOLEAN, entries : SUBSET Seq(Nat)]
              /\ IsFiniteSet(Reading(f)[i].entries)
              /\ <<>> \in Reading(f)[i].entries
<1> DEFINE L == Len(f)
           R == Reading(f)
           Good(i) == /\ R[i] \in [whole : BOOLEAN, entries : SUBSET Seq(Nat)]
                      /\ IsFiniteSet(R[i].entries)
                      /\ <<>> \in R[i].entries
           T == {i \in Nat : Good(i)}
<1>0. L \in Nat
  OBVIOUS
<1>empty. /\ \A w \in BOOLEAN : [whole |-> w, entries |-> {<<>>}]
                                 \in [whole : BOOLEAN, entries : SUBSET Seq(Nat)]
          /\ IsFiniteSet({<<>>}) /\ <<>> \in {<<>>}
  <2>1. <<>> \in Seq(Nat)
    OBVIOUS
  <2>2. IsFiniteSet({<<>>})
    BY FS_Singleton, Zenon
  <2> QED
    BY <2>1, <2>2
<1>1. ASSUME NEW i \in 1..L + 1, \A j \in i + 1..L + 1 : j \in T PROVE i \in T
  <2>0. i \in Nat
    BY <1>0
  <2> SUFFICES Good(i)
    BY <2>0
  <2>1. CASE i = L + 1
    <3>1. R[i] = [whole |-> TRUE, entries |-> {<<>>}]
      BY <2>1, ReadingCases, Zenon
    <3> HIDE DEF R
    <3> QED
      BY <1>empty, <3>1
  <2>2. CASE i \in 1..L /\ i + f[i] > L
    <3>1. R[i] = [whole |-> FALSE, entries |-> {<<>>}]
      BY <2>2, ReadingCases, Zenon
    <3> HIDE DEF R
    <3> QED
      BY <1>empty, <3>1
  <2>3. CASE i \in 1..L /\ ~(i + f[i] > L)
    <3> DEFINE k == After(f, i)
               e == SubSeq(f, i + 1, i + f[i])
    <3>1. f[i] \in Nat /\ k \in i + 1..L + 1 /\ R[i] = [R[k] EXCEPT !.entries = @ \union {e}]
      BY <2>3, ReadingCases, Zenon
    <3>2. e \in Seq(Nat)
      <4>0. \A j \in i + 1..i + f[i] : j \in 1..Len(f)
        <5>1. f[i] \in Nat
          BY <3>1
        <5> QED
          BY <2>0, <2>3, <5>1
      <4>1. \A j \in i + 1..i + f[i] : f[j] \in Nat
        BY <4>0, ElementOfSeq
      <4> QED
        BY <2>0, <3>1, <4>1, SubSeqProperties
    <3>3. Good(k)
      BY <1>1, <3>1
    <3> HIDE DEF R, k, e
    <3>4. /\ R[i] \in [whole : BOOLEAN, entries : SUBSET Seq(Nat)]
          /\ R[i].entries = R[k].entries \union {e}
      BY <3>1, <3>2, <3>3
    <3>5. IsFiniteSet(R[k].entries \union {e})
      BY <3>3, FS_AddElement, Zenon
    <3>6. <<>> \in R[k].entries \union {e}
      BY <3>3
    <3> QED
      BY <3>4, <3>5, <3>6
  <2> QED
    BY <1>0, <2>1, <2>2, <2>3
<1>2. 1..L + 1 \subseteq T
  <2>1. L + 1 \in Nat
    BY <1>0
  <2> HIDE DEF T
  <2> QED
    BY <1>1, <2>1, Downward
<1> QED
  BY <1>2

\* The cells of two pieces of a file, one after the other.
LEMMA ConcatCells ==
    ASSUME NEW f \in Seq(Nat), NEW h \in Seq(Nat)
    PROVE  /\ f \o h \in Seq(Nat)
           /\ Len(f \o h) = Len(f) + Len(h)
           /\ \A i \in 1..Len(f) : (f \o h)[i] = f[i]
           /\ \A i \in 1..Len(h) : (f \o h)[Len(f) + i] = h[i]
<1>1. f \o h \in Seq(Nat) /\ Len(f \o h) = Len(f) + Len(h)
  BY ConcatProperties
<1>2. ASSUME NEW i \in 1..Len(f) PROVE (f \o h)[i] = f[i]
  <2>1. i \in 1..Len(f) + Len(h)
    OBVIOUS
  <2> QED
    BY <2>1, ConcatProperties
<1>3. ASSUME NEW i \in 1..Len(h) PROVE (f \o h)[Len(f) + i] = h[i]
  <2>1. Len(f) + i \in 1..Len(f) + Len(h) /\ ~(Len(f) + i <= Len(f)) /\ Len(f) + i - Len(f) = i
    OBVIOUS
  <2> QED
    BY <2>1, ConcatProperties
<1> QED
  BY <1>1, <1>2, <1>3

\* The same cells, read from two files, are the same entry.
Cells(f, m, n) == SubSeq(f, m + 1, m + n)

SameCells(f, m, g, k, n) == \A j \in 1..n : f[m + j] = g[k + j]

SamePiece(f, m, g, k, n) ==
    /\ f \in Seq(Nat) /\ g \in Seq(Nat) /\ m \in Nat /\ k \in Nat /\ n \in Nat
    /\ m + n <= Len(f) /\ k + n <= Len(g)
    /\ SameCells(f, m, g, k, n)

LEMMA SameEntry ==
    ASSUME NEW f, NEW g, NEW m, NEW k, NEW n, SamePiece(f, m, g, k, n)
    PROVE  Cells(f, m, n) = Cells(g, k, n)
<1>0. /\ f \in Seq(Nat) /\ g \in Seq(Nat) /\ m \in Nat /\ k \in Nat /\ n \in Nat
      /\ m + n <= Len(f) /\ k + n <= Len(g)
      /\ SameCells(f, m, g, k, n)
  BY DEF SamePiece
<1> DEFINE a == SubSeq(f, m + 1, m + n)
           b == SubSeq(g, k + 1, k + n)
<1>1. ASSUME NEW s \in Seq(Nat), NEW l \in Nat, l + n <= Len(s)
      PROVE  /\ SubSeq(s, l + 1, l + n) \in Seq(Nat)
             /\ Len(SubSeq(s, l + 1, l + n)) = n
             /\ \A j \in 1..n : SubSeq(s, l + 1, l + n)[j] = s[l + j]
  <2>0. n \in Nat
    BY <1>0
  <2>1. l + 1 \in Nat /\ l + n \in Nat
    BY <2>0
  <2>2. \A j \in l + 1..l + n : j \in 1..Len(s)
    BY <1>1, <2>0
  <2>3. \A j \in l + 1..l + n : s[j] \in Nat
    BY <2>2, ElementOfSeq
  <2>4. /\ SubSeq(s, l + 1, l + n) \in Seq(Nat)
        /\ Len(SubSeq(s, l + 1, l + n)) = IF l + 1 <= l + n THEN (l + n) - (l + 1) + 1 ELSE 0
        /\ \A j \in 1..(l + n) - (l + 1) + 1 : SubSeq(s, l + 1, l + n)[j] = s[l + 1 + j - 1]
    <3> DEFINE p == l + 1
               q == l + n
    <3>1. p \in Int /\ q \in Int
      BY <2>1
    <3>2. \A j \in p..q : s[j] \in Nat
      BY <2>3
    <3> HIDE DEF p, q
    <3>3. /\ SubSeq(s, p, q) \in Seq(Nat)
          /\ Len(SubSeq(s, p, q)) = IF p <= q THEN q - p + 1 ELSE 0
          /\ \A j \in 1..q - p + 1 : SubSeq(s, p, q)[j] = s[p + j - 1]
      BY <3>1, <3>2, SubSeqProperties
    <3> QED
      BY <3>3, Zenon DEF p, q
  <2>5. /\ (IF l + 1 <= l + n THEN (l + n) - (l + 1) + 1 ELSE 0) = n
        /\ (l + n) - (l + 1) + 1 = n
        /\ \A j \in 1..n : l + 1 + j - 1 = l + j
    BY <2>0
  <2> QED
    BY <2>4, <2>5
<1>2. a \in Seq(Nat) /\ Len(a) = n /\ \A j \in 1..n : a[j] = f[m + j]
  BY <1>0, <1>1
<1>3. b \in Seq(Nat) /\ Len(b) = n /\ \A j \in 1..n : b[j] = g[k + j]
  BY <1>0, <1>1
<1> HIDE DEF a, b
<1>4. a = b
  BY <1>0, <1>2, <1>3, SeqEqual DEF SameCells
<1> QED
  BY <1>4 DEF a, b, Cells

\* What is read from within the second piece is what is read from it alone.
LEMMA ReadingShift ==
    ASSUME NEW f \in Seq(Nat), NEW h \in Seq(Nat)
    PROVE  \A i \in 1..Len(h) + 1 : Reading(f \o h)[Len(f) + i] = Reading(h)[i]
<1> DEFINE g == f \o h
           T == {i \in Nat : Reading(g)[Len(f) + i] = Reading(h)[i]}
<1>0. Len(f) \in Nat /\ Len(h) \in Nat
  OBVIOUS
<1>g. g \in Seq(Nat) /\ Len(g) = Len(f) + Len(h) /\ \A i \in 1..Len(h) : g[Len(f) + i] = h[i]
  BY ConcatCells
<1> HIDE DEF g
<1>1. ASSUME NEW i \in 1..Len(h) + 1, \A j \in i + 1..Len(h) + 1 : j \in T PROVE i \in T
  <2>0. i \in Nat
    BY <1>0
  <2> SUFFICES Reading(g)[Len(f) + i] = Reading(h)[i]
    BY <2>0
  <2>1. CASE i = Len(h) + 1
    <3>1. Len(f) + i = Len(g) + 1
      BY <1>0, <1>g, <2>1
    <3>2. Reading(g)[Len(g) + 1] = [whole |-> TRUE, entries |-> {<<>>}]
      BY <1>g, ReadingCases, Zenon
    <3>3. Reading(h)[Len(h) + 1] = [whole |-> TRUE, entries |-> {<<>>}]
      BY ReadingCases, Zenon
    <3> QED
      BY <2>1, <3>1, <3>2, <3>3
  <2>2. CASE i \in 1..Len(h)
    <3>1. Len(f) + i \in 1..Len(g)
      BY <1>0, <1>g, <2>2
    <3>2. g[Len(f) + i] = h[i] /\ h[i] \in Nat
      BY <1>g, <2>2, ElementOfSeq
    <3>3. Len(f) + i + g[Len(f) + i] > Len(g) <=> i + h[i] > Len(h)
      <4>1. \A x \in Nat : Len(f) + i + x > Len(f) + Len(h) <=> i + x > Len(h)
        BY <1>0, <2>0
      <4> QED
        BY <1>g, <3>2, <4>1, Zenon
    <3>4. CASE i + h[i] > Len(h)
      <4>1. Reading(h)[i] = [whole |-> FALSE, entries |-> {<<>>}]
        BY <2>2, <3>4, ReadingCases, Zenon
      <4>2. Reading(g)[Len(f) + i] = [whole |-> FALSE, entries |-> {<<>>}]
        BY <1>g, <3>1, <3>3, <3>4, ReadingCases, Zenon
      <4> QED
        BY <4>1, <4>2
    <3>5. CASE ~(i + h[i] > Len(h))
      <4>1. /\ After(h, i) \in i + 1..Len(h) + 1
            /\ Reading(h)[i] = [Reading(h)[After(h, i)] EXCEPT
                                   !.entries = @ \union {SubSeq(h, i + 1, i + h[i])}]
        BY <2>2, <3>5, ReadingCases, Zenon
      <4>2. Reading(g)[Len(f) + i] =
              [Reading(g)[After(g, Len(f) + i)] EXCEPT
                 !.entries = @ \union {SubSeq(g, Len(f) + i + 1, Len(f) + i + g[Len(f) + i])}]
        BY <1>g, <3>1, <3>3, <3>5, ReadingCases, Zenon
      <4>3. After(g, Len(f) + i) = Len(f) + After(h, i)
        BY <1>0, <2>0, <3>2 DEF After
      <4>4. Reading(g)[Len(f) + After(h, i)] = Reading(h)[After(h, i)]
        BY <1>1, <4>1
      <4>5. SubSeq(g, (Len(f) + i) + 1, (Len(f) + i) + h[i]) = SubSeq(h, i + 1, i + h[i])
        <5>1. \A j \in 1..h[i] : h[i + j] = g[(Len(f) + i) + j]
          <6> TAKE j \in 1..h[i]
          <6>1. i + j \in 1..Len(h)
            BY <1>0, <2>0, <3>2, <3>5
          <6>2. (Len(f) + i) + j = Len(f) + (i + j)
            BY <1>0, <2>0, <3>2
          <6> QED
            BY <1>g, <6>1, <6>2
        <5>2. i + h[i] <= Len(h) /\ (Len(f) + i) + h[i] <= Len(g) /\ Len(f) + i \in Nat
          <6>1. \A x \in Nat : ~(i + x > Len(h)) =>
                   i + x <= Len(h) /\ (Len(f) + i) + x <= Len(f) + Len(h) /\ Len(f) + i \in Nat
            BY <1>0, <2>0
          <6> QED
            BY <1>g, <3>2, <3>5, <6>1, Zenon
        <5>3. h[i] \in Nat
          BY <3>2
        <5>4. SubSeq(h, i + 1, i + h[i]) = SubSeq(g, (Len(f) + i) + 1, (Len(f) + i) + h[i])
          <6> DEFINE m == Len(f) + i
                     n == h[i]
          <6>a. g \in Seq(Nat)
            BY <1>g
          <6>b. m \in Nat /\ n \in Nat
            BY <5>2, <5>3
          <6>c. i + n <= Len(h) /\ m + n <= Len(g)
            BY <5>2
          <6>d. SameCells(h, i, g, m, n)
            BY <5>1 DEF SameCells
          <6> HIDE DEF m, n
          <6>1. SamePiece(h, i, g, m, n)
            BY <2>0, <6>a, <6>b, <6>c, <6>d DEF SamePiece
          <6>2. Cells(h, i, n) = Cells(g, m, n)
            BY <6>1, SameEntry
          <6> QED
            BY <6>2 DEF m, n, Cells
        <5> QED
          BY <5>4
      <4> QED
        BY <3>2, <4>1, <4>2, <4>3, <4>4, <4>5
    <3> QED
      BY <3>4, <3>5
  <2> QED
    BY <1>0, <2>1, <2>2
<1>2. 1..Len(h) + 1 \subseteq T
  <2>1. Len(h) + 1 \in Nat
    BY <1>0
  <2> HIDE DEF T
  <2> QED
    BY <1>1, <2>1, Downward
<1> QED
  BY <1>2 DEF g

\* A whole piece is read to its end, and what follows it after it.
LEMMA ReadingConcat ==
    ASSUME NEW f \in Seq(Nat), NEW h \in Seq(Nat)
    PROVE  \A i \in 1..Len(f) + 1 :
              Reading(f)[i].whole =>
                 /\ Reading(f \o h)[i].whole = Loaded(h).whole
                 /\ Reading(f \o h)[i].entries = Reading(f)[i].entries \union Loaded(h).entries
<1> DEFINE g == f \o h
           Good(i) == Reading(f)[i].whole =>
                 /\ Reading(g)[i].whole = Loaded(h).whole
                 /\ Reading(g)[i].entries = Reading(f)[i].entries \union Loaded(h).entries
           T == {i \in Nat : Good(i)}
<1>0. Len(f) \in Nat /\ Len(h) \in Nat
  OBVIOUS
<1>g. g \in Seq(Nat) /\ Len(g) = Len(f) + Len(h) /\ \A i \in 1..Len(f) : g[i] = f[i]
  BY ConcatCells
<1>end. Reading(g)[Len(f) + 1] = Loaded(h)
  <2>1. 1 \in 1..Len(h) + 1
    BY <1>0
  <2> QED
    BY <2>1, ReadingShift DEF Loaded
<1>load. <<>> \in Loaded(h).entries
  <2>1. 1 \in 1..Len(h) + 1
    BY <1>0
  <2> QED
    BY <2>1, ReadingType DEF Loaded
<1> HIDE DEF g
<1>1. ASSUME NEW i \in 1..Len(f) + 1, \A j \in i + 1..Len(f) + 1 : j \in T PROVE i \in T
  <2>0. i \in Nat
    BY <1>0
  <2> SUFFICES Good(i)
    BY <2>0
  <2>1. CASE i = Len(f) + 1
    <3>1. Reading(f)[i] = [whole |-> TRUE, entries |-> {<<>>}]
      BY <2>1, ReadingCases, Zenon
    <3>2. Reading(f)[i].entries \union Loaded(h).entries = Loaded(h).entries
      BY <1>load, <3>1
    <3> QED
      BY <1>end, <2>1, <3>2
  <2>2. CASE i \in 1..Len(f) /\ i + f[i] > Len(f)
    <3>1. Reading(f)[i] = [whole |-> FALSE, entries |-> {<<>>}]
      BY <2>2, ReadingCases, Zenon
    <3> QED
      BY <3>1
  <2>3. CASE i \in 1..Len(f) /\ ~(i + f[i] > Len(f))
    <3> DEFINE k == After(f, i)
               e == SubSeq(f, i + 1, i + f[i])
    <3>1. k \in i + 1..Len(f) + 1 /\ Reading(f)[i] = [Reading(f)[k] EXCEPT !.entries = @ \union {e}]
      BY <2>3, ReadingCases, Zenon
    <3>2. f[i] \in Nat /\ g[i] = f[i]
      BY <1>g, <2>3, ElementOfSeq
    <3>3. i \in 1..Len(g) /\ ~(i + g[i] > Len(g))
      <4>1. \A x \in Nat : ~(i + x > Len(f)) => i \in 1..Len(f) + Len(h) /\ ~(i + x > Len(f) + Len(h))
        BY <1>0, <2>0
      <4> QED
        BY <1>g, <2>3, <3>2, <4>1, Zenon
    <3>4. Reading(g)[i] = [Reading(g)[After(g, i)] EXCEPT
                             !.entries = @ \union {SubSeq(g, i + 1, i + g[i])}]
      BY <1>g, <3>3, ReadingCases, Zenon
    <3>5. SubSeq(f, i + 1, i + f[i]) = SubSeq(g, i + 1, i + f[i])
      <4> DEFINE n == f[i]
      <4>1. n \in Nat
        BY <3>2
      <4>2. i + n <= Len(f) /\ i + n <= Len(g)
        <5>1. \A x \in Nat : ~(i + x > Len(f)) => i + x <= Len(f) /\ i + x <= Len(f) + Len(h)
          BY <1>0, <2>0
        <5> QED
          BY <1>g, <2>3, <3>2, <5>1, Zenon
      <4>3. SameCells(f, i, g, i, n)
        <5> SUFFICES ASSUME NEW j \in 1..n PROVE f[i + j] = g[i + j]
          BY DEF SameCells
        <5> HIDE DEF n
        <5>1. i + j \in 1..Len(f)
          BY <1>0, <2>0, <4>1, <4>2
        <5> QED
          BY <1>g, <5>1
      <4> HIDE DEF n
      <4>4. SamePiece(f, i, g, i, n)
        BY <1>g, <2>0, <4>1, <4>2, <4>3 DEF SamePiece
      <4>5. Cells(f, i, n) = Cells(g, i, n)
        BY <4>4, SameEntry
      <4> QED
        BY <4>5 DEF n, Cells
    <3>6. Reading(g)[i] = [Reading(g)[k] EXCEPT !.entries = @ \union {e}]
      BY <3>2, <3>4, <3>5, Zenon DEF After
    <3>7. k \in 1..Len(f) + 1 /\ k \in 1..Len(g) + 1
      <4> HIDE DEF k
      <4> QED
        BY <1>0, <1>g, <2>0, <3>1
    <3>8. /\ Reading(f)[k] \in [whole : BOOLEAN, entries : SUBSET Seq(Nat)]
          /\ Reading(g)[k] \in [whole : BOOLEAN, entries : SUBSET Seq(Nat)]
      BY <1>g, <3>7, ReadingType, Zenon
    <3>9. Good(k)
      BY <1>1, <3>1
    <3> HIDE DEF k, e
    <3>10. /\ Reading(f)[i].whole = Reading(f)[k].whole
           /\ Reading(f)[i].entries = Reading(f)[k].entries \union {e}
      BY <3>1, <3>8
    <3>11. /\ Reading(g)[i].whole = Reading(g)[k].whole
           /\ Reading(g)[i].entries = Reading(g)[k].entries \union {e}
      BY <3>6, <3>8
    <3> QED
      BY <3>9, <3>10, <3>11
  <2> QED
    BY <1>0, <2>1, <2>2, <2>3
<1>2. 1..Len(f) + 1 \subseteq T
  <2>1. Len(f) + 1 \in Nat
    BY <1>0
  <2> HIDE DEF T
  <2> QED
    BY <1>1, <2>1, Downward
<1> QED
  BY <1>2 DEF g

LEMMA LoadedType ==
    ASSUME NEW f \in Seq(Nat)
    PROVE  /\ Loaded(f).whole \in BOOLEAN
           /\ Loaded(f).entries \in SUBSET Seq(Nat)
           /\ IsFiniteSet(Loaded(f).entries)
           /\ <<>> \in Loaded(f).entries
<1>1. 1 \in 1..Len(f) + 1
  OBVIOUS
<1> QED
  BY <1>1, ReadingType DEF Loaded

\* A load of two pieces, the first of them whole, reads what two loads read.
LEMMA LoadedConcat ==
    ASSUME NEW f \in Seq(Nat), NEW h \in Seq(Nat), Loaded(f).whole
    PROVE  /\ Loaded(f \o h).whole = Loaded(h).whole
           /\ Loaded(f \o h).entries = Loaded(f).entries \union Loaded(h).entries
<1>1. 1 \in 1..Len(f) + 1
  OBVIOUS
<1> QED
  BY <1>1, ReadingConcat DEF Loaded

LEMMA LoadedEmpty ==
    /\ Loaded(<<>>).whole
    /\ Loaded(<<>>).entries = {<<>>}
<1>1. Reading(<<>>)[Len(<<>>) + 1] = [whole |-> TRUE, entries |-> {<<>>}]
  <2>1. <<>> \in Seq(Nat)
    OBVIOUS
  <2> QED
    BY <2>1, ReadingCases, Zenon
<1>2. Len(<<>>) + 1 = 1
  OBVIOUS
<1> QED
  BY <1>1, <1>2 DEF Loaded

\* A record: the length of a command and the command.
Record(e) == <<Len(e)>> \o e

LEMMA RecordCells ==
    ASSUME NEW e \in Seq(Nat)
    PROVE  /\ Record(e) \in Seq(Nat)
           /\ Len(Record(e)) = Len(e) + 1
           /\ Record(e)[1] = Len(e)
           /\ \A i \in 1..Len(e) : Record(e)[i + 1] = e[i]
<1>1. <<Len(e)>> \in Seq(Nat) /\ Len(<<Len(e)>>) = 1 /\ <<Len(e)>>[1] = Len(e)
  OBVIOUS
<1>2. Len(e) \in Nat
  OBVIOUS
<1> HIDE DEF Record
<1>3. /\ <<Len(e)>> \o e \in Seq(Nat)
      /\ Len(<<Len(e)>> \o e) = 1 + Len(e)
      /\ (<<Len(e)>> \o e)[1] = Len(e)
      /\ \A i \in 1..Len(e) : (<<Len(e)>> \o e)[1 + i] = e[i]
  BY <1>1, ConcatCells
<1> QED
  BY <1>2, <1>3 DEF Record

LEMMA LoadedRecord ==
    ASSUME NEW e \in Seq(Nat)
    PROVE  /\ Loaded(Record(e)).whole
           /\ Loaded(Record(e)).entries = {<<>>, e}
<1> DEFINE f == Record(e)
<1>0. Len(e) \in Nat
  OBVIOUS
<1>1. f \in Seq(Nat) /\ Len(f) = Len(e) + 1 /\ f[1] = Len(e)
  BY RecordCells
<1>e. \A i \in 1..Len(e) : f[i + 1] = e[i]
  BY RecordCells
<1> HIDE DEF f
<1>2. 1 \in 1..Len(f) /\ ~(1 + f[1] > Len(f)) /\ After(f, 1) = Len(f) + 1
  BY <1>0, <1>1 DEF After
<1>3. Reading(f)[1] = [Reading(f)[Len(f) + 1] EXCEPT !.entries = @ \union {SubSeq(f, 1 + 1, 1 + f[1])}]
  <2>1. Reading(f)[1] = [Reading(f)[After(f, 1)] EXCEPT !.entries = @ \union {SubSeq(f, 1 + 1, 1 + f[1])}]
    BY <1>1, <1>2, ReadingCases, Zenon
  <2> QED
    BY <1>2, <2>1
<1>4. Reading(f)[Len(f) + 1] = [whole |-> TRUE, entries |-> {<<>>}]
  BY <1>1, ReadingCases, Zenon
<1>5. SubSeq(f, 1 + 1, 1 + f[1]) = e
  <2> DEFINE n == Len(e)
  <2>1. SameCells(f, 1, e, 0, n)
    BY <1>e DEF SameCells
  <2>2. 1 + n <= Len(f) /\ 0 + n <= Len(e) /\ 0 \in Nat /\ 1 \in Nat /\ n \in Nat
    BY <1>0, <1>1
  <2>3. SubSeq(e, 0 + 1, 0 + n) = e
    OBVIOUS
  <2> HIDE DEF n
  <2>4. SamePiece(f, 1, e, 0, n)
    BY <1>1, <2>1, <2>2 DEF SamePiece
  <2>5. Cells(f, 1, n) = Cells(e, 0, n)
    BY <2>4, SameEntry
  <2> QED
    BY <1>1, <2>3, <2>5 DEF n, Cells
<1>6. Reading(f)[1] = [[whole |-> TRUE, entries |-> {<<>>}] EXCEPT !.entries = @ \union {e}]
  BY <1>3, <1>4, <1>5
<1>7. Reading(f)[1] = [whole |-> TRUE, entries |-> {<<>>} \union {e}]
  BY <1>6
<1>8. {<<>>} \union {e} = {<<>>, e}
  OBVIOUS
<1> QED
  BY <1>7, <1>8 DEF Loaded, f

-----------------------------------------------------------------------------
(* The order of the keys.                                                  *)

\* The first cells of two sequences are the same where the cells are.
LEMMA SameBeginning ==
    ASSUME NEW s \in Seq(Nat), NEW t \in Seq(Nat), NEW k \in Nat, k <= Len(s), k <= Len(t)
    PROVE  SubSeq(s, 1, k) = SubSeq(t, 1, k) <=> \A j \in 1..k : s[j] = t[j]
<1>0. Len(s) \in Nat /\ Len(t) \in Nat
  OBVIOUS
<1>1. ASSUME NEW r \in Seq(Nat), k <= Len(r)
      PROVE  /\ SubSeq(r, 1, k) \in Seq(Nat)
             /\ Len(SubSeq(r, 1, k)) = k
             /\ \A j \in 1..k : SubSeq(r, 1, k)[j] = r[j]
  <2>1. \A j \in 1..k : j \in 1..Len(r)
    BY <1>1
  <2>2. \A j \in 1..k : r[j] \in Nat
    BY <2>1, ElementOfSeq
  <2>3. /\ SubSeq(r, 1, k) \in Seq(Nat)
        /\ Len(SubSeq(r, 1, k)) = IF 1 <= k THEN (k - 1) + 1 ELSE 0
        /\ \A j \in 1..(k - 1) + 1 : SubSeq(r, 1, k)[j] = r[1 + (j - 1)]
    <3>1. 1 \in Int /\ k \in Int
      OBVIOUS
    <3>2. \A m, n \in Int : (\A j \in m..n : r[j] \in Nat) =>
              /\ SubSeq(r, m, n) \in Seq(Nat)
              /\ Len(SubSeq(r, m, n)) = IF m <= n THEN (n - m) + 1 ELSE 0
              /\ \A j \in 1..(n - m) + 1 : SubSeq(r, m, n)[j] = r[m + (j - 1)]
      BY SubSeqProperties
    <3> QED
      BY <2>2, <3>1, <3>2
  <2>4. /\ (IF 1 <= k THEN (k - 1) + 1 ELSE 0) = k
        /\ (k - 1) + 1 = k
        /\ \A j \in 1..k : 1 + (j - 1) = j
    OBVIOUS
  <2> QED
    BY <2>3, <2>4
<1> DEFINE a == SubSeq(s, 1, k)
           b == SubSeq(t, 1, k)
<1>2. a \in Seq(Nat) /\ Len(a) = k /\ \A j \in 1..k : a[j] = s[j]
  BY <1>1
<1>3. b \in Seq(Nat) /\ Len(b) = k /\ \A j \in 1..k : b[j] = t[j]
  BY <1>1
<1> HIDE DEF a, b
<1>4. (\A j \in 1..k : s[j] = t[j]) => a = b
  BY <1>2, <1>3, SeqEqual
<1>5. a = b => \A j \in 1..k : s[j] = t[j]
  BY <1>2, <1>3
<1> QED
  BY <1>4, <1>5 DEF a, b

LEMMA PrefixIs ==
    ASSUME NEW p \in Seq(Nat), NEW s \in Seq(Nat)
    PROVE  IsPrefixOf(p, s) <=> Len(p) <= Len(s) /\ \A j \in 1..Len(p) : p[j] = s[j]
<1>1. SubSeq(p, 1, Len(p)) = p
  OBVIOUS
<1>2. CASE Len(p) <= Len(s)
  <2>1. Len(p) \in Nat /\ Len(p) <= Len(p)
    OBVIOUS
  <2>2. SubSeq(p, 1, Len(p)) = SubSeq(s, 1, Len(p)) <=> \A j \in 1..Len(p) : p[j] = s[j]
    BY <1>2, <2>1, SameBeginning
  <2> QED
    BY <1>1, <1>2, <2>2, Zenon DEF IsPrefixOf
<1>3. CASE ~(Len(p) <= Len(s))
  BY <1>3 DEF IsPrefixOf
<1> QED
  BY <1>2, <1>3

\* s and t agree up to k, and there s ends or has the smaller cell.
Parts(s, t, k) ==
    /\ k \in Nat /\ k <= Len(s) /\ k <= Len(t)
    /\ \A j \in 1..k : s[j] = t[j]
    /\ k = Len(s) \/ (k < Len(s) /\ k < Len(t) /\ s[k + 1] < t[k + 1])

LEMMA BeforeIs ==
    ASSUME NEW s \in Seq(Nat), NEW t \in Seq(Nat)
    PROVE  Before(s, t) <=> \E k \in Nat : Parts(s, t, k)
<1>0. Len(s) \in Nat /\ Len(t) \in Nat
  OBVIOUS
<1>2. ASSUME NEW i \in 1..Len(s), i <= Len(t), s[i] < t[i],
             SubSeq(s, 1, i - 1) = SubSeq(t, 1, i - 1)
      PROVE  Parts(s, t, i - 1)
  <2>1. i - 1 \in Nat /\ i - 1 < Len(s) /\ i - 1 < Len(t) /\ (i - 1) + 1 = i
    BY <1>0, <1>2
  <2>2. i - 1 <= Len(s) /\ i - 1 <= Len(t)
    BY <1>0, <2>1
  <2>3. \A j \in 1..i - 1 : s[j] = t[j]
    <3> DEFINE k == i - 1
    <3>1. k \in Nat /\ k <= Len(s) /\ k <= Len(t) /\ SubSeq(s, 1, k) = SubSeq(t, 1, k)
      BY <1>2, <2>1, <2>2
    <3> HIDE DEF k
    <3>2. \A j \in 1..k : s[j] = t[j]
      BY <3>1, SameBeginning
    <3> QED
      BY <3>2 DEF k
  <2> QED
    BY <1>2, <2>1, <2>2, <2>3 DEF Parts
<1>3. ASSUME NEW k \in Nat, Parts(s, t, k) PROVE Before(s, t)
  <2>1. CASE k = Len(s)
    BY <1>3, <2>1, PrefixIs DEF Parts, Before
  <2>2. CASE k # Len(s)
    <3> DEFINE i == k + 1
    <3>1. i \in 1..Len(s) /\ i <= Len(t) /\ s[i] < t[i] /\ i - 1 = k
      BY <1>0, <1>3, <2>2 DEF Parts
    <3>2. k <= Len(s) /\ k <= Len(t) /\ \A j \in 1..k : s[j] = t[j]
      BY <1>3 DEF Parts
    <3>3. SubSeq(s, 1, k) = SubSeq(t, 1, k)
      BY <3>2, SameBeginning
    <3> HIDE DEF i
    <3> QED
      BY <3>1, <3>3, Zenon DEF Before
  <2> QED
    BY <2>1, <2>2
<1>4. ASSUME Before(s, t), ~IsPrefixOf(s, t) PROVE \E k \in Nat : Parts(s, t, k)
  <2>1. PICK i \in 1..Len(s) :
           i <= Len(t) /\ s[i] < t[i] /\ SubSeq(s, 1, i - 1) = SubSeq(t, 1, i - 1)
    BY <1>4, Zenon DEF Before
  <2>2. Parts(s, t, i - 1)
    BY <1>2, <2>1
  <2>3. i - 1 \in Nat
    OBVIOUS
  <2> QED
    BY <2>2, <2>3
<1>5. ASSUME IsPrefixOf(s, t) PROVE \E k \in Nat : Parts(s, t, k)
  BY <1>0, <1>5, PrefixIs DEF Parts
<1> QED
  BY <1>3, <1>4, <1>5

LEMMA BeforeTotal ==
    ASSUME NEW s \in Seq(Nat), NEW t \in Seq(Nat)
    PROVE  Before(s, t) \/ Before(t, s)
<1>0. Len(s) \in Nat /\ Len(t) \in Nat
  OBVIOUS
<1> DEFINE D == {i \in Nat : i >= 1 /\ i <= Len(s) /\ i <= Len(t) /\ s[i] # t[i]}
<1>1. CASE D = {}
  <2>1. \A i \in Nat : i >= 1 /\ i <= Len(s) /\ i <= Len(t) => s[i] = t[i]
    BY <1>1
  <2>2. CASE Len(s) <= Len(t)
    <3>1. Parts(s, t, Len(s))
      BY <1>0, <2>1, <2>2 DEF Parts
    <3> QED
      BY <1>0, <3>1, BeforeIs
  <2>3. CASE ~(Len(s) <= Len(t))
    <3>1. Parts(t, s, Len(t))
      BY <1>0, <2>1, <2>3 DEF Parts
    <3> QED
      BY <1>0, <3>1, BeforeIs
  <2> QED
    BY <2>2, <2>3
<1>2. CASE D # {}
  <2>1. D \subseteq Nat
    OBVIOUS
  <2>2. PICK i \in D : \A j \in D : i <= j
    <3> HIDE DEF D
    <3> QED
      BY <1>2, <2>1, LeastNumber
  <2>3. i \in Nat /\ i >= 1 /\ i <= Len(s) /\ i <= Len(t) /\ s[i] # t[i]
    BY <2>2
  <2>4. \A j \in 1..i - 1 : s[j] = t[j]
    <3> SUFFICES ASSUME NEW j \in 1..i - 1, s[j] # t[j] PROVE FALSE
      OBVIOUS
    <3>1. j \in Nat /\ j >= 1 /\ j <= Len(s) /\ j <= Len(t) /\ ~(i <= j)
      BY <1>0, <2>3
    <3> QED
      BY <2>2, <3>1
  <2>5. i - 1 \in Nat /\ i - 1 < Len(s) /\ i - 1 < Len(t) /\ (i - 1) + 1 = i
    BY <1>0, <2>3
  <2>6. i \in 1..Len(s) /\ i \in 1..Len(t)
    BY <2>3
  <2>7. s[i] \in Nat /\ t[i] \in Nat
    BY <2>6, ElementOfSeq
  <2> HIDE DEF D
  <2>8. CASE s[i] < t[i]
    <3>1. Parts(s, t, i - 1)
      BY <1>0, <2>4, <2>5, <2>8 DEF Parts
    <3> QED
      BY <2>5, <3>1, BeforeIs
  <2>9. CASE t[i] < s[i]
    <3>1. Parts(t, s, i - 1)
      BY <1>0, <2>4, <2>5, <2>9 DEF Parts
    <3> QED
      BY <2>5, <3>1, BeforeIs
  <2>10. s[i] < t[i] \/ t[i] < s[i]
    BY <2>3, <2>7
  <2> QED
    BY <2>8, <2>9, <2>10
<1> QED
  BY <1>1, <1>2

LEMMA BeforeTransitive ==
    ASSUME NEW s \in Seq(Nat), NEW t \in Seq(Nat), NEW u \in Seq(Nat),
           Before(s, t), Before(t, u)
    PROVE  Before(s, u)
<1>0. Len(s) \in Nat /\ Len(t) \in Nat /\ Len(u) \in Nat
  OBVIOUS
<1>1. PICK k \in Nat : Parts(s, t, k)
  BY BeforeIs
<1>2. PICK l \in Nat : Parts(t, u, l)
  BY BeforeIs
<1>type. /\ \A j \in 1..Len(s) : s[j] \in Nat
         /\ \A j \in 1..Len(t) : t[j] \in Nat
         /\ \A j \in 1..Len(u) : u[j] \in Nat
  BY ElementOfSeq
<1>3. CASE k <= l /\ k = Len(s)
  <2>1. Parts(s, u, k)
    BY <1>0, <1>1, <1>2, <1>3 DEF Parts
  <2> QED
    BY <2>1, BeforeIs
<1>4. CASE k <= l /\ k # Len(s)
  <2>1. k < Len(s) /\ k < Len(t) /\ s[k + 1] < t[k + 1]
    BY <1>1, <1>4 DEF Parts
  <2>2. \A j \in 1..k : s[j] = u[j]
    BY <1>0, <1>1, <1>2, <1>4 DEF Parts
  <2>3. k < Len(u) /\ t[k + 1] <= u[k + 1]
    <3>1. CASE k < l
      <4>1. k + 1 \in 1..l /\ k < Len(u) /\ k + 1 \in 1..Len(t)
        BY <1>0, <1>2, <3>1 DEF Parts
      <4>2. t[k + 1] = u[k + 1] /\ t[k + 1] \in Nat
        BY <1>2, <1>type, <4>1 DEF Parts
      <4> QED
        BY <4>1, <4>2
    <3>2. CASE k = l
      <4>1. k < Len(u) /\ t[k + 1] < u[k + 1]
        BY <1>0, <1>2, <2>1, <3>2 DEF Parts
      <4>2. k + 1 \in 1..Len(t) /\ k + 1 \in 1..Len(u)
        BY <1>0, <2>1, <4>1
      <4>3. t[k + 1] \in Nat /\ u[k + 1] \in Nat
        BY <1>type, <4>2
      <4> QED
        BY <4>1, <4>3
    <3> QED
      BY <1>4, <3>1, <3>2
  <2>4. k + 1 \in 1..Len(s) /\ k + 1 \in 1..Len(t) /\ k + 1 \in 1..Len(u)
    BY <1>0, <2>1, <2>3
  <2>5. s[k + 1] \in Nat /\ t[k + 1] \in Nat /\ u[k + 1] \in Nat
    BY <1>type, <2>4
  <2>6. s[k + 1] < u[k + 1]
    BY <2>1, <2>3, <2>5
  <2>7. Parts(s, u, k)
    BY <1>0, <2>1, <2>2, <2>3, <2>6 DEF Parts
  <2> QED
    BY <2>7, BeforeIs
<1>5. CASE l < k
  <2>1. l < Len(t) /\ l < Len(u) /\ t[l + 1] < u[l + 1]
    BY <1>0, <1>1, <1>2, <1>5 DEF Parts
  <2>2. l + 1 \in 1..k
    BY <1>5
  <2>3. s[l + 1] = t[l + 1] /\ l < Len(s)
    BY <1>0, <1>1, <1>5, <2>2 DEF Parts
  <2>4. \A j \in 1..l : s[j] = u[j]
    BY <1>0, <1>1, <1>2, <1>5 DEF Parts
  <2>5. Parts(s, u, l)
    BY <1>0, <2>1, <2>3, <2>4 DEF Parts
  <2> QED
    BY <2>5, BeforeIs
<1> QED
  BY <1>3, <1>4, <1>5

\* Of finitely many keys one comes before the others.
LEMMA FirstKey ==
    ASSUME NEW S, S \subseteq Seq(Nat), IsFiniteSet(S), S # {}
    PROVE  \E e \in S : \A d \in S : Before(e, d)
<1> DEFINE HasFirst(X) == \E e \in X : \A d \in X : Before(e, d)
           T == {n \in Nat : \A X \in SUBSET S :
                    IsFiniteSet(X) /\ Cardinality(X) = n /\ X # {} => HasFirst(X)}
<1>1. 0 \in T
  <2>1. \A X \in SUBSET S : IsFiniteSet(X) /\ Cardinality(X) = 0 => X = {}
    BY FS_EmptySet
  <2> QED
    BY <2>1
<1>2. ASSUME NEW n \in Nat, n \in T PROVE n + 1 \in T
  <2>1. ASSUME NEW X \in SUBSET S, IsFiniteSet(X), Cardinality(X) = n + 1, X # {}
        PROVE  HasFirst(X)
    <3>1. PICK x : x \in X
      BY <2>1
    <3> DEFINE Y == X \ {x}
    <3>2. IsFiniteSet(Y) /\ Cardinality(Y) = n
      <4>1. /\ IsFiniteSet(X \ {x})
            /\ Cardinality(X \ {x}) = IF x \in X THEN Cardinality(X) - 1 ELSE Cardinality(X)
        BY <2>1, FS_RemoveElement, Zenon
      <4> QED
        BY <2>1, <3>1, <4>1
    <3>3. x \in Seq(Nat) /\ \A y \in Y : y \in Seq(Nat)
      BY <3>1
    <3>4. Before(x, x)
      BY <3>3, BeforeTotal
    <3>5. CASE Y = {}
      <4>1. X = {x}
        BY <3>1, <3>5
      <4> QED
        BY <3>4, <4>1
    <3>6. CASE Y # {}
      <4>1. HasFirst(Y)
        <5>1. Y \in SUBSET S
          OBVIOUS
        <5> HIDE DEF Y, HasFirst
        <5> QED
          BY <1>2, <3>2, <3>6, <5>1
      <4>2. PICK e \in Y : \A d \in Y : Before(e, d)
        BY <4>1
      <4>3. e \in Seq(Nat)
        BY <3>3, <4>2
      <4>4. CASE Before(e, x)
        BY <3>1, <4>2, <4>4
      <4>5. CASE Before(x, e)
        <5>1. \A d \in Y : Before(x, d)
          BY <3>3, <4>2, <4>3, <4>5, BeforeTransitive
        <5> QED
          BY <3>1, <3>4, <5>1
      <4>6. Before(e, x) \/ Before(x, e)
        BY <3>3, <4>3, BeforeTotal
      <4> QED
        BY <4>4, <4>5, <4>6
    <3> QED
      BY <3>5, <3>6
  <2> HIDE DEF HasFirst
  <2> QED
    BY <2>1
<1>3. Cardinality(S) \in Nat
  BY FS_CardinalityType
<1>4. Cardinality(S) \in T
  <2> HIDE DEF T
  <2> QED
    BY <1>1, <1>2, <1>3, Induction
<1>5. S \in SUBSET S
  OBVIOUS
<1>6. HasFirst(S)
  <2> HIDE DEF HasFirst
  <2> QED
    BY <1>4, <1>5
<1> QED
  BY <1>6

-----------------------------------------------------------------------------
(* The invariant.                                                          *)

\* g is made of pieces: lengths of a command and commands, and a command is
\* complete that begins where its length is followed by a character.
IsPieces(g) ==
    \A i \in 1..Len(g) :
       \/ g[i] \in Chars
       \/ /\ g[i] \in 1..MaxLine /\ g[i] <= MaxFile
          /\ i < Len(g) /\ g[i + 1] \in Chars =>
                /\ i + g[i] <= Len(g)
                /\ \A j \in i + 1..i + g[i] : g[j] \in Chars

\* What the tree holds that can be proposed to a user who has typed something.
Readable(e) == e = <<>> \/ e[1] \notin Chars \/ e \in Lines

FileInv ==
    /\ ~on => buf = <<>>
    /\ Len(file) + Len(buf) <= MaxFile
    /\ IsPieces(file) /\ IsPieces(buf) /\ IsPieces(file \o buf)
    /\ IsFiniteSet(tree)
    /\ \A e \in tree : Readable(e)

LineInv ==
    /\ cursor <= own /\ own <= Len(text)
    /\ RanIsOwn

IInv == TypeOK /\ LineInv /\ FileInv /\ FileIsTree /\ FaultHasCause

\* Characters and lengths are told apart by their size.
LEMMA CellsApart ==
    /\ Chars \subseteq Nat
    /\ \A c \in Chars : c > MaxFile
    /\ MaxLine \in Nat /\ MaxFile \in Nat
BY HistoryAssumption DEF Chars, Blank

\* The command lines are the short sequences of characters.
LEMMA LineIs ==
    \A e : e \in Lines <=> e \in Seq(Chars) /\ Len(e) <= MaxLine
<1>0. MaxLine \in Nat
  BY CellsApart
<1>1. ASSUME NEW e \in Lines PROVE e \in Seq(Chars) /\ Len(e) <= MaxLine
  <2>1. PICK n \in 0..MaxLine : e \in [1..n -> Chars]
    BY DEF Lines
  <2>2. n \in Nat /\ n <= MaxLine
    BY <1>0
  <2>3. e \in Seq(Chars) /\ Len(e) = n
    BY <2>1, <2>2
  <2> QED
    BY <2>2, <2>3
<1>2. ASSUME NEW e \in Seq(Chars), Len(e) <= MaxLine PROVE e \in Lines
  <2>1. Len(e) \in 0..MaxLine
    BY <1>0, <1>2
  <2>2. e \in [1..Len(e) -> Chars]
    BY LenProperties, Zenon
  <2> QED
    BY <2>1, <2>2, Zenon DEF Lines
<1> QED
  BY <1>1, <1>2, Zenon

LEMMA LineIsNumbers == Lines \subseteq Seq(Nat)
BY LineIs, CellsApart, SeqMonotonic

LEMMA EmptyLine == <<>> \in Lines
<1>1. <<>> \in Seq(Chars) /\ Len(<<>>) = 0 /\ 0 <= MaxLine
  BY CellsApart
<1> QED
  BY <1>1, LineIs

\* A part of a line is one.
LEMMA PartOfLine ==
    ASSUME NEW t \in Lines, NEW m \in Nat, NEW n \in Nat, m + n <= Len(t)
    PROVE  /\ SubSeq(t, m + 1, m + n) \in Seq(Chars)
           /\ Len(SubSeq(t, m + 1, m + n)) = n
           /\ \A j \in 1..n : SubSeq(t, m + 1, m + n)[j] = t[m + j]
<1>1. t \in Seq(Chars) /\ Len(t) <= MaxLine /\ Len(t) \in Nat
  BY LineIs
<1> DEFINE p == m + 1
           q == m + n
<1>2. p \in Int /\ q \in Int /\ (IF p <= q THEN (q - p) + 1 ELSE 0) = n
      /\ (q - p) + 1 = n /\ \A j \in 1..n : (p + j) - 1 = m + j
  OBVIOUS
<1>3. \A j \in p..q : t[j] \in Chars
  <2>1. \A j \in p..q : j \in 1..Len(t)
    BY <1>1
  <2> QED
    BY <1>1, <2>1, ElementOfSeq
<1> HIDE DEF p, q
<1>4. /\ SubSeq(t, p, q) \in Seq(Chars)
      /\ Len(SubSeq(t, p, q)) = IF p <= q THEN (q - p) + 1 ELSE 0
      /\ \A j \in 1..(q - p) + 1 : SubSeq(t, p, q)[j] = t[(p + j) - 1]
  BY <1>2, <1>3, SubSeqProperties
<1>5. /\ SubSeq(t, p, q) \in Seq(Chars)
      /\ Len(SubSeq(t, p, q)) = n
      /\ \A j \in 1..n : SubSeq(t, p, q)[j] = t[m + j]
  BY <1>2, <1>4
<1> QED
  BY <1>5 DEF p, q

\* Of a file made of pieces a load reads what can be proposed.
LEMMA PiecesReadable ==
    ASSUME NEW g \in Seq(Nat), Len(g) <= MaxFile, IsPieces(g)
    PROVE  \A e \in Loaded(g).entries : Readable(e)
<1> DEFINE T == {i \in Nat : \A e \in Reading(g)[i].entries : Readable(e)}
<1>0. Len(g) \in Nat
  OBVIOUS
<1>empty. Readable(<<>>)
  BY DEF Readable
<1>1. ASSUME NEW i \in 1..Len(g) + 1, \A j \in i + 1..Len(g) + 1 : j \in T PROVE i \in T
  <2>0. i \in Nat
    BY <1>0
  <2> SUFFICES \A e \in Reading(g)[i].entries : Readable(e)
    BY <2>0
  <2>1. CASE i = Len(g) + 1
    <3>1. Reading(g)[i] = [whole |-> TRUE, entries |-> {<<>>}]
      BY <2>1, ReadingCases, Zenon
    <3> QED
      BY <1>empty, <3>1
  <2>2. CASE i \in 1..Len(g) /\ i + g[i] > Len(g)
    <3>1. Reading(g)[i] = [whole |-> FALSE, entries |-> {<<>>}]
      BY <2>2, ReadingCases, Zenon
    <3> QED
      BY <1>empty, <3>1
  <2>3. CASE i \in 1..Len(g) /\ ~(i + g[i] > Len(g))
    <3> DEFINE k == After(g, i)
               n == g[i]
               e == SubSeq(g, i + 1, i + n)
    <3>1. k \in i + 1..Len(g) + 1 /\ Reading(g)[i] = [Reading(g)[k] EXCEPT !.entries = @ \union {e}]
      BY <2>3, ReadingCases, Zenon
    <3>2. \A d \in Reading(g)[k].entries : Readable(d)
      BY <1>1, <3>1
    <3>3. n \in Nat /\ i + n <= Len(g)
      <4>1. n \in Nat
        BY <2>3, ElementOfSeq
      <4> HIDE DEF n
      <4>2. ~(i + n > Len(g))
        BY <2>3 DEF n
      <4> QED
        BY <1>0, <2>0, <4>1, <4>2
    <3>4. n \in 1..MaxLine /\ n \notin Chars
      <4>1. n \in Chars \/ n \in 1..MaxLine
        BY <2>3 DEF IsPieces
      <4>2. ~(n > MaxFile)
        <5> HIDE DEF n
        <5> QED
          BY <1>0, <2>0, <3>3, CellsApart
      <4> QED
        BY <4>1, <4>2, CellsApart
    <3>5. ASSUME g[i + 1] \in Chars PROVE \A j \in i + 1..i + n : g[j] \in Chars
      <4>1. i < Len(g)
        <5> HIDE DEF n
        <5> QED
          BY <1>0, <2>0, <3>3, <3>4
      <4> QED
        BY <2>3, <3>4, <3>5, <4>1 DEF IsPieces
    <3>6. Readable(e)
      <4> HIDE DEF n, e
      <4> DEFINE p == i + 1
                 q == i + n
      <4>1. p \in Int /\ q \in Int /\ (IF p <= q THEN (q - p) + 1 ELSE 0) = n
            /\ (q - p) + 1 = n /\ (p + 1) - 1 = i + 1 /\ 1 \in 1..n
        BY <2>0, <3>3, <3>4
      <4>2. \A j \in p..q : g[j] \in Nat
        <5>1. \A j \in p..q : j \in 1..Len(g)
          BY <1>0, <2>0, <3>3
        <5> QED
          BY <5>1, ElementOfSeq
      <4>3. CASE g[i + 1] \in Chars
        <5>1. \A j \in p..q : g[j] \in Chars
          BY <3>5, <4>3
        <5> HIDE DEF p, q
        <5>2. SubSeq(g, p, q) \in Seq(Chars)
          BY <4>1, <5>1, SubSeqProperties
        <5>3. Len(SubSeq(g, p, q)) = IF p <= q THEN (q - p) + 1 ELSE 0
          BY <4>1, <5>1, SubSeqProperties
        <5>4. e \in Seq(Chars) /\ Len(e) = n
          BY <4>1, <5>2, <5>3 DEF e, p, q
        <5>5. Len(e) <= MaxLine
          BY <3>4, <5>4
        <5> QED
          BY <5>4, <5>5, LineIs DEF Readable
      <4>4. CASE g[i + 1] \notin Chars
        <5> HIDE DEF p, q
        <5>1. \A j \in 1..(q - p) + 1 : SubSeq(g, p, q)[j] = g[(p + j) - 1]
          BY <4>1, <4>2, SubSeqProperties
        <5>2. SubSeq(g, p, q)[1] = g[i + 1]
          BY <4>1, <5>1
        <5> QED
          BY <4>4, <5>2 DEF Readable, e, p, q
      <4> QED
        BY <4>3, <4>4
    <3>7. Reading(g)[k] \in [whole : BOOLEAN, entries : SUBSET Seq(Nat)]
      <4>1. k \in 1..Len(g) + 1
        <5> HIDE DEF k
        <5> QED
          BY <1>0, <2>0, <3>1
      <4> QED
        BY <4>1, ReadingType, Zenon
    <3> HIDE DEF k, n, e
    <3>8. Reading(g)[i].entries = Reading(g)[k].entries \union {e}
      BY <3>1, <3>7
    <3> QED
      BY <3>2, <3>6, <3>8
  <2> QED
    BY <1>0, <2>1, <2>2, <2>3
<1>2. 1..Len(g) + 1 \subseteq T
  <2>1. Len(g) + 1 \in Nat
    BY <1>0
  <2> HIDE DEF T
  <2> QED
    BY <1>1, <2>1, Downward
<1>3. 1 \in 1..Len(g) + 1
  BY <1>0
<1> QED
  BY <1>2, <1>3 DEF Loaded

\* Two pieces follow each other, unless a character comes after a length whose
\* command it does not belong to.
LEMMA PiecesConcat ==
    ASSUME NEW a \in Seq(Nat), NEW b \in Seq(Nat), IsPieces(a), IsPieces(b),
           a = <<>> \/ b = <<>> \/ a[Len(a)] \in Chars \/ b[1] \notin Chars
    PROVE  IsPieces(a \o b)
<1> DEFINE g == a \o b
<1>0. Len(a) \in Nat /\ Len(b) \in Nat
  OBVIOUS
<1>g. /\ Len(g) = Len(a) + Len(b)
      /\ \A i \in 1..Len(a) : g[i] = a[i]
      /\ \A i \in 1..Len(b) : g[Len(a) + i] = b[i]
  BY ConcatCells
<1> HIDE DEF g
<1>1. ASSUME NEW i \in 1..Len(a), g[i] \notin Chars
      PROVE  /\ g[i] \in 1..MaxLine /\ g[i] <= MaxFile
             /\ i < Len(g) /\ g[i + 1] \in Chars =>
                   /\ i + g[i] <= Len(g)
                   /\ \A j \in i + 1..i + g[i] : g[j] \in Chars
  <2> DEFINE n == g[i]
  <2>1. n = a[i]
    BY <1>g
  <2>2. n \in 1..MaxLine /\ n <= MaxFile
    BY <1>1, <2>1 DEF IsPieces
  <2>3. ASSUME i < Len(g), g[i + 1] \in Chars
        PROVE  i + n <= Len(g) /\ \A j \in i + 1..i + n : g[j] \in Chars
    <3>1. CASE i < Len(a)
      <4>1. i + 1 \in 1..Len(a)
        BY <1>0, <3>1
      <4>2. a[i + 1] \in Chars
        BY <1>g, <2>3, <4>1
      <4>3. i + a[i] <= Len(a) /\ \A j \in i + 1..i + a[i] : a[j] \in Chars
        BY <1>1, <2>1, <3>1, <4>2 DEF IsPieces
      <4>4. i + n <= Len(a) /\ \A j \in i + 1..i + n : a[j] \in Chars
        BY <2>1, <4>3
      <4> HIDE DEF n
      <4>5. n \in Nat
        BY <2>2
      <4>6. \A j \in i + 1..i + n : j \in 1..Len(a)
        BY <1>0, <4>4, <4>5
      <4>7. i + n <= Len(g)
        BY <1>0, <1>g, <4>4, <4>5
      <4> QED
        BY <1>g, <4>4, <4>6, <4>7
    <3>2. CASE i = Len(a)
      <4>1. Len(b) > 0 /\ i + 1 = Len(a) + 1
        BY <1>0, <1>g, <2>3, <3>2
      <4>2. 1 \in 1..Len(b)
        BY <1>0, <4>1
      <4>3. b[1] \in Chars
        BY <1>g, <2>3, <4>1, <4>2
      <4>4. a # <<>> /\ b # <<>>
        BY <1>0, <4>1
      <4>5. a[Len(a)] \notin Chars
        BY <1>1, <2>1, <3>2
      <4> QED
        BY <4>3, <4>4, <4>5
    <3> QED
      BY <1>0, <3>1, <3>2
  <2> QED
    BY <2>2, <2>3
<1>2. ASSUME NEW k \in 1..Len(b), g[Len(a) + k] \notin Chars
      PROVE  LET i == Len(a) + k
             IN  /\ g[i] \in 1..MaxLine /\ g[i] <= MaxFile
                 /\ i < Len(g) /\ g[i + 1] \in Chars =>
                       /\ i + g[i] <= Len(g)
                       /\ \A j \in i + 1..i + g[i] : g[j] \in Chars
  <2> DEFINE i == Len(a) + k
             n == g[i]
  <2>1. n = b[k]
    BY <1>g
  <2>2. n \in 1..MaxLine /\ n <= MaxFile
    BY <1>2, <2>1 DEF IsPieces
  <2>3. ASSUME i < Len(g), g[i + 1] \in Chars
        PROVE  i + n <= Len(g) /\ \A j \in i + 1..i + n : g[j] \in Chars
    <3>1. k < Len(b) /\ k + 1 \in 1..Len(b) /\ i + 1 = Len(a) + (k + 1)
      BY <1>0, <1>g, <2>3
    <3>2. b[k + 1] \in Chars
      BY <1>g, <2>3, <3>1
    <3>3. k + b[k] <= Len(b) /\ \A j \in k + 1..k + b[k] : b[j] \in Chars
      BY <1>2, <2>1, <3>1, <3>2 DEF IsPieces
    <3>4. k + n <= Len(b) /\ \A j \in k + 1..k + n : b[j] \in Chars
      BY <2>1, <3>3
    <3> HIDE DEF n
    <3>5. n \in Nat
      BY <2>2
    <3>6. i + n <= Len(g)
      BY <1>0, <1>g, <3>4, <3>5
    <3>7. ASSUME NEW j \in i + 1..i + n PROVE g[j] \in Chars
      <4> DEFINE l == j - Len(a)
      <4>1. l \in k + 1..k + n /\ l \in 1..Len(b) /\ j = Len(a) + l
        BY <1>0, <3>4, <3>5
      <4> HIDE DEF l
      <4> QED
        BY <1>g, <3>4, <4>1
    <3> QED
      BY <3>6, <3>7
  <2> QED
    BY <2>2, <2>3
<1>3. ASSUME NEW i \in 1..Len(g), i \notin 1..Len(a)
      PROVE  i - Len(a) \in 1..Len(b) /\ i = Len(a) + (i - Len(a))
  BY <1>0, <1>g, <1>3
<1>4. \A i \in 1..Len(g) :
         \/ g[i] \in Chars
         \/ /\ g[i] \in 1..MaxLine /\ g[i] <= MaxFile
            /\ i < Len(g) /\ g[i + 1] \in Chars =>
                  /\ i + g[i] <= Len(g)
                  /\ \A j \in i + 1..i + g[i] : g[j] \in Chars
  <2> SUFFICES ASSUME NEW i \in 1..Len(g), g[i] \notin Chars
               PROVE  /\ g[i] \in 1..MaxLine /\ g[i] <= MaxFile
                      /\ i < Len(g) /\ g[i + 1] \in Chars =>
                            /\ i + g[i] <= Len(g)
                            /\ \A j \in i + 1..i + g[i] : g[j] \in Chars
    OBVIOUS
  <2>1. CASE i \in 1..Len(a)
    BY <1>1, <2>1
  <2>2. CASE i \notin 1..Len(a)
    <3> DEFINE k == i - Len(a)
    <3>1. k \in 1..Len(b) /\ i = Len(a) + k
      BY <1>3, <2>2
    <3> HIDE DEF k
    <3> QED
      BY <1>2, <3>1
  <2> QED
    BY <2>1, <2>2
<1> QED
  BY <1>4 DEF IsPieces, g

LEMMA PiecesEmpty == <<>> \in Seq(Nat) /\ Len(<<>>) = 0 /\ IsPieces(<<>>)
BY DEF IsPieces

\* A length, a command and a record are pieces.
LEMMA PiecesRecord ==
    ASSUME NEW e \in Lines, e # <<>>, Len(e) <= MaxFile
    PROVE  /\ IsPieces(<<Len(e)>>) /\ IsPieces(e) /\ IsPieces(Record(e))
           /\ e \in Seq(Nat) /\ <<Len(e)>> \in Seq(Nat)
           /\ Len(<<Len(e)>>) = 1 /\ <<Len(e)>>[1] \notin Chars /\ <<Len(e)>> # <<>>
           /\ Record(e) \in Seq(Nat) /\ Len(Record(e)) = Len(e) + 1 /\ Record(e) # <<>>
           /\ Record(e)[1] \notin Chars
           /\ Record(e)[Len(Record(e))] \in Chars
           /\ e[Len(e)] \in Chars
<1>0. e \in Seq(Chars) /\ Len(e) <= MaxLine /\ e \in Seq(Nat)
  BY LineIs, LineIsNumbers
<1>1. Len(e) \in 1..MaxLine
  <2>1. Len(e) \in Nat /\ Len(e) # 0 /\ MaxLine \in Nat
    BY <1>0, CellsApart
  <2> QED
    BY <1>0, <2>1
<1>2. Len(e) \notin Chars
  BY <1>1, CellsApart
<1>3. \A i \in 1..Len(e) : e[i] \in Chars
  BY <1>0, ElementOfSeq
<1>4. IsPieces(e)
  BY <1>3 DEF IsPieces
<1>5. Len(<<Len(e)>>) = 1 /\ <<Len(e)>>[1] = Len(e) /\ <<Len(e)>> \in Seq(Nat) /\ <<Len(e)>> # <<>>
  BY <1>1
<1>6. IsPieces(<<Len(e)>>)
  <2> DEFINE r == <<Len(e)>>
  <2>1. \A i \in 1..Len(r) : r[i] \in 1..MaxLine /\ r[i] <= MaxFile /\ ~(i < Len(r))
    BY <1>1, <1>5
  <2> HIDE DEF r
  <2>2. IsPieces(r)
    BY <2>1 DEF IsPieces
  <2> QED
    BY <2>2 DEF r
<1> DEFINE r == Record(e)
<1>7. r \in Seq(Nat) /\ Len(r) = Len(e) + 1 /\ r[1] = Len(e)
  BY <1>0, RecordCells
<1>8. \A i \in 1..Len(e) : r[i + 1] = e[i]
  BY <1>0, RecordCells
<1> HIDE DEF r
<1>9. \A j \in 2..Len(r) : r[j] \in Chars
  <2> TAKE j \in 2..Len(r)
  <2>1. j - 1 \in 1..Len(e) /\ (j - 1) + 1 = j
    BY <1>1, <1>7
  <2>2. r[(j - 1) + 1] = e[j - 1]
    BY <1>8, <2>1
  <2> QED
    BY <1>3, <2>1, <2>2
<1>10. r[Len(r)] \in Chars /\ r # <<>>
  BY <1>1, <1>7, <1>9
<1>11. IsPieces(r)
  <2> SUFFICES ASSUME NEW i \in 1..Len(r), r[i] \notin Chars
               PROVE  /\ r[i] \in 1..MaxLine /\ r[i] <= MaxFile
                      /\ i + r[i] <= Len(r)
                      /\ \A j \in i + 1..i + r[i] : r[j] \in Chars
    BY DEF IsPieces
  <2>1. i = 1
    BY <1>1, <1>7, <1>9
  <2>2. r[i] = Len(e) /\ i + r[i] = Len(r)
    BY <1>1, <1>7, <2>1
  <2>3. \A j \in i + 1..Len(r) : r[j] \in Chars
    BY <1>1, <1>7, <1>9, <2>1
  <2> QED
    BY <1>1, <1>7, <2>2, <2>3
<1>12. e[Len(e)] \in Chars
  BY <1>1, <1>3
<1> QED
  BY <1>0, <1>2, <1>4, <1>5, <1>6, <1>7, <1>10, <1>11, <1>12 DEF r

-----------------------------------------------------------------------------
(* What is appended.                                                       *)

LEMMA Associative ==
    ASSUME NEW a \in Seq(Nat), NEW b \in Seq(Nat), NEW c \in Seq(Nat)
    PROVE  (a \o b) \o c = a \o (b \o c)
BY ConcatAssociative

\* Where a record can be when it is appended, with a buffer b not yet written.
Places(f, b, e) ==
    {<<f, b \o Record(e)>>, <<f \o b, Record(e)>>,
     <<(f \o b) \o <<Len(e)>>, e>>, <<(f \o b) \o Record(e), <<>>>>}

Appended(f, b, e) ==
    LET l == Written(f, b, <<Len(e)>>)
    IN  Written(l[1], l[2], e)

LEMMA AppendedPlaces ==
    ASSUME NEW f \in Seq(Nat), NEW b \in Seq(Nat), NEW e \in Seq(Nat), Len(b) <= CacheSize
    PROVE  /\ Appended(f, b, e) \in Places(f, b, e)
           /\ Len(Appended(f, b, e)[2]) <= CacheSize
<1> DEFINE n == <<Len(e)>>
           C == CacheSize
<1>0. Len(b) \in Nat /\ Len(e) \in Nat /\ C \in Nat /\ 1 <= C
  BY HistoryAssumption
<1>n. n \in Seq(Nat)
  OBVIOUS
<1>l. Len(n) = 1
  OBVIOUS
<1>r. Record(e) = n \o e
  BY DEF Record
<1> HIDE DEF n, C
<1>1. b \o n \in Seq(Nat) /\ Len(b \o n) = Len(b) + 1
  <2>1. b \o n \in Seq(Nat) /\ Len(b \o n) = Len(b) + Len(n)
    BY <1>n, ConcatCells
  <2> QED
    BY <1>l, <2>1
<1>2. f \o b \in Seq(Nat)
  BY ConcatCells
<1>3. (b \o n) \o e = b \o Record(e)
  <2>1. (b \o n) \o e = b \o (n \o e)
    BY <1>n, Associative
  <2> QED
    BY <1>r, <2>1
<1>4. f \o (b \o n) = (f \o b) \o n
  BY <1>n, Associative
<1>5. ((f \o b) \o n) \o e = (f \o b) \o Record(e)
  <2>1. ((f \o b) \o n) \o e = (f \o b) \o (n \o e)
    BY <1>n, <1>2, Associative
  <2> QED
    BY <1>r, <2>1
<1>6. /\ Len(b \o Record(e)) = Len(b) + 1 + Len(e)
      /\ Len(Record(e)) = 1 + Len(e)
      /\ Len(<<>>) = 0
  <2>1. Len(Record(e)) = 1 + Len(e) /\ Record(e) \in Seq(Nat)
    <3>1. n \o e \in Seq(Nat) /\ Len(n \o e) = Len(n) + Len(e)
      BY <1>n, ConcatCells
    <3> QED
      BY <1>l, <1>r, <3>1
  <2>2. Len(b \o Record(e)) = Len(b) + (1 + Len(e))
    <3>1. Len(b \o Record(e)) = Len(b) + Len(Record(e))
      BY <2>1, ConcatCells
    <3> QED
      BY <2>1, <3>1
  <2> QED
    BY <1>0, <2>1, <2>2
<1>7. CASE Len(b) + Len(n) <= C
  <2>1. Written(f, b, n) = <<f, b \o n>>
    BY <1>7 DEF Written, C
  <2>2. Appended(f, b, e) = Written(f, b \o n, e)
    <3>1. Appended(f, b, e) = Written(Written(f, b, n)[1], Written(f, b, n)[2], e)
      BY Zenon DEF Appended, n
    <3> QED
      BY <2>1, <3>1
  <2>3. CASE Len(b \o n) + Len(e) <= C
    <3>1. Appended(f, b, e) = <<f, b \o Record(e)>>
      BY <1>3, <2>2, <2>3 DEF Written, C
    <3>2. Len(b \o Record(e)) <= C
      BY <1>0, <1>1, <1>6, <2>3
    <3> QED
      BY <3>1, <3>2 DEF Places, C
  <2>4. CASE ~(Len(b \o n) + Len(e) <= C) /\ Len(e) <= C
    <3>1. Appended(f, b, e) = <<(f \o b) \o n, e>>
      BY <1>4, <2>2, <2>4 DEF Written, C
    <3> QED
      BY <2>4, <3>1 DEF Places, C, n
  <2>5. CASE ~(Len(b \o n) + Len(e) <= C) /\ ~(Len(e) <= C)
    <3>1. Appended(f, b, e) = <<(f \o (b \o n)) \o e, <<>>>>
      BY <2>2, <2>5 DEF Written, C
    <3>2. Appended(f, b, e) = <<(f \o b) \o Record(e), <<>>>>
      BY <1>4, <1>5, <3>1
    <3>3. Len(<<>>) <= C
      BY <1>0, <1>6
    <3> QED
      BY <3>2, <3>3 DEF Places, C
  <2> QED
    BY <2>3, <2>4, <2>5
<1>8. CASE ~(Len(b) + Len(n) <= C)
  <2>1. Written(f, b, n) = <<f \o b, n>>
    BY <1>0, <1>l, <1>8 DEF Written, C
  <2>2. Appended(f, b, e) = Written(f \o b, n, e)
    <3>1. Appended(f, b, e) = Written(Written(f, b, n)[1], Written(f, b, n)[2], e)
      BY Zenon DEF Appended, n
    <3> QED
      BY <2>1, <3>1
  <2>3. CASE Len(n) + Len(e) <= C
    <3>1. Appended(f, b, e) = <<f \o b, Record(e)>>
      BY <1>l, <1>r, <2>2, <2>3 DEF Written, C
    <3>2. Len(Record(e)) <= C
      BY <1>0, <1>l, <1>6, <2>3
    <3> QED
      BY <3>1, <3>2 DEF Places, C
  <2>4. CASE ~(Len(n) + Len(e) <= C) /\ Len(e) <= C
    <3>1. Appended(f, b, e) = <<(f \o b) \o n, e>>
      BY <2>2, <2>4 DEF Written, C
    <3> QED
      BY <2>4, <3>1 DEF Places, C, n
  <2>5. CASE ~(Len(n) + Len(e) <= C) /\ ~(Len(e) <= C)
    <3>1. Appended(f, b, e) = <<((f \o b) \o n) \o e, <<>>>>
      BY <2>2, <2>5 DEF Written, C
    <3>2. Appended(f, b, e) = <<(f \o b) \o Record(e), <<>>>>
      BY <1>5, <3>1
    <3>3. Len(<<>>) <= C
      BY <1>0, <1>6
    <3> QED
      BY <3>2, <3>3 DEF Places, C
  <2> QED
    BY <2>3, <2>4, <2>5
<1> QED
  BY <1>7, <1>8

\* Wherever it is, the file and the buffer together have grown by the record,
\* and are made of pieces.
LEMMA PlacesPieces ==
    ASSUME NEW f \in Seq(Nat), NEW b \in Seq(Nat), NEW e \in Lines, e # <<>>,
           Len(e) <= MaxFile,
           IsPieces(f), IsPieces(b), IsPieces(f \o b),
           NEW F, NEW B, <<F, B>> \in Places(f, b, e)
    PROVE  /\ F \in Seq(Nat) /\ B \in Seq(Nat)
           /\ F \o B = (f \o b) \o Record(e)
           /\ Len(F) + Len(B) = Len(f) + Len(b) + 1 + Len(e)
           /\ IsPieces(F) /\ IsPieces(B) /\ IsPieces(F \o B)
<1> DEFINE n == <<Len(e)>>
           r == Record(e)
           g == f \o b
<1>0. /\ IsPieces(n) /\ IsPieces(e) /\ IsPieces(r)
      /\ n[1] \notin Chars /\ r[1] \notin Chars /\ Len(r) = Len(e) + 1
  BY PiecesRecord, Zenon
<1>e. e \in Seq(Nat)
  BY PiecesRecord, Zenon
<1>n. n \in Seq(Nat)
  BY PiecesRecord, Zenon
<1>r. r \in Seq(Nat)
  BY PiecesRecord, Zenon
<1>1. g \in Seq(Nat) /\ Len(g) = Len(f) + Len(b) /\ IsPieces(g)
  BY ConcatCells
<1>2. r = n \o e
  BY DEF Record
<1>l. Len(f) \in Nat /\ Len(b) \in Nat /\ Len(e) \in Nat
  BY <1>e
<1>g. g \in Seq(Nat)
  BY <1>1
<1> HIDE DEF n, r
<1>3. /\ g \o r \in Seq(Nat)
      /\ Len(g \o r) = Len(f) + Len(b) + 1 + Len(e)
      /\ IsPieces(g \o r)
  <2> HIDE DEF g
  <2>1. g \o r \in Seq(Nat) /\ Len(g \o r) = Len(g) + Len(r)
    BY <1>r, <1>g, ConcatCells
  <2>2. IsPieces(g \o r)
    BY <1>0, <1>r, <1>g, <1>1, PiecesConcat
  <2> QED
    BY <1>0, <1>1, <1>l, <2>1, <2>2
<1>gr. g \o r \in Seq(Nat)
  BY <1>3
<1>4. ASSUME NEW X \in Seq(Nat), NEW Y \in Seq(Nat), F = X, B = Y, X \o Y = g \o r,
             IsPieces(X), IsPieces(Y)
      PROVE  /\ F \in Seq(Nat) /\ B \in Seq(Nat)
             /\ F \o B = g \o r
             /\ Len(F) + Len(B) = Len(f) + Len(b) + 1 + Len(e)
             /\ IsPieces(F) /\ IsPieces(B) /\ IsPieces(F \o B)
  <2>1. Len(X \o Y) = Len(X) + Len(Y)
    BY ConcatCells
  <2> HIDE DEF g
  <2> QED
    BY <1>3, <1>4, <2>1
<1> HIDE DEF g
<1>5. ASSUME F = f, B = b \o r PROVE F \o B = g \o r /\ B \in Seq(Nat) /\ IsPieces(B)
  <2>1. b \o r \in Seq(Nat)
    BY <1>r, ConcatCells
  <2>2. IsPieces(b \o r)
    BY <1>0, <1>r, PiecesConcat
  <2>3. (f \o b) \o r = f \o (b \o r)
    BY <1>r, Associative
  <2> QED
    BY <1>5, <2>1, <2>2, <2>3 DEF g
<1>6. ASSUME F = g \o n, B = e PROVE F \o B = g \o r /\ F \in Seq(Nat) /\ IsPieces(F)
  <2>1. g \o n \in Seq(Nat)
    BY <1>g, <1>n, ConcatCells
  <2>2. IsPieces(g \o n)
    BY <1>0, <1>1, <1>g, <1>n, PiecesConcat
  <2>3. (g \o n) \o e = g \o (n \o e)
    BY <1>g, <1>n, <1>e, Associative
  <2> QED
    BY <1>2, <1>6, <2>1, <2>2, <2>3
<1>7. ASSUME F = g \o r, B = <<>> PROVE F \o B = g \o r
  <2>1. (g \o r) \o <<>> = g \o r
    BY <1>gr, ConcatEmptySeq
  <2> QED
    BY <1>7, <2>1
<1>9. \/ F = f /\ B = b \o r
      \/ F = g /\ B = r
      \/ F = g \o n /\ B = e
      \/ F = g \o r /\ B = <<>>
  <2>1. <<F, B>> \in {<<f, b \o r>>, <<g, r>>, <<g \o n, e>>, <<g \o r, <<>>>>}
    BY DEF Places, n, r, g
  <2> QED
    BY <2>1
<1>pre. /\ F \in Seq(Nat) /\ B \in Seq(Nat)
        /\ F \o B = g \o r /\ IsPieces(F) /\ IsPieces(B)
  <2>1. CASE F = f /\ B = b \o r
    BY <1>5, <2>1
  <2>2. CASE F = g /\ B = r
    BY <1>0, <1>1, <1>r, <2>2
  <2>3. CASE F = g \o n /\ B = e
    BY <1>0, <1>e, <1>6, <2>3
  <2>4. CASE F = g \o r /\ B = <<>>
    BY <1>3, <1>7, <2>4, PiecesEmpty
  <2> QED
    BY <2>1, <2>2, <2>3, <2>4, <1>9
<1> QED
  BY <1>4, <1>pre DEF g, r

-----------------------------------------------------------------------------
(* The command line.                                                       *)

\* Two lines make a line, when it is short enough.
LEMMA LinesConcat ==
    ASSUME NEW s \in Seq(Chars), NEW t \in Seq(Chars)
    PROVE  /\ s \o t \in Seq(Chars)
           /\ Len(s \o t) = Len(s) + Len(t)
           /\ Len(s) + Len(t) <= MaxLine => s \o t \in Lines
<1>1. s \o t \in Seq(Chars) /\ Len(s \o t) = Len(s) + Len(t)
  BY ConcatProperties
<1> QED
  BY <1>1, LineIs

LEMMA Inserted ==
    ASSUME NEW t \in Lines, NEW k \in 0..Len(t), NEW c \in Chars, Len(t) < MaxLine
    PROVE  InsertAt(t, k + 1, c) \in Lines /\ Len(InsertAt(t, k + 1, c)) = Len(t) + 1
<1>0. Len(t) \in Nat /\ k \in Nat /\ k <= Len(t) /\ MaxLine \in Nat
  BY LineIs, CellsApart
<1> DEFINE a == SubSeq(t, 1, k)
           d == SubSeq(t, k + 1, Len(t))
<1>1. a \in Seq(Chars) /\ Len(a) = k
  <2>1. 0 \in Nat /\ 0 + k <= Len(t) /\ 0 + 1 = 1 /\ 0 + k = k
    BY <1>0
  <2>2. SubSeq(t, 0 + 1, 0 + k) \in Seq(Chars) /\ Len(SubSeq(t, 0 + 1, 0 + k)) = k
    BY <1>0, <2>1, PartOfLine
  <2> QED
    BY <2>1, <2>2
<1>2. d \in Seq(Chars) /\ Len(d) = Len(t) - k
  <2> DEFINE n == Len(t) - k
  <2>1. n \in Nat /\ k + n = Len(t) /\ k + n <= Len(t)
    BY <1>0
  <2> HIDE DEF n
  <2>2. SubSeq(t, k + 1, k + n) \in Seq(Chars) /\ Len(SubSeq(t, k + 1, k + n)) = n
    BY <1>0, <2>1, PartOfLine
  <2> QED
    BY <2>1, <2>2 DEF n
<1>3. <<c>> \in Seq(Chars) /\ Len(<<c>>) = 1
  OBVIOUS
<1>4. InsertAt(t, k + 1, c) = (a \o <<c>>) \o d
  <2>1. (k + 1) - 1 = k
    BY <1>0
  <2> QED
    BY <2>1 DEF InsertAt
<1> HIDE DEF a, d
<1> DEFINE b == a \o <<c>>
<1>5. b \in Seq(Chars) /\ Len(b) = k + 1
  BY <1>1, <1>3, LinesConcat
<1> HIDE DEF b
<1>6. Len(b) + Len(d) = Len(t) + 1 /\ Len(b) + Len(d) <= MaxLine
  BY <1>0, <1>2, <1>5
<1>7. b \o d \in Lines /\ Len(b \o d) = Len(t) + 1
  BY <1>2, <1>5, <1>6, LinesConcat
<1> QED
  BY <1>4, <1>7 DEF b

LEMMA Removed ==
    ASSUME NEW t \in Lines, NEW i \in 1..Len(t)
    PROVE  RemoveAt(t, i) \in Lines /\ Len(RemoveAt(t, i)) = Len(t) - 1
<1>0. Len(t) \in Nat /\ i \in Nat /\ i <= Len(t) /\ 1 <= i /\ MaxLine \in Nat /\ Len(t) <= MaxLine
  BY LineIs, CellsApart
<1> DEFINE a == SubSeq(t, 1, i - 1)
           d == SubSeq(t, i + 1, Len(t))
<1>1. a \in Seq(Chars) /\ Len(a) = i - 1
  <2> DEFINE n == i - 1
  <2>1. n \in Nat /\ 0 \in Nat /\ 0 + n <= Len(t) /\ 0 + 1 = 1 /\ 0 + n = n
    BY <1>0
  <2> HIDE DEF n
  <2>2. SubSeq(t, 0 + 1, 0 + n) \in Seq(Chars) /\ Len(SubSeq(t, 0 + 1, 0 + n)) = n
    BY <2>1, PartOfLine
  <2> QED
    BY <2>1, <2>2 DEF n
<1>2. d \in Seq(Chars) /\ Len(d) = Len(t) - i
  <2> DEFINE n == Len(t) - i
  <2>1. n \in Nat /\ i + n = Len(t) /\ i + n <= Len(t)
    BY <1>0
  <2> HIDE DEF n
  <2>2. SubSeq(t, i + 1, i + n) \in Seq(Chars) /\ Len(SubSeq(t, i + 1, i + n)) = n
    BY <1>0, <2>1, PartOfLine
  <2> QED
    BY <2>1, <2>2 DEF n
<1>3. RemoveAt(t, i) = a \o d
  BY DEF RemoveAt
<1> HIDE DEF a, d
<1>4. Len(a) + Len(d) = Len(t) - 1 /\ Len(a) + Len(d) <= MaxLine
  BY <1>0, <1>1, <1>2
<1> QED
  BY <1>1, <1>2, <1>3, <1>4, LinesConcat

\* The iterator stops at a key of the tree, or at none.
LEMMA SeekIsKey ==
    ASSUME tree \subseteq Seq(Nat), IsFiniteSet(tree), NEW p
    PROVE  Seek(p) \in tree \union {<<>>}
<1> DEFINE later == {e \in tree : Before(p, e)}
<1>1. CASE later = {}
  BY <1>1, Zenon DEF Seek
<1>2. CASE later # {}
  <2>1. later \subseteq Seq(Nat) /\ later \subseteq tree
    OBVIOUS
  <2>2. IsFiniteSet(later)
    BY <2>1, FS_Subset
  <2>3. Seek(p) = CHOOSE e \in later : \A d \in later : Before(e, d)
    BY <1>2, Zenon DEF Seek
  <2> HIDE DEF later
  <2>4. \E e \in later : \A d \in later : Before(e, d)
    BY <1>2, <2>1, <2>2, FirstKey
  <2>5. Seek(p) \in later
    BY <2>3, <2>4, Zenon
  <2> QED
    BY <2>1, <2>5
<1> QED
  BY <1>1, <1>2

\* Whatever the file holds: the completion makes a command line of a line.
LEMMA CompletedLine ==
    ASSUME tree \subseteq Seq(Nat), IsFiniteSet(tree), \A e \in tree : Readable(e),
           NEW p \in Lines, NEW pos \in 0..Len(p), NEW deleted \in BOOLEAN,
           pos > 0 \/ deleted
    PROVE  /\ Completed(p, pos, deleted) \in Lines
           /\ pos <= Len(Completed(p, pos, deleted))
<1> DEFINE prefix == SubSeq(p, 1, pos)
           found == Seek(prefix)
<1>0. Len(p) \in Nat /\ pos \in Nat /\ pos <= Len(p) /\ Len(p) <= MaxLine /\ MaxLine \in Nat
  BY LineIs, CellsApart
<1>1. /\ prefix \in Seq(Chars) /\ Len(prefix) = pos
      /\ \A j \in 1..pos : prefix[j] = p[j]
  <2>1. 0 \in Nat /\ 0 + pos <= Len(p) /\ 0 + 1 = 1 /\ 0 + pos = pos /\ \A j \in 1..pos : 0 + j = j
    BY <1>0
  <2>2. /\ SubSeq(p, 0 + 1, 0 + pos) \in Seq(Chars) /\ Len(SubSeq(p, 0 + 1, 0 + pos)) = pos
        /\ \A j \in 1..pos : SubSeq(p, 0 + 1, 0 + pos)[j] = p[0 + j]
    BY <1>0, <2>1, PartOfLine
  <2> QED
    BY <2>1, <2>2
<1>2. prefix \in Lines /\ prefix \in Seq(Nat)
  <2>1. Len(prefix) <= MaxLine
    BY <1>0, <1>1
  <2> QED
    BY <1>1, <2>1, LineIs, LineIsNumbers
<1>3. found \in tree \union {<<>>}
  BY SeekIsKey
<1>4. Completed(p, pos, deleted) =
        IF ~complete THEN p
        ELSE IF pos = 0 /\ deleted THEN <<>>
        ELSE IF IsPrefixOf(prefix, found) /\ found # <<>> THEN found ELSE prefix
  BY DEF Completed
<1> HIDE DEF prefix, found
<1>5. ASSUME pos > 0, IsPrefixOf(prefix, found), found # <<>>
      PROVE  found \in Lines /\ pos <= Len(found)
  <2>1. found \in tree /\ found \in Seq(Nat) /\ Readable(found)
    BY <1>3, <1>5
  <2>2. Len(prefix) <= Len(found) /\ \A j \in 1..Len(prefix) : prefix[j] = found[j]
    BY <1>2, <1>5, <2>1, PrefixIs
  <2>3. 1 \in 1..pos
    BY <1>0, <1>5
  <2>4. found[1] \in Chars
    <3>1. found[1] = prefix[1]
      BY <1>1, <2>2, <2>3
    <3>2. prefix[1] \in Chars
      BY <1>1, <2>3, ElementOfSeq
    <3> QED
      BY <3>1, <3>2
  <2> QED
    BY <1>1, <1>5, <2>1, <2>2, <2>4 DEF Readable
<1>6. CASE ~complete
  BY <1>0, <1>4, <1>6
<1>7. CASE complete /\ pos = 0 /\ deleted
  <2>1. Completed(p, pos, deleted) = <<>>
    BY <1>4, <1>7
  <2>2. pos <= Len(<<>>)
    BY <1>7
  <2> QED
    BY <2>1, <2>2, EmptyLine
<1>8. CASE complete /\ ~(pos = 0 /\ deleted)
  <2>1. pos > 0
    BY <1>0, <1>8
  <2>2. CASE IsPrefixOf(prefix, found) /\ found # <<>>
    <3>1. Completed(p, pos, deleted) = found
      BY <1>4, <1>8, <2>2, Zenon
    <3> QED
      BY <1>5, <2>1, <2>2, <3>1
  <2>3. CASE ~(IsPrefixOf(prefix, found) /\ found # <<>>)
    <3>1. Completed(p, pos, deleted) = prefix
      BY <1>4, <1>8, <2>3, Zenon
    <3> QED
      BY <1>0, <1>1, <1>2, <3>1
  <2> QED
    BY <2>2, <2>3
<1> QED
  BY <1>6, <1>7, <1>8

-----------------------------------------------------------------------------
(* The invariant holds.                                                    *)

LEMMA EmptyBuffer == <<>> \in Seq(Nat) /\ Len(<<>>) <= CacheSize
BY HistoryAssumption

LEMMA InitIInv == Init => IInv
<1> SUFFICES ASSUME Init PROVE IInv
  OBVIOUS
<1>0. <<>> \in Lines /\ <<>> \in Seq(Nat) /\ Len(<<>>) = 0 /\ <<>> \o <<>> = <<>>
  BY EmptyLine
<1>1. TypeOK
  <2>1. text \in Lines /\ cursor \in 0..Len(text) /\ own \in 0..MaxLine
    BY <1>0, CellsApart DEF Init
  <2>2. ran \in [took : 0..MaxLine, own : 0..MaxLine]
    BY CellsApart DEF Init
  <2>3. file \in Seq(Nat) /\ buf \in Seq(Nat) /\ Len(buf) <= CacheSize
    BY EmptyBuffer DEF Init
  <2> QED
    BY <2>1, <2>2, <2>3 DEF Init, TypeOK
<1>2. LineInv
  BY <1>0 DEF Init, LineInv, RanIsOwn
<1>3. FileInv
  <2>1. IsFiniteSet({})
    BY FS_EmptySet
  <2> QED
    BY <1>0, <2>1, HistoryAssumption, PiecesEmpty DEF Init, FileInv
<1>4. FileIsTree
  BY <1>0, LoadedEmpty DEF Init, FileIsTree
<1>5. FaultHasCause
  BY DEF Init, FaultHasCause
<1> QED
  BY <1>1, <1>2, <1>3, <1>4, <1>5 DEF IInv

\* An action of the command line leaves the file and the tree alone.
LEMMA FileUntouched ==
    ASSUME IInv, UNCHANGED <<on, fileVars>>
    PROVE  FileInv' /\ FileIsTree' /\ (UNCHANGED fault => FaultHasCause')
<1>1. on' = on /\ known' = known /\ tree' = tree /\ file' = file /\ buf' = buf /\ cause' = cause
  BY DEF fileVars
<1>2. FileInv'
  BY <1>1 DEF IInv, FileInv
<1>3. FileIsTree'
  BY <1>1 DEF IInv, FileIsTree
<1>4. UNCHANGED fault => FaultHasCause'
  BY <1>1 DEF IInv, FaultHasCause
<1> QED
  BY <1>2, <1>3, <1>4

\* An action of the file leaves the command line alone.
LEMMA LineUntouched ==
    ASSUME IInv, UNCHANGED lineVars
    PROVE  LineInv'
BY DEF IInv, LineInv, RanIsOwn, lineVars

LEMMA LoadStep == IInv /\ Load => IInv'
<1> SUFFICES ASSUME IInv, Load PROVE IInv'
  OBVIOUS
<1>0. /\ ~on /\ fault = "none" /\ buf = <<>>
      /\ file \in Seq(Nat) /\ Len(file) <= MaxFile
      /\ known' = known /\ file' = file /\ cause' = cause /\ buf' = <<>>
      /\ text' = <<>> /\ cursor' = 0 /\ own' = 0 /\ complete' = TRUE
      /\ ran' = [took |-> 0, own |-> 0]
  BY DEF IInv, FileInv, TypeOK, Load
<1>1. \/ Loaded(file).whole /\ on' = TRUE /\ tree' = Loaded(file).entries /\ fault' = fault
      \/ ~Loaded(file).whole /\ fault' = "assert" /\ on' = on /\ tree' = tree
  BY DEF Load
<1>2. file \o buf = file /\ file' \o buf' = file
  BY <1>0, ConcatEmptySeq
<1>3. /\ Loaded(file).entries \in SUBSET Seq(Nat) /\ IsFiniteSet(Loaded(file).entries)
  BY <1>0, LoadedType
<1>4. TypeOK'
  <2>1. on' \in BOOLEAN /\ fault' \in {"none", "assert", "realloc"} /\ tree' \subseteq Seq(Nat)
    BY <1>1, <1>3 DEF IInv, TypeOK
  <2> QED
    BY <1>0, <2>1, EmptyLine, HistoryAssumption DEF IInv, TypeOK
<1>5. LineInv'
  BY <1>0, EmptyLine DEF LineInv, RanIsOwn
<1>6. FileInv'
  <2>1. IsPieces(file') /\ IsPieces(buf') /\ IsPieces(file' \o buf')
    BY <1>0, <1>2, PiecesEmpty DEF IInv, FileInv
  <2>2. IsFiniteSet(tree') /\ \A e \in tree' : Readable(e)
    <3>1. \A e \in Loaded(file).entries : Readable(e)
      BY <1>0, PiecesReadable DEF IInv, FileInv
    <3> QED
      BY <1>1, <1>3, <3>1 DEF IInv, FileInv
  <2>3. Len(file') + Len(buf') <= MaxFile
    BY <1>0 DEF IInv, FileInv
  <2> QED
    BY <1>0, <2>1, <2>2, <2>3 DEF FileInv
<1>7. FileIsTree'
  <2>1. cause = "none" => Loaded(file).whole /\ Loaded(file).entries \subseteq known \union {<<>>}
    BY <1>2 DEF IInv, FileIsTree
  <2> QED
    BY <1>0, <1>1, <1>2, <2>1 DEF FileIsTree
<1>8. FaultHasCause'
  <2>1. cause = "none" => Loaded(file).whole
    BY <1>2 DEF IInv, FileIsTree
  <2> QED
    BY <1>0, <1>1, <2>1 DEF FaultHasCause
<1> QED
  BY <1>4, <1>5, <1>6, <1>7, <1>8 DEF IInv

LEMMA QuitStep == IInv /\ Quit => IInv'
<1> SUFFICES ASSUME IInv, Quit PROVE IInv'
  OBVIOUS
<1>0. /\ fault = "none" /\ on' = FALSE
      /\ file' = file \o buf /\ buf' = <<>> /\ fault' = fault
      /\ complete' = complete /\ text' = text /\ cursor' = cursor /\ own' = own /\ ran' = ran
      /\ known' = known /\ tree' = tree /\ cause' = cause
  BY DEF Quit, lineVars
<1>1. /\ file \in Seq(Nat) /\ buf \in Seq(Nat) /\ file \o buf \in Seq(Nat)
      /\ Len(file \o buf) = Len(file) + Len(buf)
  BY ConcatCells DEF IInv, TypeOK
<1>2. file' \o buf' = file \o buf
  <2>1. file \o buf \in Seq(Nat)
    BY <1>1
  <2> QED
    BY <1>0, <2>1, ConcatEmptySeq
<1>3. TypeOK'
  <2>1. file' \in Seq(Nat) /\ buf' \in Seq(Nat) /\ Len(buf') <= CacheSize
    BY <1>0, <1>1, EmptyBuffer
  <2> QED
    BY <1>0, <2>1 DEF IInv, TypeOK
<1>4. LineInv'
  BY <1>0, LineUntouched DEF lineVars
<1>5. FileInv'
  <2>1. Len(file') + Len(buf') <= MaxFile
    BY <1>0, <1>1, PiecesEmpty DEF IInv, FileInv
  <2>2. IsPieces(file') /\ IsPieces(buf') /\ IsPieces(file' \o buf')
    BY <1>0, <1>2, PiecesEmpty DEF IInv, FileInv
  <2> QED
    BY <1>0, <2>1, <2>2 DEF IInv, FileInv
<1>6. FileIsTree'
  BY <1>0, <1>2 DEF IInv, FileIsTree
<1>7. FaultHasCause'
  BY <1>0 DEF IInv, FaultHasCause
<1> QED
  BY <1>3, <1>4, <1>5, <1>6, <1>7 DEF IInv

LEMMA KillStep == IInv /\ Kill => IInv'
<1> SUFFICES ASSUME IInv, Kill PROVE IInv'
  OBVIOUS
<1>0. /\ on' = FALSE /\ buf' = <<>> /\ fault' = "none"
      /\ cause' = IF Loaded(file).whole THEN cause ELSE "crash"
      /\ complete' = complete /\ text' = text /\ cursor' = cursor /\ own' = own /\ ran' = ran
      /\ known' = known /\ tree' = tree /\ file' = file
  BY DEF Kill, lineVars
<1>1. file \in Seq(Nat) /\ buf \in Seq(Nat) /\ file' \o buf' = file
  BY <1>0, ConcatEmptySeq DEF IInv, TypeOK
<1>2. TypeOK'
  <2>1. cause' \in {"none", "crash", "overlap"}
    BY <1>0 DEF IInv, TypeOK
  <2>2. file' \in Seq(Nat) /\ buf' \in Seq(Nat) /\ Len(buf') <= CacheSize
    BY <1>0, <1>1, EmptyBuffer
  <2> QED
    BY <1>0, <2>1, <2>2 DEF IInv, TypeOK
<1>3. LineInv'
  BY <1>0, LineUntouched DEF lineVars
<1>4. FileInv'
  <2>1. Len(file') + Len(buf') <= MaxFile
    BY <1>0, <1>1, PiecesEmpty, LenProperties, CellsApart DEF IInv, FileInv
  <2>2. IsPieces(file') /\ IsPieces(buf') /\ IsPieces(file' \o buf')
    BY <1>0, <1>1, PiecesEmpty DEF IInv, FileInv
  <2> QED
    BY <1>0, <2>1, <2>2 DEF IInv, FileInv
<1>5. FileIsTree'
  <2> SUFFICES ASSUME cause' = "none"
               PROVE  Loaded(file).whole /\ Loaded(file).entries \subseteq known \union {<<>>}
    BY <1>0, <1>1 DEF FileIsTree
  <2>1. Loaded(file).whole /\ cause = "none"
    BY <1>0
  <2>2. Loaded(file \o buf).entries = Loaded(file).entries \union Loaded(buf).entries
    BY <1>1, <2>1, LoadedConcat
  <2> QED
    BY <2>1, <2>2 DEF IInv, FileIsTree
<1>6. FaultHasCause'
  BY <1>0 DEF FaultHasCause
<1> QED
  BY <1>2, <1>3, <1>4, <1>5, <1>6 DEF IInv

LEMMA OtherQuitsStep ==
    ASSUME IInv, NEW e \in Lines, OtherQuits(e)
    PROVE  IInv'
<1> DEFINE r == Record(e)
<1>0. /\ e # <<>>
      /\ Len(file) + Len(buf) + 1 + Len(e) <= MaxFile
      /\ file' = (file \o <<Len(e)>>) \o e /\ known' = known \union {e}
      /\ cause' = IF Loaded(file).whole THEN cause ELSE "overlap"
      /\ on' = on /\ fault' = fault /\ tree' = tree /\ buf' = buf
      /\ UNCHANGED lineVars
  BY DEF OtherQuits
<1>f. file \in Seq(Nat)
  BY DEF IInv, TypeOK
<1>b. buf \in Seq(Nat)
  BY DEF IInv, TypeOK
<1>e. e \in Seq(Nat)
  BY LineIsNumbers
<1>l. Len(e) \in Nat /\ Len(file) \in Nat /\ Len(buf) \in Nat /\ MaxFile \in Nat
  BY <1>f, <1>b, <1>e, CellsApart
<1>1. Len(e) <= MaxFile
  BY <1>0, <1>l
<1>2. /\ IsPieces(r) /\ Len(r) = Len(e) + 1 /\ r # <<>>
      /\ r[1] \notin Chars /\ r[Len(r)] \in Chars
  BY <1>0, <1>1, PiecesRecord, Zenon
<1>r. r \in Seq(Nat)
  BY <1>0, <1>1, PiecesRecord, Zenon
<1>3. file' = file \o r
  <2>1. <<Len(e)>> \in Seq(Nat)
    BY <1>l
  <2>2. (file \o <<Len(e)>>) \o e = file \o (<<Len(e)>> \o e)
    BY <1>f, <1>e, <2>1, Associative
  <2> QED
    BY <1>0, <2>2 DEF Record
<1>read. Loaded(r).whole /\ Loaded(r).entries = {<<>>, e}
  BY <1>e, LoadedRecord
<1> HIDE DEF r
<1>4. /\ file \o r \in Seq(Nat) /\ Len(file \o r) = Len(file) + Len(e) + 1
      /\ (file \o r)[Len(file \o r)] \in Chars
  <2>1. /\ file \o r \in Seq(Nat) /\ Len(file \o r) = Len(file) + Len(r)
        /\ \A i \in 1..Len(r) : (file \o r)[Len(file) + i] = r[i]
    BY <1>f, <1>r, ConcatCells
  <2>2. Len(r) \in 1..Len(r)
    BY <1>2, <1>l
  <2>3. (file \o r)[Len(file) + Len(r)] = r[Len(r)]
    BY <2>1, <2>2
  <2> QED
    BY <1>2, <1>l, <2>1, <2>3
<1>fr. file \o r \in Seq(Nat)
  BY <1>4
<1>5. IsPieces(file \o r)
  BY <1>2, <1>f, <1>r, PiecesConcat DEF IInv, FileInv
<1>6. IsPieces((file \o r) \o buf)
  BY <1>4, <1>5, <1>fr, <1>b, PiecesConcat DEF IInv, FileInv
<1>7. TypeOK'
  <2>1. file' \in Seq(Nat) /\ known' \subseteq Lines /\ cause' \in {"none", "crash", "overlap"}
    BY <1>0, <1>3, <1>4 DEF IInv, TypeOK
  <2> QED
    BY <1>0, <2>1 DEF IInv, TypeOK, lineVars
<1>8. LineInv'
  BY <1>0, LineUntouched
<1>9. FileInv'
  <2>1. Len(file') + Len(buf') <= MaxFile
    BY <1>0, <1>3, <1>4, <1>l
  <2>2. IsPieces(file') /\ IsPieces(buf') /\ IsPieces(file' \o buf')
    BY <1>0, <1>3, <1>5, <1>6 DEF IInv, FileInv
  <2> QED
    BY <1>0, <2>1, <2>2 DEF IInv, FileInv
<1>10. FileIsTree'
  <2> SUFFICES ASSUME cause' = "none"
               PROVE  /\ Loaded((file \o r) \o buf).whole
                      /\ Loaded((file \o r) \o buf).entries \subseteq (known \union {e}) \union {<<>>}
                      /\ on => tree \subseteq Loaded((file \o r) \o buf).entries
    BY <1>0, <1>3 DEF FileIsTree
  <2>1. Loaded(file).whole /\ cause = "none"
    BY <1>0
  <2>2. /\ Loaded(file \o buf).whole = Loaded(buf).whole
        /\ Loaded(file \o buf).entries = Loaded(file).entries \union Loaded(buf).entries
    BY <1>f, <1>b, <2>1, LoadedConcat
  <2>3. /\ Loaded(file \o r).whole = Loaded(r).whole
        /\ Loaded(file \o r).entries = Loaded(file).entries \union Loaded(r).entries
    BY <1>f, <1>r, <2>1, LoadedConcat
  <2>4. Loaded(file \o r).whole
    BY <1>read, <2>3
  <2>5. /\ Loaded((file \o r) \o buf).whole = Loaded(buf).whole
        /\ Loaded((file \o r) \o buf).entries = Loaded(file \o r).entries \union Loaded(buf).entries
    BY <1>fr, <1>b, <2>4, LoadedConcat
  <2>6. /\ Loaded(file \o buf).whole
        /\ Loaded(file \o buf).entries \subseteq known \union {<<>>}
        /\ on => tree \subseteq Loaded(file \o buf).entries
    BY <2>1 DEF IInv, FileIsTree
  <2> QED
    BY <1>read, <2>2, <2>3, <2>5, <2>6
<1>11. FaultHasCause'
  BY <1>0 DEF IInv, FaultHasCause
<1> QED
  BY <1>7, <1>8, <1>9, <1>10, <1>11 DEF IInv

\* i_OnEditFilter, of a text the user has made.
LEMMA EditStep ==
    ASSUME IInv, NEW p \in Lines, NEW pos \in 0..Len(p), NEW deleted \in BOOLEAN,
           OnEditFilter(p, pos, deleted),
           \/ ~deleted /\ pos = cursor + 1 /\ Len(p) = Len(text) + 1
           \/ deleted /\ Len(p) = Len(text) - 1
    PROVE  IInv'
<1>0. /\ text' = Completed(p, pos, deleted) /\ cursor' = pos
      /\ own' = IF complete THEN pos
                ELSE IF deleted THEN Larger(pos, own - 1) ELSE own + 1
      /\ on' = on /\ fault' = fault /\ complete' = complete /\ ran' = ran
      /\ UNCHANGED fileVars
  BY DEF OnEditFilter, UpdateSelect
<1>1. /\ cursor \in Nat /\ own \in Nat /\ cursor <= own /\ own <= Len(text)
      /\ Len(text) \in Nat /\ Len(text) <= MaxLine /\ MaxLine \in Nat
  BY LineIs, CellsApart DEF IInv, TypeOK, LineInv
<1>2. /\ pos \in Nat /\ pos <= Len(p) /\ Len(p) \in Nat /\ Len(p) <= MaxLine
  BY LineIs
<1>3. text' \in Lines /\ pos <= Len(text')
  <2>1. pos > 0 \/ deleted
    BY <1>1
  <2>2. tree \subseteq Seq(Nat) /\ IsFiniteSet(tree) /\ \A e \in tree : Readable(e)
    BY DEF IInv, TypeOK, FileInv
  <2> QED
    BY <1>0, <2>1, <2>2, CompletedLine
<1>4. Len(text') \in Nat /\ Len(text') <= MaxLine
  BY <1>3, LineIs
<1>5. own' \in Nat /\ pos <= own' /\ own' <= Len(text')
  <2>1. CASE complete
    BY <1>0, <1>2, <1>3, <2>1
  <2>2. CASE ~complete
    <3>1. text' = p
      BY <1>0, <2>2 DEF Completed
    <3>2. CASE deleted
      <4>1. own' = Larger(pos, own - 1) /\ Len(p) = Len(text) - 1
        BY <1>0, <2>2, <3>2
      <4> QED
        BY <1>1, <1>2, <3>1, <4>1 DEF Larger
    <3>3. CASE ~deleted
      BY <1>0, <1>1, <1>2, <2>2, <3>1, <3>3
    <3> QED
      BY <3>2, <3>3
  <2> QED
    BY <2>1, <2>2
<1>6. TypeOK'
  <2>1. own' \in 0..MaxLine
    BY <1>1, <1>4, <1>5
  <2>2. cursor' = pos
    BY <1>0
  <2>3. cursor' \in 0..Len(text')
    BY <1>2, <1>3, <1>4, <2>2
  <2> QED
    BY <1>0, <1>3, <2>1, <2>3 DEF IInv, TypeOK, fileVars
<1>7. LineInv'
  BY <1>0, <1>5 DEF IInv, LineInv, RanIsOwn
<1>8. FileInv' /\ FileIsTree' /\ FaultHasCause'
  BY <1>0, FileUntouched
<1> QED
  BY <1>6, <1>7, <1>8 DEF IInv

LEMMA InsertStep ==
    ASSUME IInv, NEW c \in Chars, Insert(c)
    PROVE  IInv'
<1> DEFINE p == InsertAt(text, cursor + 1, c)
<1>1. text \in Lines /\ cursor \in 0..Len(text) /\ Len(text) < MaxLine
      /\ OnEditFilter(p, cursor + 1, FALSE)
  BY DEF IInv, TypeOK, Insert
<1>2. p \in Lines /\ Len(p) = Len(text) + 1
  BY <1>1, Inserted
<1> HIDE DEF p
<1>3. cursor + 1 \in 0..Len(p)
  <2>1. Len(text) \in Nat
    BY <1>1, LineIs
  <2> QED
    BY <1>1, <1>2, <2>1
<1> QED
  BY <1>1, <1>2, <1>3, EditStep

LEMMA DeleteStep ==
    ASSUME IInv, NEW i \in 1..MaxLine, Delete(i)
    PROVE  IInv'
<1> DEFINE p == RemoveAt(text, i)
<1>1. text \in Lines /\ i \in 1..Len(text) /\ OnEditFilter(p, i - 1, Shortened(p))
  BY DEF IInv, TypeOK, Delete
<1>2. p \in Lines /\ Len(p) = Len(text) - 1
  BY <1>1, Removed
<1> HIDE DEF p
<1>3. i - 1 \in 0..Len(p) /\ Shortened(p) /\ Shortened(p) \in BOOLEAN
  <2>1. Len(text) \in Nat
    BY <1>1, LineIs
  <2>2. Shortened(p) <=> Len(p) < Len(text)
    BY DEF Shortened
  <2> QED
    BY <1>1, <1>2, <2>1, <2>2 DEF Shortened
<1> QED
  BY <1>1, <1>2, <1>3, EditStep

LEMMA OverrunStep ==
    ASSUME IInv, NEW p \in Lines, Overrun(p)
    PROVE  IInv'
<1>0. /\ fault' = "realloc" /\ on' = on /\ UNCHANGED lineVars /\ UNCHANGED fileVars
      /\ \E e \in tree : Len(e) > KeyMax
  BY DEF Overrun, MayOverrun
<1>1. TypeOK'
  BY <1>0 DEF IInv, TypeOK, lineVars, fileVars
<1>2. LineInv'
  BY <1>0, LineUntouched
<1>3. FileInv' /\ FileIsTree'
  BY <1>0, FileUntouched
<1>4. FaultHasCause'
  BY <1>0 DEF FaultHasCause, fileVars
<1> QED
  BY <1>1, <1>2, <1>3, <1>4 DEF IInv

LEMMA MoveCursorStep ==
    ASSUME IInv, NEW c \in 0..Len(text), MoveCursor(c)
    PROVE  IInv'
<1>0. /\ cursor' = c /\ own' = Larger(own, c)
      /\ on' = on /\ fault' = fault /\ complete' = complete /\ text' = text /\ ran' = ran
      /\ UNCHANGED fileVars
  BY DEF MoveCursor
<1>1. /\ cursor \in Nat /\ own \in Nat /\ cursor <= own /\ own <= Len(text)
      /\ Len(text) \in Nat /\ Len(text) <= MaxLine /\ MaxLine \in Nat
  BY LineIs, CellsApart DEF IInv, TypeOK, LineInv
<1>2. own' \in Nat /\ c <= own' /\ own' <= Len(text)
  BY <1>0, <1>1 DEF Larger
<1>3. TypeOK'
  <2>1. own' \in 0..MaxLine
    BY <1>1, <1>2
  <2> QED
    BY <1>0, <2>1 DEF IInv, TypeOK, fileVars
<1>4. LineInv'
  BY <1>0, <1>2 DEF IInv, LineInv, RanIsOwn
<1>5. FileInv' /\ FileIsTree' /\ FaultHasCause'
  BY <1>0, FileUntouched
<1> QED
  BY <1>3, <1>4, <1>5 DEF IInv

LEMMA OnCompleteStep == IInv /\ OnComplete => IInv'
<1> SUFFICES ASSUME IInv, OnComplete PROVE IInv'
  OBVIOUS
<1>0. /\ complete' = ~complete
      /\ on' = on /\ fault' = fault /\ text' = text /\ cursor' = cursor /\ own' = own /\ ran' = ran
      /\ UNCHANGED fileVars
  BY DEF OnComplete
<1>1. complete' \in BOOLEAN
  BY <1>0, Zenon
<1>2. TypeOK'
  BY <1>0, <1>1 DEF IInv, TypeOK, fileVars
<1>3. LineInv'
  BY <1>0 DEF IInv, LineInv, RanIsOwn
<1>4. FileInv' /\ FileIsTree' /\ FaultHasCause'
  BY <1>0, FileUntouched
<1> QED
  BY <1>2, <1>3, <1>4 DEF IInv

LEMMA OnRunStep == IInv /\ OnRun => IInv'
<1> SUFFICES ASSUME IInv, OnRun PROVE IInv'
  OBVIOUS
<1>0. /\ Len(file) + Len(buf) + 1 + Len(text) <= MaxFile
      /\ ran' = [took |-> cursor, own |-> own]
      /\ on' = on /\ fault' = fault /\ complete' = complete /\ text' = text
      /\ cursor' = cursor /\ own' = own
  BY DEF OnRun, Taken
<1>1. /\ cursor \in Nat /\ own \in Nat /\ cursor <= own /\ own <= Len(text)
      /\ Len(text) \in Nat /\ Len(text) <= MaxLine /\ MaxLine \in Nat /\ MaxFile \in Nat
  BY LineIs, CellsApart DEF IInv, TypeOK, LineInv
<1>line. LineInv'
  BY <1>0, <1>1 DEF IInv, LineInv, RanIsOwn
<1>ran. ran' \in [took : 0..MaxLine, own : 0..MaxLine]
  <2>1. cursor \in 0..MaxLine /\ own \in 0..MaxLine
    BY <1>1
  <2> QED
    BY <1>0, <2>1
<1>same. ASSUME UNCHANGED fileVars PROVE IInv'
  <2>1. TypeOK'
    BY <1>0, <1>ran, <1>same DEF IInv, TypeOK, fileVars
  <2>2. FileInv' /\ FileIsTree' /\ FaultHasCause'
    BY <1>0, <1>same, FileUntouched
  <2> QED
    BY <1>line, <2>1, <2>2 DEF IInv
<1> DEFINE e == SubSeq(text, 1, cursor)
<1>cases. \/ UNCHANGED fileVars
          \/ cursor > 0 /\ e \notin tree /\ Recorded(e)
  BY DEF OnRun, Taken, Recorded
<1>2. SUFFICES ASSUME cursor > 0, e \notin tree, Recorded(e) PROVE IInv'
  BY <1>same, <1>cases
<1>3. e \in Lines /\ Len(e) = cursor
  <2>1. 0 \in Nat /\ 0 + cursor <= Len(text) /\ 0 + 1 = 1 /\ 0 + cursor = cursor
    BY <1>1
  <2>2. text \in Lines
    BY DEF IInv, TypeOK
  <2>3. SubSeq(text, 0 + 1, 0 + cursor) \in Seq(Chars) /\ Len(SubSeq(text, 0 + 1, 0 + cursor)) = cursor
    BY <1>1, <2>1, <2>2, PartOfLine
  <2>4. e \in Seq(Chars) /\ Len(e) = cursor
    BY <2>1, <2>3
  <2> HIDE DEF e
  <2> QED
    BY <1>1, <2>4, LineIs
<1> HIDE DEF e
<1>f. file \in Seq(Nat)
  BY DEF IInv, TypeOK
<1>b. buf \in Seq(Nat)
  BY DEF IInv, TypeOK
<1>e. e \in Seq(Nat)
  BY <1>3, LineIsNumbers
<1>l. Len(file) \in Nat /\ Len(buf) \in Nat
  BY <1>f, <1>b
<1>4. e # <<>> /\ Len(e) <= MaxFile /\ Len(file) + Len(buf) + 1 + Len(e) <= MaxFile
  BY <1>0, <1>1, <1>2, <1>3, <1>l
<1>5. /\ tree' = tree \union {e} /\ known' = known \union {e} /\ cause' = cause
      /\ file' = Appended(file, buf, e)[1] /\ buf' = Appended(file, buf, e)[2]
  BY <1>2 DEF Recorded, Appended
<1>6. Appended(file, buf, e) \in Places(file, buf, e) /\ Len(buf') <= CacheSize
  <2>1. Len(buf) <= CacheSize
    BY DEF IInv, TypeOK
  <2> QED
    BY <1>f, <1>b, <1>e, <1>5, <2>1, AppendedPlaces
<1>7. <<file', buf'>> \in Places(file, buf, e)
  <2>1. \A d \in Places(file, buf, e) : <<d[1], d[2]>> = d
    BY DEF Places
  <2> QED
    BY <1>5, <1>6, <2>1
<1> DEFINE F == file'
           B == buf'
           g == file \o buf
           r == Record(e)
<1>8. /\ F \in Seq(Nat) /\ B \in Seq(Nat)
      /\ F \o B = g \o r
      /\ Len(F) + Len(B) = Len(file) + Len(buf) + 1 + Len(e)
      /\ IsPieces(F) /\ IsPieces(B) /\ IsPieces(F \o B)
  <2>1. IsPieces(file) /\ IsPieces(buf) /\ IsPieces(file \o buf)
    BY DEF IInv, FileInv
  <2> QED
    BY <1>f, <1>b, <1>3, <1>4, <1>7, <2>1, PlacesPieces
<1>9. TypeOK'
  <2>1. tree' \subseteq Seq(Nat) /\ known' \subseteq Lines
    BY <1>3, <1>5, <1>e DEF IInv, TypeOK
  <2> QED
    BY <1>0, <1>5, <1>6, <1>8, <1>ran, <2>1 DEF IInv, TypeOK
<1>10. FileInv'
  <2>1. ~on' => buf' = <<>>
    BY <1>0 DEF OnRun
  <2>2. Len(file') + Len(buf') <= MaxFile
    BY <1>4, <1>8
  <2>3. IsFiniteSet(tree') /\ \A d \in tree' : Readable(d)
    <3>1. IsFiniteSet(tree \union {e})
      BY FS_AddElement DEF IInv, FileInv
    <3> QED
      BY <1>3, <1>5, <3>1 DEF IInv, FileInv, Readable
  <2> QED
    BY <1>8, <2>1, <2>2, <2>3 DEF FileInv
<1>11. FileIsTree'
  <2> SUFFICES ASSUME cause = "none"
               PROVE  /\ Loaded(g \o r).whole
                      /\ Loaded(g \o r).entries \subseteq (known \union {e}) \union {<<>>}
                      /\ on => tree \union {e} \subseteq Loaded(g \o r).entries
    BY <1>0, <1>5, <1>8 DEF FileIsTree
  <2>1. /\ Loaded(g).whole
        /\ Loaded(g).entries \subseteq known \union {<<>>}
        /\ on => tree \subseteq Loaded(g).entries
    BY DEF IInv, FileIsTree
  <2>2. Loaded(r).whole /\ Loaded(r).entries = {<<>>, e}
    BY <1>e, LoadedRecord
  <2>3. g \in Seq(Nat)
    BY <1>f, <1>b, ConcatCells
  <2>4. r \in Seq(Nat)
    BY <1>e, RecordCells
  <2> HIDE DEF g, r
  <2>5. /\ Loaded(g \o r).whole = Loaded(r).whole
        /\ Loaded(g \o r).entries = Loaded(g).entries \union Loaded(r).entries
    BY <2>1, <2>3, <2>4, LoadedConcat
  <2> QED
    BY <2>1, <2>2, <2>5
<1>12. FaultHasCause'
  BY <1>0, <1>5 DEF IInv, FaultHasCause
<1> QED
  BY <1>line, <1>9, <1>10, <1>11, <1>12 DEF IInv

LEMMA NextIInv == IInv /\ [Next]_vars => IInv'
<1> SUFFICES ASSUME IInv, [Next]_vars PROVE IInv'
  OBVIOUS
<1>1. CASE UNCHANGED vars
  <2>1. UNCHANGED <<on, fault, lineVars, fileVars>>
    BY <1>1 DEF vars, lineVars, fileVars
  <2>2. TypeOK'
    BY <2>1 DEF IInv, TypeOK, lineVars, fileVars
  <2> QED
    BY <2>1, <2>2, LineUntouched, FileUntouched DEF IInv
<1> QED
  BY <1>1, LoadStep, QuitStep, KillStep, OtherQuitsStep, InsertStep, DeleteStep,
     OverrunStep, MoveCursorStep, OnCompleteStep, OnRunStep DEF Next

LEMMA Invariance == Spec => []IInv
<1> QED
  BY InitIInv, NextIInv, PTL DEF Spec

-----------------------------------------------------------------------------
(* The theorems.                                                           *)

\* Every command line a user can reach is one, whatever the file holds: what
\* the completion proposes is made of characters and fits.
THEOREM TypeCorrect == Spec => []TypeOK
BY Invariance, PTL DEF IInv

\* While nothing left the file incomplete, the file and the buffer hold the
\* commands that were run, and all that the tree knows.
THEOREM FileIsTreeTheorem == Spec => []FileIsTree
BY Invariance, PTL DEF IInv

\* The program fails over nothing but an incomplete file or a long command.
THEOREM FaultHasCauseTheorem == Spec => []FaultHasCause
BY Invariance, PTL DEF IInv

\* No run takes what was only proposed.
THEOREM RanIsOwnTheorem == Spec => []RanIsOwn
BY Invariance, PTL DEF IInv, LineInv

\* An orderly end leaves every known command in the file.
THEOREM QuitKeepsAllTheorem == Spec => QuitKeepsAll
<1>1. IInv /\ [Next]_vars =>
         [Quit /\ cause = "none" =>
             Loaded(file').whole /\ tree \subseteq Loaded(file').entries]_vars
  <2> SUFFICES ASSUME IInv, Quit, cause = "none"
               PROVE  Loaded(file').whole /\ tree \subseteq Loaded(file').entries
    OBVIOUS
  <2>1. file' = file \o buf /\ on
    BY DEF Quit
  <2> QED
    BY <2>1 DEF IInv, FileIsTree
<1> QED
  BY <1>1, Invariance, PTL DEF Spec, QuitKeepsAll
=============================================================================
